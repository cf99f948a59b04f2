--------------------------- MODULE SessionBinding ---------------------------
(***************************************************************************)
(* The binding of a DSH session to one OpenBKN knowledge network: the file *)
(* per session of session-binding-store.ts, the serialized decisions of    *)
(* dsh-session-binding.ts, and the service that restores, binds and mounts *)
(* (business-context-service.ts), on hosts that share one DSH home.        *)
(*                                                                         *)
(* A decision reads the session's binding and starts a durable write in    *)
(* one go (JavaScript runs it up to its first await); the rename that ends *)
(* the write and the continuation of the awaiting caller are later steps,  *)
(* and other sessions, hosts and crashes fall between them.                *)
(*                                                                         *)
(* Data: a network stands for the (platform, network id) pair sameIdentity *)
(* compares.  A log is its sequence of events: a binding event an earlier  *)
(* release wrote, or a turn, tagged with the network whose tools were      *)
(* mounted while it ran.  A record's age is a flag: past the grace or not. *)
(***************************************************************************)
EXTENDS Naturals, Sequences

CONSTANTS
    Sessions, Networks, Hosts, NULL,
    Originals,       \* the sessions that begin on their own; the others are forks
    MaxEvents,       \* bound on a log's length
    MaxPending,      \* bound on a session's queued decisions
    Aging,           \* sessions whose records the model lets outlive the grace
    OrderlyRelease   \* whether a session is released only when its decisions have settled

ASSUME NullIsNoNetwork == NULL \notin Networks \cup Sessions \cup Hosts \cup {"conflict"}
ASSUME ConflictIsNoNetwork == "conflict" \notin Networks
ASSUME BoundsAreNatural == MaxEvents \in Nat \ {0} /\ MaxPending \in Nat
ASSUME SessionKinds == Originals \subseteq Sessions /\ Aging \subseteq Sessions
ASSUME OrderlyReleaseIsBoolean == OrderlyRelease \in BOOLEAN

VARIABLES
    record,     \* the store: [Sessions -> Record]
    log,        \* [Sessions -> Seq(Events)]
    status,     \* "unborn", "live", "closed" or "gone"
    host,       \* the host that has the session live (its write lease)
    stored,     \* sessions whose log has materialized
    origin,     \* the fork point: [parent, inheritedEventCount]
    mounted,    \* the network whose tools the live Agent carries, or NULL
    queue,      \* decisionQueues: [Hosts -> [Sessions -> Seq(Decisions)]]
    settled,    \* decisions whose awaiting caller has still to continue
    pruning,    \* sessions a cleanup is about to remove the record of
    \* For the properties only:
    told,       \* networks a bind reported to its caller
    unrestored  \* forks, and their forks, whose inheritance was refused, failed to be
                \* written, or came too late for a turn

vars == <<record, log, status, host, stored, origin, mounted, queue, settled,
          pruning, told, unrestored>>
dsh  == <<log, status, host, stored, origin>>

-----------------------------------------------------------------------------
Events  == [kind : {"bound", "turn"}, network : Networks \cup {NULL}]
NoRecord == [network |-> NULL, boundAtSeq |-> 0, old |-> FALSE]
Record  == [network : Networks \cup {NULL}, boundAtSeq : 0..MaxEvents, old : BOOLEAN]

\* `by` is what asked for the decision; `write` the record being written, if any;
\* `agent` whether the Agent it was asked for is still the live one.
Decisions == [by : {"inherit", "workspace", "user"}, network : Networks \cup {NULL},
              write : Record, agent : BOOLEAN]
Decision(by, n) == [by |-> by, network |-> n, write |-> NoRecord, agent |-> TRUE]
Writing(d) == d.write # NoRecord

readBusinessNetworkBinding(events) ==
    LET named == { events[i].network : i \in { j \in DOMAIN events : events[j].kind = "bound" } }
    IN  IF named = {} THEN NULL
        ELSE IF \A m, n \in named : m = n THEN CHOOSE n \in named : TRUE ELSE "conflict"

\* The binding a session is resolved to, from its log and its record.
readDshSessionBusinessNetwork(s) ==
    LET fromLog == readBusinessNetworkBinding(log[s])
        fromRecord == record[s].network
    IN  IF fromLog = NULL THEN fromRecord
        ELSE IF fromRecord \notin {NULL, fromLog} THEN "conflict" ELSE fromLog

NoOrigin == [parent |-> NULL, inheritedEventCount |-> 0]
NewRecord(n, seq) == [network |-> n, boundAtSeq |-> seq, old |-> FALSE]

\* Mutant: off by one, the first event after the bind is not reached.
Inheritance_Late(s) ==
    IF /\ origin[s].parent # NULL
       /\ record[origin[s].parent].boundAtSeq + 1 < origin[s].inheritedEventCount
    THEN record[origin[s].parent] ELSE NoRecord
\* What a fork copies: its parent's record, if the copied prefix reaches past it.
Inheritance(s) ==
    IF /\ origin[s].parent # NULL
       /\ record[origin[s].parent].boundAtSeq < origin[s].inheritedEventCount
    THEN record[origin[s].parent] ELSE NoRecord

\* A fork without the binding it is due.
Missing(s) == readDshSessionBusinessNetwork(s) = NULL /\ Inheritance(s) # NoRecord

\* Mutant: the decision does not read the binding again when its turn comes.
WriteOf_Unread(s, d) ==
    IF d.by = "inherit" THEN NoRecord ELSE NewRecord(d.network, Len(log[s]))
\* The record a decision starts to write; NoRecord when it writes nothing.
WriteOf(s, d) ==
    IF readDshSessionBusinessNetwork(s) # NULL THEN NoRecord
    ELSE IF d.by = "inherit" THEN [Inheritance(s) EXCEPT !.old = FALSE]
         ELSE NewRecord(d.network, Len(log[s]))

\* Mutant: a bind to another network than the one bound is taken for a repetition.
Rejects_OnlyConflict(s, d) == readDshSessionBusinessNetwork(s) = "conflict"
\* Whether a decision that writes nothing rejects.
Rejects(s, d) ==
    \/ readDshSessionBusinessNetwork(s) = "conflict"
    \/ d.by # "inherit" /\ readDshSessionBusinessNetwork(s) # d.network

-----------------------------------------------------------------------------
Push(h, s, d) == queue' = [queue EXCEPT ![h][s] = Append(@, d)]
Pop(h, s)     == queue' = [queue EXCEPT ![h][s] = Tail(@)]
Caller(h, s, d) == [host |-> h, session |-> s, decision |-> [d EXCEPT !.write = NoRecord]]
Settle(h, s, d) == settled' = settled \cup {Caller(h, s, d)}

Pending(h, s) == queue[h][s] # <<>> \/ \E x \in settled : x.host = h /\ x.session = s
Room(h, s)    == Len(queue[h][s]) < MaxPending
\* A session's restoration by the host that opened it has not ended.
Restoring(s) ==
    \/ \E h \in Hosts : \E i \in DOMAIN queue[h][s] :
           queue[h][s][i].by # "user" /\ queue[h][s][i].agent
    \/ \E x \in settled : x.session = s /\ x.decision.by # "user" /\ x.decision.agent

Init ==
    /\ status \in [Sessions -> {"unborn", "closed"}]
    /\ \A s \in Sessions \ Originals : status[s] = "unborn"
    /\ stored = { s \in Sessions : status[s] = "closed" }
    /\ log \in [Sessions -> {<<>>} \cup { <<[kind |-> "bound", network |-> n]>> : n \in Networks }]
    /\ record \in [Sessions -> {NoRecord} \cup { NewRecord(n, 0) : n \in Networks }]
    /\ \A s \in Sessions : status[s] = "unborn" => log[s] = <<>> /\ record[s] = NoRecord
    /\ host = [s \in Sessions |-> NULL]
    /\ origin = [s \in Sessions |-> NoOrigin]
    /\ mounted = [s \in Sessions |-> NULL]
    /\ queue = [h \in Hosts |-> [s \in Sessions |-> <<>>]]
    /\ settled = {} /\ pruning = {}
    /\ told = [s \in Sessions |-> {}] /\ unrestored = {}

(***************************************************************************)
(* Sessions come and go (DSH).                                             *)
(***************************************************************************)
\* agent/created starts the restoration: a fork first asks for its parent's
\* binding, any other session goes straight on to the workspace association.
Restore(h, s, seeded) ==
    IF seeded
    THEN Push(h, s, Decision("inherit", NULL)) /\ UNCHANGED settled
    ELSE Settle(h, s, Decision("inherit", NULL)) /\ UNCHANGED queue

\* DSH hands a session out once its restoration has ended.  One that goes live while
\* settings are being applied is not restored.
GoesLive(h, s, seeded, lost) ==
    /\ status' = [status EXCEPT ![s] = "live"]
    /\ host' = [host EXCEPT ![s] = h]
    /\ \/ Restore(h, s, seeded) /\ unrestored' = unrestored \cup lost
       \/ UNCHANGED <<queue, settled>> /\ unrestored' = unrestored \cup lost \cup
                                              IF seeded THEN {s} ELSE {}

Create(h, s) ==
    /\ status[s] = "unborn" /\ s \in Originals
    /\ GoesLive(h, s, FALSE, {})
    /\ UNCHANGED <<record, log, stored, origin, mounted, pruning, told>>

\* SessionStore.fork copies the source's events up to a boundary.
Fork(h, p, s, k) ==
    /\ status[s] = "unborn" /\ s \notin Originals
    /\ status[p] = "closed" \/ (status[p] = "live" /\ host[p] = h /\ ~Restoring(p))
    /\ k \in 0..Len(log[p])
    /\ log' = [log EXCEPT ![s] = SubSeq(log[p], 1, k)]
    /\ origin' = [origin EXCEPT ![s] = [parent |-> p, inheritedEventCount |-> k]]
    /\ GoesLive(h, s, TRUE, IF p \in unrestored THEN {s} ELSE {})
    /\ UNCHANGED <<record, stored, mounted, pruning, told>>

Reopen(h, s) ==
    /\ status[s] = "closed" /\ Room(h, s)
    /\ GoesLive(h, s, origin[s].parent # NULL, {})
    /\ UNCHANGED <<record, log, stored, origin, mounted, pruning, told>>

\* A turn is logged, after a reload also before the session is restored again.  Were
\* DSH not to wait for agent/created, a fork's turn could precede its inheritance.
LogTurn(s) ==
    /\ status[s] = "live" /\ Len(log[s]) < MaxEvents
    /\ log' = [log EXCEPT ![s] = Append(@, [kind |-> "turn", network |-> mounted[s]])]
    /\ stored' = stored \cup {s}
    /\ unrestored' = IF Missing(s) THEN unrestored \cup {s} ELSE unrestored
    /\ UNCHANGED <<record, status, host, origin, mounted, queue, settled, pruning, told>>

Live(h) == { s \in Sessions : host[s] = h }
\* Mutant: what was mounted for an Agent outlives it.
Unmount_Forgotten(S) == UNCHANGED mounted
Unmount(S) == mounted' = [s \in Sessions |-> IF s \in S THEN NULL ELSE mounted[s]]

\* Sessions that no longer exist have no log.
Vanish(S) ==
    /\ log' = [s \in Sessions |-> IF s \in S THEN <<>> ELSE log[s]]
    /\ origin' = [s \in Sessions |-> IF s \in S THEN NoOrigin ELSE origin[s]]
    /\ stored' = stored \ S
    /\ told' = [s \in Sessions |-> IF s \in S THEN {} ELSE told[s]]
    /\ unrestored' = unrestored \ S

\* Sessions end; one that never materialized cannot be opened again.
End(S) ==
    /\ status' = [s \in Sessions |-> IF s \notin S THEN status[s]
                                     ELSE IF s \in stored THEN "closed" ELSE "gone"]
    /\ host' = [s \in Sessions |-> IF s \in S THEN NULL ELSE host[s]]
    /\ Unmount(S) /\ Vanish(S \ stored)

\* The Agent is disposed and the lease released.  Decisions still queued for it run
\* on, and find no live Agent to mount for.
Close(s) ==
    /\ status[s] = "live"
    /\ OrderlyRelease => ~Pending(host[s], s)
    /\ End({s})
    /\ queue' = [queue EXCEPT ![host[s]][s] =
                    [i \in DOMAIN @ |-> [@[i] EXCEPT !.agent = FALSE]]]
    /\ settled' = { IF x.session = s THEN [x EXCEPT !.decision.agent = FALSE] ELSE x : x \in settled }
    /\ UNCHANGED <<record, pruning>>

\* A host dies: what it had not renamed into place was never written.
Crash(h) ==
    /\ Live(h) # {} /\ End(Live(h))
    /\ queue' = [queue EXCEPT ![h] = [s \in Sessions |-> <<>>]]
    /\ settled' = { x \in settled : x.host # h }
    /\ UNCHANGED <<record, pruning>>

\* The log is removed outside DSH, and not in the moment a fork of it is restored.
RemoveLog(s) ==
    /\ status[s] = "closed"
    /\ \A t \in Sessions : Restoring(t) => origin[t].parent # s
    /\ status' = [status EXCEPT ![s] = "gone"] /\ Vanish({s})
    /\ UNCHANGED <<record, host, mounted, queue, settled, pruning>>

\* Settings are saved: the owner is replaced and restores its live sessions.  The
\* save is refused while any binding decision of the host is under way.
Reload(h) ==
    /\ Live(h) # {} /\ \A s \in Sessions : ~Pending(h, s)
    /\ Unmount(Live(h))
    /\ queue' = [queue EXCEPT ![h] = [s \in Sessions |->
                    IF s \in Live(h) /\ origin[s].parent # NULL
                    THEN <<Decision("inherit", NULL)>> ELSE <<>>]]
    /\ settled' = settled \cup { Caller(h, s, Decision("inherit", NULL)) :
                                 s \in { t \in Live(h) : origin[t].parent = NULL } }
    /\ UNCHANGED <<record, dsh, pruning, told, unrestored>>

(***************************************************************************)
(* Decisions.                                                              *)
(***************************************************************************)
\* The user selects a network the current identity may see.
UserBind(h, s, n) ==
    /\ host[s] = h /\ Room(h, s)
    /\ Push(h, s, Decision("user", n))
    /\ UNCHANGED <<record, dsh, mounted, settled, pruning, told, unrestored>>

\* Mutant: a rejected decision keeps its place.
AfterRejection_Blocks(h, s) == UNCHANGED queue
\* A rejected decision does not block the ones queued after it.
AfterRejection(h, s) == Pop(h, s)

\* Every earlier decision of the session has settled: read, decide, start to write.
Decide(h, s) ==
    /\ queue[h][s] # <<>> /\ ~Writing(Head(queue[h][s]))
    /\ LET d == Head(queue[h][s])
           w == WriteOf(s, d)
       IN  \/ /\ w # NoRecord
              /\ queue' = [queue EXCEPT ![h][s] = <<[d EXCEPT !.write = w]>> \o Tail(@)]
              /\ UNCHANGED settled
           \/ /\ w = NoRecord /\ Rejects(s, d)
              /\ AfterRejection(h, s) /\ UNCHANGED settled
           \/ /\ w = NoRecord /\ ~Rejects(s, d)
              /\ Pop(h, s) /\ Settle(h, s, d)
    /\ UNCHANGED <<record, dsh, mounted, pruning, told, unrestored>>

\* The synced temporary file is renamed over the record.
WriteDone(h, s) ==
    /\ queue[h][s] # <<>> /\ Writing(Head(queue[h][s]))
    /\ record' = [record EXCEPT ![s] = Head(queue[h][s]).write]
    /\ Pop(h, s) /\ Settle(h, s, Head(queue[h][s]))
    /\ UNCHANGED <<dsh, mounted, pruning, told, unrestored>>

\* The write fails: the caller sees a rejection, and nothing new is readable.
WriteFails(h, s) ==
    /\ queue[h][s] # <<>> /\ Writing(Head(queue[h][s]))
    /\ Pop(h, s)
    /\ unrestored' = IF Head(queue[h][s]).by = "inherit" THEN unrestored \cup {s} ELSE unrestored
    /\ UNCHANGED <<record, dsh, mounted, settled, pruning, told>>

\* Mount the policy on the Agent the decision was made for.
mountIfBound(s, agent) ==
    mounted' = IF agent /\ mounted[s] = NULL /\ readDshSessionBusinessNetwork(s) # "conflict"
               THEN [mounted EXCEPT ![s] = readDshSessionBusinessNetwork(s)] ELSE mounted

\* After a bind: mount what is durable, then report the network.
BindContinues(x) ==
    /\ x \in settled /\ x.decision.by # "inherit"
    /\ mountIfBound(x.session, x.decision.agent)
    /\ settled' = settled \ {x}
    /\ told' = [told EXCEPT ![x.session] = @ \cup {x.decision.network}]
    /\ UNCHANGED <<record, dsh, queue, pruning, unrestored>>

\* After the inheritance: a session that is bound is mounted; an unbound one takes
\* the one network its workspace is associated with (n, or none).
RestoreContinues(x, n) ==
    /\ x \in settled /\ x.decision.by = "inherit"
    /\ settled' = settled \ {x}
    /\ \/ /\ readDshSessionBusinessNetwork(x.session) # NULL
          /\ mountIfBound(x.session, x.decision.agent) /\ UNCHANGED queue
       \/ /\ readDshSessionBusinessNetwork(x.session) = NULL
          /\ IF n # NULL /\ x.decision.agent
             THEN Push(x.host, x.session, Decision("workspace", n)) ELSE UNCHANGED queue
          /\ UNCHANGED mounted
    /\ UNCHANGED <<record, dsh, pruning, told, unrestored>>

(***************************************************************************)
(* Orphan records.                                                         *)
(***************************************************************************)
\* The grace has passed.  It outlasts any restoration, and any session that is kept
\* live without a first turn.
Age(s) ==
    /\ s \in Aging /\ record[s] # NoRecord /\ ~record[s].old
    /\ status[s] = "live" => s \in stored
    /\ \A t \in Sessions : ~Restoring(t)
    /\ record' = [record EXCEPT ![s].old = TRUE]
    /\ UNCHANGED <<dsh, mounted, queue, settled, pruning, told, unrestored>>

\* What a host's persistence can see of a session.
Exists(h, s) == s \in stored \/ host[s] = h

\* Mutants: the cleanup asks no age, or does not ask whether the session exists.
Orphan_OfAnyAge(h, s) == record[s] # NoRecord /\ ~Exists(h, s)
Orphan_Unasked(h, s)  == record[s].old
Orphan(h, s) == record[s].old /\ ~Exists(h, s)

PruneLook(h, s) ==
    /\ Orphan(h, s)
    /\ pruning' = pruning \cup {s}
    /\ UNCHANGED <<record, dsh, mounted, queue, settled, told, unrestored>>

PruneRemove(s) ==
    /\ s \in pruning
    /\ record' = [record EXCEPT ![s] = NoRecord]
    /\ pruning' = pruning \ {s}
    /\ UNCHANGED <<dsh, mounted, queue, settled, told, unrestored>>

-----------------------------------------------------------------------------
Continue(x) == BindContinues(x) \/ \E n \in Networks \cup {NULL} : RestoreContinues(x, n)

Next ==
    \/ \E h \in Hosts, s \in Sessions :
          \/ Create(h, s) \/ Reopen(h, s)
          \/ \E p \in Sessions, k \in 0..MaxEvents : Fork(h, p, s, k)
          \/ \E n \in Networks : UserBind(h, s, n)
          \/ Decide(h, s) \/ WriteDone(h, s) \/ WriteFails(h, s) \/ PruneLook(h, s)
    \/ \E h \in Hosts : Crash(h) \/ Reload(h)
    \/ \E s \in Sessions : LogTurn(s) \/ Close(s) \/ RemoveLog(s) \/ Age(s) \/ PruneRemove(s)
    \/ \E x \in settled : Continue(x)

Spec == Init /\ [][Next]_vars

\* The event loop runs what is ready, in order, and a file write ends one way or the
\* other.  Nothing is assumed of users, of DSH, or of a continuation after a user's bind.
Resume(s) == \E x \in settled : x.session = s /\ x.decision.by # "user" /\ Continue(x)
Fairness ==
    /\ \A h \in Hosts, s \in Sessions :
          WF_vars(Decide(h, s)) /\ WF_vars(WriteDone(h, s) \/ WriteFails(h, s))
    /\ \A s \in Sessions : WF_vars(Resume(s))
FairSpec == Spec /\ Fairness

-----------------------------------------------------------------------------
(* Every variable stays in its type, and only live sessions have a host or a
   mounted policy. *)
TypeOK ==
    /\ record \in [Sessions -> Record]
    /\ log \in [Sessions -> Seq(Events)] /\ \A s \in Sessions : Len(log[s]) <= MaxEvents
    /\ status \in [Sessions -> {"unborn", "live", "closed", "gone"}]
    /\ host \in [Sessions -> Hosts \cup {NULL}]
    /\ \A s \in Sessions : status[s] = "live" <=> host[s] # NULL
    /\ stored \subseteq Sessions /\ pruning \subseteq Sessions /\ unrestored \subseteq Sessions
    /\ origin \in [Sessions -> [parent : Sessions \cup {NULL}, inheritedEventCount : 0..MaxEvents]]
    /\ mounted \in [Sessions -> Networks \cup {NULL}]
    /\ \A s \in Sessions : mounted[s] # NULL => status[s] = "live"
    /\ queue \in [Hosts -> [Sessions -> Seq(Decisions)]]
    /\ settled \subseteq [host : Hosts, session : Sessions, decision : Decisions]
    /\ told \in [Sessions -> SUBSET Networks]

(* A bind that reported success is never taken back: as long as the session
   exists its binding is the one network every bind reported, whatever was asked
   concurrently, restored, crashed or cleaned up since (serializeDecision,
   SessionBindingStore.write, pruneOrphans). *)
ToldIsKept ==
    \A s \in Sessions : status[s] # "gone" =>
        \A n \in told[s] : readDshSessionBusinessNetwork(s) = n

(* The OpenBKN tools of a live session reach exactly the network its durable
   binding names: nothing is mounted before the rename, and nothing stays mounted
   after the record changed. *)
MountedIsDurable ==
    \A s \in Sessions : mounted[s] # NULL => readDshSessionBusinessNetwork(s) = mounted[s]

\* The networks a session's turns, inherited ones included, ran under.
TurnNetworks(s) == { log[s][i].network : i \in DOMAIN log[s] } \ {NULL}

(* A conversation stays within one knowledge network, over any chain of forks and
   reopenings (README: "Keeps each conversation in one explicit, immutable
   knowledge-network scope"). *)
OneNetworkPerConversation ==
    \A s \in Sessions : \A m, n \in TurnNetworks(s) : m = n

(* The same, for sessions whose inheritance, if they are forks, was neither refused,
   nor failed to be written, nor overtaken by a turn. *)
OneNetworkUnlessUnrestored ==
    \A s \in Sessions \ unrestored : \A m, n \in TurnNetworks(s) : m = n

(* A restoration once begun comes to an end: no failed or conflicting decision
   before it in the queue keeps a session from being restored. *)
RestorationEnds == \A s \in Sessions : Restoring(s) ~> ~Restoring(s)

-----------------------------------------------------------------------------
Bound == [s \in Sessions |->
            IF status[s] = "gone" \/ readDshSessionBusinessNetwork(s) = "conflict"
            THEN NULL ELSE readDshSessionBusinessNetwork(s)]
Immutable == INSTANCE ImmutableBinding WITH
    bound <- Bound, active <- mounted, gone <- { s \in Sessions : status[s] = "gone" }

(* The store, the queues and the service together implement one immutable binding
   per session. *)
ImplementsImmutableBinding == Immutable!Spec
=============================================================================
