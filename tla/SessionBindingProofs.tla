------------------------- MODULE SessionBindingProofs -------------------------
(* Theorems about SessionBinding, for any sessions, hosts and networks, and any number of
   decisions and events: where a session passes to another host only when its decisions
   have settled, or no other host exists, no binding is ever changed or reported in vain. *)
EXTENDS SessionBinding, SequenceTheorems, TLAPS

------------------------------------------------------------------------------
(* The inductive invariant. *)

Reads(s) == readDshSessionBusinessNetwork(s)

\* One host has the DSH home, or a session passes to another one only when its decisions
\* have settled.
OneHost   == \A g, h \in Hosts : g = h
Exclusive == OrderlyRelease \/ OneHost

\* Decisions are pending on one host: the one that has the session live, or the only one.
Here(h, s) == host[s] = h
PendingInOnePlace ==
  \A h \in Hosts, s \in Sessions :
    Pending(h, s) => status[s] # "unborn" /\ (Here(h, s) \/ OneHost)

\* Of the decisions in a queue only the first writes, and began to while the session was
\* unbound (b); what it writes is what its caller asked for.  Those for an Agent are for
\* one that is live here (a).
Orderly(q, b, a) ==
  \A i \in DOMAIN q :
    /\ q[i].agent => a
    /\ q[i].by # "inherit" => q[i].network # NULL
    /\ Writing(q[i]) => /\ i = 1 /\ b = NULL /\ ~q[i].write.old
                        /\ q[i].by # "inherit" => q[i].write.network = q[i].network
WritesWhereUnbound ==
  \A h \in Hosts, s \in Sessions : Orderly(queue[h][s], Reads(s), Here(h, s))

\* A bind that has settled found, or left, its network.
SettledIsBound ==
  \A x \in settled :
    /\ x.decision.agent => Here(x.host, x.session)
    /\ x.decision.by # "inherit" =>
         /\ x.decision.network # NULL
         /\ status[x.session] # "gone" => Reads(x.session) = x.decision.network

\* What may be taken for an orphan's record has a log, or belongs to a session that is gone.
Accounted(s) ==
  /\ record[s].old => status[s] = "gone" \/ s \in stored
  /\ status[s] = "closed" => s \in stored
  /\ status[s] = "unborn" => log[s] = <<>> /\ record[s] = NoRecord /\ told[s] = {}
  /\ s \in pruning => status[s] = "gone"
OldIsStored == \A s \in Sessions : Accounted(s)

BindingInv ==
  /\ TypeOK /\ PendingInOnePlace /\ WritesWhereUnbound /\ SettledIsBound /\ OldIsStored
  /\ ToldIsKept /\ MountedIsDurable

------------------------------------------------------------------------------
(* What a session is resolved to. *)

LEMMA ReadsTypes ==
  ASSUME TypeOK, NEW s \in Sessions
  PROVE  /\ Reads(s) \in Networks \cup {NULL, "conflict"}
         /\ Reads(s) = NULL => readBusinessNetworkBinding(log[s]) = NULL /\ record[s].network = NULL
<1> DEFINE named == { log[s][i].network : i \in { j \in DOMAIN log[s] : log[s][j].kind = "bound" } }
<1>1. log[s] \in Seq(Events) /\ record[s] \in Record
  BY DEF TypeOK
<1>2. \A i \in DOMAIN log[s] : log[s][i] \in Events
  BY <1>1, ElementOfSeq, LenProperties
<1>3. named \subseteq Networks \cup {NULL}
  BY <1>2 DEF Events
<1>4. (CHOOSE n \in named : TRUE) \in named \/ named = {}
  OBVIOUS
<1>5. readBusinessNetworkBinding(log[s]) = IF named = {} THEN NULL
        ELSE IF \A m, n \in named : m = n THEN CHOOSE n \in named : TRUE ELSE "conflict"
  BY DEF readBusinessNetworkBinding
<1> HIDE DEF named
<1>6. readBusinessNetworkBinding(log[s]) \in Networks \cup {NULL, "conflict"}
  BY <1>3, <1>4, <1>5
<1>7. record[s].network \in Networks \cup {NULL}
  BY <1>1 DEF Record
<1> QED
  BY <1>6, <1>7, NullIsNoNetwork DEF Reads, readDshSessionBusinessNetwork

\* The binding is read from the log and the record, whatever else changes.
LEMMA ReadsTheSame ==
  ASSUME NEW s \in Sessions, log'[s] = log[s], record'[s].network = record[s].network
  PROVE  Reads(s)' = Reads(s)
BY DEF Reads, readDshSessionBusinessNetwork, readBusinessNetworkBinding

\* A binding that is written where none was read is the one that is read from then on.
LEMMA ReadsTheWritten ==
  ASSUME TypeOK, NEW s \in Sessions, Reads(s) = NULL, log'[s] = log[s]
  PROVE  Reads(s)' = record'[s].network
<1>1. readBusinessNetworkBinding(log[s]) = NULL
  BY ReadsTypes
<1>2. readBusinessNetworkBinding(log'[s]) = NULL
  BY <1>1
<1> QED
  BY <1>2 DEF Reads, readDshSessionBusinessNetwork

\* Where nothing is read, nothing is after the log or the record is removed.
LEMMA ReadsNothing ==
  ASSUME TypeOK, NEW s \in Sessions, Reads(s) = NULL, log'[s] = log[s] \/ log'[s] = <<>>,
         record'[s].network \in {record[s].network, NULL}
  PROVE  Reads(s)' = NULL
<1>1. readBusinessNetworkBinding(log[s]) = NULL /\ record[s].network = NULL
  BY ReadsTypes
<1>2. readBusinessNetworkBinding(<<>>) = NULL
  BY DEF readBusinessNetworkBinding
<1>3. readBusinessNetworkBinding(log'[s]) = NULL
  BY <1>1, <1>2
<1> QED
  BY <1>1, <1>3 DEF Reads, readDshSessionBusinessNetwork

\* A turn in the log says nothing of the binding.
LEMMA ReadsPastTurns ==
  ASSUME TypeOK, NEW s \in Sessions, NEW e \in Events, e.kind = "turn",
         log'[s] = Append(log[s], e), record' = record
  PROVE  Reads(s)' = Reads(s)
<1>1. log[s] \in Seq(Events)
  BY DEF TypeOK
<1>2. /\ DOMAIN log[s] = 1 .. Len(log[s]) /\ DOMAIN log'[s] = 1 .. Len(log[s]) + 1
      /\ Len(log[s]) \in Nat
      /\ \A i \in 1 .. Len(log[s]) : log'[s][i] = log[s][i]
      /\ log'[s][Len(log[s]) + 1] = e
  BY <1>1, LenProperties, AppendProperties
<1>3. { j \in DOMAIN log'[s] : log'[s][j].kind = "bound" }
      = { j \in DOMAIN log[s] : log[s][j].kind = "bound" }
  BY <1>2
<1>4. { log'[s][i].network : i \in { j \in DOMAIN log'[s] : log'[s][j].kind = "bound" } }
      = { log[s][i].network : i \in { j \in DOMAIN log[s] : log[s][j].kind = "bound" } }
  BY <1>2, <1>3
<1>5. readBusinessNetworkBinding(log'[s]) = readBusinessNetworkBinding(log[s])
  BY <1>4 DEF readBusinessNetworkBinding
<1> QED
  BY <1>5 DEF Reads, readDshSessionBusinessNetwork

------------------------------------------------------------------------------
(* The queues. *)

LEMMA DecisionTypes ==
  /\ NoRecord \in Record
  /\ \A by \in {"inherit", "workspace", "user"}, n \in Networks \cup {NULL} :
       /\ Decision(by, n) \in Decisions /\ ~Writing(Decision(by, n))
       /\ Decision(by, n).by = by /\ Decision(by, n).network = n
<1>1. NoRecord \in Record
  BY BoundsAreNatural DEF NoRecord, Record
<1> QED
  BY <1>1 DEF Decision, Decisions, Writing

\* One queue is replaced.
Replaced(h, s, q) == queue' = [queue EXCEPT ![h][s] = q]

LEMMA QueueSet ==
  ASSUME TypeOK, NEW h \in Hosts, NEW s \in Sessions, NEW q \in Seq(Decisions),
         Replaced(h, s, q)
  PROVE  /\ queue' \in [Hosts -> [Sessions -> Seq(Decisions)]]
         /\ queue'[h][s] = q
         /\ \A g \in Hosts, t \in Sessions : g # h \/ t # s => queue'[g][t] = queue[g][t]
<1>1. queue \in [Hosts -> [Sessions -> Seq(Decisions)]]
  BY DEF TypeOK
<1>2. queue[h] \in [Sessions -> Seq(Decisions)]
  BY <1>1
<1> DEFINE r == [queue[h] EXCEPT ![s] = q]
<1>3. /\ r \in [Sessions -> Seq(Decisions)] /\ r[s] = q
      /\ \A t \in Sessions : t # s => r[t] = queue[h][t]
  BY <1>2
<1>4. queue' = [queue EXCEPT ![h] = r]
  BY DEF Replaced
<1> HIDE DEF r
<1> QED
  BY <1>1, <1>3, <1>4

LEMMA QueueOf ==
  ASSUME TypeOK, NEW h \in Hosts, NEW s \in Sessions
  PROVE  /\ queue[h][s] \in Seq(Decisions) /\ Len(queue[h][s]) \in Nat
         /\ DOMAIN queue[h][s] = 1 .. Len(queue[h][s])
         /\ \A i \in DOMAIN queue[h][s] : queue[h][s][i] \in Decisions
         /\ queue[h][s] # <<>> => /\ 1 \in DOMAIN queue[h][s]
                                  /\ Head(queue[h][s]) = queue[h][s][1]
                                  /\ Head(queue[h][s]) \in Decisions
<1>1. queue[h][s] \in Seq(Decisions)
  <2>1. queue \in [Hosts -> [Sessions -> Seq(Decisions)]]
    BY DEF TypeOK
  <2> QED
    BY <2>1
<1>2. Len(queue[h][s]) \in Nat /\ DOMAIN queue[h][s] = 1 .. Len(queue[h][s])
  BY <1>1, LenProperties
<1>3. \A i \in DOMAIN queue[h][s] : queue[h][s][i] \in Decisions
  BY <1>1, <1>2, ElementOfSeq
<1>4. queue[h][s] # <<>> => Len(queue[h][s]) # 0 /\ Head(queue[h][s]) = queue[h][s][1]
  BY <1>1, HeadTailProperties, EmptySeq
<1> QED
  BY <1>1, <1>2, <1>3, <1>4

LEMMA OrderlyEmpty == \A b, a : Orderly(<<>>, b, a)
BY DEF Orderly

LEMMA OrderlyPush ==
  ASSUME NEW q \in Seq(Decisions), NEW b, NEW a, Orderly(q, b, a), NEW d \in Decisions,
         ~Writing(d), d.agent => a, d.by # "inherit" => d.network # NULL
  PROVE  Append(q, d) \in Seq(Decisions) /\ Append(q, d) # <<>> /\ Orderly(Append(q, d), b, a)
<1>1. /\ Append(q, d) \in Seq(Decisions) /\ Len(q) \in Nat /\ DOMAIN q = 1 .. Len(q)
      /\ DOMAIN Append(q, d) = 1 .. Len(q) + 1
      /\ \A i \in 1 .. Len(q) : Append(q, d)[i] = q[i]
      /\ Append(q, d)[Len(q) + 1] = d
  BY AppendProperties, LenProperties
<1>2. Append(q, d) # <<>>
  BY <1>1, EmptySeq
<1>3. ASSUME NEW i \in DOMAIN Append(q, d)
      PROVE  (i \in DOMAIN q /\ Append(q, d)[i] = q[i]) \/ Append(q, d)[i] = d
  BY <1>1
<1> QED
  BY <1>1, <1>2, <1>3 DEF Orderly

\* Behind the first decision none writes.
LEMMA OrderlyPop ==
  ASSUME NEW q \in Seq(Decisions), NEW b, NEW a, NEW c, Orderly(q, b, a), q # <<>>
  PROVE  Tail(q) \in Seq(Decisions) /\ Orderly(Tail(q), c, a)
<1>1. /\ Tail(q) \in Seq(Decisions) /\ Len(q) \in Nat /\ Len(q) # 0 /\ DOMAIN q = 1 .. Len(q)
      /\ Len(Tail(q)) = Len(q) - 1
      /\ \A i \in 1 .. Len(Tail(q)) : Tail(q)[i] = q[i + 1]
  BY HeadTailProperties, LenProperties, EmptySeq
<1>2. DOMAIN Tail(q) = 1 .. Len(q) - 1
  BY <1>1, LenProperties
<1>3. ASSUME NEW i \in DOMAIN Tail(q)
      PROVE  i + 1 \in DOMAIN q /\ Tail(q)[i] = q[i + 1] /\ i + 1 # 1
  BY <1>1, <1>2
<1> QED
  BY <1>1, <1>3 DEF Orderly

LEMMA OrderlyWrite ==
  ASSUME NEW q \in Seq(Decisions), NEW b, NEW a, Orderly(q, b, a), q # <<>>, b = NULL,
         NEW e \in Decisions, e.agent => a, e.by # "inherit" => e.network # NULL,
         ~e.write.old, e.by # "inherit" => e.write.network = e.network
  PROVE  <<e>> \o Tail(q) \in Seq(Decisions) /\ Orderly(<<e>> \o Tail(q), b, a)
<1>1. /\ Tail(q) \in Seq(Decisions) /\ Len(q) \in Nat /\ Len(q) # 0 /\ DOMAIN q = 1 .. Len(q)
      /\ Len(Tail(q)) = Len(q) - 1
      /\ \A i \in 1 .. Len(Tail(q)) : Tail(q)[i] = q[i + 1]
  BY HeadTailProperties, LenProperties, EmptySeq
<1>2. <<e>> \in Seq(Decisions) /\ Len(<<e>>) = 1 /\ <<e>>[1] = e
  OBVIOUS
<1> DEFINE r == <<e>> \o Tail(q)
<1>3. /\ r \in Seq(Decisions) /\ Len(r) = Len(q)
      /\ \A i \in 1 .. Len(q) : r[i] = IF i <= 1 THEN <<e>>[i] ELSE Tail(q)[i - 1]
  BY <1>1, <1>2, ConcatProperties
<1>4. DOMAIN r = DOMAIN q
  BY <1>1, <1>3, LenProperties
<1>5. ASSUME NEW i \in DOMAIN r PROVE (i = 1 /\ r[i] = e) \/ (i # 1 /\ r[i] = q[i])
  <2>1. CASE i = 1
    BY <1>1, <1>2, <1>3, <1>4, <1>5, <2>1
  <2>2. CASE i # 1
    BY <1>1, <1>3, <1>4, <1>5, <2>2
  <2> QED
    BY <2>1, <2>2
<1> HIDE DEF r
<1>6. Orderly(r, b, a)
  BY <1>4, <1>5 DEF Orderly
<1> QED
  BY <1>3, <1>6 DEF r

\* An unbound session may stay unbound, and an Agent that is live may stay so.
LEMMA OrderlyStill ==
  ASSUME NEW q, NEW b, NEW a, NEW c, NEW e, Orderly(q, b, a), b = NULL => c = NULL, a => e
  PROVE  Orderly(q, c, e)
BY DEF Orderly

\* The decisions of an Agent that is disposed.
Disposed(q) == [i \in DOMAIN q |-> [q[i] EXCEPT !.agent = FALSE]]

LEMMA OrderlyDisposed ==
  ASSUME NEW q \in Seq(Decisions), NEW b, NEW a, Orderly(q, b, a)
  PROVE  /\ Disposed(q) \in Seq(Decisions) /\ Orderly(Disposed(q), b, FALSE)
         /\ Disposed(q) # <<>> => q # <<>>
<1>1. Len(q) \in Nat /\ DOMAIN q = 1 .. Len(q) /\ \A i \in DOMAIN q : q[i] \in Decisions
  BY LenProperties, ElementOfSeq
<1>2. \A d \in Decisions : /\ [d EXCEPT !.agent = FALSE] \in Decisions
                           /\ [d EXCEPT !.agent = FALSE].agent = FALSE
                           /\ [d EXCEPT !.agent = FALSE].by = d.by
                           /\ [d EXCEPT !.agent = FALSE].network = d.network
                           /\ [d EXCEPT !.agent = FALSE].write = d.write
  BY DEF Decisions
<1>3. Disposed(q) \in Seq(Decisions)
  <2>1. Disposed(q) \in [1 .. Len(q) -> Decisions]
    BY <1>1, <1>2 DEF Disposed
  <2> QED
    BY <1>1, <2>1, SeqDef
<1>4. DOMAIN Disposed(q) = DOMAIN q
      /\ \A i \in DOMAIN q : Disposed(q)[i] = [q[i] EXCEPT !.agent = FALSE]
  BY DEF Disposed
<1>5. Orderly(Disposed(q), b, FALSE)
  <2>1. ASSUME NEW i \in DOMAIN Disposed(q)
        PROVE  /\ i \in DOMAIN q /\ Disposed(q)[i].agent = FALSE
               /\ Disposed(q)[i].by = q[i].by /\ Disposed(q)[i].network = q[i].network
               /\ Disposed(q)[i].write = q[i].write
    <3> DEFINE d == q[i]
    <3>1. i \in DOMAIN q /\ d \in Decisions /\ Disposed(q)[i] = [d EXCEPT !.agent = FALSE]
      BY <1>1, <1>4
    <3> HIDE DEF d
    <3>2. Disposed(q)[i].agent = FALSE /\ Disposed(q)[i].by = d.by
          /\ Disposed(q)[i].network = d.network /\ Disposed(q)[i].write = d.write
      BY <1>2, <3>1
    <3> QED
      BY <3>1, <3>2 DEF d
  <2> QED
    BY <2>1 DEF Orderly, Writing
<1>6. q = <<>> => Disposed(q) = <<>>
  BY DEF Disposed
<1> QED
  BY <1>3, <1>5, <1>6

------------------------------------------------------------------------------
(* What is pending is pending in one place. *)

LEMMA SettledOf ==
  ASSUME BindingInv, NEW x \in settled
  PROVE  /\ x.host \in Hosts /\ x.session \in Sessions /\ x.decision \in Decisions
         /\ status[x.session] # "unborn" /\ (Here(x.host, x.session) \/ OneHost)
         /\ x.decision.agent => Here(x.host, x.session) /\ status[x.session] = "live"
<1>1. x \in [host : Hosts, session : Sessions, decision : Decisions]
  BY DEF BindingInv, TypeOK
<1>2. Pending(x.host, x.session)
  BY DEF Pending
<1>3. status[x.session] # "unborn" /\ (Here(x.host, x.session) \/ OneHost)
  BY <1>1, <1>2 DEF BindingInv, PendingInOnePlace
<1>4. Here(x.host, x.session) => status[x.session] = "live"
  BY <1>1, NullIsNoNetwork DEF BindingInv, TypeOK, Here
<1> QED
  BY <1>1, <1>3, <1>4 DEF BindingInv, SettledIsBound

LEMMA QueuedOf ==
  ASSUME BindingInv, NEW h \in Hosts, NEW s \in Sessions, queue[h][s] # <<>>
  PROVE  /\ status[s] # "unborn" /\ (Here(h, s) \/ OneHost)
         /\ \A g \in Hosts : g # h => queue[g][s] = <<>>
<1>1. \A g \in Hosts : queue[g][s] # <<>> => status[s] # "unborn" /\ (Here(g, s) \/ OneHost)
  BY DEF BindingInv, PendingInOnePlace, Pending
<1>2. ASSUME NEW g \in Hosts, g # h PROVE queue[g][s] = <<>>
  BY <1>1, <1>2 DEF Here, OneHost
<1> QED
  BY <1>1, <1>2

\* A session that is not live has nothing mounted, and nothing pending for an Agent; one
\* that is yet unborn has nothing pending.
LEMMA NotLive ==
  ASSUME BindingInv, NEW s \in Sessions, status[s] # "live"
  PROVE  /\ host[s] = NULL /\ mounted[s] = NULL /\ \A h \in Hosts : ~Here(h, s)
         /\ status[s] = "unborn" => /\ \A h \in Hosts : queue[h][s] = <<>>
                                    /\ \A x \in settled : x.session # s
<1>1. host[s] = NULL /\ mounted[s] = NULL
  BY DEF BindingInv, TypeOK
<1> QED
  BY <1>1, SettledOf, QueuedOf, NullIsNoNetwork DEF Here

\* A bound session has no write under way, and an unbound one no network told or mounted.
LEMMA UnboundHasNothing ==
  ASSUME BindingInv, NEW s \in Sessions, status[s] # "gone", Reads(s) = NULL
  PROVE  /\ told[s] = {} /\ mounted[s] = NULL
         /\ \A x \in settled : x.session = s => x.decision.by = "inherit"
<1>1. told[s] \subseteq Networks
  BY DEF BindingInv, TypeOK
<1>2. \A n \in told[s] : Reads(s) = n
  BY DEF BindingInv, ToldIsKept, Reads
<1>3. mounted[s] = NULL
  BY DEF BindingInv, MountedIsDurable, Reads
<1> QED
  BY <1>1, <1>2, <1>3, NullIsNoNetwork DEF BindingInv, SettledIsBound

------------------------------------------------------------------------------
(* Steps that change nothing but decisions. *)

\* What is added to a queue or settled is of session s on host h.
LEMMA DecisionSteps ==
  ASSUME BindingInv, NEW h \in Hosts, NEW s \in Sessions, status[s] # "unborn",
         Here(h, s) \/ OneHost,
         UNCHANGED <<record, dsh, mounted, pruning, told>>, unrestored' \subseteq Sessions,
         queue' \in [Hosts -> [Sessions -> Seq(Decisions)]],
         \A g \in Hosts, t \in Sessions : g # h \/ t # s => queue'[g][t] = queue[g][t],
         Orderly(queue'[h][s], Reads(s), Here(h, s)),
         settled' \subseteq [host : Hosts, session : Sessions, decision : Decisions],
         \A x \in settled' : x \in settled \/
            (/\ x.host = h /\ x.session = s
             /\ x.decision.agent => Here(h, s)
             /\ x.decision.by # "inherit" => x.decision.network # NULL
                                             /\ Reads(s) = x.decision.network)
  PROVE  BindingInv'
<1>1. TypeOK'
  BY DEF BindingInv, TypeOK, dsh
<1>2. \A t \in Sessions : Reads(t)' = Reads(t)
  BY ReadsTheSame DEF dsh
<1>3. \A g \in Hosts, t \in Sessions : Here(g, t)' <=> Here(g, t)
  BY DEF Here, dsh
<1>4. ASSUME NEW g \in Hosts, NEW t \in Sessions, Pending(g, t)'
      PROVE  status'[t] # "unborn" /\ (Here(g, t)' \/ OneHost)
  <2>1. status' = status
    BY DEF dsh
  <2>2. CASE g = h /\ t = s
    BY <1>3, <2>1, <2>2
  <2>3. CASE g # h \/ t # s
    <3>1. queue'[g][t] = queue[g][t]
      BY <2>3
    <3>2. \A x \in settled' : x.host = g /\ x.session = t => x \in settled
      BY <2>3
    <3>3. Pending(g, t)
      BY <1>4, <3>1, <3>2 DEF Pending
    <3> QED
      BY <1>3, <2>1, <3>3 DEF BindingInv, PendingInOnePlace
  <2> QED
    BY <2>2, <2>3
<1>5. WritesWhereUnbound'
  <2>1. ASSUME NEW g \in Hosts, NEW t \in Sessions
        PROVE  Orderly(queue'[g][t], Reads(t)', Here(g, t)')
    <3>1. Orderly(queue'[g][t], Reads(t), Here(g, t))
      BY DEF BindingInv, WritesWhereUnbound
    <3>2. Reads(t)' = Reads(t) /\ (Here(g, t)' <=> Here(g, t))
      BY <1>2, <1>3
    <3> QED
      BY <3>1, <3>2 DEF Orderly
  <2> QED
    BY <2>1 DEF WritesWhereUnbound
<1>6. SettledIsBound'
  <2>1. ASSUME NEW x \in settled'
        PROVE  /\ x.decision.agent => Here(x.host, x.session)'
               /\ x.decision.by # "inherit" =>
                    /\ x.decision.network # NULL
                    /\ status'[x.session] # "gone" => Reads(x.session)' = x.decision.network
    <3>1. x.host \in Hosts /\ x.session \in Sessions /\ status' = status
      BY <1>1 DEF dsh
    <3> QED
      BY <1>2, <1>3, <3>1 DEF BindingInv, SettledIsBound
  <2> QED
    BY <2>1 DEF SettledIsBound
<1>7. OldIsStored'
  BY DEF BindingInv, OldIsStored, Accounted, dsh
<1>8. ToldIsKept'
  BY <1>2 DEF BindingInv, ToldIsKept, dsh, Reads
<1>9. MountedIsDurable'
  BY <1>2 DEF BindingInv, MountedIsDurable, Reads
<1> QED
  BY <1>1, <1>4, <1>5, <1>6, <1>7, <1>8, <1>9 DEF BindingInv, PendingInOnePlace

\* A decision that does not write joins a queue.
LEMMA PushSteps ==
  ASSUME BindingInv, NEW h \in Hosts, NEW s \in Sessions, NEW d \in Decisions, ~Writing(d),
         d.agent => Here(h, s), d.by # "inherit" => d.network # NULL, Push(h, s, d)
  PROVE  /\ queue' \in [Hosts -> [Sessions -> Seq(Decisions)]]
         /\ queue'[h][s] # <<>> /\ Orderly(queue'[h][s], Reads(s), Here(h, s))
         /\ \A g \in Hosts, t \in Sessions : g # h \/ t # s => queue'[g][t] = queue[g][t]
<1>1. TypeOK /\ queue[h][s] \in Seq(Decisions) /\ Orderly(queue[h][s], Reads(s), Here(h, s))
  BY QueueOf DEF BindingInv, WritesWhereUnbound
<1>2. queue' = [queue EXCEPT ![h][s] = Append(queue[h][s], d)]
  BY DEF Push
<1>3. /\ Append(queue[h][s], d) \in Seq(Decisions) /\ Append(queue[h][s], d) # <<>>
      /\ Orderly(Append(queue[h][s], d), Reads(s), Here(h, s))
  BY <1>1, OrderlyPush
<1> DEFINE q == Append(queue[h][s], d)
<1> HIDE DEF q
<1>4. q \in Seq(Decisions) /\ Replaced(h, s, q)
  BY <1>2, <1>3 DEF q, Replaced
<1>5. /\ queue' \in [Hosts -> [Sessions -> Seq(Decisions)]] /\ queue'[h][s] = q
      /\ \A g \in Hosts, t \in Sessions : g # h \/ t # s => queue'[g][t] = queue[g][t]
  BY <1>1, <1>4, QueueSet
<1>6. q # <<>> /\ Orderly(q, Reads(s), Here(h, s))
  BY <1>3 DEF q
<1> QED
  BY <1>5, <1>6

LEMMA UserBindStep ==
  ASSUME BindingInv, NEW h \in Hosts, NEW s \in Sessions, NEW n \in Networks, UserBind(h, s, n)
  PROVE  BindingInv'
<1>1. /\ Decision("user", n) \in Decisions /\ ~Writing(Decision("user", n))
      /\ Decision("user", n).network # NULL
  BY DecisionTypes, NullIsNoNetwork
<1>2. /\ Here(h, s) /\ UNCHANGED <<record, dsh, mounted, pruning, told>>
      /\ settled' = settled /\ unrestored' = unrestored
      /\ Push(h, s, Decision("user", n))
  BY DEF UserBind, Here
<1>3. /\ settled' \subseteq [host : Hosts, session : Sessions, decision : Decisions]
      /\ unrestored' \subseteq Sessions /\ status[s] # "unborn"
  BY <1>2, NullIsNoNetwork DEF BindingInv, TypeOK, Here
<1> QED
  BY <1>1, <1>2, <1>3, PushSteps, DecisionSteps

\* What is said of the caller of a decision that settles.
LEMMA CallerOf ==
  ASSUME NEW h \in Hosts, NEW s \in Sessions, NEW d \in Decisions
  PROVE  /\ Caller(h, s, d) \in [host : Hosts, session : Sessions, decision : Decisions]
         /\ Caller(h, s, d).host = h /\ Caller(h, s, d).session = s
         /\ Caller(h, s, d).decision.by = d.by /\ Caller(h, s, d).decision.network = d.network
         /\ Caller(h, s, d).decision.agent = d.agent
BY DecisionTypes DEF Caller, Decisions

\* The first decision of a queue leaves it.
LEMMA PopSteps ==
  ASSUME BindingInv, NEW h \in Hosts, NEW s \in Sessions, queue[h][s] # <<>>, Pop(h, s)
  PROVE  /\ queue' \in [Hosts -> [Sessions -> Seq(Decisions)]]
         /\ \A b : Orderly(queue'[h][s], b, Here(h, s))
         /\ \A g \in Hosts, t \in Sessions : g # h \/ t # s => queue'[g][t] = queue[g][t]
<1>1. TypeOK /\ queue[h][s] \in Seq(Decisions) /\ Orderly(queue[h][s], Reads(s), Here(h, s))
  BY QueueOf DEF BindingInv, WritesWhereUnbound
<1>2. queue' = [queue EXCEPT ![h][s] = Tail(queue[h][s])]
  BY DEF Pop
<1>3. /\ Tail(queue[h][s]) \in Seq(Decisions)
      /\ \A b : Orderly(Tail(queue[h][s]), b, Here(h, s))
  BY <1>1, OrderlyPop
<1> DEFINE q == Tail(queue[h][s])
<1> HIDE DEF q
<1>4. q \in Seq(Decisions) /\ Replaced(h, s, q)
  BY <1>2, <1>3 DEF q, Replaced
<1>5. /\ queue' \in [Hosts -> [Sessions -> Seq(Decisions)]] /\ queue'[h][s] = q
      /\ \A g \in Hosts, t \in Sessions : g # h \/ t # s => queue'[g][t] = queue[g][t]
  BY <1>1, <1>4, QueueSet
<1>6. \A b : Orderly(q, b, Here(h, s))
  BY <1>3 DEF q
<1> QED
  BY <1>5, <1>6

LEMMA DecideStep ==
  ASSUME BindingInv, NEW h \in Hosts, NEW s \in Sessions, Decide(h, s)
  PROVE  BindingInv'
<1> DEFINE q == queue[h][s]
           d == Head(q)
           w == WriteOf(s, d)
           e == [d EXCEPT !.write = w]
<1>1. TypeOK /\ q \in Seq(Decisions) /\ Orderly(q, Reads(s), Here(h, s)) /\ q # <<>>
  BY QueueOf DEF BindingInv, WritesWhereUnbound, Decide
<1>2. d \in Decisions /\ (d.by # "inherit" => d.network # NULL) /\ (d.agent => Here(h, s))
  BY <1>1, QueueOf DEF Orderly
<1>3. /\ status[s] # "unborn" /\ (Here(h, s) \/ OneHost)
      /\ UNCHANGED <<record, dsh, mounted, pruning, told>>
      /\ unrestored' = unrestored /\ unrestored' \subseteq Sessions
      /\ settled \subseteq [host : Hosts, session : Sessions, decision : Decisions]
  BY <1>1, QueuedOf DEF Decide, TypeOK
<1>4. CASE w # NoRecord /\ queue' = [queue EXCEPT ![h][s] = <<e>> \o Tail(@)] /\ settled' = settled
  <2>1. Reads(s) = NULL
    BY <1>4 DEF WriteOf, Reads
  <2>2. w = IF d.by = "inherit" THEN [Inheritance(s) EXCEPT !.old = FALSE]
            ELSE NewRecord(d.network, Len(log[s]))
    BY <2>1 DEF WriteOf, Reads
  <2>3. Inheritance(s) \in Record
    <3>1. origin[s].parent \in Sessions \cup {NULL}
      BY <1>1 DEF TypeOK
    <3>2. origin[s].parent # NULL => record[origin[s].parent] \in Record
      BY <1>1, <3>1 DEF TypeOK
    <3> QED
      BY <3>2, DecisionTypes DEF Inheritance
  <2>4. Len(log[s]) \in 0 .. MaxEvents
    BY <1>1, LenProperties, BoundsAreNatural DEF TypeOK
  <2>5. w \in Record /\ ~w.old /\ (d.by # "inherit" => w.network = d.network)
    <3>1. CASE d.by = "inherit"
      <4>1. w = [Inheritance(s) EXCEPT !.old = FALSE]
        BY <2>2, <3>1
      <4> QED
        BY <2>3, <3>1, <4>1 DEF Record
    <3>2. CASE d.by # "inherit"
      <4>1. w = [network |-> d.network, boundAtSeq |-> Len(log[s]), old |-> FALSE]
        BY <2>2, <3>2 DEF NewRecord
      <4>2. d.network \in Networks \cup {NULL}
        BY <1>2 DEF Decisions
      <4> HIDE DEF d
      <4> QED
        BY <2>4, <4>1, <4>2 DEF Record
    <3> QED
      BY <3>1, <3>2
  <2>6. e \in Decisions /\ e.write = w /\ e.by = d.by /\ e.network = d.network
        /\ e.agent = d.agent
    BY <1>2, <2>5 DEF Decisions
  <2> HIDE DEF e, w
  <2>7. /\ <<e>> \o Tail(q) \in Seq(Decisions)
        /\ Orderly(<<e>> \o Tail(q), Reads(s), Here(h, s))
    BY <1>1, <1>2, <2>1, <2>5, <2>6, OrderlyWrite
  <2> DEFINE r == <<e>> \o Tail(q)
  <2>8. r \in Seq(Decisions) /\ Orderly(r, Reads(s), Here(h, s)) /\ Replaced(h, s, r)
    BY <1>4, <2>7 DEF Replaced
  <2> HIDE DEF r
  <2>9. /\ queue' \in [Hosts -> [Sessions -> Seq(Decisions)]]
        /\ Orderly(queue'[h][s], Reads(s), Here(h, s))
        /\ \A g \in Hosts, t \in Sessions : g # h \/ t # s => queue'[g][t] = queue[g][t]
    BY <1>1, <2>8, QueueSet
  <2> QED
    BY <1>3, <1>4, <2>9, DecisionSteps
<1>5. CASE Pop(h, s) /\ settled' = settled
  BY <1>1, <1>3, <1>5, PopSteps, DecisionSteps
<1>6. CASE w = NoRecord /\ ~Rejects(s, d) /\ Pop(h, s) /\ Settle(h, s, d)
  <2>1. d.by # "inherit" => Reads(s) = d.network
    BY <1>6 DEF Rejects, Reads
  <2>2. settled' = settled \cup {Caller(h, s, d)}
    BY <1>6 DEF Settle
  <2> HIDE DEF d
  <2> DEFINE x == Caller(h, s, d)
  <2>3. /\ x \in [host : Hosts, session : Sessions, decision : Decisions]
        /\ x.host = h /\ x.session = s
        /\ x.decision.agent => Here(h, s)
        /\ x.decision.by # "inherit" => x.decision.network # NULL /\ Reads(s) = x.decision.network
    BY <1>2, <2>1, CallerOf
  <2>4. settled' = settled \cup {x}
    BY <2>2
  <2> HIDE DEF x
  <2>5. /\ queue' \in [Hosts -> [Sessions -> Seq(Decisions)]]
        /\ Orderly(queue'[h][s], Reads(s), Here(h, s))
        /\ \A g \in Hosts, t \in Sessions : g # h \/ t # s => queue'[g][t] = queue[g][t]
    BY <1>1, <1>6, PopSteps
  <2>6. /\ settled' \subseteq [host : Hosts, session : Sessions, decision : Decisions]
        /\ \A y \in settled' : y \in settled \/
              (/\ y.host = h /\ y.session = s
               /\ y.decision.agent => Here(h, s)
               /\ y.decision.by # "inherit" => y.decision.network # NULL
                                               /\ Reads(s) = y.decision.network)
    BY <1>3, <2>3, <2>4
  <2> QED
    BY <1>3, <2>5, <2>6, DecisionSteps
<1> QED
  BY <1>4, <1>5, <1>6 DEF Decide, AfterRejection

LEMMA WriteFailsStep ==
  ASSUME BindingInv, NEW h \in Hosts, NEW s \in Sessions, WriteFails(h, s)
  PROVE  BindingInv'
<1>1. /\ queue[h][s] # <<>> /\ Pop(h, s) /\ status[s] # "unborn" /\ (Here(h, s) \/ OneHost)
  BY QueuedOf DEF WriteFails
<1>2. /\ UNCHANGED <<record, dsh, mounted, pruning, told>> /\ settled' = settled
      /\ unrestored' \subseteq unrestored \cup {s}
  BY DEF WriteFails
<1>3. /\ settled' \subseteq [host : Hosts, session : Sessions, decision : Decisions]
      /\ unrestored' \subseteq Sessions
  BY <1>2 DEF BindingInv, TypeOK
<1> QED
  BY <1>1, <1>2, <1>3, PopSteps, DecisionSteps

------------------------------------------------------------------------------
(* A write ends, and the callers go on. *)

\* The record appears where none was read: whatever had been bound, told or mounted for
\* the session would have kept the decision from writing.
LEMMA WriteDoneStep ==
  ASSUME BindingInv, NEW h \in Hosts, NEW s \in Sessions, WriteDone(h, s)
  PROVE  BindingInv'
<1> DEFINE d == Head(queue[h][s])
           x == Caller(h, s, d)
<1>1. /\ TypeOK /\ queue[h][s] # <<>> /\ Writing(d)
      /\ status[s] # "unborn" /\ (Here(h, s) \/ OneHost)
      /\ \A g \in Hosts : g # h => queue[g][s] = <<>>
  BY QueuedOf DEF WriteDone, BindingInv
<1>2. /\ d \in Decisions /\ (d.by # "inherit" => d.network # NULL) /\ (d.agent => Here(h, s))
      /\ Reads(s) = NULL /\ ~d.write.old
      /\ (d.by # "inherit" => d.write.network = d.network)
  BY <1>1, QueueOf DEF Orderly, BindingInv, WritesWhereUnbound
<1>3. UNCHANGED <<dsh, mounted, pruning, told, unrestored>>
  BY DEF WriteDone
<1>4. record' = [record EXCEPT ![s] = d.write] /\ d.write \in Record
  BY <1>2 DEF WriteDone, Decisions
<1>5. record' \in [Sessions -> Record] /\ record'[s] = d.write
      /\ \A t \in Sessions : t # s => record'[t] = record[t]
  BY <1>1, <1>4 DEF TypeOK
<1>6. settled' = settled \cup {x}
  BY DEF WriteDone, Settle
<1>7. /\ x \in [host : Hosts, session : Sessions, decision : Decisions]
      /\ x.host = h /\ x.session = s /\ (x.decision.agent => Here(h, s))
      /\ x.decision.by # "inherit" => x.decision.network # NULL
                                      /\ d.write.network = x.decision.network
  BY <1>2, CallerOf
<1>8. /\ queue' \in [Hosts -> [Sessions -> Seq(Decisions)]]
      /\ \A b : Orderly(queue'[h][s], b, Here(h, s))
      /\ \A g \in Hosts, t \in Sessions : g # h \/ t # s => queue'[g][t] = queue[g][t]
  BY <1>1, PopSteps DEF WriteDone
<1>9. Reads(s)' = d.write.network /\ \A t \in Sessions : t # s => Reads(t)' = Reads(t)
  BY <1>1, <1>2, <1>3, <1>5, ReadsTheWritten, ReadsTheSame DEF dsh
<1>10. status[s] # "gone" => /\ told[s] = {} /\ mounted[s] = NULL
                             /\ \A y \in settled : y.session = s => y.decision.by = "inherit"
  BY <1>2, UnboundHasNothing
<1>11. \A y \in settled' : y \in settled \/ y = x
  BY <1>6
<1>12. \A g \in Hosts, t \in Sessions : Here(g, t)' <=> Here(g, t)
  BY <1>3 DEF Here, dsh
<1> HIDE DEF d, x
<1>13. TypeOK'
  <2>1. settled' \subseteq [host : Hosts, session : Sessions, decision : Decisions]
    BY <1>1, <1>7, <1>11 DEF TypeOK
  <2> QED
    BY <1>1, <1>3, <1>5, <1>8, <2>1 DEF TypeOK, dsh
<1>14. ASSUME NEW g \in Hosts, NEW t \in Sessions, Pending(g, t)'
       PROVE  status'[t] # "unborn" /\ (Here(g, t)' \/ OneHost)
  <2>1. status' = status
    BY <1>3 DEF dsh
  <2>2. CASE g = h /\ t = s
    BY <1>1, <1>12, <2>1, <2>2
  <2>3. CASE g # h \/ t # s
    <3>1. /\ queue'[g][t] = queue[g][t]
          /\ \A y \in settled' : y.host = g /\ y.session = t => y \in settled
      BY <1>7, <1>8, <1>11, <2>3
    <3>2. Pending(g, t)
      BY <1>14, <3>1 DEF Pending
    <3> QED
      BY <1>12, <2>1, <3>2 DEF BindingInv, PendingInOnePlace
  <2> QED
    BY <2>2, <2>3
<1>15. ASSUME NEW g \in Hosts, NEW t \in Sessions
       PROVE  Orderly(queue'[g][t], Reads(t)', Here(g, t)')
  <2>1. CASE t # s
    <3>1. queue'[g][t] = queue[g][t] /\ Orderly(queue[g][t], Reads(t), Here(g, t))
      BY <1>8, <2>1 DEF BindingInv, WritesWhereUnbound
    <3> QED
      BY <1>9, <1>12, <2>1, <3>1, OrderlyStill
  <2>2. CASE t = s /\ g # h
    <3>1. queue'[g][t] = <<>>
      BY <1>1, <1>8, <2>2
    <3> QED
      BY <3>1, OrderlyEmpty
  <2>3. CASE t = s /\ g = h
    <3>1. Orderly(queue'[h][s], Reads(s)', Here(h, s))
      BY <1>8
    <3> QED
      BY <1>12, <2>3, <3>1, OrderlyStill
  <2> QED
    BY <2>1, <2>2, <2>3
<1>16. ASSUME NEW y \in settled'
       PROVE  /\ y.decision.agent => Here(y.host, y.session)'
              /\ y.decision.by # "inherit" =>
                   /\ y.decision.network # NULL
                   /\ status'[y.session] # "gone" => Reads(y.session)' = y.decision.network
  <2>1. status' = status
    BY <1>3 DEF dsh
  <2>2. CASE y = x
    BY <1>7, <1>9, <1>12, <2>1, <2>2
  <2>3. CASE y \in settled
    <3>1. y.host \in Hosts /\ y.session \in Sessions
      BY <2>3, SettledOf
    <3>2. /\ y.decision.agent => Here(y.host, y.session)
          /\ y.decision.by # "inherit" =>
               /\ y.decision.network # NULL
               /\ status[y.session] # "gone" => Reads(y.session) = y.decision.network
      BY <2>3 DEF BindingInv, SettledIsBound
    <3>3. y.decision.by # "inherit" /\ status[y.session] # "gone" => y.session # s
      BY <1>10, <2>3
    <3> QED
      BY <1>9, <1>12, <2>1, <3>1, <3>2, <3>3
  <2> QED
    BY <1>11, <2>2, <2>3
<1>17. OldIsStored'
  BY <1>1, <1>2, <1>3, <1>5 DEF BindingInv, OldIsStored, Accounted, dsh
<1>18. ToldIsKept'
  BY <1>3, <1>9, <1>10 DEF BindingInv, ToldIsKept, dsh, Reads
<1>19. MountedIsDurable'
  <2>1. mounted[s] # NULL => status[s] # "gone"
    BY <1>1 DEF TypeOK
  <2> QED
    BY <1>3, <1>9, <1>10, <2>1 DEF BindingInv, MountedIsDurable, Reads
<1> QED
  BY <1>13, <1>14, <1>15, <1>16, <1>17, <1>18, <1>19
  DEF BindingInv, PendingInOnePlace, WritesWhereUnbound, SettledIsBound

\* Mounting gives a live session's Agent the network that is read, or leaves it alone.
LEMMA MountingIs ==
  ASSUME TypeOK, NEW s \in Sessions, NEW agent, mountIfBound(s, agent)
  PROVE  /\ mounted' \in [Sessions -> Networks \cup {NULL}]
         /\ \A t \in Sessions : t # s => mounted'[t] = mounted[t]
         /\ mounted'[s] = mounted[s] \/ (mounted[s] = NULL /\ mounted'[s] = Reads(s) /\ agent)
<1>1. mounted \in [Sessions -> Networks \cup {NULL}]
  BY DEF TypeOK
<1>2. Reads(s) # "conflict" => Reads(s) \in Networks \cup {NULL}
  BY ReadsTypes
<1> QED
  BY <1>1, <1>2 DEF mountIfBound, Reads

\* A continuation takes its caller out of those that have settled, and may mount.
LEMMA ContinuationSteps ==
  ASSUME BindingInv, NEW x \in settled, settled' = settled \ {x},
         UNCHANGED <<record, dsh, queue, pruning, unrestored>>,
         mountIfBound(x.session, x.decision.agent),
         told' \in [Sessions -> SUBSET Networks],
         \A t \in Sessions : \A n \in told'[t] :
           n \in told[t] \/ (t = x.session /\ (status[t] # "gone" => Reads(t) = n))
  PROVE  BindingInv'
<1> DEFINE s == x.session
<1>1. /\ TypeOK /\ s \in Sessions /\ status[s] # "unborn"
      /\ x.decision.agent => status[s] = "live"
  BY SettledOf DEF BindingInv
<1>2. /\ mounted' \in [Sessions -> Networks \cup {NULL}]
      /\ \A t \in Sessions : t # s => mounted'[t] = mounted[t]
      /\ mounted'[s] = mounted[s]
         \/ (mounted[s] = NULL /\ mounted'[s] = Reads(s) /\ x.decision.agent)
  BY <1>1, MountingIs
<1> HIDE DEF s
<1>3. \A t \in Sessions : Reads(t)' = Reads(t)
  BY ReadsTheSame DEF dsh
<1>4. TypeOK'
  BY <1>1, <1>2 DEF TypeOK, dsh
<1>5. PendingInOnePlace'
  BY DEF BindingInv, PendingInOnePlace, Pending, Here, dsh
<1>6. \A g \in Hosts, t \in Sessions : Here(g, t)' <=> Here(g, t)
  BY DEF Here, dsh
<1>7. WritesWhereUnbound'
  <2>1. ASSUME NEW g \in Hosts, NEW t \in Sessions
        PROVE  Orderly(queue[g][t], Reads(t)', Here(g, t)')
    <3>1. Orderly(queue[g][t], Reads(t), Here(g, t))
      BY DEF BindingInv, WritesWhereUnbound
    <3> QED
      BY <1>3, <1>6, <3>1, OrderlyStill
  <2> QED
    BY <2>1 DEF WritesWhereUnbound
<1>8. SettledIsBound'
  <2>1. \A y \in settled' : y \in settled /\ y.host \in Hosts /\ y.session \in Sessions
    BY SettledOf
  <2>2. status' = status
    BY DEF dsh
  <2> QED
    BY <1>3, <1>6, <2>1, <2>2 DEF BindingInv, SettledIsBound
<1>9. OldIsStored'
  <2>1. \A t \in Sessions : told[t] = {} => told'[t] = {} \/ t = s
    BY DEF s
  <2> QED
    BY <1>1, <2>1 DEF BindingInv, OldIsStored, Accounted, dsh
<1>10. ToldIsKept'
  BY <1>3 DEF BindingInv, ToldIsKept, dsh, Reads
<1>11. MountedIsDurable'
  BY <1>2, <1>3 DEF BindingInv, MountedIsDurable, Reads
<1> QED
  BY <1>4, <1>5, <1>7, <1>8, <1>9, <1>10, <1>11 DEF BindingInv

LEMMA BindContinuesStep ==
  ASSUME BindingInv, NEW x \in settled, BindContinues(x)
  PROVE  BindingInv'
<1>1. /\ x.decision.network # NULL
      /\ status[x.session] # "gone" => Reads(x.session) = x.decision.network
      /\ x.session \in Sessions /\ x.decision \in Decisions
  BY SettledOf DEF BindContinues, BindingInv, SettledIsBound
<1>2. x.decision.network \in Networks
  BY <1>1 DEF Decisions
<1>3. told \in [Sessions -> SUBSET Networks]
  BY DEF BindingInv, TypeOK
<1>4. told' = [told EXCEPT ![x.session] = told[x.session] \cup {x.decision.network}]
  BY DEF BindContinues
<1>5. /\ told' \in [Sessions -> SUBSET Networks]
      /\ \A t \in Sessions : \A n \in told'[t] :
           n \in told[t] \/ (t = x.session /\ (status[t] # "gone" => Reads(t) = n))
  BY <1>1, <1>2, <1>3, <1>4
<1> QED
  BY <1>5, ContinuationSteps DEF BindContinues

\* An unbound session's restoration goes on to its workspace's network, if there is one.
LEMMA RestoreGoesOn ==
  ASSUME BindingInv, NEW x \in settled, NEW h \in Hosts, NEW s \in Sessions,
         status[s] # "unborn", Here(h, s) \/ OneHost, settled' = settled \ {x},
         UNCHANGED <<record, dsh, mounted, pruning, told, unrestored>>,
         \/ UNCHANGED queue
         \/ Here(h, s) /\ \E n \in Networks : Push(h, s, Decision("workspace", n))
  PROVE  BindingInv'
<1>1. TypeOK /\ queue[h][s] \in Seq(Decisions) /\ Orderly(queue[h][s], Reads(s), Here(h, s))
  BY QueueOf DEF BindingInv, WritesWhereUnbound
<1>2. /\ settled' \subseteq [host : Hosts, session : Sessions, decision : Decisions]
      /\ \A y \in settled' : y \in settled
      /\ unrestored' \subseteq Sessions
  BY <1>1 DEF TypeOK
<1>3. CASE UNCHANGED queue
  <2>1. queue' \in [Hosts -> [Sessions -> Seq(Decisions)]]
    BY <1>1, <1>3 DEF TypeOK
  <2> QED
    BY <1>1, <1>2, <1>3, <2>1, DecisionSteps
<1>4. ASSUME Here(h, s), NEW n \in Networks, Push(h, s, Decision("workspace", n))
      PROVE  BindingInv'
  <2>1. /\ Decision("workspace", n) \in Decisions /\ ~Writing(Decision("workspace", n))
        /\ Decision("workspace", n).network # NULL
    BY DecisionTypes, NullIsNoNetwork
  <2> QED
    BY <1>2, <1>4, <2>1, PushSteps, DecisionSteps
<1> QED
  BY <1>3, <1>4

LEMMA RestoreContinuesStep ==
  ASSUME BindingInv, NEW x \in settled, NEW n \in Networks \cup {NULL}, RestoreContinues(x, n)
  PROVE  BindingInv'
<1>1. /\ TypeOK /\ x.host \in Hosts /\ x.session \in Sessions /\ status[x.session] # "unborn"
      /\ Here(x.host, x.session) \/ OneHost
      /\ x.decision.agent => Here(x.host, x.session)
  BY SettledOf DEF BindingInv
<1>2. settled' = settled \ {x} /\ UNCHANGED <<record, dsh, pruning, told, unrestored>>
  BY DEF RestoreContinues
<1>3. CASE mountIfBound(x.session, x.decision.agent) /\ UNCHANGED queue
  <2>1. told \in [Sessions -> SUBSET Networks]
    BY <1>1 DEF TypeOK
  <2> QED
    BY <1>2, <1>3, <2>1, ContinuationSteps
<1>4. CASE UNCHANGED mounted /\ (UNCHANGED queue \/
             (n # NULL /\ x.decision.agent
              /\ Push(x.host, x.session, Decision("workspace", n))))
  BY <1>1, <1>2, <1>4, RestoreGoesOn
<1> QED
  BY <1>3, <1>4 DEF RestoreContinues

------------------------------------------------------------------------------
(* Sessions come and go. *)

\* What goes live has nothing pending for its Agent but its restoration; if its log is new,
\* nothing was pending, told or recorded for it at all.
LEMMA GoesLiveStep ==
  ASSUME BindingInv, NEW h \in Hosts, NEW s \in Sessions, status[s] \in {"unborn", "closed"},
         NEW seeded \in BOOLEAN, NEW lost \in SUBSET Sessions, GoesLive(h, s, seeded, lost),
         UNCHANGED <<record, stored, mounted, pruning, told>>,
         log' \in [Sessions -> Seq(Events)], \A t \in Sessions : Len(log'[t]) <= MaxEvents,
         \A t \in Sessions : t # s \/ status[s] = "closed" => log'[t] = log[t],
         origin' \in [Sessions -> [parent : Sessions \cup {NULL},
                                   inheritedEventCount : 0 .. MaxEvents]]
  PROVE  BindingInv'
<1> DEFINE d == Decision("inherit", NULL)
           x == Caller(h, s, d)
<1>1. TypeOK /\ status[s] # "live" /\ status[s] # "gone"
  BY DEF BindingInv
<1>2. /\ host[s] = NULL /\ mounted[s] = NULL /\ \A g \in Hosts : ~Here(g, s)
      /\ status[s] = "unborn" => /\ \A g \in Hosts : queue[g][s] = <<>>
                                 /\ \A y \in settled : y.session # s
  BY <1>1, NotLive
<1>3. d \in Decisions /\ ~Writing(d) /\ d.by = "inherit"
  BY DecisionTypes
<1>4. /\ x \in [host : Hosts, session : Sessions, decision : Decisions]
      /\ x.host = h /\ x.session = s /\ x.decision.by = "inherit"
  BY <1>3, CallerOf
<1>5. /\ status' = [status EXCEPT ![s] = "live"] /\ host' = [host EXCEPT ![s] = h]
      /\ unrestored' \subseteq unrestored \cup lost \cup {s}
      /\ \/ Push(h, s, d) /\ settled' = settled
         \/ settled' = settled \cup {x} /\ queue' = queue
         \/ queue' = queue /\ settled' = settled
  BY DEF GoesLive, Restore, Settle
<1>6. /\ status' \in [Sessions -> {"unborn", "live", "closed", "gone"}] /\ status'[s] = "live"
      /\ host' \in [Sessions -> Hosts \cup {NULL}] /\ host'[s] = h
      /\ \A t \in Sessions : t # s => status'[t] = status[t] /\ host'[t] = host[t]
  BY <1>1, <1>5 DEF TypeOK
<1>7. \A y \in settled' : y \in settled \/ y = x
  BY <1>5
<1> HIDE DEF x, d
<1>8. /\ Here(h, s)' /\ \A g \in Hosts, t \in Sessions : t # s => (Here(g, t)' <=> Here(g, t))
  BY <1>6 DEF Here
<1>9. \A t \in Sessions : t # s \/ status[s] = "closed" => Reads(t)' = Reads(t)
  BY ReadsTheSame
<1>10. queue[h][s] \in Seq(Decisions) /\ Orderly(queue[h][s], Reads(s)', TRUE)
  <2>1. queue[h][s] \in Seq(Decisions) /\ Orderly(queue[h][s], Reads(s), Here(h, s))
    BY <1>1, QueueOf DEF BindingInv, WritesWhereUnbound
  <2>2. CASE status[s] = "closed"
    BY <1>9, <2>1, <2>2, OrderlyStill
  <2>3. CASE status[s] = "unborn"
    BY <1>2, <2>1, <2>3, OrderlyEmpty
  <2> QED
    BY <2>1, <2>2, <2>3
<1>11. /\ queue' \in [Hosts -> [Sessions -> Seq(Decisions)]]
       /\ \A g \in Hosts, t \in Sessions : g # h \/ t # s => queue'[g][t] = queue[g][t]
       /\ Orderly(queue'[h][s], Reads(s)', TRUE)
  <2>1. CASE Push(h, s, d)
    <3> DEFINE q == Append(queue[h][s], d)
    <3>1. q \in Seq(Decisions) /\ Orderly(q, Reads(s)', TRUE)
      BY <1>3, <1>10, OrderlyPush
    <3>2. Replaced(h, s, q)
      BY <2>1 DEF Push, Replaced
    <3> HIDE DEF q
    <3> QED
      BY <1>1, <3>1, <3>2, QueueSet
  <2>2. CASE queue' = queue
    BY <1>1, <1>10, <2>2 DEF TypeOK
  <2> QED
    BY <1>5, <2>1, <2>2
<1>12. TypeOK'
  <2>1. settled' \subseteq [host : Hosts, session : Sessions, decision : Decisions]
    BY <1>1, <1>4, <1>7 DEF TypeOK
  <2>2. unrestored' \subseteq Sessions
    BY <1>1, <1>5 DEF TypeOK
  <2>3. \A t \in Sessions : status'[t] = "live" <=> host'[t] # NULL
    <3>1. h # NULL
      BY NullIsNoNetwork
    <3>2. \A t \in Sessions : status[t] = "live" <=> host[t] # NULL
      BY <1>1 DEF TypeOK
    <3> QED
      BY <1>6, <3>1, <3>2
  <2>4. \A t \in Sessions : mounted[t] # NULL => status'[t] = "live"
    BY <1>1, <1>6 DEF TypeOK
  <2> QED
    BY <1>1, <1>6, <1>11, <2>1, <2>2, <2>3, <2>4 DEF TypeOK
<1>13. ASSUME NEW g \in Hosts, NEW t \in Sessions, Pending(g, t)'
       PROVE  status'[t] # "unborn" /\ (Here(g, t)' \/ OneHost)
  <2>1. CASE g = h /\ t = s
    BY <1>6, <1>8, <2>1
  <2>2. CASE g # h \/ t # s
    <3>1. /\ queue'[g][t] = queue[g][t]
          /\ \A y \in settled' : y.host = g /\ y.session = t => y \in settled
      BY <1>4, <1>7, <1>11, <2>2
    <3>2. Pending(g, t)
      BY <1>13, <3>1 DEF Pending
    <3>3. status[t] # "unborn" /\ (Here(g, t) \/ OneHost)
      BY <3>2 DEF BindingInv, PendingInOnePlace
    <3> QED
      BY <1>2, <1>6, <1>8, <3>3
  <2> QED
    BY <2>1, <2>2
<1>14. ASSUME NEW g \in Hosts, NEW t \in Sessions
       PROVE  Orderly(queue'[g][t], Reads(t)', Here(g, t)')
  <2>1. CASE t # s
    <3>1. queue'[g][t] = queue[g][t] /\ Orderly(queue[g][t], Reads(t), Here(g, t))
      BY <1>11, <2>1 DEF BindingInv, WritesWhereUnbound
    <3> QED
      BY <1>8, <1>9, <2>1, <3>1, OrderlyStill
  <2>2. CASE t = s /\ g # h
    <3>1. queue'[g][s] = queue[g][s] /\ Orderly(queue[g][s], Reads(s), Here(g, s))
      BY <1>11, <2>2 DEF BindingInv, WritesWhereUnbound
    <3>2. CASE status[s] = "closed"
      BY <1>2, <1>9, <2>2, <3>1, <3>2, OrderlyStill
    <3>3. CASE status[s] = "unborn"
      BY <1>2, <2>2, <3>1, <3>3, OrderlyEmpty
    <3> QED
      BY <3>2, <3>3
  <2>3. CASE t = s /\ g = h
    BY <1>8, <1>11, <2>3, OrderlyStill
  <2> QED
    BY <2>1, <2>2, <2>3
<1>15. ASSUME NEW y \in settled'
       PROVE  /\ y.decision.agent => Here(y.host, y.session)'
              /\ y.decision.by # "inherit" =>
                   /\ y.decision.network # NULL
                   /\ status'[y.session] # "gone" => Reads(y.session)' = y.decision.network
  <2>1. CASE y = x
    BY <1>4, <1>8, <2>1
  <2>2. CASE y \in settled
    <3>1. y.host \in Hosts /\ y.session \in Sessions /\ status[y.session] # "unborn"
      BY <2>2, SettledOf
    <3>2. /\ y.decision.agent => Here(y.host, y.session)
          /\ y.decision.by # "inherit" =>
               /\ y.decision.network # NULL
               /\ status[y.session] # "gone" => Reads(y.session) = y.decision.network
      BY <2>2 DEF BindingInv, SettledIsBound
    <3> QED
      BY <1>1, <1>2, <1>6, <1>8, <1>9, <3>1, <3>2
  <2> QED
    BY <1>7, <2>1, <2>2
<1>16. OldIsStored'
  BY <1>6 DEF BindingInv, OldIsStored, Accounted, NoRecord
<1>17. ToldIsKept'
  <2>1. ASSUME NEW t \in Sessions, status'[t] # "gone", NEW n \in told[t] PROVE Reads(t)' = n
    <3>1. CASE t # s \/ status[s] = "closed"
      <4>1. status[t] # "gone"
        BY <1>1, <1>6, <2>1
      <4> QED
        BY <1>9, <2>1, <3>1, <4>1 DEF BindingInv, ToldIsKept, Reads
    <3>2. CASE t = s /\ status[s] = "unborn"
      BY <2>1, <3>2 DEF BindingInv, OldIsStored, Accounted
    <3> QED
      BY <3>1, <3>2
  <2> QED
    BY <2>1 DEF ToldIsKept, Reads
<1>18. MountedIsDurable'
  BY <1>2, <1>9 DEF BindingInv, MountedIsDurable, Reads
<1> QED
  BY <1>12, <1>13, <1>14, <1>15, <1>16, <1>17, <1>18
  DEF BindingInv, PendingInOnePlace, WritesWhereUnbound, SettledIsBound

LEMMA CreateStep ==
  ASSUME BindingInv, NEW h \in Hosts, NEW s \in Sessions, Create(h, s)
  PROVE  BindingInv'
<1>1. {} \in SUBSET Sessions /\ FALSE \in BOOLEAN
  OBVIOUS
<1> QED
  BY <1>1, GoesLiveStep DEF Create, BindingInv, TypeOK

LEMMA ReopenStep ==
  ASSUME BindingInv, NEW h \in Hosts, NEW s \in Sessions, Reopen(h, s)
  PROVE  BindingInv'
<1>1. {} \in SUBSET Sessions /\ (origin[s].parent # NULL) \in BOOLEAN
  OBVIOUS
<1> QED
  BY <1>1, GoesLiveStep DEF Reopen, BindingInv, TypeOK

LEMMA ForkStep ==
  ASSUME BindingInv, NEW h \in Hosts, NEW s \in Sessions, NEW p \in Sessions,
         NEW k \in 0 .. MaxEvents, Fork(h, p, s, k)
  PROVE  BindingInv'
<1>1. TypeOK /\ k \in 0 .. Len(log[p]) /\ log[p] \in Seq(Events) /\ Len(log[p]) <= MaxEvents
  BY DEF BindingInv, TypeOK, Fork
<1> DEFINE q == SubSeq(log[p], 1, k)
<1>2. q \in Seq(Events) /\ Len(q) <= MaxEvents
  <2>1. Len(log[p]) \in Nat /\ 1 \in 1 .. Len(log[p]) + 1 /\ k \in 0 .. Len(log[p])
    BY <1>1, LenProperties
  <2>2. q \in Seq(Events) /\ Len(q) = IF 1 <= k THEN k - 1 + 1 ELSE 0
    BY <1>1, <2>1, SubSeqProperties
  <2> QED
    BY <1>1, <2>1, <2>2, BoundsAreNatural
<1>3. log' = [log EXCEPT ![s] = q]
  BY DEF Fork
<1> HIDE DEF q
<1>4. /\ log' \in [Sessions -> Seq(Events)]
      /\ \A t \in Sessions : Len(log'[t]) <= MaxEvents
      /\ \A t \in Sessions : t # s => log'[t] = log[t]
  BY <1>1, <1>2, <1>3 DEF TypeOK
<1> DEFINE o == [parent |-> p, inheritedEventCount |-> k]
<1>5. o \in [parent : Sessions \cup {NULL}, inheritedEventCount : 0 .. MaxEvents]
  OBVIOUS
<1>6. origin' = [origin EXCEPT ![s] = o]
  BY DEF Fork
<1> HIDE DEF o
<1>7. origin' \in [Sessions -> [parent : Sessions \cup {NULL},
                                  inheritedEventCount : 0 .. MaxEvents]]
  BY <1>1, <1>5, <1>6 DEF TypeOK
<1> DEFINE lost == IF p \in unrestored THEN {s} ELSE {}
<1>8. lost \in SUBSET Sessions /\ TRUE \in BOOLEAN
  OBVIOUS
<1>9. /\ status[s] = "unborn" /\ GoesLive(h, s, TRUE, lost)
      /\ UNCHANGED <<record, stored, mounted, pruning, told>>
  BY DEF Fork
<1> HIDE DEF lost
<1> QED
  BY <1>4, <1>7, <1>8, <1>9, GoesLiveStep

LEMMA LogTurnStep ==
  ASSUME BindingInv, NEW s \in Sessions, LogTurn(s)
  PROVE  BindingInv'
<1> DEFINE e == [kind |-> "turn", network |-> mounted[s]]
<1>1. TypeOK /\ status[s] = "live" /\ Len(log[s]) < MaxEvents /\ log[s] \in Seq(Events)
  BY DEF BindingInv, TypeOK, LogTurn
<1>2. e \in Events /\ e.kind = "turn"
  BY <1>1 DEF TypeOK, Events
<1>3. /\ log' = [log EXCEPT ![s] = Append(log[s], e)] /\ stored' = stored \cup {s}
      /\ UNCHANGED <<record, status, host, origin, mounted, queue, settled, pruning, told>>
      /\ unrestored' \subseteq unrestored \cup {s}
  BY DEF LogTurn
<1> HIDE DEF e
<1>4. Append(log[s], e) \in Seq(Events) /\ Len(Append(log[s], e)) <= MaxEvents
  BY <1>1, <1>2, AppendProperties, LenProperties, BoundsAreNatural
<1>5. /\ log' \in [Sessions -> Seq(Events)]
      /\ \A t \in Sessions : Len(log'[t]) <= MaxEvents
      /\ log'[s] = Append(log[s], e)
      /\ \A t \in Sessions : t # s => log'[t] = log[t]
  BY <1>1, <1>3, <1>4 DEF TypeOK
<1>6. Reads(s)' = Reads(s)
  BY <1>1, <1>2, <1>3, <1>5, ReadsPastTurns
<1>7. \A t \in Sessions : Reads(t)' = Reads(t)
  BY <1>3, <1>5, <1>6, ReadsTheSame
<1>8. TypeOK'
  BY <1>1, <1>3, <1>5 DEF TypeOK
<1>9. PendingInOnePlace'
  BY <1>3 DEF BindingInv, PendingInOnePlace, Pending, Here
<1>10. WritesWhereUnbound'
  BY <1>3, <1>7 DEF BindingInv, WritesWhereUnbound, Here
<1>11. SettledIsBound'
  BY <1>3, <1>7, SettledOf DEF BindingInv, SettledIsBound, Here
<1>12. OldIsStored'
  BY <1>1, <1>3, <1>5 DEF BindingInv, OldIsStored, Accounted
<1>13. ToldIsKept'
  BY <1>3, <1>7 DEF BindingInv, ToldIsKept, Reads
<1>14. MountedIsDurable'
  BY <1>3, <1>7 DEF BindingInv, MountedIsDurable, Reads
<1> QED
  BY <1>8, <1>9, <1>10, <1>11, <1>12, <1>13, <1>14 DEF BindingInv

LEMMA VanishIs ==
  ASSUME TypeOK, NEW V \in SUBSET Sessions, Vanish(V)
  PROVE  /\ log' \in [Sessions -> Seq(Events)]
         /\ \A t \in Sessions : Len(log'[t]) <= MaxEvents
         /\ origin' \in [Sessions -> [parent : Sessions \cup {NULL},
                                      inheritedEventCount : 0 .. MaxEvents]]
         /\ told' \in [Sessions -> SUBSET Networks]
         /\ stored' \subseteq Sessions /\ unrestored' \subseteq Sessions
         /\ stored' = stored \ V
         /\ \A t \in Sessions : IF t \in V THEN log'[t] = <<>> /\ told'[t] = {}
                                ELSE log'[t] = log[t] /\ told'[t] = told[t]
<1>1. <<>> \in Seq(Events) /\ Len(<<>>) <= MaxEvents
  BY BoundsAreNatural, EmptySeq
<1>2. NoOrigin \in [parent : Sessions \cup {NULL}, inheritedEventCount : 0 .. MaxEvents]
  BY BoundsAreNatural DEF NoOrigin
<1>3. /\ log \in [Sessions -> Seq(Events)] /\ \A t \in Sessions : Len(log[t]) <= MaxEvents
      /\ log' = [t \in Sessions |-> IF t \in V THEN <<>> ELSE log[t]]
  BY DEF TypeOK, Vanish
<1>4. /\ log' \in [Sessions -> Seq(Events)]
      /\ \A t \in Sessions : Len(log'[t]) <= MaxEvents
      /\ \A t \in Sessions : log'[t] = IF t \in V THEN <<>> ELSE log[t]
  BY <1>1, <1>3
<1>5. origin' \in [Sessions -> [parent : Sessions \cup {NULL},
                                  inheritedEventCount : 0 .. MaxEvents]]
  BY <1>2 DEF TypeOK, Vanish
<1> QED
  BY <1>4, <1>5 DEF TypeOK, Vanish

\* Sessions S end, and those of V have no log; a session that can be opened again keeps its
\* log.  What is still pending for a session that ends is for no Agent any more.
LEMMA EndingStep ==
  ASSUME BindingInv, NEW S \in SUBSET Sessions, NEW V \in SUBSET S,
         \A t \in S : status[t] \in {"live", "closed"},
         status' \in [Sessions -> {"unborn", "live", "closed", "gone"}],
         host' \in [Sessions -> Hosts \cup {NULL}],
         mounted' \in [Sessions -> Networks \cup {NULL}],
         \A t \in Sessions : IF t \in S
            THEN /\ status'[t] = "gone" \/ (status'[t] = "closed" /\ t \in stored /\ t \notin V)
                 /\ host'[t] = NULL /\ mounted'[t] = NULL
            ELSE status'[t] = status[t] /\ host'[t] = host[t] /\ mounted'[t] = mounted[t],
         Vanish(V), UNCHANGED <<record, pruning>>,
         queue' \in [Hosts -> [Sessions -> Seq(Decisions)]],
         \A g \in Hosts, t \in Sessions : IF t \in S
            THEN queue'[g][t] # <<>> => OneHost /\ Orderly(queue'[g][t], Reads(t), FALSE)
            ELSE queue'[g][t] \in {<<>>, queue[g][t]},
         settled' \subseteq [host : Hosts, session : Sessions, decision : Decisions],
         \A x \in settled' : IF x.session \in S
            THEN /\ OneHost /\ ~x.decision.agent
                 /\ \E y \in settled : /\ y.session = x.session
                                       /\ y.decision.by = x.decision.by
                                       /\ y.decision.network = x.decision.network
            ELSE x \in settled
  PROVE  BindingInv'
<1>1. TypeOK
  BY DEF BindingInv
<1>2. V \in SUBSET Sessions
  OBVIOUS
<1>3. /\ log' \in [Sessions -> Seq(Events)]
      /\ \A t \in Sessions : Len(log'[t]) <= MaxEvents
      /\ origin' \in [Sessions -> [parent : Sessions \cup {NULL},
                                   inheritedEventCount : 0 .. MaxEvents]]
      /\ told' \in [Sessions -> SUBSET Networks]
      /\ stored' \subseteq Sessions /\ unrestored' \subseteq Sessions
      /\ stored' = stored \ V
      /\ \A t \in Sessions : IF t \in V THEN log'[t] = <<>> /\ told'[t] = {}
                             ELSE log'[t] = log[t] /\ told'[t] = told[t]
  BY <1>1, <1>2, VanishIs
<1>4. /\ \A t \in Sessions : t \notin V => Reads(t)' = Reads(t)
      /\ \A t \in Sessions : Reads(t) = NULL => Reads(t)' = NULL
  BY <1>1, <1>3, ReadsTheSame, ReadsNothing
<1>5. TypeOK'
  <2>1. \A t \in Sessions : status'[t] = "live" <=> host'[t] # NULL
    <3>1. \A t \in Sessions : status[t] = "live" <=> host[t] # NULL
      BY <1>1 DEF TypeOK
    <3> QED
      BY <3>1
  <2>2. \A t \in Sessions : mounted'[t] # NULL => status'[t] = "live"
    BY <1>1 DEF TypeOK
  <2> QED
    BY <1>1, <1>3, <2>1, <2>2 DEF TypeOK
<1>6. \A g \in Hosts, t \in Sessions : t \notin S => (Here(g, t)' <=> Here(g, t))
  BY DEF Here
<1>7. ASSUME NEW g \in Hosts, NEW t \in Sessions, Pending(g, t)'
      PROVE  status'[t] # "unborn" /\ (Here(g, t)' \/ OneHost)
  <2>1. CASE t \in S
    <3>1. queue'[g][t] # <<>> \/ \E x \in settled' : x.session = t
      BY <1>7 DEF Pending
    <3>2. CASE queue'[g][t] # <<>>
      BY <2>1, <3>2
    <3>3. ASSUME NEW x \in settled', x.session = t PROVE OneHost
      BY <2>1, <3>3
    <3> QED
      BY <2>1, <3>1, <3>2, <3>3
  <2>2. CASE t \notin S
    <3>1. ASSUME NEW x \in settled', x.host = g, x.session = t
          PROVE  Pending(g, t)
      <4>1. x \in settled
        BY <2>2, <3>1
      <4> QED
        BY <4>1, <3>1 DEF Pending
    <3>2. Pending(g, t)
      <4>1. queue'[g][t] # <<>> \/ \E x \in settled' : x.host = g /\ x.session = t
        BY <1>7 DEF Pending
      <4>2. queue'[g][t] # <<>> => queue[g][t] # <<>>
        BY <2>2
      <4> QED
        BY <4>1, <4>2, <3>1 DEF Pending
    <3> QED
      BY <1>6, <2>2, <3>2 DEF BindingInv, PendingInOnePlace
  <2> QED
    BY <2>1, <2>2
<1>8. ASSUME NEW g \in Hosts, NEW t \in Sessions
      PROVE  Orderly(queue'[g][t], Reads(t)', Here(g, t)')
  <2>1. CASE queue'[g][t] = <<>>
    BY <2>1, OrderlyEmpty
  <2>2. CASE t \in S /\ queue'[g][t] # <<>>
    <3>1. Orderly(queue'[g][t], Reads(t), FALSE) /\ (Reads(t) = NULL => Reads(t)' = NULL)
      BY <1>4, <2>2
    <3> QED
      BY <3>1, OrderlyStill
  <2>3. CASE t \notin S /\ queue'[g][t] # <<>>
    <3>1. queue'[g][t] = queue[g][t] /\ Orderly(queue[g][t], Reads(t), Here(g, t))
      BY <2>3 DEF BindingInv, WritesWhereUnbound
    <3>2. (Reads(t) = NULL => Reads(t)' = NULL) /\ (Here(g, t) => Here(g, t)')
      BY <1>4, <1>6, <2>3
    <3>3. Orderly(queue[g][t], Reads(t)', Here(g, t)')
      BY <3>1, <3>2, OrderlyStill
    <3> QED
      BY <3>1, <3>3
  <2> QED
    BY <2>1, <2>2, <2>3
<1>9. ASSUME NEW x \in settled'
      PROVE  /\ x.decision.agent => Here(x.host, x.session)'
             /\ x.decision.by # "inherit" =>
                  /\ x.decision.network # NULL
                  /\ status'[x.session] # "gone" => Reads(x.session)' = x.decision.network
  <2>1. PICK y \in settled : /\ y.session = x.session /\ y.decision.by = x.decision.by
                             /\ y.decision.network = x.decision.network
                             /\ x.session \notin S => y = x
    <3>1. CASE x.session \in S
      BY <3>1
    <3>2. CASE x.session \notin S
      BY <3>2
    <3> QED
      BY <3>1, <3>2
  <2>2. y.host \in Hosts /\ x.session \in Sessions /\ status[x.session] # "unborn"
    BY <2>1, SettledOf
  <2>3. /\ y.decision.agent => Here(y.host, y.session)
        /\ y.decision.by # "inherit" =>
             /\ y.decision.network # NULL
             /\ status[y.session] # "gone" => Reads(y.session) = y.decision.network
    BY DEF BindingInv, SettledIsBound
  <2>4. x.decision.agent => Here(x.host, x.session)'
    BY <1>6, <2>1, <2>2, <2>3
  <2>5. status'[x.session] # "gone" =>
          status[x.session] # "gone" /\ Reads(x.session)' = Reads(x.session)
    BY <1>4, <2>2
  <2> QED
    BY <2>1, <2>3, <2>4, <2>5
<1>10. ASSUME NEW t \in Sessions PROVE Accounted(t)'
  <2>1. Accounted(t)
    BY DEF BindingInv, OldIsStored
  <2>2. CASE t \in S
    BY <1>3, <2>1, <2>2 DEF Accounted
  <2>3. CASE t \notin S
    <3>1. /\ status'[t] = status[t] /\ log'[t] = log[t] /\ told'[t] = told[t]
          /\ t \in stored => t \in stored'
      BY <1>3, <2>3
    <3> QED
      BY <2>1, <3>1 DEF Accounted
  <2> QED
    BY <2>2, <2>3
<1>11. ASSUME NEW t \in Sessions, status'[t] # "gone", NEW n \in told'[t] PROVE Reads(t)' = n
  <2>1. t \notin V /\ n \in told[t] /\ Reads(t)' = Reads(t) /\ status[t] # "gone"
    BY <1>3, <1>4, <1>11
  <2> QED
    BY <2>1 DEF BindingInv, ToldIsKept, Reads
<1>12. ASSUME NEW t \in Sessions, mounted'[t] # NULL PROVE Reads(t)' = mounted'[t]
  <2>1. t \notin S
    BY <1>12
  <2> QED
    BY <1>4, <1>12, <2>1 DEF BindingInv, MountedIsDurable, Reads
<1> QED
  BY <1>5, <1>7, <1>8, <1>9, <1>10, <1>11, <1>12
  DEF BindingInv, PendingInOnePlace, WritesWhereUnbound, SettledIsBound, OldIsStored,
      ToldIsKept, MountedIsDurable, Reads

\* What End does to the sessions of a host that lose their Agents.
LEMMA EndIs ==
  ASSUME TypeOK, NEW S \in SUBSET Sessions, End(S)
  PROVE  /\ status' \in [Sessions -> {"unborn", "live", "closed", "gone"}]
         /\ host' \in [Sessions -> Hosts \cup {NULL}]
         /\ mounted' \in [Sessions -> Networks \cup {NULL}]
         /\ \A t \in Sessions : IF t \in S
              THEN /\ \/ status'[t] = "gone"
                      \/ status'[t] = "closed" /\ t \in stored /\ t \notin S \ stored
                   /\ host'[t] = NULL /\ mounted'[t] = NULL
              ELSE status'[t] = status[t] /\ host'[t] = host[t] /\ mounted'[t] = mounted[t]
         /\ Vanish(S \ stored)
<1>1. /\ status' = [t \in Sessions |-> IF t \notin S THEN status[t]
                                       ELSE IF t \in stored THEN "closed" ELSE "gone"]
      /\ host' = [t \in Sessions |-> IF t \in S THEN NULL ELSE host[t]]
      /\ mounted' = [t \in Sessions |-> IF t \in S THEN NULL ELSE mounted[t]]
      /\ Vanish(S \ stored)
  BY DEF End, Unmount
<1>2. /\ status \in [Sessions -> {"unborn", "live", "closed", "gone"}]
      /\ host \in [Sessions -> Hosts \cup {NULL}]
      /\ mounted \in [Sessions -> Networks \cup {NULL}]
  BY DEF TypeOK
<1> QED
  BY <1>1, <1>2

\* A session is released.  What is pending for it, if there is only one host, goes on
\* without an Agent.
LEMMA CloseIs ==
  ASSUME BindingInv, Exclusive, NEW s \in Sessions, Close(s)
  PROVE  /\ status[s] = "live" /\ End({s}) /\ UNCHANGED <<record, pruning>>
         /\ queue' \in [Hosts -> [Sessions -> Seq(Decisions)]]
         /\ \A g \in Hosts : queue'[g][s] = Disposed(queue[g][s])
         /\ \A g \in Hosts, t \in Sessions : t # s => queue'[g][t] = queue[g][t]
         /\ \A g \in Hosts : Pending(g, s) => OneHost
         /\ \A x \in settled' : \E y \in settled :
              x = IF y.session = s THEN [y EXCEPT !.decision.agent = FALSE] ELSE y
<1> DEFINE h == host[s]
           q == Disposed(queue[h][s])
<1>1. TypeOK /\ status[s] = "live" /\ End({s}) /\ UNCHANGED <<record, pruning>>
  BY DEF BindingInv, Close
<1>2. h \in Hosts /\ Here(h, s)
  BY <1>1 DEF TypeOK, Here
<1>3. \A g \in Hosts : Pending(g, s) => OneHost
  <2>1. OrderlyRelease => ~Pending(h, s)
    BY DEF Close
  <2> QED
    BY <1>2, <2>1 DEF BindingInv, PendingInOnePlace, Exclusive, Here
<1>4. queue[h][s] \in Seq(Decisions) /\ Orderly(queue[h][s], Reads(s), Here(h, s))
  BY <1>1, <1>2, QueueOf DEF BindingInv, WritesWhereUnbound
<1>5. q \in Seq(Decisions)
  BY <1>4, OrderlyDisposed
<1>6. Replaced(h, s, q)
  BY DEF Close, Replaced, Disposed
<1> HIDE DEF h, q
<1>7. /\ queue' \in [Hosts -> [Sessions -> Seq(Decisions)]] /\ queue'[h][s] = q
      /\ \A g \in Hosts, t \in Sessions : g # h \/ t # s => queue'[g][t] = queue[g][t]
  BY <1>1, <1>2, <1>5, <1>6, QueueSet
<1>8. ASSUME NEW g \in Hosts PROVE queue'[g][s] = Disposed(queue[g][s])
  <2>1. CASE g = h
    BY <1>7, <2>1 DEF q
  <2>2. CASE g # h
    <3>1. queue[g][s] = <<>>
      <4>1. ~OneHost
        BY <1>2, <2>2 DEF OneHost
      <4> QED
        BY <1>3, <4>1 DEF Pending
    <3>2. Disposed(<<>>) = <<>>
      BY DEF Disposed
    <3> QED
      BY <1>7, <2>2, <3>1, <3>2
  <2> QED
    BY <2>1, <2>2
<1>9. \A x \in settled' : \E y \in settled :
         x = IF y.session = s THEN [y EXCEPT !.decision.agent = FALSE] ELSE y
  <2>1. settled' = { IF y.session = s THEN [y EXCEPT !.decision.agent = FALSE] ELSE y :
                     y \in settled }
    BY DEF Close
  <2> QED
    BY <2>1
<1> QED
  BY <1>1, <1>3, <1>7, <1>8, <1>9

\* Of what has settled for a session that ends.
LEMMA WithoutAgent ==
  ASSUME TypeOK, NEW y \in settled
  PROVE  /\ [y EXCEPT !.decision.agent = FALSE]
              \in [host : Hosts, session : Sessions, decision : Decisions]
         /\ [y EXCEPT !.decision.agent = FALSE].host = y.host
         /\ [y EXCEPT !.decision.agent = FALSE].session = y.session
         /\ [y EXCEPT !.decision.agent = FALSE].decision.agent = FALSE
         /\ [y EXCEPT !.decision.agent = FALSE].decision.by = y.decision.by
         /\ [y EXCEPT !.decision.agent = FALSE].decision.network = y.decision.network
<1>1. y \in [host : Hosts, session : Sessions, decision : Decisions]
  BY DEF TypeOK
<1> QED
  BY <1>1 DEF Decisions

LEMMA CloseStep ==
  ASSUME BindingInv, Exclusive, NEW s \in Sessions, Close(s)
  PROVE  BindingInv'
<1>1. /\ TypeOK /\ status[s] = "live" /\ End({s}) /\ UNCHANGED <<record, pruning>>
      /\ queue' \in [Hosts -> [Sessions -> Seq(Decisions)]]
      /\ \A g \in Hosts : queue'[g][s] = Disposed(queue[g][s])
      /\ \A g \in Hosts, t \in Sessions : t # s => queue'[g][t] = queue[g][t]
      /\ \A g \in Hosts : Pending(g, s) => OneHost
      /\ \A x \in settled' : \E y \in settled :
           x = IF y.session = s THEN [y EXCEPT !.decision.agent = FALSE] ELSE y
  BY CloseIs DEF BindingInv
<1>2. ASSUME NEW g \in Hosts, queue'[g][s] # <<>>
      PROVE  OneHost /\ Orderly(queue'[g][s], Reads(s), FALSE)
  <2>1. queue[g][s] \in Seq(Decisions) /\ Orderly(queue[g][s], Reads(s), Here(g, s))
    BY <1>1, QueueOf DEF BindingInv, WritesWhereUnbound
  <2>2. queue[g][s] # <<>> /\ Orderly(queue'[g][s], Reads(s), FALSE)
    BY <1>1, <1>2, <2>1, OrderlyDisposed
  <2> QED
    BY <1>1, <2>2 DEF Pending
<1>3. ASSUME NEW x \in settled'
      PROVE  /\ x \in [host : Hosts, session : Sessions, decision : Decisions]
             /\ IF x.session = s
                THEN /\ OneHost /\ ~x.decision.agent
                     /\ \E y \in settled : /\ y.session = x.session
                                           /\ y.decision.by = x.decision.by
                                           /\ y.decision.network = x.decision.network
                ELSE x \in settled
  <2>1. PICK y \in settled :
          x = IF y.session = s THEN [y EXCEPT !.decision.agent = FALSE] ELSE y
    BY <1>1
  <2>2. y \in [host : Hosts, session : Sessions, decision : Decisions]
    BY <1>1 DEF TypeOK
  <2>3. CASE y.session = s
    <3>1. OneHost
      BY <1>1, <2>2, <2>3 DEF Pending
    <3>2. x = [y EXCEPT !.decision.agent = FALSE]
      BY <2>1, <2>3
    <3> QED
      BY <1>1, <2>3, <3>1, <3>2, WithoutAgent
  <2>4. CASE y.session # s
    BY <2>1, <2>2, <2>4
  <2> QED
    BY <2>3, <2>4
<1> DEFINE S == {s}
<1>4. S \in SUBSET Sessions /\ S \ stored \in SUBSET S /\ \A t : t \in S <=> t = s
  OBVIOUS
<1>5. End(S)
  BY <1>1
<1> HIDE DEF S
<1>6. /\ status' \in [Sessions -> {"unborn", "live", "closed", "gone"}]
      /\ host' \in [Sessions -> Hosts \cup {NULL}]
      /\ mounted' \in [Sessions -> Networks \cup {NULL}]
      /\ \A t \in Sessions : IF t \in S
           THEN /\ \/ status'[t] = "gone"
                   \/ status'[t] = "closed" /\ t \in stored /\ t \notin S \ stored
                /\ host'[t] = NULL /\ mounted'[t] = NULL
           ELSE status'[t] = status[t] /\ host'[t] = host[t] /\ mounted'[t] = mounted[t]
      /\ Vanish(S \ stored)
  BY <1>1, <1>4, <1>5, EndIs
<1>7. /\ \A g \in Hosts, t \in Sessions : IF t \in S
           THEN queue'[g][t] # <<>> => OneHost /\ Orderly(queue'[g][t], Reads(t), FALSE)
           ELSE queue'[g][t] \in {<<>>, queue[g][t]}
      /\ \A t \in S : status[t] \in {"live", "closed"}
  BY <1>1, <1>2, <1>4
<1>8. /\ settled' \subseteq [host : Hosts, session : Sessions, decision : Decisions]
      /\ \A x \in settled' : IF x.session \in S
           THEN /\ OneHost /\ ~x.decision.agent
                /\ \E y \in settled : /\ y.session = x.session
                                      /\ y.decision.by = x.decision.by
                                      /\ y.decision.network = x.decision.network
           ELSE x \in settled
  BY <1>3, <1>4
<1> QED
  BY <1>1, <1>4, <1>6, <1>7, <1>8, EndingStep

\* A host that dies takes what is pending for its sessions with it, and nothing else.
LEMMA CrashIs ==
  ASSUME BindingInv, NEW h \in Hosts, Crash(h)
  PROVE  /\ End(Live(h)) /\ UNCHANGED <<record, pruning>>
         /\ queue' \in [Hosts -> [Sessions -> Seq(Decisions)]]
         /\ \A t \in Sessions : t \in Live(h) <=> Here(h, t)
         /\ \A t \in Live(h) : t \in Sessions /\ status[t] = "live"
         /\ \A g \in Hosts, t \in Sessions :
              queue'[g][t] = IF g = h \/ t \in Live(h) THEN <<>> ELSE queue[g][t]
         /\ settled' \subseteq settled /\ \A x \in settled' : x.session \notin Live(h)
<1> DEFINE S == Live(h)
<1>1. TypeOK /\ End(S) /\ UNCHANGED <<record, pruning>>
  BY DEF BindingInv, Crash
<1>2. S \in SUBSET Sessions /\ \A t \in Sessions : t \in S <=> Here(h, t)
  BY DEF Live, Here
<1>3. \A t \in S : status[t] = "live"
  BY <1>1, <1>2, NullIsNoNetwork DEF TypeOK, Here
<1>4. queue \in [Hosts -> [Sessions -> Seq(Decisions)]]
  BY <1>1 DEF TypeOK
<1>5. queue' = [queue EXCEPT ![h] = [t \in Sessions |-> <<>>]]
  BY DEF Crash
<1>6. queue' \in [Hosts -> [Sessions -> Seq(Decisions)]]
  BY <1>4, <1>5
<1>7. \A g \in Hosts, t \in Sessions : g # h /\ Here(h, t) => ~(Here(g, t) \/ OneHost)
  BY DEF Here, OneHost
<1> HIDE DEF S
<1>8. ASSUME NEW g \in Hosts, NEW t \in Sessions
      PROVE  queue'[g][t] = IF g = h \/ t \in S THEN <<>> ELSE queue[g][t]
  <2>1. queue[g][t] # <<>> => Here(g, t) \/ OneHost
    BY QueuedOf
  <2>2. CASE g = h
    BY <1>4, <1>5, <2>2
  <2>3. CASE g # h
    BY <1>2, <1>4, <1>5, <1>7, <2>1, <2>3
  <2> QED
    BY <2>2, <2>3
<1>9. settled' \subseteq settled /\ \A x \in settled' : x.session \notin S
  <2>1. settled' = { x \in settled : x.host # h }
    BY DEF Crash
  <2> QED
    BY <1>2, <1>7, <2>1, SettledOf
<1> QED
  BY <1>1, <1>2, <1>3, <1>6, <1>8, <1>9 DEF S

LEMMA CrashStep ==
  ASSUME BindingInv, NEW h \in Hosts, Crash(h)
  PROVE  BindingInv'
<1> DEFINE S == Live(h)
<1>1. /\ TypeOK /\ End(S) /\ UNCHANGED <<record, pruning>>
      /\ queue' \in [Hosts -> [Sessions -> Seq(Decisions)]]
      /\ \A t \in S : t \in Sessions /\ status[t] = "live"
      /\ \A g \in Hosts, t \in Sessions :
           queue'[g][t] = IF g = h \/ t \in S THEN <<>> ELSE queue[g][t]
      /\ settled' \subseteq settled /\ \A x \in settled' : x.session \notin S
  BY CrashIs DEF BindingInv
<1> HIDE DEF S
<1>2. S \in SUBSET Sessions /\ S \ stored \in SUBSET S
  BY <1>1
<1>3. /\ status' \in [Sessions -> {"unborn", "live", "closed", "gone"}]
      /\ host' \in [Sessions -> Hosts \cup {NULL}]
      /\ mounted' \in [Sessions -> Networks \cup {NULL}]
      /\ \A t \in Sessions : IF t \in S
           THEN /\ \/ status'[t] = "gone"
                   \/ status'[t] = "closed" /\ t \in stored /\ t \notin S \ stored
                /\ host'[t] = NULL /\ mounted'[t] = NULL
           ELSE status'[t] = status[t] /\ host'[t] = host[t] /\ mounted'[t] = mounted[t]
      /\ Vanish(S \ stored)
  BY <1>1, <1>2, EndIs
<1>4. settled' \subseteq [host : Hosts, session : Sessions, decision : Decisions]
  BY <1>1 DEF TypeOK
<1>5. \A g \in Hosts, t \in Sessions : IF t \in S
        THEN queue'[g][t] # <<>> => OneHost /\ Orderly(queue'[g][t], Reads(t), FALSE)
        ELSE queue'[g][t] \in {<<>>, queue[g][t]}
  BY <1>1
<1>6. \A x \in settled' : IF x.session \in S
        THEN /\ OneHost /\ ~x.decision.agent
             /\ \E y \in settled : /\ y.session = x.session
                                   /\ y.decision.by = x.decision.by
                                   /\ y.decision.network = x.decision.network
        ELSE x \in settled
  BY <1>1
<1>7. \A t \in S : status[t] \in {"live", "closed"}
  BY <1>1
<1> QED
  BY <1>1, <1>2, <1>3, <1>4, <1>5, <1>6, <1>7, EndingStep

LEMMA RemoveLogStep ==
  ASSUME BindingInv, NEW s \in Sessions, RemoveLog(s)
  PROVE  BindingInv'
<1>1. /\ TypeOK /\ status[s] = "closed" /\ status' = [status EXCEPT ![s] = "gone"] /\ Vanish({s})
      /\ UNCHANGED <<record, host, mounted, queue, settled, pruning>>
  BY DEF BindingInv, RemoveLog
<1>2. host[s] = NULL /\ mounted[s] = NULL /\ \A g \in Hosts : ~Here(g, s)
  BY <1>1, NotLive
<1>3. /\ status' \in [Sessions -> {"unborn", "live", "closed", "gone"}] /\ status'[s] = "gone"
      /\ host' \in [Sessions -> Hosts \cup {NULL}]
      /\ mounted' \in [Sessions -> Networks \cup {NULL}]
      /\ queue' \in [Hosts -> [Sessions -> Seq(Decisions)]]
      /\ settled' \subseteq [host : Hosts, session : Sessions, decision : Decisions]
      /\ \A t \in Sessions : t # s => status'[t] = status[t]
  BY <1>1 DEF TypeOK
<1> DEFINE S == {s}
<1>4. S \in SUBSET Sessions /\ S \in SUBSET S /\ \A t : t \in S <=> t = s
  OBVIOUS
<1>5. Vanish(S)
  BY <1>1
<1> HIDE DEF S
<1>6. ASSUME NEW g \in Hosts, queue[g][s] # <<>>
      PROVE  OneHost /\ Orderly(queue[g][s], Reads(s), FALSE)
  <2>1. OneHost
    BY <1>2, <1>6, QueuedOf
  <2>2. Orderly(queue[g][s], Reads(s), Here(g, s)) /\ (Here(g, s) => FALSE)
    BY <1>2 DEF BindingInv, WritesWhereUnbound
  <2>3. Orderly(queue[g][s], Reads(s), FALSE)
    BY <2>2 DEF Orderly
  <2> QED
    BY <2>1, <2>3
<1>7. \A g \in Hosts, t \in Sessions : IF t \in S
        THEN queue'[g][t] # <<>> => OneHost /\ Orderly(queue'[g][t], Reads(t), FALSE)
        ELSE queue'[g][t] \in {<<>>, queue[g][t]}
  <2>1. ASSUME NEW g \in Hosts, NEW t \in Sessions, t = s, queue'[g][t] # <<>>
        PROVE  OneHost /\ Orderly(queue'[g][t], Reads(t), FALSE)
    <3>1. queue'[g][t] = queue[g][s]
      BY <1>1, <2>1
    <3>2. OneHost /\ Orderly(queue[g][s], Reads(s), FALSE)
      BY <1>6, <2>1, <3>1
    <3> QED
      BY <2>1, <3>1, <3>2
  <2> QED
    BY <1>1, <1>4, <2>1
<1>8. \A x \in settled' : IF x.session \in S
        THEN /\ OneHost /\ ~x.decision.agent
             /\ \E y \in settled : /\ y.session = x.session
                                   /\ y.decision.by = x.decision.by
                                   /\ y.decision.network = x.decision.network
        ELSE x \in settled
  BY <1>1, <1>2, <1>4, SettledOf
<1>9. /\ \A t \in S : status[t] \in {"live", "closed"}
      /\ \A t \in Sessions : IF t \in S
           THEN status'[t] = "gone" /\ host'[t] = NULL /\ mounted'[t] = NULL
           ELSE status'[t] = status[t] /\ host'[t] = host[t] /\ mounted'[t] = mounted[t]
  BY <1>1, <1>2, <1>3, <1>4
<1> QED
  BY <1>1, <1>3, <1>4, <1>5, <1>7, <1>8, <1>9, EndingStep

\* The owner is replaced while nothing of its host is pending: its sessions lose what was
\* mounted, and wait to be restored.
LEMMA ReloadStep ==
  ASSUME BindingInv, NEW h \in Hosts, Reload(h)
  PROVE  BindingInv'
<1> DEFINE d == Decision("inherit", NULL)
           q == [t \in Sessions |-> IF t \in Live(h) /\ origin[t].parent # NULL
                                    THEN <<d>> ELSE <<>>]
           new == { Caller(h, t, d) : t \in { u \in Live(h) : origin[u].parent = NULL } }
<1>1. /\ TypeOK /\ \A t \in Sessions : ~Pending(h, t)
      /\ queue' = [queue EXCEPT ![h] = q] /\ settled' = settled \cup new /\ Unmount(Live(h))
      /\ UNCHANGED <<record, dsh, pruning, told, unrestored>>
  BY DEF BindingInv, Reload
<1>2. \A t \in Sessions : /\ t \in Live(h) <=> Here(h, t)
                          /\ Here(h, t) => status[t] # "unborn"
  BY <1>1, NullIsNoNetwork DEF Live, Here, TypeOK
<1>3. d \in Decisions /\ ~Writing(d) /\ d.by = "inherit"
  BY DecisionTypes
<1>4. \A y \in new : /\ y \in [host : Hosts, session : Sessions, decision : Decisions]
                     /\ y.host = h /\ Here(h, y.session) /\ y.decision.by = "inherit"
  <2>1. ASSUME NEW t \in Sessions, Here(h, t)
        PROVE  /\ Caller(h, t, d) \in [host : Hosts, session : Sessions, decision : Decisions]
               /\ Caller(h, t, d).host = h /\ Here(h, Caller(h, t, d).session)
               /\ Caller(h, t, d).decision.by = "inherit"
    BY <1>3, <2>1, CallerOf
  <2> QED
    BY <2>1 DEF Live, Here
<1>5. ASSUME NEW b, NEW a, a PROVE Orderly(<<d>>, b, a)
  <2>1. DOMAIN <<d>> = {1} /\ <<d>>[1] = d
    OBVIOUS
  <2> HIDE DEF d
  <2> QED
    BY <1>3, <1>5, <2>1 DEF Orderly
<1>6. \A t \in Sessions : /\ q[t] = <<>> \/ (q[t] = <<d>> /\ Here(h, t))
                          /\ q[t] \in Seq(Decisions)
  <2>1. <<d>> \in Seq(Decisions) /\ <<>> \in Seq(Decisions)
    BY <1>3
  <2> HIDE DEF d
  <2> QED
    BY <1>2, <2>1
<1>7. q \in [Sessions -> Seq(Decisions)]
  BY <1>6
<1> HIDE DEF d, q, new
<1>8. /\ queue' \in [Hosts -> [Sessions -> Seq(Decisions)]] /\ queue'[h] = q
      /\ \A g \in Hosts : g # h => queue'[g] = queue[g]
  BY <1>1, <1>7 DEF TypeOK
<1>9. \A t \in Sessions : Reads(t)' = Reads(t)
  BY <1>1, ReadsTheSame DEF dsh
<1>10. /\ mounted' \in [Sessions -> Networks \cup {NULL}]
       /\ \A t \in Sessions : mounted'[t] = NULL \/ mounted'[t] = mounted[t]
  BY <1>1 DEF Unmount, TypeOK
<1>11. TypeOK'
  <2>1. settled' \subseteq [host : Hosts, session : Sessions, decision : Decisions]
    BY <1>1, <1>4 DEF TypeOK
  <2>2. \A t \in Sessions : mounted'[t] # NULL => status[t] = "live"
    BY <1>1, <1>10 DEF TypeOK
  <2> QED
    BY <1>1, <1>8, <1>10, <2>1, <2>2 DEF TypeOK, dsh
<1>12. \A g \in Hosts, t \in Sessions : (Here(g, t)' <=> Here(g, t)) /\ status' = status
  BY <1>1 DEF dsh, Here
<1>13. ASSUME NEW g \in Hosts, NEW t \in Sessions, Pending(g, t)'
       PROVE  status'[t] # "unborn" /\ (Here(g, t)' \/ OneHost)
  <2>1. CASE \E y \in new : y.host = g /\ y.session = t
    BY <1>2, <1>4, <1>12, <2>1
  <2>2. CASE \E y \in settled : y.host = g /\ y.session = t
    BY <1>12, <2>2, SettledOf
  <2>3. CASE queue'[g][t] # <<>>
    <3>1. CASE g = h
      BY <1>2, <1>6, <1>8, <1>12, <2>3, <3>1
    <3>2. CASE g # h
      BY <1>8, <1>12, <2>3, <3>2, QueuedOf
    <3> QED
      BY <3>1, <3>2
  <2> QED
    BY <1>1, <1>13, <2>1, <2>2, <2>3 DEF Pending
<1>14. ASSUME NEW g \in Hosts, NEW t \in Sessions
       PROVE  Orderly(queue'[g][t], Reads(t)', Here(g, t)')
  <2>1. CASE g = h
    <3>1. CASE q[t] = <<>>
      BY <1>8, <2>1, <3>1, OrderlyEmpty
    <3>2. CASE q[t] = <<d>> /\ Here(h, t)
      BY <1>5, <1>8, <1>12, <2>1, <3>2
    <3> QED
      BY <1>6, <3>1, <3>2
  <2>2. CASE g # h
    <3>1. queue'[g][t] = queue[g][t] /\ Orderly(queue[g][t], Reads(t), Here(g, t))
      BY <1>8, <2>2 DEF BindingInv, WritesWhereUnbound
    <3> QED
      BY <1>9, <1>12, <3>1, OrderlyStill
  <2> QED
    BY <2>1, <2>2
<1>15. ASSUME NEW y \in settled'
       PROVE  /\ y.decision.agent => Here(y.host, y.session)'
              /\ y.decision.by # "inherit" =>
                   /\ y.decision.network # NULL
                   /\ status'[y.session] # "gone" => Reads(y.session)' = y.decision.network
  <2>1. CASE y \in new
    BY <1>4, <1>12, <2>1
  <2>2. CASE y \in settled
    <3>1. y.host \in Hosts /\ y.session \in Sessions
      BY <2>2, SettledOf
    <3>2. /\ y.decision.agent => Here(y.host, y.session)
          /\ y.decision.by # "inherit" =>
               /\ y.decision.network # NULL
               /\ status[y.session] # "gone" => Reads(y.session) = y.decision.network
      BY <2>2 DEF BindingInv, SettledIsBound
    <3> QED
      BY <1>9, <1>12, <3>1, <3>2
  <2> QED
    BY <1>1, <2>1, <2>2
<1>16. OldIsStored'
  BY <1>1 DEF BindingInv, OldIsStored, Accounted, dsh
<1>17. ToldIsKept'
  BY <1>1, <1>9 DEF BindingInv, ToldIsKept, dsh, Reads
<1>18. MountedIsDurable'
  BY <1>9, <1>10 DEF BindingInv, MountedIsDurable, Reads
<1> QED
  BY <1>11, <1>13, <1>14, <1>15, <1>16, <1>17, <1>18
  DEF BindingInv, PendingInOnePlace, WritesWhereUnbound, SettledIsBound

------------------------------------------------------------------------------
(* Orphan records. *)

\* Steps of the cleanup leave what is read of every session that still exists.
LEMMA RecordSteps ==
  ASSUME BindingInv, UNCHANGED <<dsh, mounted, queue, settled, told, unrestored>>,
         record' \in [Sessions -> Record], pruning' \subseteq Sessions,
         \A t \in Sessions : \/ record'[t].network = record[t].network
                             \/ status[t] = "gone" /\ record'[t].network = NULL,
         \A t \in Sessions : Accounted(t)'
  PROVE  BindingInv'
<1>1. TypeOK'
  BY DEF BindingInv, TypeOK, dsh
<1>2. /\ \A t \in Sessions : status[t] # "gone" => Reads(t)' = Reads(t)
      /\ \A t \in Sessions : Reads(t) = NULL => Reads(t)' = NULL
  BY ReadsTheSame, ReadsNothing DEF dsh, BindingInv
<1>3. PendingInOnePlace'
  BY DEF BindingInv, PendingInOnePlace, Pending, Here, dsh
<1>4. ASSUME NEW g \in Hosts, NEW t \in Sessions
      PROVE  Orderly(queue'[g][t], Reads(t)', Here(g, t)')
  <2>1. Here(g, t)' <=> Here(g, t)
    BY DEF Here, dsh
  <2>2. Orderly(queue[g][t], Reads(t), Here(g, t))
    BY DEF BindingInv, WritesWhereUnbound
  <2> QED
    BY <1>2, <2>1, <2>2, OrderlyStill
<1>5. SettledIsBound'
  <2>1. \A x \in settled : x.host \in Hosts /\ x.session \in Sessions
    BY SettledOf
  <2> QED
    BY <1>2, <2>1 DEF BindingInv, SettledIsBound, Here, dsh
<1>6. ToldIsKept'
  BY <1>2 DEF BindingInv, ToldIsKept, dsh, Reads
<1>7. ASSUME NEW t \in Sessions, mounted'[t] # NULL PROVE Reads(t)' = mounted'[t]
  <2>1. status[t] = "live"
    BY <1>7 DEF BindingInv, TypeOK
  <2> QED
    BY <1>2, <1>7, <2>1 DEF BindingInv, MountedIsDurable, Reads
<1> QED
  BY <1>1, <1>3, <1>4, <1>5, <1>6, <1>7
  DEF BindingInv, WritesWhereUnbound, OldIsStored, MountedIsDurable, Reads

LEMMA AgeStep ==
  ASSUME BindingInv, NEW s \in Sessions, Age(s)
  PROVE  BindingInv'
<1>1. /\ TypeOK /\ record[s] # NoRecord /\ (status[s] = "live" => s \in stored)
      /\ record' = [record EXCEPT ![s] = [record[s] EXCEPT !.old = TRUE]]
      /\ UNCHANGED <<dsh, mounted, pruning, queue, settled, told, unrestored>>
  BY DEF BindingInv, Age
<1>2. /\ [record[s] EXCEPT !.old = TRUE] \in Record
      /\ [record[s] EXCEPT !.old = TRUE].network = record[s].network
  <2>1. record[s] \in Record
    BY <1>1 DEF TypeOK
  <2> QED
    BY <2>1 DEF Record
<1>3. /\ record' \in [Sessions -> Record]
      /\ \A t \in Sessions : record'[t].network = record[t].network
      /\ \A t \in Sessions : t # s => record'[t] = record[t]
  BY <1>1, <1>2 DEF TypeOK
<1>4. ASSUME NEW t \in Sessions PROVE Accounted(t)'
  <2>1. Accounted(t)
    BY DEF BindingInv, OldIsStored
  <2>2. CASE t # s
    BY <1>1, <1>3, <2>1, <2>2 DEF Accounted, dsh
  <2>3. CASE t = s
    <3>1. status[s] # "unborn"
      BY <1>1, <2>1, <2>3 DEF Accounted
    <3>2. status[s] = "gone" \/ s \in stored
      BY <1>1, <2>1, <2>3, <3>1 DEF Accounted, TypeOK
    <3> QED
      BY <1>1, <2>1, <2>3, <3>1, <3>2 DEF Accounted, dsh
  <2> QED
    BY <2>2, <2>3
<1> QED
  BY <1>1, <1>3, <1>4, RecordSteps DEF TypeOK

LEMMA PruneLookStep ==
  ASSUME BindingInv, NEW h \in Hosts, NEW s \in Sessions, PruneLook(h, s)
  PROVE  BindingInv'
<1>1. /\ record[s].old /\ s \notin stored /\ pruning' = pruning \cup {s}
      /\ UNCHANGED <<record, dsh, mounted, queue, settled, told, unrestored>>
  BY DEF PruneLook, Orphan, Exists
<1>2. \A t \in Sessions : Accounted(t)'
  BY <1>1 DEF BindingInv, OldIsStored, Accounted, dsh
<1> QED
  BY <1>1, <1>2, RecordSteps DEF BindingInv, TypeOK

LEMMA PruneRemoveStep ==
  ASSUME BindingInv, NEW s \in Sessions, PruneRemove(s)
  PROVE  BindingInv'
<1>1. /\ TypeOK /\ s \in pruning /\ pruning' = pruning \ {s}
      /\ record' = [record EXCEPT ![s] = NoRecord]
      /\ UNCHANGED <<dsh, mounted, queue, settled, told, unrestored>>
  BY DEF BindingInv, PruneRemove
<1>2. status[s] = "gone"
  BY <1>1 DEF BindingInv, OldIsStored, Accounted
<1>3. /\ record' \in [Sessions -> Record] /\ record'[s] = NoRecord /\ NoRecord.network = NULL
      /\ \A t \in Sessions : t # s => record'[t] = record[t]
  BY <1>1, DecisionTypes DEF TypeOK, NoRecord
<1>4. \A t \in Sessions : Accounted(t)'
  BY <1>1, <1>2, <1>3 DEF BindingInv, OldIsStored, Accounted, dsh
<1> QED
  BY <1>1, <1>2, <1>3, <1>4, RecordSteps DEF TypeOK

------------------------------------------------------------------------------
(* The invariant holds. *)

LEMMA BindingInitially == Init => BindingInv
<1> SUFFICES ASSUME Init PROVE BindingInv
  OBVIOUS
<1>1. /\ status \in [Sessions -> {"unborn", "closed"}]
      /\ stored = { s \in Sessions : status[s] = "closed" }
      /\ host = [s \in Sessions |-> NULL] /\ mounted = [s \in Sessions |-> NULL]
      /\ settled = {} /\ pruning = {} /\ unrestored = {}
      /\ told = [s \in Sessions |-> {}]
      /\ queue = [h \in Hosts |-> [s \in Sessions |-> <<>>]]
      /\ origin = [s \in Sessions |-> NoOrigin]
      /\ \A s \in Sessions : status[s] = "unborn" => log[s] = <<>> /\ record[s] = NoRecord
  BY DEF Init
<1>2. \A n \in Networks : NewRecord(n, 0) \in Record /\ ~NewRecord(n, 0).old
  BY BoundsAreNatural DEF NewRecord, Record
<1>3. record \in [Sessions -> Record] /\ \A s \in Sessions : ~record[s].old
  <2>1. NoRecord \in Record /\ ~NoRecord.old
    BY DecisionTypes DEF NoRecord
  <2> QED
    BY <1>2, <2>1 DEF Init
<1>4. \A n \in Networks : /\ <<[kind |-> "bound", network |-> n]>> \in Seq(Events)
                          /\ Len(<<[kind |-> "bound", network |-> n]>>) <= MaxEvents
  BY BoundsAreNatural DEF Events
<1>5. <<>> \in Seq(Events) /\ Len(<<>>) <= MaxEvents
  BY BoundsAreNatural, EmptySeq
<1>6. log \in [Sessions -> Seq(Events)] /\ \A s \in Sessions : Len(log[s]) <= MaxEvents
  <2> DEFINE firsts == { <<[kind |-> "bound", network |-> n]>> : n \in Networks }
  <2>1. \A e \in {<<>>} \cup firsts : e \in Seq(Events) /\ Len(e) <= MaxEvents
    BY <1>4, <1>5
  <2>2. log \in [Sessions -> {<<>>} \cup firsts]
    BY DEF Init
  <2> HIDE DEF firsts
  <2> QED
    BY <2>1, <2>2
<1>7. queue \in [Hosts -> [Sessions -> Seq(Decisions)]]
      /\ \A h \in Hosts, s \in Sessions : queue[h][s] = <<>>
  <2>1. <<>> \in Seq(Decisions)
    OBVIOUS
  <2> QED
    BY <1>1, <2>1
<1>8. origin \in [Sessions -> [parent : Sessions \cup {NULL}, inheritedEventCount : 0 .. MaxEvents]]
  BY <1>1, BoundsAreNatural DEF NoOrigin
<1>9. TypeOK
  BY <1>1, <1>3, <1>6, <1>7, <1>8 DEF TypeOK
<1>10. PendingInOnePlace
  BY <1>1, <1>7 DEF PendingInOnePlace, Pending
<1>11. WritesWhereUnbound
  BY <1>7, OrderlyEmpty DEF WritesWhereUnbound
<1>12. SettledIsBound
  BY <1>1 DEF SettledIsBound
<1>13. OldIsStored
  BY <1>1, <1>3 DEF OldIsStored, Accounted
<1>14. ToldIsKept /\ MountedIsDurable
  BY <1>1 DEF ToldIsKept, MountedIsDurable
<1> QED
  BY <1>9, <1>10, <1>11, <1>12, <1>13, <1>14 DEF BindingInv

LEMMA BindingSteps ==
  ASSUME Exclusive, BindingInv, [Next]_vars
  PROVE  BindingInv'
<1>1. CASE UNCHANGED vars
  <2>1. \A t \in Sessions : Accounted(t)'
    BY <1>1 DEF BindingInv, OldIsStored, Accounted, vars
  <2> QED
    BY <1>1, <2>1, RecordSteps DEF vars, dsh, BindingInv, TypeOK
<1>2. ASSUME NEW h \in Hosts, NEW s \in Sessions,
             \/ Create(h, s) \/ Reopen(h, s)
             \/ \E p \in Sessions, k \in 0 .. MaxEvents : Fork(h, p, s, k)
             \/ \E n \in Networks : UserBind(h, s, n)
             \/ Decide(h, s) \/ WriteDone(h, s) \/ WriteFails(h, s) \/ PruneLook(h, s)
      PROVE  BindingInv'
  BY <1>2, CreateStep, ReopenStep, ForkStep, UserBindStep, DecideStep, WriteDoneStep,
     WriteFailsStep, PruneLookStep
<1>3. ASSUME NEW h \in Hosts, Crash(h) \/ Reload(h) PROVE BindingInv'
  BY <1>3, CrashStep, ReloadStep
<1>4. ASSUME NEW s \in Sessions,
             LogTurn(s) \/ Close(s) \/ RemoveLog(s) \/ Age(s) \/ PruneRemove(s)
      PROVE  BindingInv'
  BY <1>4, LogTurnStep, CloseStep, RemoveLogStep, AgeStep, PruneRemoveStep
<1>5. ASSUME NEW x \in settled, Continue(x) PROVE BindingInv'
  BY <1>5, BindContinuesStep, RestoreContinuesStep DEF Continue
<1> QED
  BY <1>1, <1>2, <1>3, <1>4, <1>5 DEF Next

LEMMA BindingInvariant ==
  ASSUME Exclusive
  PROVE  Spec => []BindingInv
<1>1. BindingInv /\ [Next]_vars => BindingInv'
  BY BindingSteps
<1> QED
  BY <1>1, BindingInitially, PTL DEF Spec

------------------------------------------------------------------------------
(* The theorems. *)

\* The store, the queues and the sessions keep their types, and only live sessions have a
\* host or tools, for any hosts that share a DSH home.
THEOREM BindingTypes ==
  ASSUME Exclusive
  PROVE  Spec => []TypeOK
<1>1. BindingInv => TypeOK
  BY DEF BindingInv
<1> QED
  BY <1>1, BindingInvariant, PTL

\* A bind that was reported is never taken back, for any decisions, forks and crashes.
THEOREM BindIsKept ==
  ASSUME Exclusive
  PROVE  Spec => []ToldIsKept
<1>1. BindingInv => ToldIsKept
  BY DEF BindingInv
<1> QED
  BY <1>1, BindingInvariant, PTL

\* What a live session's tools reach is what its durable record names.
THEOREM ToolsFollowTheRecord ==
  ASSUME Exclusive
  PROVE  Spec => []MountedIsDurable
<1>1. BindingInv => MountedIsDurable
  BY DEF BindingInv
<1> QED
  BY <1>1, BindingInvariant, PTL

------------------------------------------------------------------------------
(* One immutable binding per session: what the steps are to ImmutableBinding. *)

Gone == { s \in Sessions : status[s] = "gone" }

\* What is bound, of a session that exists and is not in conflict.
LEMMA BoundIs ==
  ASSUME TypeOK
  PROVE  /\ Bound \in [Sessions -> Networks \cup {NULL}]
         /\ \A t \in Sessions :
              /\ status[t] # "gone" /\ Reads(t) # "conflict" => Bound[t] = Reads(t)
              /\ status[t] = "gone" \/ Reads(t) = "conflict" => Bound[t] = NULL
<1>1. \A t \in Sessions : Reads(t) \in Networks \cup {NULL, "conflict"}
  BY ReadsTypes
<1> QED
  BY <1>1 DEF Bound, Reads

\* After a step as before it, what is bound is a network or nothing.
LEMMA BoundNext == (TypeOK => Bound \in [Sessions -> Networks \cup {NULL}])'
<1>1. TypeOK => Bound \in [Sessions -> Networks \cup {NULL}]
  BY BoundIs
<1> QED
  BY <1>1, PTL

LEMMA BoundTheSame ==
  ASSUME NEW t \in Sessions, status[t] = "gone" <=> status'[t] = "gone",
         status[t] # "gone" => Reads(t)' = Reads(t)
  PROVE  Bound'[t] = Bound[t]
BY DEF Bound, Reads

\* Nothing is bound, mounted or lost.
LEMMA AbstractStutter ==
  ASSUME \A t \in Sessions : status[t] = "gone" <=> status'[t] = "gone",
         \A t \in Sessions : status[t] # "gone" => Reads(t)' = Reads(t),
         mounted' = mounted
  PROVE  UNCHANGED Immutable!vars
<1>1. \A t \in Sessions : Bound'[t] = Bound[t]
  BY BoundTheSame
<1>2. Bound' = Bound
  BY <1>1 DEF Bound
<1>3. Gone' = Gone
  BY DEF Gone
<1> QED
  BY <1>2, <1>3 DEF Immutable!vars, Gone

\* A session that was unbound may be bound.
LEMMA AbstractBind ==
  ASSUME TypeOK, TypeOK', NEW s \in Sessions, status[s] # "gone", Reads(s) = NULL,
         \A t \in Sessions : status[t] = "gone" <=> status'[t] = "gone",
         \A t \in Sessions : t # s => Reads(t)' = Reads(t),
         mounted' = mounted
  PROVE  [Immutable!Next]_(Immutable!vars)
<1>1. \A t \in Sessions : t # s => Bound'[t] = Bound[t]
  BY BoundTheSame
<1>2. /\ Bound \in [Sessions -> Networks \cup {NULL}] /\ Bound[s] = NULL
      /\ Bound' \in [Sessions -> Networks \cup {NULL}]
  BY BoundIs, BoundNext, NullIsNoNetwork
<1>3. Bound' = [Bound EXCEPT ![s] = Bound'[s]]
  BY <1>1, <1>2
<1>4. Gone' = Gone /\ s \notin Gone
  BY DEF Gone
<1>5. CASE Bound'[s] = NULL
  <2>1. Bound' = Bound
    BY <1>2, <1>3, <1>5
  <2> QED
    BY <1>4, <2>1 DEF Immutable!vars, Gone
<1>6. CASE Bound'[s] \in Networks
  <2>1. Immutable!Bind(s)
    BY <1>2, <1>3, <1>4, <1>6 DEF Immutable!Bind, Gone
  <2> QED
    BY <2>1 DEF Immutable!Next
<1> QED
  BY <1>2, <1>5, <1>6

\* The tools of a session that is bound become active.
LEMMA AbstractActivate ==
  ASSUME TypeOK, NEW s \in Sessions, status[s] = "live", NEW agent, mountIfBound(s, agent),
         UNCHANGED <<record, dsh>>
  PROVE  [Immutable!Next]_(Immutable!vars)
<1>1. /\ \A t \in Sessions : status[t] = "gone" <=> status'[t] = "gone"
      /\ \A t \in Sessions : Reads(t)' = Reads(t)
  BY ReadsTheSame DEF dsh
<1>2. CASE mounted' = mounted
  BY <1>1, <1>2, AbstractStutter
<1>3. CASE mounted' # mounted
  <2>1. /\ mounted[s] = NULL /\ Reads(s) # "conflict"
        /\ mounted' = [mounted EXCEPT ![s] = Reads(s)]
    BY <1>3 DEF mountIfBound, Reads
  <2>2. Bound[s] = Reads(s)
    BY <2>1, BoundIs
  <2>3. Reads(s) # NULL
    BY <1>3, <2>1 DEF TypeOK
  <2>4. Bound' = Bound
    <3>1. \A t \in Sessions : Bound'[t] = Bound[t]
      BY <1>1, BoundTheSame
    <3> QED
      BY <3>1 DEF Bound
  <2>5. Gone' = Gone
    BY <1>1 DEF Gone
  <2>6. Immutable!Activate(s)
    BY <2>1, <2>2, <2>3, <2>4, <2>5 DEF Immutable!Activate, Gone
  <2> QED
    BY <2>6 DEF Immutable!Next
<1> QED
  BY <1>2, <1>3

\* Agents end, and some sessions with them; every other session keeps its binding.
LEMMA AbstractEnd ==
  ASSUME TypeOK, TypeOK', NEW S \in SUBSET Sessions,
         mounted' = [t \in Sessions |-> IF t \in S THEN NULL ELSE mounted[t]],
         \A t \in Sessions : status[t] = "gone" => status'[t] = "gone",
         \A t \in Sessions : status'[t] # "gone" => Reads(t)' = Reads(t)
  PROVE  [Immutable!Next]_(Immutable!vars)
<1>1. \A t \in Sessions : Bound'[t] = IF t \in Gone' THEN NULL ELSE Bound[t]
  <2>1. ASSUME NEW t \in Sessions, status'[t] = "gone" PROVE Bound'[t] = NULL
    BY <2>1 DEF Bound
  <2>2. ASSUME NEW t \in Sessions, status'[t] # "gone" PROVE Bound'[t] = Bound[t]
    BY <2>2, BoundTheSame
  <2> QED
    BY <2>1, <2>2 DEF Gone
<1>2. Bound' = [t \in Sessions |-> IF t \in Gone' THEN NULL ELSE Bound[t]]
  BY <1>1 DEF Bound
<1>3. Gone' \in SUBSET Sessions /\ Gone \subseteq Gone'
  BY DEF Gone
<1>4. \A t \in Gone' : mounted'[t] = NULL
  BY DEF TypeOK, Gone
<1>5. Immutable!End
  BY <1>2, <1>3, <1>4 DEF Immutable!End, Gone
<1> QED
  BY <1>5 DEF Immutable!Next

\* What the steps of the queues and of the cleanup leave alone, but for a write that ends.
LEMMA QuietSteps ==
  ASSUME UNCHANGED <<dsh, mounted>>,
         \A t \in Sessions : status[t] = "gone" \/ record'[t].network = record[t].network
  PROVE  UNCHANGED Immutable!vars
<1>1. \A t \in Sessions : status[t] # "gone" => Reads(t)' = Reads(t)
  BY ReadsTheSame DEF dsh
<1> QED
  BY <1>1, AbstractStutter DEF dsh

\* A session that goes live was there before, or is a fork, which may be born bound.
LEMMA GoesLiveMaps ==
  ASSUME BindingInv, TypeOK', NEW h \in Hosts, NEW s \in Sessions,
         status[s] \in {"unborn", "closed"}, status' = [status EXCEPT ![s] = "live"],
         UNCHANGED <<record, mounted>>,
         \A t \in Sessions : t # s \/ status[s] = "closed" => log'[t] = log[t]
  PROVE  [Immutable!Next]_(Immutable!vars)
<1>1. /\ TypeOK
      /\ \A t \in Sessions : status[t] = "gone" <=> status'[t] = "gone"
      /\ \A t \in Sessions : t # s \/ status[s] = "closed" => Reads(t)' = Reads(t)
  BY ReadsTheSame DEF BindingInv, TypeOK
<1>2. CASE status[s] = "closed"
  BY <1>1, <1>2, AbstractStutter
<1>3. CASE status[s] = "unborn"
  <2>1. log[s] = <<>> /\ record[s] = NoRecord
    BY <1>3 DEF BindingInv, OldIsStored, Accounted
  <2>2. Reads(s) = NULL
    BY <2>1 DEF Reads, readDshSessionBusinessNetwork, readBusinessNetworkBinding, NoRecord
  <2> QED
    BY <1>1, <1>3, <2>2, AbstractBind
<1> QED
  BY <1>2, <1>3

LEMMA WriteDoneMaps ==
  ASSUME BindingInv, TypeOK', NEW h \in Hosts, NEW s \in Sessions, WriteDone(h, s)
  PROVE  [Immutable!Next]_(Immutable!vars)
<1>1. TypeOK /\ queue[h][s] # <<>> /\ Writing(Head(queue[h][s]))
  BY DEF WriteDone, BindingInv
<1>2. Reads(s) = NULL
  BY <1>1, QueueOf DEF Orderly, BindingInv, WritesWhereUnbound
<1>3. record' = [record EXCEPT ![s] = Head(queue[h][s]).write] /\ UNCHANGED <<dsh, mounted>>
  BY DEF WriteDone
<1>4. \A t \in Sessions : t # s => record'[t] = record[t] /\ Reads(t)' = Reads(t)
  BY <1>1, <1>3, ReadsTheSame DEF dsh, TypeOK
<1>5. CASE status[s] = "gone"
  BY <1>3, <1>4, <1>5, QuietSteps
<1>6. CASE status[s] # "gone"
  BY <1>1, <1>2, <1>3, <1>4, <1>6, AbstractBind DEF dsh
<1> QED
  BY <1>5, <1>6

LEMMA EndMaps ==
  ASSUME BindingInv, TypeOK', NEW S \in SUBSET Sessions, \A t \in S : status[t] = "live",
         End(S), UNCHANGED record
  PROVE  [Immutable!Next]_(Immutable!vars)
<1>1. TypeOK /\ S \ stored \in SUBSET Sessions /\ Vanish(S \ stored)
  BY DEF BindingInv, End
<1>2. mounted' = [t \in Sessions |-> IF t \in S THEN NULL ELSE mounted[t]]
  BY DEF End, Unmount
<1>3. status' = [t \in Sessions |-> IF t \notin S THEN status[t]
                                    ELSE IF t \in stored THEN "closed" ELSE "gone"]
  BY DEF End
<1>4. \A t \in Sessions : status[t] = "gone" => status'[t] = "gone"
  BY <1>3
<1>5. \A t \in Sessions : status'[t] # "gone" => t \notin S \ stored
  BY <1>3
<1>6. \A t \in Sessions : t \notin S \ stored => log'[t] = log[t]
  BY <1>1, VanishIs
<1>7. \A t \in Sessions : status'[t] # "gone" => Reads(t)' = Reads(t)
  BY <1>5, <1>6, ReadsTheSame
<1> QED
  BY <1>1, <1>2, <1>4, <1>7, AbstractEnd

LEMMA RemoveLogMaps ==
  ASSUME BindingInv, TypeOK', NEW s \in Sessions, RemoveLog(s)
  PROVE  [Immutable!Next]_(Immutable!vars)
<1> DEFINE none == {}
<1>1. /\ TypeOK /\ Vanish({s}) /\ {s} \in SUBSET Sessions /\ none \in SUBSET Sessions
      /\ status' = [status EXCEPT ![s] = "gone"] /\ UNCHANGED <<record, mounted>>
  BY DEF BindingInv, RemoveLog
<1>2. \A t \in Sessions : status[t] = "gone" => status'[t] = "gone"
  BY <1>1 DEF TypeOK
<1>3. \A t \in Sessions : status'[t] # "gone" => t \notin {s}
  BY <1>1 DEF TypeOK
<1>4. \A t \in Sessions : t \notin {s} => log'[t] = log[t]
  BY <1>1, VanishIs
<1>5. \A t \in Sessions : status'[t] # "gone" => Reads(t)' = Reads(t)
  BY <1>1, <1>3, <1>4, ReadsTheSame
<1>6. mounted' = [t \in Sessions |-> IF t \in none THEN NULL ELSE mounted[t]]
  BY <1>1 DEF TypeOK
<1> HIDE DEF none
<1> QED
  BY <1>1, <1>2, <1>5, <1>6, AbstractEnd

LEMMA ReloadMaps ==
  ASSUME BindingInv, TypeOK', NEW h \in Hosts, Reload(h)
  PROVE  [Immutable!Next]_(Immutable!vars)
<1>1. /\ TypeOK /\ Live(h) \in SUBSET Sessions /\ UNCHANGED <<record, dsh>>
      /\ mounted' = [t \in Sessions |-> IF t \in Live(h) THEN NULL ELSE mounted[t]]
  BY DEF BindingInv, Reload, Live, Unmount
<1>2. \A t \in Sessions : Reads(t)' = Reads(t)
  BY <1>1, ReadsTheSame DEF dsh
<1> QED
  BY <1>1, <1>2, AbstractEnd DEF dsh

LEMMA LogTurnMaps ==
  ASSUME BindingInv, NEW s \in Sessions, LogTurn(s)
  PROVE  UNCHANGED Immutable!vars
<1> DEFINE e == [kind |-> "turn", network |-> mounted[s]]
<1>1. TypeOK /\ e \in Events /\ e.kind = "turn"
  BY DEF BindingInv, TypeOK, Events
<1>2. log' = [log EXCEPT ![s] = Append(log[s], e)] /\ UNCHANGED <<record, status, mounted>>
  BY DEF LogTurn
<1> HIDE DEF e
<1>3. log'[s] = Append(log[s], e) /\ \A t \in Sessions : t # s => log'[t] = log[t]
  BY <1>1, <1>2 DEF TypeOK
<1>4. Reads(s)' = Reads(s)
  BY <1>1, <1>2, <1>3, ReadsPastTurns
<1>5. \A t \in Sessions : Reads(t)' = Reads(t)
  BY <1>2, <1>3, <1>4, ReadsTheSame
<1> QED
  BY <1>2, <1>5, AbstractStutter

LEMMA AbstractInitially == Init => Immutable!Init
<1> SUFFICES ASSUME Init PROVE Immutable!Init
  OBVIOUS
<1>1. Bound \in [Sessions -> Networks \cup {NULL}]
  BY BindingInitially, BoundIs DEF BindingInv
<1>2. Gone = {}
  BY DEF Init, Gone
<1> QED
  BY <1>1, <1>2 DEF Immutable!Init, Init, Gone

LEMMA AbstractSteps ==
  ASSUME BindingInv, TypeOK', [Next]_vars
  PROVE  [Immutable!Next]_(Immutable!vars)
<1>1. CASE UNCHANGED vars
  BY <1>1, QuietSteps DEF vars, dsh
<1>2. ASSUME NEW h \in Hosts, NEW s \in Sessions, Create(h, s) \/ Reopen(h, s)
      PROVE  [Immutable!Next]_(Immutable!vars)
  BY <1>2, GoesLiveMaps DEF Create, Reopen, GoesLive
<1>3. ASSUME NEW h \in Hosts, NEW s \in Sessions, NEW p \in Sessions, NEW k \in 0 .. MaxEvents,
             Fork(h, p, s, k)
      PROVE  [Immutable!Next]_(Immutable!vars)
  <2>1. \A t \in Sessions : t # s => log'[t] = log[t]
    BY <1>3 DEF Fork, BindingInv, TypeOK
  <2> QED
    BY <1>3, <2>1, GoesLiveMaps DEF Fork, GoesLive
<1>4. ASSUME NEW h \in Hosts, NEW s \in Sessions, NEW n \in Networks, UserBind(h, s, n)
      PROVE  [Immutable!Next]_(Immutable!vars)
  BY <1>4, QuietSteps DEF UserBind
<1>5. ASSUME NEW h \in Hosts, NEW s \in Sessions,
             Decide(h, s) \/ WriteFails(h, s) \/ PruneLook(h, s)
      PROVE  [Immutable!Next]_(Immutable!vars)
  BY <1>5, QuietSteps DEF Decide, WriteFails, PruneLook
<1>6. ASSUME NEW h \in Hosts, NEW s \in Sessions, WriteDone(h, s)
      PROVE  [Immutable!Next]_(Immutable!vars)
  BY <1>6, WriteDoneMaps
<1>7. ASSUME NEW h \in Hosts, Crash(h) PROVE [Immutable!Next]_(Immutable!vars)
  <2>1. Live(h) \in SUBSET Sessions /\ \A t \in Live(h) : status[t] = "live"
    BY NullIsNoNetwork DEF Live, BindingInv, TypeOK
  <2> QED
    BY <1>7, <2>1, EndMaps DEF Crash
<1>8. ASSUME NEW h \in Hosts, Reload(h) PROVE [Immutable!Next]_(Immutable!vars)
  BY <1>8, ReloadMaps
<1>9. ASSUME NEW s \in Sessions, LogTurn(s) PROVE [Immutable!Next]_(Immutable!vars)
  BY <1>9, LogTurnMaps
<1>10. ASSUME NEW s \in Sessions, Close(s) PROVE [Immutable!Next]_(Immutable!vars)
  BY <1>10, EndMaps DEF Close
<1>11. ASSUME NEW s \in Sessions, RemoveLog(s) PROVE [Immutable!Next]_(Immutable!vars)
  BY <1>11, RemoveLogMaps
<1>12. ASSUME NEW s \in Sessions, Age(s) PROVE [Immutable!Next]_(Immutable!vars)
  <2>1. record' = [record EXCEPT ![s] = [record[s] EXCEPT !.old = TRUE]]
    BY <1>12 DEF Age
  <2>2. [record[s] EXCEPT !.old = TRUE].network = record[s].network
    BY DEF BindingInv, TypeOK, Record
  <2>3. \A t \in Sessions : record'[t].network = record[t].network
    BY <2>1, <2>2 DEF BindingInv, TypeOK
  <2> QED
    BY <1>12, <2>3, QuietSteps DEF Age
<1>13. ASSUME NEW s \in Sessions, PruneRemove(s) PROVE [Immutable!Next]_(Immutable!vars)
  <2>1. status[s] = "gone"
    BY <1>13 DEF PruneRemove, BindingInv, OldIsStored, Accounted
  <2>2. \A t \in Sessions : t # s => record'[t] = record[t]
    BY <1>13 DEF PruneRemove, BindingInv, TypeOK
  <2> QED
    BY <1>13, <2>1, <2>2, QuietSteps DEF PruneRemove
<1>14. ASSUME NEW x \in settled, Continue(x) PROVE [Immutable!Next]_(Immutable!vars)
  <2>1. /\ TypeOK /\ x.session \in Sessions
        /\ x.decision.agent => status[x.session] = "live"
    BY SettledOf DEF BindingInv
  <2>2. UNCHANGED <<record, dsh>>
    BY <1>14 DEF Continue, BindContinues, RestoreContinues
  <2>3. mountIfBound(x.session, x.decision.agent) \/ UNCHANGED mounted
    BY <1>14 DEF Continue, BindContinues, RestoreContinues
  <2>4. CASE mountIfBound(x.session, x.decision.agent) /\ x.decision.agent
    BY <2>1, <2>2, <2>4, AbstractActivate
  <2>5. CASE UNCHANGED mounted \/ (mountIfBound(x.session, x.decision.agent) /\ ~x.decision.agent)
    <3>1. UNCHANGED mounted
      BY <2>5 DEF mountIfBound
    <3> QED
      BY <2>2, <3>1, QuietSteps
  <2> QED
    BY <2>3, <2>4, <2>5
<1> QED
  BY <1>1, <1>2, <1>3, <1>4, <1>5, <1>6, <1>7, <1>8, <1>9, <1>10, <1>11, <1>12, <1>13, <1>14
  DEF Next

\* The store, the queues, the hosts and the service keep the promise of ImmutableBinding: a
\* session is bound once, and its tools reach that network only.
THEOREM BindingIsImmutable ==
  ASSUME Exclusive
  PROVE  Spec => ImplementsImmutableBinding
<1>1. BindingInv /\ BindingInv' /\ [Next]_vars => [Immutable!Next]_(Immutable!vars)
  BY AbstractSteps DEF BindingInv
<1> QED
  BY <1>1, AbstractInitially, BindingInvariant, PTL
  DEF Spec, ImplementsImmutableBinding, Immutable!Spec
==============================================================================
