-------------------------- MODULE ProvenanceDetail ---------------------------
(* One request for the provenance of an answer: business-context-service.ts
   provenanceDetailStream, provenance-detail-scope.ts, and the stream's consumer,
   client/provenance-detail-bridge.ts.  The scene (the agent, its binding, the turn's
   handle, the credential's revision) may change whenever something is awaited; a
   guard compares it with the scene of the request before each dispatch, after each
   answer and before each event.  A long value is sent in chunks.  The consumer does
   not rely on the stream: events lost, repeated or out of order must not make a value.
   A value is its number of chunks, 0 when it is sent at once; a chunk is its index and
   the scene in which it was sent. *)
EXTENDS Integers, Sequences, FiniteSets

CONSTANTS MaxChunks,       \* bound: the chunks of a value
          MembershipPages, \* PROVENANCE_DETAIL_LIMITS.membershipPages
          MaxScenes,       \* bound: the changes of the scene
          MaxEvents,       \* bound: the events of an analysis
          MaxFaults        \* bound: the faults of the stream

ASSUME DetailAssumption ==
  {MaxChunks, MembershipPages, MaxScenes, MaxEvents, MaxFaults} \subseteq Nat

VARIABLES
  wanted,   \* the request: its kind, and whether it names another round than the answer's
  scene,    \* the number of the scene
  sender,   \* the generator: where it is, its scene, its call, the value's chunks
  wire,     \* the events under way
  faults,   \* the faults of the stream
  reader    \* the consumer: how it settled, and what it collected

detailVars == <<wanted, scene, sender, wire, faults, reader>>

Kinds   == {"page", "detail", "action", "analyze"}
Event(kind, index) == [kind |-> kind, index |-> index, of |-> scene]

DetailInit ==
  /\ wanted \in [kind : Kinds, other : BOOLEAN]
  /\ scene = 0
  /\ sender = [at |-> "start", scene |-> 0, page |-> 1, calling |-> FALSE,
               chunks |-> 0, sent |-> 0]
  /\ wire = <<>> /\ faults = 0
  /\ reader = [settled |-> "no", collected |-> <<>>]

------------------------------------------------------------------------------
(* The Host. *)

SceneChanges ==
  /\ scene < MaxScenes
  /\ scene' = scene + 1
  /\ UNCHANGED <<wanted, sender, wire, faults, reader>>

\* guard and check: the scene is still the request's.  That the reader has cancelled
\* may be seen at any step, as any failure may.
Guard == sender.at = "start" \/ scene = sender.scene

Sends(kind, index) == wire' = Append(wire, Event(kind, index))
Yields(kind, index) == Sends(kind, index) /\ UNCHANGED <<wanted, scene, faults, reader>>
Silently == UNCHANGED <<wanted, scene, wire, faults, reader>>

\* Any step may fail, and one at which the guard refuses does.
HostFails ==
  /\ sender.at # "over"
  /\ sender' = [sender EXCEPT !.at = "over"]
  /\ Yields("failure", 0)

\* The request is in order: a page names no other round.
Accepts ==
  /\ sender.at = "start" /\ Guard
  /\ wanted.kind = "page" => ~wanted.other
  /\ sender' = [sender EXCEPT !.at = IF wanted.other THEN "member" ELSE "context", !.scene = scene]
  /\ Silently

\* request: a call of the platform, once its token was read; it may fail at any step.
Calls ==
  /\ sender.at \in {"member", "verify", "read"} /\ ~sender.calling /\ Guard
  /\ sender' = [sender EXCEPT !.calling = TRUE]
  /\ Silently

Answered(at) == sender.at = at /\ sender.calling /\ Guard

\* member: a page of the conversation's rounds, which lists the round that is asked for
\* or does not and is not the last.
MemberPage ==
  /\ Answered("member")
  /\ \/ sender' = [sender EXCEPT !.at = "context", !.calling = FALSE]
     \/ /\ sender.page < MembershipPages
        /\ sender' = [sender EXCEPT !.page = @ + 1, !.calling = FALSE]
  /\ Silently

SendsContext ==
  /\ sender.at = "context" /\ Guard
  /\ sender' = [sender EXCEPT !.at = IF wanted.kind \in {"page", "detail"} THEN "read" ELSE "verify"]
  /\ Yields("context", 0)

\* An explanation, a text or an action: the record is looked at first.
ChecksRecord ==
  /\ Answered("verify")
  /\ sender' = [sender EXCEPT !.calling = FALSE, !.at = "read"]
  /\ Silently

\* What is analyzed is the platform's own text, not the browser's.
ReadsText ==
  /\ Answered("read") /\ wanted.kind = "analyze"
  /\ sender' = [sender EXCEPT !.at = "analyze", !.calling = FALSE]
  /\ Silently

\* The platform answers, in the scene's scope.
Reads(n) ==
  /\ Answered("read") /\ wanted.kind # "analyze"
  /\ sender' = [sender EXCEPT !.at = "send", !.calling = FALSE, !.chunks = n]
  /\ Silently

SendsResult ==
  /\ sender.at = "send" /\ sender.chunks = 0 /\ Guard
  /\ sender' = [sender EXCEPT !.at = "over"]
  /\ Yields("result", 0)

SendsChunk ==
  /\ sender.at = "send" /\ sender.sent < sender.chunks /\ Guard
  /\ sender' = [sender EXCEPT !.sent = @ + 1]
  /\ Yields("chunk", sender.sent)

SendsEnd ==
  /\ sender.at = "send" /\ sender.chunks > 0 /\ sender.sent = sender.chunks /\ Guard
  /\ sender' = [sender EXCEPT !.at = "over"]
  /\ Yields("end", sender.chunks)

\* An event of the platform's analysis; or the analysis is over.
Analyzes ==
  /\ sender.at = "analyze" /\ Guard
  /\ \/ /\ sender.sent < MaxEvents
        /\ sender' = [sender EXCEPT !.sent = @ + 1] /\ Yields("analysis", sender.sent)
     \/ sender' = [sender EXCEPT !.at = "over"] /\ Silently

------------------------------------------------------------------------------
(* The stream. *)

Without(i) == SubSeq(wire, 1, i - 1) \o SubSeq(wire, i + 1, Len(wire))

Faulty ==
  /\ faults < MaxFaults
  /\ faults' = faults + 1
  /\ \E i \in DOMAIN wire :
       \/ wire' = Without(i)
       \/ wire' = SubSeq(wire, 1, i) \o SubSeq(wire, i, Len(wire))
       \/ i < Len(wire) /\ wire' = [wire EXCEPT ![i] = wire[i + 1], ![i + 1] = wire[i]]
  /\ UNCHANGED <<wanted, scene, sender, reader>>

------------------------------------------------------------------------------
(* The consumer. *)

Unsettled  == reader.settled = "no"
SettlesAs(how) == reader' = [reader EXCEPT !.settled = how]
Takes(kind) ==
  /\ Unsettled /\ wire # <<>> /\ Head(wire).kind = kind
  /\ wire' = Tail(wire)
  /\ UNCHANGED <<wanted, scene, sender, faults>>
Collected(e) == reader' = [reader EXCEPT !.collected = Append(@, e)]

\* Mutant: a chunk is taken in whatever order it arrives.
TakesChunk_Unordered ==
  /\ Takes("chunk")
  /\ Collected(Head(wire))
\* A chunk that is not the next one, or exceeds the limit, makes the stream invalid.
TakesChunk ==
  /\ Takes("chunk")
  /\ \/ SettlesAs("invalid")
     \/ Head(wire).index = Len(reader.collected) /\ Collected(Head(wire))

TakesEnd ==
  /\ Takes("end")
  /\ SettlesAs(IF reader.collected # <<>> /\ Head(wire).index = Len(reader.collected)
             THEN "value" ELSE "invalid")

TakesResult ==
  /\ Takes("result")
  /\ IF reader.collected = <<>>
     THEN reader' = [settled |-> "value", collected |-> <<Head(wire)>>]
     ELSE SettlesAs("invalid")

TakesAnalysis ==
  /\ Takes("analysis")
  /\ IF wanted.kind = "analyze" /\ reader.collected = <<>> THEN UNCHANGED reader
                                                         ELSE SettlesAs("invalid")

TakesContext == Takes("context") /\ UNCHANGED reader
TakesFailure == Takes("failure") /\ SettlesAs("failed")

\* The stream ends, or breaks off.
StreamEnds(broken) ==
  /\ Unsettled
  /\ broken \/ (sender.at = "over" /\ wire = <<>>)
  /\ SettlesAs(IF broken THEN "failed"
             ELSE IF wanted.kind = "analyze" /\ reader.collected = <<>> THEN "null" ELSE "incomplete")
  /\ UNCHANGED <<wanted, scene, sender, wire, faults>>

Cancels ==
  /\ Unsettled
  /\ SettlesAs("cancelled")
  /\ UNCHANGED <<wanted, scene, sender, wire, faults>>

DetailNext ==
  \/ SceneChanges
  \/ HostFails \/ Accepts \/ Calls \/ MemberPage \/ SendsContext \/ ChecksRecord \/ ReadsText
  \/ SendsResult \/ SendsChunk \/ SendsEnd \/ Analyzes
  \/ \E n \in 0 .. MaxChunks : Reads(n)
  \/ Faulty
  \/ TakesContext \/ TakesChunk \/ TakesEnd \/ TakesResult \/ TakesAnalysis \/ TakesFailure
  \/ \E broken \in BOOLEAN : StreamEnds(broken)
  \/ Cancels

DetailSpec == DetailInit /\ [][DetailNext]_detailVars

------------------------------------------------------------------------------
(* Properties. *)

\* A value is delivered whole and in order, and was sent in the scene it was asked for,
\* whatever the stream does to its events (client/provenance-detail-bridge.ts:96,
\* business-context-service.ts:350).
WholeInItsScene ==
  reader.settled = "value" =>
    reader.collected =
      IF sender.chunks = 0 THEN <<[kind |-> "result", index |-> 0, of |-> sender.scene]>>
      ELSE [i \in 1 .. sender.chunks |-> [kind |-> "chunk", index |-> i - 1, of |-> sender.scene]]
==============================================================================
