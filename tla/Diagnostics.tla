----------------------------- MODULE Diagnostics -----------------------------
(* What support sees of past operations: the process-wide buffer of
   diagnostics-observer.ts, the operations of the business owner that record their
   outcome in it, diagnostics-service.ts getReport, and the panel of
   client/diagnostics-controller.ts.  The owner is replaced while its operations are
   under way; when the new one serves another platform, the checks of the former are
   forgotten, and its late outcomes must not bring them back.  A check is the subject
   it is about and the buffer's generation when its operation began: outcome, evidence
   and the count of dropped subjects are left out. *)
EXTENDS Integers, FiniteSets

CONSTANTS Addresses,     \* the platforms' addresses
          Unselected,    \* no address selected yet
          Subjects,      \* what an outcome is about
          Cli,           \* the subject of the CLI's own failures
          Operations,    \* the operations under way at a time
          Loads,         \* the loads of the report, in order: 1 .. Loads
          BufferLimit,   \* PASSIVE_BUFFER_LIMIT
          MaxApplied     \* bound: the owners that are started

ASSUME DiagnosticsAssumption ==
  /\ Cli \in Subjects /\ Unselected \notin Addresses
  /\ Loads \in Nat /\ BufferLimit \in Nat /\ MaxApplied \in Nat

VARIABLES
  buffer,   \* the configuration selected, the generation, and the checks
  owner,    \* the number of the owner, its address, and whether it lives
  doing,    \* per operation: the owner it belongs to (0: not under way), its generation
  load,     \* per load: where it is, and the report it brings
  shown     \* the panel: the last load, the generation when it began, phase and report

diagVars == <<buffer, owner, doing, load, shown>>

DiagInit ==
  /\ buffer = [configuration |-> Unselected, generation |-> 0, checks |-> {}]
  /\ owner = [number |-> 0, alive |-> FALSE]
  /\ doing = [c \in Operations |-> [owner |-> 0, generation |-> 0]]
  /\ load = [k \in 1 .. Loads |-> [at |-> "none", report |-> {}]]
  /\ shown = [load |-> 0, began |-> 0, phase |-> "idle", report |-> {}]

------------------------------------------------------------------------------
(* The Host. *)

\* Disposal aborts the signal that every operation of the owner is given.
OwnerDisposed ==
  /\ owner.alive
  /\ owner' = [owner EXCEPT !.alive = FALSE]
  /\ UNCHANGED <<buffer, doing, load, shown>>

\* apply: the business entry starts, and selects its platform first.
OwnerApplied(a) ==
  /\ ~owner.alive /\ owner.number < MaxApplied
  /\ owner' = [number |-> owner.number + 1, alive |-> TRUE]
  /\ buffer' = IF a = buffer.configuration THEN buffer
               ELSE [configuration |-> a, generation |-> buffer.generation + 1, checks |-> {}]
  /\ UNCHANGED <<doing, load, shown>>

OperationStarts(c) ==
  /\ owner.alive /\ doing[c].owner = 0
  /\ doing' = [doing EXCEPT ![c] = [owner |-> owner.number, generation |-> buffer.generation]]
  /\ UNCHANGED <<buffer, owner, load, shown>>

\* record: a new subject is dropped when the buffer is full.
Recorded(c, s) ==
  LET others == {check \in buffer.checks : check.subject # s}
  IN  IF others = buffer.checks /\ Cardinality(others) >= BufferLimit THEN buffer
      ELSE [buffer EXCEPT !.checks = others \cup {[subject |-> s, of |-> doing[c].generation]}]

Aborted(c) == ~(owner.alive /\ owner.number = doing[c].owner)

\* Mutant: the writer is not bound to a generation.
Admits_Always(c, s) == s \in Subjects
\* The writer that an operation's owner took admits its outcome; cliFailure takes one
\* when it records, after it has looked at the signal.
Admits(c, s) ==
  \/ doing[c].generation = buffer.generation
  \/ s = Cli /\ ~Aborted(c)

\* An outcome, if the operation has one: an aborted operation may end without.
OperationEnds(c) ==
  /\ doing[c].owner # 0
  /\ doing' = [doing EXCEPT ![c].owner = 0]
  /\ \/ Aborted(c) /\ UNCHANGED buffer
     \/ \E s \in Subjects : buffer' = IF Admits(c, s) THEN Recorded(c, s) ELSE buffer
  /\ UNCHANGED <<owner, load, shown>>

\* getReport.
ReportAnswered(k) ==
  /\ load[k].at = "sent"
  /\ load' = [load EXCEPT ![k] = [at |-> "answered", report |-> buffer.checks]]
  /\ UNCHANGED <<buffer, owner, doing, shown>>

------------------------------------------------------------------------------
(* The panel: open, refresh. *)

Load ==
  LET k == shown.load + 1 IN
  /\ k <= Loads
  /\ load' = [load EXCEPT ![k].at = "sent"]
  /\ shown' = [shown EXCEPT !.load = k, !.began = buffer.generation, !.phase = "loading"]
  /\ UNCHANGED <<buffer, owner, doing>>

\* Only the last load is shown.
LoadEnds(k) ==
  /\ load[k].at = "answered"
  /\ load' = [load EXCEPT ![k].at = "over"]
  /\ shown' = IF k # shown.load THEN shown
              ELSE [shown EXCEPT !.phase = "ready", !.report = load[k].report]
  /\ UNCHANGED <<buffer, owner, doing>>

LoadFails(k) ==
  /\ load[k].at \in {"sent", "answered"}
  /\ load' = [load EXCEPT ![k].at = "over"]
  /\ shown' = IF k # shown.load THEN shown
              ELSE [shown EXCEPT !.phase = "unavailable", !.report = {}]
  /\ UNCHANGED <<buffer, owner, doing>>

DiagNext ==
  \/ OwnerDisposed \/ Load
  \/ \E a \in Addresses : OwnerApplied(a)
  \/ \E c \in Operations : OperationStarts(c) \/ OperationEnds(c)
  \/ \E k \in 1 .. Loads : ReportAnswered(k) \/ LoadEnds(k) \/ LoadFails(k)

DiagSpec == DiagInit /\ [][DiagNext]_diagVars

------------------------------------------------------------------------------
(* Properties. *)

\* A report that the panel shows holds no check of a platform that was replaced before
\* the report was asked for, however late that platform's operations ended and in
\* whatever order the reports arrive (diagnostics-observer.ts:89).
ReportsThePlatformAsked ==
  shown.phase = "ready" => \A check \in shown.report : check.of >= shown.began
==============================================================================
