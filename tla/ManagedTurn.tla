----------------------------- MODULE ManagedTurn -----------------------------
(***************************************************************************)
(* One bound session: the scoped policy of scoped-business-context.ts      *)
(* mounted on its Agent, the DSH host that runs turns and keeps the        *)
(* session log, the model that calls tools, and the OpenBKN platform.      *)
(*                                                                         *)
(* The model is free: any managed call with any arguments it can know is   *)
(* attempted.  The platform may refuse, answer in any of its lifecycle     *)
(* shapes, act and lose the answer, or stop honouring a conversation at    *)
(* any time.  The process may crash at any time; the log survives.         *)
(*                                                                         *)
(* DSH runs the calls of one step one after the other (the recorded logs   *)
(* of tests/fixtures alternate tool/call and tool/result), so at most one  *)
(* call is in flight.  Its result reaches the live tools/result listener   *)
(* first and is appended to the log afterwards: two steps, and a crash may *)
(* fall between them.                                                      *)
(*                                                                         *)
(* restoreFrom is a left fold over the log, so the log is represented by   *)
(* the fold's value so far: `replay` is the state after replaying every    *)
(* event appended until now, and appending an event is one fold step.      *)
(***************************************************************************)
EXTENDS InteractionLifecycle

VARIABLES
    mounted,     \* the scoped policy is mounted on the Agent
    lifecycle,   \* its in-memory lifecycle state
    replay,      \* the replayed session log (durable)
    turn,        \* "idle" or "running"
    call,        \* the tool call in flight
    honoured,    \* platform: [Conversations -> {"unused", "live", "gone"}]
    issued,      \* platform: the conversation each interaction belongs to
    \* What happened, for the properties only:
    turnIssued,  \* interactions the platform created for this turn's calls
    windows,     \* windows opened in this turn (saturates at 2)
    finishes,    \* successful finishes logged in this turn (saturates at 2)
    renewals,    \* conversations reopened in this turn after a judgement (saturates at 2)
    known,       \* interactions whose opening is in the log
    judged       \* conversations whose invalidation is in the log

session  == <<mounted, lifecycle, replay, turn, call>>
platform == <<honoured, issued>>
history  == <<turnIssued, windows, finishes, renewals, known, judged>>
vars     == <<session, platform, history>>

-----------------------------------------------------------------------------
NoOutcome == [isError |-> FALSE, code |-> "none", trace |-> "recorded",
              interactionId |-> NULL, conversationId |-> NULL]
NoCall == [phase |-> "none", req |-> BusinessCall(FALSE, NULL, NULL), out |-> NoOutcome]

\* sent: past the guard; answered: the host has an outcome;
\* settled: the live listener has seen it, the log has not.
Calls == [phase : {"none", "sent", "answered", "settled"}, req : Requests, out : Outcomes]

Succeeded(name) == call.req.name = name /\ ~call.out.isError
Answer(out) == call' = [call EXCEPT !.phase = "answered", !.out = out]
Failure(code) == [NoOutcome EXCEPT !.isError = TRUE, !.code = code]
Saturate(n) == IF n < 2 THEN n + 1 ELSE 2

\* What a state becomes when the result of the call in flight is folded in.
Fold(s) ==
    onToolResult(s, call.req.name, ~call.out.isError, projectLifecycleOutcome(call.out))

\* The conversations the log has ever adopted.
KnownConversations == { issued[i] : i \in known }

-----------------------------------------------------------------------------
Init ==
    /\ mounted = FALSE /\ lifecycle = initialState /\ replay = initialState
    /\ turn = "idle" /\ call = NoCall
    /\ honoured = [c \in Conversations |-> "unused"]
    /\ issued = [i \in Interactions |-> NULL]
    /\ turnIssued = {} /\ windows = 0 /\ finishes = 0 /\ renewals = 0
    /\ known = {} /\ judged = {}

(***************************************************************************)
(* The policy's own life: mounted for a live Agent from its log, removed   *)
(* with the business owner when settings reload.  The reload fence lets no *)
(* removal happen while a bound turn runs.                                 *)
(***************************************************************************)
Mount ==
    /\ ~mounted
    /\ mounted' = TRUE
    /\ lifecycle' = restoreFrom(replay)
    /\ UNCHANGED <<replay, turn, call, platform, history>>

Unmount ==
    /\ mounted /\ turn = "idle"
    /\ mounted' = FALSE
    /\ lifecycle' = initialState
    /\ UNCHANGED <<replay, turn, call, platform, history>>

\* The process dies; the next one opens the session anew, outside any turn.
Crash ==
    /\ mounted' = FALSE /\ lifecycle' = initialState
    /\ turn' = "idle" /\ call' = NoCall
    /\ UNCHANGED <<replay, platform, history>>

\* turn/start is logged, then agent/pre-step of step 1 resets the live state.
TurnStart ==
    /\ turn = "idle"
    /\ turn' = "running"
    /\ replay' = onTurnStart(replay)
    /\ lifecycle' = IF mounted THEN onTurnStart(lifecycle) ELSE lifecycle
    /\ turnIssued' = {} /\ windows' = 0 /\ finishes' = 0 /\ renewals' = 0
    /\ UNCHANGED <<mounted, call, platform, known, judged>>

\* agent/turn-stopping only warns when a window is left open.
TurnEnd ==
    /\ turn = "running" /\ call.phase = "none"
    /\ turn' = "idle"
    /\ UNCHANGED <<mounted, lifecycle, replay, call, platform, history>>

(***************************************************************************)
(* A managed call passes the scoped guard.  A refused call settles as an   *)
(* error without a platform code and changes neither state (theorem        *)
(* RefusalIsNeutral), so it is no step here.  While nothing is mounted the *)
(* global guard refuses every OpenBKN tool.                                *)
(***************************************************************************)
Dispatch(r) ==
    /\ mounted /\ turn = "running" /\ call.phase = "none"
    /\ guardDenial(lifecycle, r) = "none"
    /\ r.name = "finish" => r.interactionId \in known \cup {NULL}
    /\ call' = [NoCall EXCEPT !.phase = "sent", !.req = r]
    /\ UNCHANGED <<mounted, lifecycle, replay, turn, platform, history>>

\* The synchronous tools/result listener.
Settle ==
    /\ call.phase = "answered"
    /\ call' = [call EXCEPT !.phase = "settled"]
    /\ lifecycle' = Fold(lifecycle)
    /\ windows' = IF Fold(lifecycle).starts > lifecycle.starts THEN Saturate(windows) ELSE windows
    /\ UNCHANGED <<mounted, replay, turn, platform,
                   turnIssued, finishes, renewals, known, judged>>

\* The host appends the tool/result event.
LogResult ==
    /\ call.phase = "settled"
    /\ call' = NoCall
    /\ replay' = Fold(replay)
    /\ finishes' = IF Succeeded("finish") THEN Saturate(finishes) ELSE finishes
    /\ known' = IF Succeeded("start")
                THEN known \cup ({projectLifecycleOutcome(call.out).interactionId} \ {NULL})
                ELSE known
    /\ judged' = IF call.out.code = "conversation-invalid"
                 THEN judged \cup {call.req.conversationId} ELSE judged
    /\ UNCHANGED <<mounted, lifecycle, turn, platform, turnIssued, windows, renewals>>

-----------------------------------------------------------------------------
(* The platform, as the plugin's code and tests rely on it.                *)

\* The shapes of a successful start of interaction i in conversation c.  A
\* platform that requires bkn_context always discloses the pair.
StartAnswers(i, c) ==
    { [NoOutcome EXCEPT !.trace = t, !.interactionId = i, !.conversationId = c] :
      t \in {"recorded", "capture-disabled"} }
    \cup { [NoOutcome EXCEPT !.trace = "unexplained"] }
    \cup ( IF ContextRequired THEN {}
           ELSE { [NoOutcome EXCEPT !.trace = t] : t \in {"capture-disabled", "unavailable"} } )

\* The start takes effect; its answer may be lost on the way (timeout, cancel).
PlatformStart(i, c) ==
    /\ call.phase = "sent" /\ call.req.name = "start"
    /\ \/ call.req.mode = "new" /\ honoured[c] = "unused"
       \/ call.req.mode = "continue" /\ call.req.conversationId = c /\ honoured[c] = "live"
    /\ issued[i] = NULL
    /\ issued' = [issued EXCEPT ![i] = c]
    /\ honoured' = [honoured EXCEPT ![c] = "live"]
    /\ turnIssued' = turnIssued \cup {i}
    /\ renewals' = IF call.req.mode = "new" /\ lifecycle.invalidated
                   THEN Saturate(renewals) ELSE renewals
    /\ \E out \in StartAnswers(i, c) \cup {Failure("other")} : Answer(out)
    /\ UNCHANGED <<mounted, lifecycle, replay, turn, windows, finishes, known, judged>>

\* The platform's explicit judgement: this conversation cannot be continued.
PlatformJudge ==
    /\ call.phase = "sent" /\ call.req.name = "start" /\ call.req.mode = "continue"
    /\ honoured[call.req.conversationId] # "live"
    /\ Answer(Failure("conversation-invalid"))
    /\ UNCHANGED <<mounted, lifecycle, replay, turn, platform, history>>

\* A finish of a known interaction closes it; the answer names it and its
\* conversation, or, when evidence is unavailable, no usable id at all.
PlatformFinish ==
    /\ call.phase = "sent" /\ call.req.name = "finish"
    /\ \E out \in {[NoOutcome EXCEPT !.trace = t] : t \in {"unavailable", "unexplained"}} \cup
                  { [NoOutcome EXCEPT !.interactionId = i, !.conversationId = issued[i]] :
                    i \in {j \in known : /\ j = call.req.interactionId
                                          /\ honoured[issued[j]] = "live"} } :
          Answer(out)
    /\ UNCHANGED <<mounted, lifecycle, replay, turn, platform, history>>

PlatformBusiness ==
    /\ call.phase = "sent" /\ call.req.name = "business"
    /\ Answer(NoOutcome)
    /\ UNCHANGED <<mounted, lifecycle, replay, turn, platform, history>>

\* Refusal, timeout, transport failure or cancellation without effect.
CallFails ==
    /\ call.phase = "sent"
    /\ Answer(Failure("other"))
    /\ UNCHANGED <<mounted, lifecycle, replay, turn, platform, history>>

\* A conversation is deleted, or the identity behind the token changes.
PlatformDrops(c) ==
    /\ honoured[c] = "live"
    /\ honoured' = [honoured EXCEPT ![c] = "gone"]
    /\ UNCHANGED <<session, issued, history>>

Next ==
    \/ Mount \/ Unmount \/ Crash \/ TurnStart \/ TurnEnd
    \/ \E r \in Requests : Dispatch(r)
    \/ Settle \/ LogResult
    \/ \E i \in Interactions, c \in Conversations : PlatformStart(i, c)
    \/ PlatformJudge \/ PlatformFinish \/ PlatformBusiness \/ CallFails
    \/ \E c \in Conversations : PlatformDrops(c)

Spec == Init /\ [][Next]_vars

-----------------------------------------------------------------------------
(* Every variable stays in its type; in particular a closed window keeps no
   interaction id and no recording reason (onToolResult, onTurnStart). *)
TypeOK ==
    /\ mounted \in BOOLEAN /\ turn \in {"idle", "running"}
    /\ lifecycle \in InteractionLifecycleState /\ replay \in InteractionLifecycleState
    /\ call \in Calls
    /\ honoured \in [Conversations -> {"unused", "live", "gone"}]
    /\ issued \in [Interactions -> ConversationId]
    /\ turnIssued \subseteq Interactions /\ known \subseteq Interactions
    /\ windows \in 0..2 /\ finishes \in 0..2 /\ renewals \in 0..2
    /\ judged \subseteq ConversationId

(* "One Interaction per accessing turn": however the model retries, whatever
   answers are lost and wherever the process crashes, a turn opens at most one
   access window (denialFor's startsThisTurn rule with onToolResult's count). *)
OneWindowPerTurn == windows <= 1

(* A business call that reaches a platform requiring bkn_context is attributed
   to an interaction the platform issued for this very turn and to that
   interaction's own conversation: no id of an earlier turn, of a crashed
   process or of an invalidated conversation gets through the guard. *)
AccessIsAttributed ==
    ContextRequired /\ call.phase = "sent" /\ call.req.name = "business" =>
        /\ call.req.interactionId \in turnIssued
        /\ issued[call.req.interactionId] = call.req.conversationId

(* Access ends with the turn's first finish: no business call is on its way
   once a finish succeeded, nor before a window opened, even when the finish
   disclosed no usable id. *)
NoAccessOutsideWindow ==
    call.phase = "sent" /\ call.req.name = "business" => windows = 1 /\ finishes = 0

(* Replaying the log rebuilds what the live listener knows: while a turn runs
   the two states are equal whenever no result is waiting for the log, and
   between turns they hold the same conversation. *)
ReplayIsExact ==
    mounted /\ call.phase # "settled" =>
        IF turn = "running" THEN lifecycle = replay
        ELSE lifecycle.conversationId = replay.conversationId

(* A conversation the platform judged invalid is never continued again, in
   this turn, a later turn, after a reload or after a crash. *)
JudgedNeverContinued ==
    call.phase = "sent" /\ call.req.name = "start" /\ call.req.mode = "continue" =>
        call.req.conversationId \notin judged

(* The session forgets no conversation: every one the log adopted and the
   platform has not judged invalid is the one the log still holds, so a session
   never trades a usable conversation for a second one. *)
NothingForgotten == KnownConversations \ judged \subseteq {replay.conversationId}

(* No deny -> retry -> deny loop: whatever call is refused, the next step the
   denial text prescribes passes the guard in that same state. *)
AdviceIsAdmissible ==
    mounted => \A r \in Requests : \A next \in Advice(lifecycle, guardDenial(lifecycle, r)) :
                   guardDenial(lifecycle, next) = "none"

(* Provenance needs a turn's log to hold at most one successful finish, or
   findCompletedNativeMcpProvenance answers nothing. *)
FinishOncePerTurn == finishes <= 1

(* After a judgement a turn reopens a conversation at most once (the comment
   of denialFor's recovery branch, and the test that covers it). *)
OneRenewalPerTurn == renewals <= 1

(* Each accessing turn has one interaction on the platform (the comment of
   denialFor's startsThisTurn branch). *)
OneInteractionPerTurn == \A i, j \in turnIssued : i = j

-----------------------------------------------------------------------------
(* The session implements GovernedAccess.                                  *)
Window    == IF lifecycle.open THEN "open" ELSE IF windows > 0 THEN "done" ELSE "closed"
Accessing == call.phase = "sent" /\ call.req.name = "business"
Live      == { c \in Conversations : honoured[c] = "live" }

Governed == INSTANCE GovernedAccess WITH
    window <- Window, accessing <- Accessing, held <- replay.conversationId, honoured <- Live

(* Whatever the model, the platform and the process do, what they can observe
   of the session is one window per turn, access inside it only, and a single
   conversation that is given up only once the platform no longer honours it
   (denialFor, onToolResult and restoreFrom together). *)
ImplementsGovernedAccess == Governed!Spec
=============================================================================
