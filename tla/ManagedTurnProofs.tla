------------------------- MODULE ManagedTurnProofs -------------------------
(***************************************************************************)
(* Theorems about one bound session, for any sets of conversations and     *)
(* interactions.  The argument has four layers:                            *)
(*   1. what the pure functions of interaction-lifecycle.ts return;        *)
(*   2. an inductive invariant for each concern: types, the turn's window, *)
(*      agreement of live state and log, conversations, advice;            *)
(*   3. the properties of ManagedTurn, which follow from the invariants;   *)
(*   4. the refinement of GovernedAccess.                                  *)
(***************************************************************************)
EXTENDS ManagedTurn, TLAPS

-----------------------------------------------------------------------------
(* Layer 1: the pure functions.                                            *)

(* A call the guard refuses settles as an error without a platform code;
   replaying it, or hearing of it live, changes nothing.  This is why
   Dispatch needs no action for refused calls. *)
THEOREM RefusalIsNeutral ==
    ASSUME NEW s, NEW name, NEW out \in Outcomes, out.isError, out.code = "none"
    PROVE  onToolResult(s, name, ~out.isError, projectLifecycleOutcome(out)) = s
BY DEF onToolResult, StartFailed, classifyFailure, projectLifecycleOutcome, NoProjection

(* The state of a session that has seen nothing is well formed. *)
LEMMA InitialStateType == initialState \in InteractionLifecycleState
BY DEF initialState, InteractionLifecycleState, WellFormed, ConversationId, InteractionId, Recording

(* A new turn and a restored session keep the conversation and nothing else. *)
LEMMA FreshState ==
    ASSUME NEW s \in InteractionLifecycleState
    PROVE  /\ onTurnStart(s) \in InteractionLifecycleState
           /\ restoreFrom(s) = onTurnStart(s)
           /\ onTurnStart(s).conversationId = s.conversationId
           /\ onTurnStart(s).starts = 0
           /\ ~onTurnStart(s).open
           /\ onTurnStart(onTurnStart(s)) = onTurnStart(s)
BY DEF onTurnStart, restoreFrom, initialState, InteractionLifecycleState, WellFormed,
       ConversationId, InteractionId, Recording

(* What the projection keeps of an outcome has its type, and names no
   identifier the outcome does not name. *)
LEMMA ProjectionType ==
    ASSUME NEW out \in Outcomes
    PROVE  /\ projectLifecycleOutcome(out) \in Projections
           /\ projectLifecycleOutcome(out).conversationId \in {NULL, out.conversationId}
           /\ projectLifecycleOutcome(out).interactionId \in {NULL, out.interactionId}
           /\ projectLifecycleOutcome(out).errorCode =
                 IF out.isError THEN out.code ELSE "none"
BY DEF projectLifecycleOutcome, Projections, Outcomes, NoProjection, unrecordedLifecycleReason,
       InteractionId, ConversationId, ErrorCode, Recording

(* Hearing of a result keeps the state well formed. *)
LEMMA ResultType ==
    ASSUME NEW s \in InteractionLifecycleState, NEW p \in Projections,
           NEW ok \in BOOLEAN, NEW name \in {"start", "finish", "business"}
    PROVE  onToolResult(s, name, ok, p) \in InteractionLifecycleState
<1> USE DEF InteractionLifecycleState, Projections, WellFormed, ConversationId, InteractionId,
            Recording
<1>1. StartFailed(s, p) \in InteractionLifecycleState
  BY DEF StartFailed, Invalidate
<1>2. StartSucceeded(s, p) \in InteractionLifecycleState
  <2>1. CASE p.recording = "none" /\ p.interactionId = NULL
    BY <2>1 DEF StartSucceeded
  <2>2. CASE ~(p.recording = "none" /\ p.interactionId = NULL)
    <3>1. Adopt(s, p) \in ConversationId
      BY DEF Adopt
    <3>2. s.starts + 1 \in Nat
      OBVIOUS
    <3>3. StartSucceeded(s, p) =
            [s EXCEPT !.open = TRUE, !.starts = s.starts + 1, !.recording = p.recording,
                      !.interactionId = p.interactionId, !.conversationId = Adopt(s, p)]
      BY <2>2 DEF StartSucceeded
    <3> QED BY <3>1, <3>2, <3>3
  <2> QED BY <2>1, <2>2
<1>3. FinishSucceeded(s, p) \in InteractionLifecycleState
  BY DEF FinishSucceeded, CloseWindow, Adopt
<1> QED BY <1>1, <1>2, <1>3 DEF onToolResult

(* What a result can do to the window: only a successful start counts and
   opens, only a successful finish closes, nothing else touches it. *)
LEMMA ResultWindow ==
    ASSUME NEW s \in InteractionLifecycleState, NEW p \in Projections,
           NEW ok \in BOOLEAN, NEW name \in {"start", "finish", "business"},
           NEW t, t = onToolResult(s, name, ok, p)
    PROVE  /\ name = "business" \/ (name = "finish" /\ ~ok) => t = s
           /\ name = "finish" => t.starts = s.starts
           /\ name = "finish" /\ ok => ~t.open
           /\ name = "start" =>
                 \/ t.open = s.open /\ t.starts = s.starts
                 \/ ok /\ t.open /\ t.starts = s.starts + 1
<1> USE DEF InteractionLifecycleState
<1>1. StartFailed(s, p).open = s.open /\ StartFailed(s, p).starts = s.starts
  BY DEF StartFailed, Invalidate
<1>2. \/ StartSucceeded(s, p) = s
      \/ StartSucceeded(s, p).open /\ StartSucceeded(s, p).starts = s.starts + 1
  BY DEF StartSucceeded
<1>3. ~FinishSucceeded(s, p).open /\ FinishSucceeded(s, p).starts = s.starts
  BY DEF FinishSucceeded, CloseWindow
<1> HIDE DEF InteractionLifecycleState
<1>4. CASE name = "start" /\ ok
  <2>1. onToolResult(s, name, ok, p) = StartSucceeded(s, p)
    BY <1>4 DEF onToolResult
  <2> QED BY <1>2, <1>4, <2>1
<1>5. CASE name = "start" /\ ~ok
  <2>1. onToolResult(s, name, ok, p) = StartFailed(s, p)
    BY <1>5 DEF onToolResult
  <2> QED BY <1>1, <1>5, <2>1
<1>6. CASE name = "finish"
  BY <1>3, <1>6 DEF onToolResult
<1>7. CASE name = "business"
  BY <1>7 DEF onToolResult
<1> QED BY <1>4, <1>5, <1>6, <1>7

(* A judged start leaves no conversation; any other result leaves the one held
   before or the one it names. *)
LEMMA ResultConversation ==
    ASSUME NEW s \in InteractionLifecycleState, NEW p \in Projections,
           NEW ok \in BOOLEAN, NEW name \in {"start", "finish", "business"},
           NEW t, t = onToolResult(s, name, ok, p)
    PROVE  IF name = "start" /\ ~ok /\ p.errorCode = "conversation-invalid"
           THEN t.conversationId = NULL
           ELSE \/ t.conversationId = s.conversationId
                \/ t.conversationId = p.conversationId /\ p.conversationId # NULL
<1> USE DEF InteractionLifecycleState
<1>1. StartFailed(s, p).conversationId =
        IF p.errorCode = "conversation-invalid" THEN NULL ELSE s.conversationId
  BY DEF StartFailed, Invalidate, classifyFailure
<1>2. StartSucceeded(s, p).conversationId \in {s.conversationId, Adopt(s, p)}
  BY DEF StartSucceeded
<1>3. FinishSucceeded(s, p).conversationId = Adopt(s, p)
  BY DEF FinishSucceeded, CloseWindow
<1>4. \/ Adopt(s, p) = s.conversationId
      \/ Adopt(s, p) = p.conversationId /\ p.conversationId # NULL
  BY DEF Adopt
<1> QED BY <1>1, <1>2, <1>3, <1>4 DEF onToolResult

(* What the guard lets through: a start only in a turn that has no window yet,
   and, when it continues, only the held conversation; everything else only in
   an open window; and a business call to a platform that requires bkn_context
   only with the window's own pair of ids. *)
LEMMA GuardAdmits ==
    ASSUME NEW s \in InteractionLifecycleState, NEW r \in Requests,
           guardDenial(s, r) = "none"
    PROVE  /\ r.name = "start" => ~s.open /\ s.starts = 0
           /\ r.name = "start" /\ r.mode = "continue" =>
                 r.conversationId = s.conversationId /\ s.conversationId # NULL
           /\ r.name = "start" /\ r.mode = "new" => s.invalidated \/ s.conversationId = NULL
           /\ r.name # "start" => s.open
           /\ r.name = "business" /\ ContextRequired =>
                 /\ r.interactionId = s.interactionId /\ s.interactionId # NULL
                 /\ r.conversationId = s.conversationId /\ s.conversationId # NULL
<1>1. denialFor(s, r) = "none"
  BY DEF guardDenial
<1>2. r.name \in {"start", "finish", "business"}
  BY DEF Requests, StartRequests, FinishRequests, BusinessRequests
<1>3. CASE r.name = "start"
  <2>1. StartDenial(s, r) = "none"
    BY <1>1, <1>3 DEF denialFor
  <2> QED
    BY <1>3, <2>1 DEF StartDenial, TurnCompleted, NewWhileHeld, InteractionLifecycleState
<1>4. CASE r.name = "finish"
  <2>1. FinishDenial(s, r) = "none"
    BY <1>1, <1>4 DEF denialFor
  <2> QED BY <1>4, <2>1 DEF FinishDenial
<1>5. CASE r.name = "business"
  <2>1. BusinessDenial(s, r) = "none"
    BY <1>1, <1>5 DEF denialFor
  <2>2. managedContextDenial(s, r) = "none"
    BY <1>1 DEF guardDenial
  <2> QED BY <1>5, <2>1, <2>2 DEF BusinessDenial, managedContextDenial
<1> QED BY <1>2, <1>3, <1>4, <1>5

-----------------------------------------------------------------------------
(* Layer 2a: types.                                                        *)

(* Every outcome the platform gives is an outcome the projection can read. *)
LEMMA OutcomeType ==
    /\ NoOutcome \in Outcomes
    /\ \A code \in ErrorCode : Failure(code) \in Outcomes
    /\ \A i \in Interactions, c \in Conversations : StartAnswers(i, c) \subseteq Outcomes
<1> USE DEF NoOutcome, Outcomes, ErrorCode, InteractionId, ConversationId
<1>1. \A i \in InteractionId, c \in ConversationId,
         t \in {"recorded", "capture-disabled", "unavailable", "unexplained"} :
        [NoOutcome EXCEPT !.trace = t, !.interactionId = i, !.conversationId = c] \in Outcomes
  OBVIOUS
<1>2. \A t \in {"recorded", "capture-disabled", "unavailable", "unexplained"} :
        [NoOutcome EXCEPT !.trace = t] \in Outcomes
  OBVIOUS
<1>3. \A code \in ErrorCode : Failure(code) \in Outcomes
  BY DEF Failure
<1>4. ASSUME NEW i \in Interactions, NEW c \in Conversations
      PROVE  StartAnswers(i, c) \subseteq Outcomes
  <2>1. i \in InteractionId /\ c \in ConversationId
    OBVIOUS
  <2>2. ASSUME NEW out \in StartAnswers(i, c)
        PROVE  out \in Outcomes
    <3>1. PICK t \in {"recorded", "capture-disabled", "unavailable", "unexplained"} :
             \/ out = [NoOutcome EXCEPT !.trace = t, !.interactionId = i, !.conversationId = c]
             \/ out = [NoOutcome EXCEPT !.trace = t]
      BY <2>2 DEF StartAnswers
    <3>2. CASE out = [NoOutcome EXCEPT !.trace = t, !.interactionId = i, !.conversationId = c]
      BY <2>1, <3>2
    <3>3. CASE out = [NoOutcome EXCEPT !.trace = t]
      BY <3>3
    <3> QED BY <3>1, <3>2, <3>3
  <2> QED BY <2>2
<1>5. NoOutcome \in Outcomes
  OBVIOUS
<1> QED BY <1>3, <1>4, <1>5

(* Nothing in flight is a call too. *)
LEMMA NoCallType == NoCall \in Calls
<1>1. BusinessCall(FALSE, NULL, NULL) \in Requests
  BY DEF BusinessCall, Requests, BusinessRequests, ConversationId, InteractionId
<1> QED BY <1>1, OutcomeType DEF NoCall, Calls

(* An answer changes the outcome of the call in flight and nothing else. *)
LEMMA AnswerType ==
    ASSUME NEW out \in Outcomes, call \in Calls, Answer(out)
    PROVE  /\ call' \in Calls /\ call'.phase = "answered"
           /\ call'.req = call.req /\ call'.out = out
BY DEF Answer, Calls

(* Folding the result of the call in flight keeps a state well formed. *)
LEMMA FoldType ==
    ASSUME NEW s \in InteractionLifecycleState, call \in Calls
    PROVE  Fold(s) \in InteractionLifecycleState
<1>1. call.out \in Outcomes /\ call.req \in Requests /\ (~call.out.isError) \in BOOLEAN
  BY DEF Calls
<1>2. call.req.name \in {"start", "finish", "business"}
  BY <1>1 DEF Requests, StartRequests, FinishRequests, BusinessRequests
<1>3. projectLifecycleOutcome(call.out) \in Projections
  BY <1>1, ProjectionType
<1> QED BY <1>1, <1>2, <1>3, ResultType DEF Fold

(* Saturating counters stay in 0..2. *)
LEMMA SaturateType == \A n \in 0..2 : Saturate(n) \in 0..2
BY DEF Saturate

(* The initial state is well typed. *)
LEMMA TypeInit == Init => TypeOK
<1> SUFFICES ASSUME Init PROVE TypeOK
  OBVIOUS
<1>1. lifecycle \in InteractionLifecycleState /\ replay \in InteractionLifecycleState
  BY InitialStateType DEF Init
<1>2. call \in Calls
  BY NoCallType DEF Init
<1>3. issued \in [Interactions -> ConversationId]
  BY DEF Init, ConversationId
<1>4. honoured \in [Conversations -> {"unused", "live", "gone"}]
  BY DEF Init
<1>5. windows \in 0..2 /\ finishes \in 0..2 /\ renewals \in 0..2
  BY SMT DEF Init
<1>6. mounted \in BOOLEAN
  BY Zenon DEF Init
<1> QED BY <1>1, <1>2, <1>3, <1>4, <1>5, <1>6 DEF Init, TypeOK

(* Every action keeps every variable in its type. *)
LEMMA TypeStep == TypeOK /\ [Next]_vars => TypeOK'
<1> SUFFICES ASSUME TypeOK, [Next]_vars PROVE TypeOK'
  OBVIOUS
<1> USE DEF TypeOK
<1>1. CASE Mount
  BY <1>1, FreshState DEF Mount, platform, history
<1>2. CASE Unmount
  BY <1>2, InitialStateType DEF Unmount, platform, history
<1>3. CASE Crash
  BY <1>3, InitialStateType, NoCallType DEF Crash, platform, history
<1>4. CASE TurnStart
  BY <1>4, FreshState DEF TurnStart, platform
<1>5. CASE TurnEnd
  BY <1>5 DEF TurnEnd, platform, history
<1>6. ASSUME NEW r \in Requests, Dispatch(r) PROVE TypeOK'
  <2>1. call' \in Calls
    BY <1>6, NoCallType DEF Dispatch, Calls
  <2> QED BY <1>6, <2>1 DEF Dispatch, platform, history
<1>7. CASE Settle
  <2>1. call' \in Calls
    BY <1>7 DEF Settle, Calls
  <2>2. windows' \in 0..2
    BY <1>7, SaturateType DEF Settle
  <2>3. lifecycle' \in InteractionLifecycleState
    BY <1>7, FoldType DEF Settle
  <2> QED BY <1>7, <2>1, <2>2, <2>3 DEF Settle, platform
<1>8. CASE LogResult
  <2>1. finishes' \in 0..2
    BY <1>8, SaturateType DEF LogResult
  <2>2. replay' \in InteractionLifecycleState
    BY <1>8, FoldType DEF LogResult
  <2>3. call.req \in Requests /\ call.out \in Outcomes
    BY DEF Calls
  <2>4. call.req.conversationId \in ConversationId
    BY <2>3 DEF Requests, StartRequests, FinishRequests, BusinessRequests, ConversationId
  <2>5. projectLifecycleOutcome(call.out).interactionId \in InteractionId
    BY <2>3, ProjectionType DEF Projections
  <2>6. known' \subseteq Interactions
    BY <1>8, <2>5 DEF LogResult, InteractionId
  <2>7. judged' \subseteq ConversationId
    BY <1>8, <2>4 DEF LogResult
  <2> QED BY <1>8, NoCallType, <2>1, <2>2, <2>6, <2>7 DEF LogResult, platform
<1>9. ASSUME NEW i \in Interactions, NEW c \in Conversations, PlatformStart(i, c)
      PROVE  TypeOK'
  <2>1. PICK out \in StartAnswers(i, c) \cup {Failure("other")} : Answer(out)
    BY <1>9 DEF PlatformStart
  <2>2. out \in Outcomes
    BY OutcomeType DEF ErrorCode
  <2>3. call' \in Calls
    BY <2>1, <2>2, AnswerType
  <2>4. issued' \in [Interactions -> ConversationId]
    BY <1>9 DEF PlatformStart, ConversationId
  <2>5. honoured' \in [Conversations -> {"unused", "live", "gone"}]
    BY <1>9 DEF PlatformStart
  <2>6. renewals' \in 0..2
    BY <1>9, SaturateType DEF PlatformStart
  <2> QED BY <1>9, <2>3, <2>4, <2>5, <2>6 DEF PlatformStart
<1>10. CASE PlatformJudge
  <2>1. call' \in Calls
    BY <1>10, OutcomeType, AnswerType DEF PlatformJudge, ErrorCode
  <2> QED BY <1>10, <2>1 DEF PlatformJudge, platform, history
<1>11. CASE PlatformFinish
  <2>1. PICK out : Answer(out)
          /\ \/ \E t \in {"unavailable", "unexplained"} : out = [NoOutcome EXCEPT !.trace = t]
             \/ \E i \in Interactions :
                   out = [NoOutcome EXCEPT !.interactionId = i, !.conversationId = issued[i]]
    BY <1>11 DEF PlatformFinish
  <2>2. out \in Outcomes
    BY <2>1 DEF NoOutcome, Outcomes, ErrorCode, InteractionId, ConversationId
  <2>3. call' \in Calls
    BY <2>1, <2>2, AnswerType
  <2> QED BY <1>11, <2>3 DEF PlatformFinish, platform, history
<1>12. CASE PlatformBusiness
  <2>1. call' \in Calls
    BY <1>12, OutcomeType, AnswerType DEF PlatformBusiness
  <2> QED BY <1>12, <2>1 DEF PlatformBusiness, platform, history
<1>13. CASE CallFails
  <2>1. call' \in Calls
    BY <1>13, OutcomeType, AnswerType DEF CallFails, ErrorCode
  <2> QED BY <1>13, <2>1 DEF CallFails, platform, history
<1>14. ASSUME NEW c \in Conversations, PlatformDrops(c) PROVE TypeOK'
  BY <1>14 DEF PlatformDrops, session, history
<1>15. CASE UNCHANGED vars
  BY <1>15 DEF vars, session, platform, history
<1> QED BY <1>1, <1>2, <1>3, <1>4, <1>5, <1>6, <1>7, <1>8, <1>9, <1>10, <1>11, <1>12, <1>13,
           <1>14, <1>15 DEF Next

(* Every reachable state of a session is well typed, whatever the sets of
   conversations and interactions: closed windows keep no identity, and every
   outcome the listener sees is one the projection is defined for. *)
THEOREM TypeCorrect == Spec => []TypeOK
BY TypeInit, TypeStep, PTL DEF Spec

-----------------------------------------------------------------------------
(* Layer 2b: the turn's window.                                            *)

(* What a call in flight says of the state it was sent in.  Each conjunct is
   about one kind of call; `windows` and `finishes` are what the turn has seen. *)
CallInv ==
    /\ call.phase # "none" => mounted /\ turn = "running"
    /\ call.phase \in {"sent", "answered"} =>
          IF call.req.name = "start" THEN ~lifecycle.open /\ lifecycle.starts = 0
                                     ELSE lifecycle.open
    /\ call.phase = "settled" =>
          /\ call.req.name # "start" => lifecycle.starts = 1
          /\ call.req.name = "start" /\ call.out.isError => ~lifecycle.open
          /\ Succeeded("finish") => ~lifecycle.open /\ finishes = 0

(* The live state counts the turn's windows; while nothing is mounted there
   is none to count. *)
TurnInv ==
    /\ windows <= 1 /\ finishes <= 1
    /\ lifecycle.open => mounted /\ windows = 1
    /\ turn = "running" /\ mounted =>
          /\ windows = lifecycle.starts
          /\ lifecycle.open => lifecycle.starts = 1 /\ finishes = 0
          /\ finishes > 0 => lifecycle.starts = 1
    /\ turn = "running" /\ ~mounted => windows = 0 /\ finishes = 0

WindowInv == CallInv /\ TurnInv

(* What folding the call in flight does to the window. *)
LEMMA FoldWindow ==
    ASSUME NEW s \in InteractionLifecycleState, call \in Calls
    PROVE  /\ call.req.name = "business" => Fold(s) = s
           /\ call.req.name = "finish" => Fold(s).starts = s.starts
           /\ call.req.name = "finish" /\ call.out.isError => Fold(s) = s
           /\ Succeeded("finish") => ~Fold(s).open
           /\ call.req.name = "start" =>
                 \/ Fold(s).open = s.open /\ Fold(s).starts = s.starts
                 \/ ~call.out.isError /\ Fold(s).open /\ Fold(s).starts = s.starts + 1
           /\ call.req.name \in {"start", "finish", "business"}
<1>1. call.out \in Outcomes /\ call.req \in Requests /\ (~call.out.isError) \in BOOLEAN
  BY DEF Calls
<1>2. call.req.name \in {"start", "finish", "business"}
  BY <1>1 DEF Requests, StartRequests, FinishRequests, BusinessRequests
<1>3. projectLifecycleOutcome(call.out) \in Projections
  BY <1>1, ProjectionType
<1>4. PICK ok \in BOOLEAN : ok = ~call.out.isError
  BY <1>1
<1>5. Fold(s) = onToolResult(s, call.req.name, ok, projectLifecycleOutcome(call.out))
  BY <1>4 DEF Fold
<1>6. /\ call.req.name = "business" \/ (call.req.name = "finish" /\ ~ok) => Fold(s) = s
      /\ call.req.name = "finish" => Fold(s).starts = s.starts
      /\ call.req.name = "finish" /\ ok => ~Fold(s).open
      /\ call.req.name = "start" =>
            \/ Fold(s).open = s.open /\ Fold(s).starts = s.starts
            \/ ok /\ Fold(s).open /\ Fold(s).starts = s.starts + 1
  BY <1>2, <1>3, <1>5, ResultWindow
<1> QED BY <1>2, <1>4, <1>6 DEF Succeeded

(* Before the first turn there is no window and no call. *)
LEMMA WindowInit == Init => WindowInv
BY DEF Init, WindowInv, CallInv, TurnInv, NoCall, initialState, BusinessCall

(* An answer to the call in flight leaves the window alone. *)
LEMMA WindowAnswer ==
    ASSUME TypeOK, WindowInv, call.phase = "sent", NEW out \in Outcomes, Answer(out),
           UNCHANGED <<mounted, lifecycle, turn, windows, finishes>>
    PROVE  WindowInv'
<1>1. call'.phase = "answered" /\ call'.req = call.req
  BY AnswerType DEF TypeOK
<1>2. CallInv'
  BY <1>1 DEF WindowInv, CallInv, Succeeded
<1>3. TurnInv'
  BY DEF WindowInv, TurnInv
<1> QED BY <1>2, <1>3 DEF WindowInv

(* Every action keeps the count of the turn's windows and what calls say of it. *)
LEMMA WindowStep == TypeOK /\ WindowInv /\ [Next]_vars => WindowInv'
<1> SUFFICES ASSUME TypeOK, WindowInv, [Next]_vars PROVE WindowInv'
  OBVIOUS
<1> USE DEF WindowInv
<1>1. CASE Mount
  <2>1. ~lifecycle'.open /\ lifecycle'.starts = 0
    BY <1>1, FreshState DEF Mount, TypeOK
  <2> QED BY <1>1, <2>1 DEF Mount, CallInv, TurnInv, history, Succeeded
<1>2. CASE Unmount
  <2>1. call.phase = "none" /\ ~lifecycle'.open
    BY <1>2 DEF Unmount, CallInv, TypeOK, initialState
  <2> QED BY <1>2, <2>1 DEF Unmount, CallInv, TurnInv, history
<1>3. CASE Crash
  BY <1>3 DEF Crash, CallInv, TurnInv, history, NoCall, initialState
<1>4. CASE TurnStart
  <2>1. mounted => ~lifecycle'.open /\ lifecycle'.starts = 0
    BY <1>4, FreshState DEF TurnStart, TypeOK
  <2>2. call.phase = "none"
    BY <1>4 DEF TurnStart, CallInv
  <2> QED BY <1>4, <2>1, <2>2 DEF TurnStart, CallInv, TurnInv
<1>5. CASE TurnEnd
  BY <1>5 DEF TurnEnd, CallInv, TurnInv, history
<1>6. ASSUME NEW r \in Requests, Dispatch(r) PROVE WindowInv'
  <2>1. IF r.name = "start" THEN ~lifecycle.open /\ lifecycle.starts = 0 ELSE lifecycle.open
    BY <1>6, GuardAdmits DEF Dispatch, TypeOK
  <2>2. call'.phase = "sent" /\ call'.req = r
    BY <1>6 DEF Dispatch, NoCall
  <2> QED BY <1>6, <2>1, <2>2 DEF Dispatch, CallInv, TurnInv, history
<1>7. CASE Settle
  <2>1. call'.phase = "settled" /\ call'.req = call.req /\ call'.out = call.out
    BY <1>7 DEF Settle, TypeOK, Calls
  <2>2. mounted /\ turn = "running" /\ windows = lifecycle.starts
    BY <1>7 DEF Settle, CallInv, TurnInv
  <2>3. lifecycle' = Fold(lifecycle) /\ lifecycle.starts \in Nat
    BY <1>7 DEF Settle, TypeOK, InteractionLifecycleState
  <2>4. CASE call.req.name = "start"
    <3>1. lifecycle.starts = 0 /\ ~lifecycle.open
      BY <1>7, <2>4 DEF Settle, CallInv
    <3>2. windows' = lifecycle'.starts /\ (lifecycle'.open => lifecycle'.starts = 1)
      BY <1>7, <2>2, <2>3, <2>4, <3>1, FoldWindow DEF Settle, TypeOK, Saturate
    <3>3. windows' <= 1 /\ finishes = 0
      BY <2>2, <2>3, <2>4, <3>1, <3>2, FoldWindow DEF TypeOK, TurnInv
    <3>4. call.out.isError => ~lifecycle'.open
      BY <2>3, <2>4, <3>1, FoldWindow DEF TypeOK
    <3> QED
      BY <1>7, <2>1, <2>2, <2>4, <3>2, <3>3, <3>4 DEF Settle, CallInv, TurnInv, Succeeded
  <2>5. CASE call.req.name # "start"
    <3>1. lifecycle.open /\ lifecycle.starts = 1 /\ finishes = 0
      BY <1>7, <2>2, <2>5 DEF Settle, CallInv, TurnInv
    <3>2. lifecycle'.starts = 1 /\ windows' = 1
      BY <1>7, <2>2, <2>3, <2>5, <3>1, FoldWindow DEF Settle, TypeOK
    <3>3. Succeeded("finish") => ~lifecycle'.open
      BY <2>3, FoldWindow DEF TypeOK
    <3> QED
      BY <1>7, <2>1, <2>2, <2>5, <3>1, <3>2, <3>3 DEF Settle, CallInv, TurnInv, Succeeded
  <2> QED BY <2>4, <2>5
<1>8. CASE LogResult
  <2>1. mounted /\ turn = "running"
    BY <1>8 DEF LogResult, CallInv
  <2>2. call'.phase = "none"
    BY <1>8 DEF LogResult, NoCall
  <2>3. CASE Succeeded("finish")
    BY <1>8, <2>1, <2>2, <2>3 DEF LogResult, CallInv, TurnInv, Saturate, Succeeded
  <2>4. CASE ~Succeeded("finish")
    BY <1>8, <2>1, <2>2, <2>4 DEF LogResult, CallInv, TurnInv
  <2> QED BY <2>3, <2>4
<1>9. ASSUME NEW i \in Interactions, NEW c \in Conversations, PlatformStart(i, c)
      PROVE  WindowInv'
  <2>1. PICK out \in StartAnswers(i, c) \cup {Failure("other")} : Answer(out)
    BY <1>9 DEF PlatformStart
  <2>2. out \in Outcomes
    BY OutcomeType DEF ErrorCode
  <2> QED BY <1>9, <2>1, <2>2, WindowAnswer DEF PlatformStart
<1>10. CASE PlatformJudge
  <2>1. Failure("conversation-invalid") \in Outcomes
    BY OutcomeType DEF ErrorCode
  <2> QED BY <1>10, <2>1, WindowAnswer DEF PlatformJudge, history
<1>11. CASE PlatformFinish
  <2>1. PICK out : Answer(out)
          /\ \/ \E t \in {"unavailable", "unexplained"} : out = [NoOutcome EXCEPT !.trace = t]
             \/ \E i \in Interactions :
                   out = [NoOutcome EXCEPT !.interactionId = i, !.conversationId = issued[i]]
    BY <1>11 DEF PlatformFinish, TypeOK
  <2>2. out \in Outcomes
    BY <2>1 DEF NoOutcome, Outcomes, ErrorCode, InteractionId, ConversationId, TypeOK
  <2> QED BY <1>11, <2>1, <2>2, WindowAnswer DEF PlatformFinish, history
<1>12. CASE PlatformBusiness
  BY <1>12, OutcomeType, WindowAnswer DEF PlatformBusiness, history
<1>13. CASE CallFails
  <2>1. Failure("other") \in Outcomes
    BY OutcomeType DEF ErrorCode
  <2> QED BY <1>13, <2>1, WindowAnswer DEF CallFails, history
<1>14. ASSUME NEW c \in Conversations, PlatformDrops(c) PROVE WindowInv'
  BY <1>14 DEF PlatformDrops, session, history, CallInv, TurnInv, Succeeded
<1>15. CASE UNCHANGED vars
  BY <1>15 DEF vars, session, history, CallInv, TurnInv, Succeeded
<1> QED BY <1>1, <1>2, <1>3, <1>4, <1>5, <1>6, <1>7, <1>8, <1>9, <1>10, <1>11, <1>12, <1>13,
           <1>14, <1>15 DEF Next

-----------------------------------------------------------------------------
(* Layer 2c: the live state and the log.                                   *)

(* The two states coincide while a turn runs, except for the one result the
   listener has heard and the log has not; between turns the conversation is
   all they share; a log no policy listens to holds no open window. *)
ReplayInv ==
    /\ turn = "running" /\ mounted /\ call.phase # "settled" => lifecycle = replay
    /\ call.phase = "settled" => lifecycle = Fold(replay)
    /\ turn = "idle" /\ mounted => lifecycle.conversationId = replay.conversationId
    /\ turn = "running" /\ ~mounted => replay = restoreFrom(replay)

(* An empty log replays to the initial state. *)
LEMMA ReplayInit == Init => ReplayInv
BY DEF Init, ReplayInv, NoCall

(* Every action keeps the live state and the log in step. *)
LEMMA ReplayStep == TypeOK /\ CallInv /\ ReplayInv /\ [Next]_vars => ReplayInv'
<1> SUFFICES ASSUME TypeOK, CallInv, ReplayInv, [Next]_vars PROVE ReplayInv'
  OBVIOUS
<1>1. CASE Mount
  <2>1. call.phase = "none"
    BY <1>1 DEF Mount, CallInv
  <2>2. lifecycle'.conversationId = replay.conversationId
    BY <1>1, FreshState DEF Mount, TypeOK
  <2>3. turn = "running" => lifecycle' = replay
    BY <1>1 DEF Mount, ReplayInv
  <2> QED BY <1>1, <2>1, <2>2, <2>3 DEF Mount, ReplayInv
<1>2. CASE Unmount
  <2>1. call.phase = "none"
    BY <1>2 DEF Unmount, CallInv, TypeOK
  <2> QED BY <1>2, <2>1 DEF Unmount, ReplayInv
<1>3. CASE Crash
  BY <1>3 DEF Crash, ReplayInv, NoCall
<1>4. CASE TurnStart
  <2>1. call.phase = "none"
    BY <1>4 DEF TurnStart, CallInv
  <2>2. mounted => lifecycle' = replay'
    BY <1>4 DEF TurnStart, ReplayInv, onTurnStart
  <2>3. ~mounted => replay' = restoreFrom(replay')
    BY <1>4, FreshState DEF TurnStart, TypeOK
  <2> QED BY <1>4, <2>1, <2>2, <2>3 DEF TurnStart, ReplayInv
<1>5. CASE TurnEnd
  BY <1>5 DEF TurnEnd, ReplayInv
<1>6. ASSUME NEW r \in Requests, Dispatch(r) PROVE ReplayInv'
  BY <1>6 DEF Dispatch, ReplayInv, NoCall
<1>7. CASE Settle
  <2>1. call'.phase = "settled" /\ call'.req = call.req /\ call'.out = call.out
    BY <1>7 DEF Settle, TypeOK, Calls
  <2>2. mounted /\ turn = "running"
    BY <1>7 DEF Settle, CallInv
  <2>3. lifecycle' = Fold(lifecycle) /\ lifecycle = replay
    BY <1>7, <2>2 DEF Settle, ReplayInv
  <2>4. lifecycle' = Fold(replay)'
    BY <1>7, <2>1, <2>3 DEF Settle, Fold
  <2> QED BY <1>7, <2>1, <2>2, <2>4 DEF Settle, ReplayInv
<1>8. CASE LogResult
  <2>1. mounted /\ turn = "running"
    BY <1>8 DEF LogResult, CallInv
  <2>2. lifecycle' = replay'
    BY <1>8 DEF LogResult, ReplayInv
  <2> QED BY <1>8, <2>1, <2>2 DEF LogResult, ReplayInv, NoCall
<1>9. ASSUME call.phase = "sent", NEW out, Answer(out),
             UNCHANGED <<mounted, lifecycle, replay, turn>>
      PROVE  ReplayInv'
  <2>1. call'.phase = "answered"
    BY <1>9 DEF Answer, TypeOK, Calls
  <2> QED BY <1>9, <2>1 DEF ReplayInv
<1>10. ASSUME NEW i \in Interactions, NEW c \in Conversations, PlatformStart(i, c)
       PROVE  ReplayInv'
  <2>1. PICK out : Answer(out)
    BY <1>10 DEF PlatformStart
  <2> QED BY <1>9, <1>10, <2>1 DEF PlatformStart
<1>11. CASE PlatformJudge
  BY <1>9, <1>11 DEF PlatformJudge
<1>12. CASE PlatformFinish
  <2>1. PICK out : Answer(out)
    BY <1>12 DEF PlatformFinish
  <2> QED BY <1>9, <1>12, <2>1 DEF PlatformFinish
<1>13. CASE PlatformBusiness
  BY <1>9, <1>13 DEF PlatformBusiness
<1>14. CASE CallFails
  BY <1>9, <1>14 DEF CallFails
<1>15. ASSUME NEW c \in Conversations, PlatformDrops(c) PROVE ReplayInv'
  BY <1>15 DEF PlatformDrops, session, ReplayInv, Fold
<1>16. CASE UNCHANGED vars
  BY <1>16 DEF vars, session, ReplayInv, Fold
<1> QED BY <1>1, <1>2, <1>3, <1>4, <1>5, <1>6, <1>7, <1>8, <1>10, <1>11, <1>12, <1>13,
           <1>14, <1>15, <1>16 DEF Next

-----------------------------------------------------------------------------
(* Layer 2d: conversations.                                                *)

(* A conversation the session may hold: the platform created it, and has not
   judged it in a result the log already has. *)
Holdable(c) == c = NULL \/ (c \in Conversations \ judged /\ honoured[c] # "unused")

Heard == call.phase \in {"answered", "settled"}

(* A judged conversation is gone for good, so neither the states nor a result
   on its way can bring it back. *)
JudgedInv ==
    /\ judged \subseteq Conversations
    /\ \A c \in judged : honoured[c] = "gone"
    /\ Holdable(lifecycle.conversationId) /\ Holdable(replay.conversationId)
    /\ Heard => Holdable(call.out.conversationId)
    /\ call.phase = "sent" /\ call.req.name = "start" /\ call.req.mode = "continue" =>
          call.req.conversationId = lifecycle.conversationId /\ lifecycle.conversationId # NULL
    /\ Heard /\ call.out.code = "conversation-invalid" =>
          /\ call.req.name = "start" /\ call.out.isError
          /\ call.req.conversationId \in Conversations
          /\ call.req.conversationId = replay.conversationId
          /\ honoured[call.req.conversationId] = "gone"
    /\ \A i \in known : issued[i] # NULL
    /\ Heard /\ call.out.interactionId # NULL => issued[call.out.interactionId] # NULL

(* Folding a judgement leaves no conversation; folding any other result leaves
   the one held before or the one the result names. *)
LEMMA FoldConversation ==
    ASSUME NEW s \in InteractionLifecycleState, call \in Calls
    PROVE  IF call.req.name = "start" /\ call.out.isError
              /\ call.out.code = "conversation-invalid"
           THEN Fold(s).conversationId = NULL
           ELSE \/ Fold(s).conversationId = s.conversationId
                \/ /\ Fold(s).conversationId = call.out.conversationId
                   /\ call.out.conversationId # NULL
<1>1. call.out \in Outcomes /\ call.req \in Requests /\ (~call.out.isError) \in BOOLEAN
  BY DEF Calls
<1>2. call.req.name \in {"start", "finish", "business"}
  BY <1>1 DEF Requests, StartRequests, FinishRequests, BusinessRequests
<1> DEFINE p == projectLifecycleOutcome(call.out)
<1>3. /\ p \in Projections
      /\ p.conversationId \in {NULL, call.out.conversationId}
      /\ p.errorCode = IF call.out.isError THEN call.out.code ELSE "none"
  BY <1>1, ProjectionType
<1>4. PICK ok \in BOOLEAN : ok = ~call.out.isError
  BY <1>1
<1>5. Fold(s) = onToolResult(s, call.req.name, ok, p)
  BY <1>4 DEF Fold
<1> HIDE DEF p
<1>6. IF call.req.name = "start" /\ ~ok /\ p.errorCode = "conversation-invalid"
      THEN Fold(s).conversationId = NULL
      ELSE \/ Fold(s).conversationId = s.conversationId
           \/ Fold(s).conversationId = p.conversationId /\ p.conversationId # NULL
  BY <1>2, <1>3, <1>5, ResultConversation
<1> QED BY <1>3, <1>4, <1>6

(* At first nothing is judged and nothing is held. *)
LEMMA JudgedInit == Init => JudgedInv
BY DEF Init, JudgedInv, Holdable, Heard, NoCall, initialState, BusinessCall

(* Every action keeps judged conversations gone and unheld. *)
LEMMA JudgedStep == TypeOK /\ CallInv /\ ReplayInv /\ JudgedInv /\ [Next]_vars => JudgedInv'
<1> SUFFICES ASSUME TypeOK, CallInv, ReplayInv, JudgedInv, [Next]_vars PROVE JudgedInv'
  OBVIOUS
<1>0. ASSUME UNCHANGED <<honoured, judged>>
      PROVE  \A c : Holdable(c) => Holdable(c)'
  BY <1>0 DEF Holdable
<1>1. CASE Mount
  <2>1. call.phase = "none"
    BY <1>1 DEF Mount, CallInv
  <2>2. lifecycle'.conversationId = replay.conversationId
    BY <1>1, FreshState DEF Mount, TypeOK
  <2> QED BY <1>1, <2>1, <2>2 DEF Mount, JudgedInv, Holdable, Heard, platform, history
<1>2. CASE Unmount
  <2>1. call.phase = "none"
    BY <1>2 DEF Unmount, CallInv, TypeOK
  <2>2. lifecycle'.conversationId = NULL
    BY <1>2 DEF Unmount, initialState
  <2> QED BY <1>2, <2>1, <2>2 DEF Unmount, JudgedInv, Holdable, Heard, platform, history
<1>3. CASE Crash
  <2>1. call'.phase = "none" /\ lifecycle'.conversationId = NULL
    BY <1>3 DEF Crash, initialState, NoCall
  <2> QED BY <1>3, <2>1 DEF Crash, JudgedInv, Holdable, Heard, platform, history
<1>4. CASE TurnStart
  <2>1. call.phase = "none"
    BY <1>4 DEF TurnStart, CallInv
  <2>2. /\ replay'.conversationId = replay.conversationId
        /\ lifecycle'.conversationId = lifecycle.conversationId
    BY <1>4, FreshState DEF TurnStart, TypeOK
  <2> QED BY <1>4, <2>1, <2>2 DEF TurnStart, JudgedInv, Holdable, Heard, platform
<1>5. CASE TurnEnd
  BY <1>5 DEF TurnEnd, JudgedInv, Holdable, Heard, platform, history
<1>6. ASSUME NEW r \in Requests, Dispatch(r) PROVE JudgedInv'
  <2>1. call'.phase = "sent" /\ call'.req = r
    BY <1>6 DEF Dispatch, NoCall
  <2>2. r.name = "start" /\ r.mode = "continue" =>
           r.conversationId = lifecycle.conversationId /\ lifecycle.conversationId # NULL
    BY <1>6, GuardAdmits DEF Dispatch, TypeOK
  <2> QED BY <1>6, <2>1, <2>2 DEF Dispatch, JudgedInv, Holdable, Heard, platform, history
<1>7. CASE Settle
  <2>1. call'.phase = "settled" /\ call'.req = call.req /\ call'.out = call.out
    BY <1>7 DEF Settle, TypeOK, Calls
  <2>2. lifecycle'.conversationId \in {lifecycle.conversationId, call.out.conversationId, NULL}
    BY <1>7, FoldConversation DEF Settle, TypeOK
  <2>3. Heard
    BY <1>7 DEF Settle, Heard
  <2> QED BY <1>7, <2>1, <2>2, <2>3 DEF Settle, JudgedInv, Holdable, Heard, platform
<1>8. CASE LogResult
  <2>1. Heard /\ call'.phase = "none"
    BY <1>8 DEF LogResult, Heard, NoCall
  <2>2. replay' = Fold(replay) /\ lifecycle' = Fold(replay)
    BY <1>8 DEF LogResult, ReplayInv
  <2>3. Fold(replay).conversationId \in {replay.conversationId, call.out.conversationId, NULL}
    BY FoldConversation DEF TypeOK
  <2>4. projectLifecycleOutcome(call.out).interactionId \in {NULL, call.out.interactionId}
    BY ProjectionType DEF TypeOK, Calls
  <2>5. \A i \in known' : issued'[i] # NULL
    BY <1>8, <2>1, <2>4 DEF LogResult, JudgedInv, platform
  <2>6. CASE call.out.code = "conversation-invalid"
    <3>1. Fold(replay).conversationId = NULL
      BY <2>1, <2>6, FoldConversation DEF TypeOK, JudgedInv
    <3>2. judged' = judged \cup {call.req.conversationId}
      BY <1>8, <2>6 DEF LogResult
    <3> QED
      BY <1>8, <2>1, <2>2, <2>5, <2>6, <3>1, <3>2
      DEF LogResult, JudgedInv, Holdable, Heard, platform
  <2>7. CASE call.out.code # "conversation-invalid"
    <3>1. judged' = judged
      BY <1>8, <2>7 DEF LogResult
    <3> QED
      BY <1>8, <2>1, <2>2, <2>3, <2>5, <3>1 DEF LogResult, JudgedInv, Holdable, Heard, platform
  <2> QED BY <2>6, <2>7
<1>9. ASSUME call.phase = "sent", NEW out \in Outcomes, Answer(out),
             UNCHANGED <<lifecycle, replay, honoured, issued, known, judged>>,
             Holdable(out.conversationId), out.code # "conversation-invalid",
             out.interactionId # NULL => issued[out.interactionId] # NULL
      PROVE  JudgedInv'
  <2>1. call'.phase = "answered" /\ call'.req = call.req /\ call'.out = out
    BY <1>9, AnswerType DEF TypeOK
  <2> QED BY <1>9, <2>1 DEF JudgedInv, Holdable, Heard
<1>10. ASSUME NEW i \in Interactions, NEW c \in Conversations, PlatformStart(i, c)
       PROVE  JudgedInv'
  <2>1. PICK out \in StartAnswers(i, c) \cup {Failure("other")} : Answer(out)
    BY <1>10 DEF PlatformStart
  <2>2. out \in Outcomes
    BY OutcomeType DEF ErrorCode
  <2>3. call'.phase = "answered" /\ call'.req = call.req /\ call'.out = out
    BY <2>1, <2>2, AnswerType DEF TypeOK
  <2>4. out.conversationId \in {NULL, c} /\ out.interactionId \in {NULL, i}
        /\ out.code # "conversation-invalid"
    BY <2>1 DEF StartAnswers, Failure, NoOutcome
  <2>5. honoured[c] \in {"unused", "live"} /\ honoured' = [honoured EXCEPT ![c] = "live"]
    BY <1>10 DEF PlatformStart
  <2>6. c \notin judged /\ honoured'[c] = "live"
    BY <2>5 DEF JudgedInv, TypeOK
  <2>7. \A d \in Conversations \ {c} : honoured'[d] = honoured[d]
    BY <2>5 DEF TypeOK
  <2>8. \A d : Holdable(d) => Holdable(d)'
    BY <1>10, <2>6, <2>7 DEF PlatformStart, Holdable
  <2>9. Holdable(c)'
    BY <1>10, <2>6 DEF PlatformStart, Holdable
  <2>10. Holdable(NULL)'
    BY DEF Holdable
  <2>11. \A d \in judged' : honoured'[d] = "gone"
    BY <1>10, <2>6, <2>7 DEF PlatformStart, JudgedInv
  <2>12. issued' = [issued EXCEPT ![i] = c] /\ c # NULL
    BY <1>10, NullIsNoId DEF PlatformStart
  <2>13. issued'[i] # NULL /\ \A j \in known' : issued'[j] # NULL
    BY <1>10, <2>12 DEF PlatformStart, TypeOK, JudgedInv
  <2> QED
    BY <1>10, <2>3, <2>4, <2>8, <2>9, <2>10, <2>11, <2>13 DEF PlatformStart, JudgedInv, Heard
<1>11. CASE PlatformJudge
  <2>1. Failure("conversation-invalid") \in Outcomes
    BY OutcomeType DEF ErrorCode
  <2>2. /\ call'.phase = "answered" /\ call'.req = call.req
        /\ call'.out = Failure("conversation-invalid")
    BY <1>11, <2>1, AnswerType DEF PlatformJudge, TypeOK
  <2>3. call'.out.conversationId = NULL /\ call'.out.interactionId = NULL /\ call'.out.isError
    BY <2>2 DEF Failure, NoOutcome
  <2>4. /\ call.req.conversationId = lifecycle.conversationId
        /\ call.req.conversationId # NULL
        /\ honoured[call.req.conversationId] # "live"
    BY <1>11 DEF PlatformJudge, JudgedInv
  <2>5. lifecycle = replay
    BY <1>11 DEF PlatformJudge, CallInv, ReplayInv
  <2>6. /\ call.req.conversationId \in Conversations
        /\ honoured[call.req.conversationId] = "gone"
    BY <2>4 DEF JudgedInv, Holdable, TypeOK
  <2> QED
    BY <1>11, <2>2, <2>3, <2>4, <2>5, <2>6
    DEF PlatformJudge, JudgedInv, Holdable, Heard, platform, history
<1>12. CASE PlatformFinish
  <2>1. PICK out : Answer(out)
          /\ \/ \E t \in {"unavailable", "unexplained"} : out = [NoOutcome EXCEPT !.trace = t]
             \/ \E i \in known :
                   /\ out = [NoOutcome EXCEPT !.interactionId = i, !.conversationId = issued[i]]
                   /\ honoured[issued[i]] = "live"
    BY <1>12 DEF PlatformFinish
  <2>2. out \in Outcomes
    BY <2>1 DEF NoOutcome, Outcomes, ErrorCode, InteractionId, ConversationId, TypeOK
  <2>3. CASE \E t \in {"unavailable", "unexplained"} : out = [NoOutcome EXCEPT !.trace = t]
    <3>1. /\ out.conversationId = NULL /\ out.interactionId = NULL
          /\ out.code # "conversation-invalid"
      BY <2>3 DEF NoOutcome
    <3> QED BY <1>9, <1>12, <2>1, <2>2, <3>1 DEF PlatformFinish, platform, history, Holdable
  <2>4. ASSUME NEW i \in known, honoured[issued[i]] = "live",
               out = [NoOutcome EXCEPT !.interactionId = i, !.conversationId = issued[i]]
        PROVE  JudgedInv'
    <3>1. /\ out.conversationId = issued[i] /\ out.interactionId = i
          /\ out.code # "conversation-invalid"
      BY <2>4 DEF NoOutcome
    <3>2. issued[i] \in Conversations \ judged
      BY <2>4 DEF JudgedInv, TypeOK, ConversationId
    <3> QED
      BY <1>9, <1>12, <2>1, <2>2, <2>4, <3>1, <3>2
      DEF PlatformFinish, platform, history, Holdable, JudgedInv
  <2> QED BY <2>1, <2>3, <2>4
<1>13. CASE PlatformBusiness
  BY <1>9, <1>13, OutcomeType DEF PlatformBusiness, platform, history, NoOutcome, Holdable
<1>14. CASE CallFails
  <2>1. Failure("other") \in Outcomes
    BY OutcomeType DEF ErrorCode
  <2> QED
    BY <1>9, <1>14, <2>1 DEF CallFails, platform, history, Failure, NoOutcome, Holdable
<1>15. ASSUME NEW c \in Conversations, PlatformDrops(c) PROVE JudgedInv'
  <2>1. honoured' = [honoured EXCEPT ![c] = "gone"] /\ UNCHANGED <<session, issued, history>>
    BY <1>15 DEF PlatformDrops
  <2>2. \A d \in Conversations : /\ honoured'[d] = "gone" \/ honoured'[d] = honoured[d]
                                 /\ honoured[d] = "gone" => honoured'[d] = "gone"
    BY <2>1 DEF TypeOK
  <2>3. \A d : Holdable(d) => Holdable(d)'
    BY <2>1, <2>2 DEF Holdable, history
  <2> QED BY <2>1, <2>2, <2>3 DEF JudgedInv, session, history, Heard
<1>16. CASE UNCHANGED vars
  BY <1>16 DEF vars, session, platform, history, JudgedInv, Holdable, Heard
<1> QED BY <1>1, <1>2, <1>3, <1>4, <1>5, <1>6, <1>7, <1>8, <1>10, <1>11, <1>12, <1>13,
           <1>14, <1>15, <1>16 DEF Next

(* The window's ids are those of an interaction of this turn. *)
AttributionInv ==
    /\ turn = "running" /\ mounted /\ lifecycle.open /\ lifecycle.interactionId # NULL =>
          /\ lifecycle.interactionId \in turnIssued
          /\ issued[lifecycle.interactionId] = lifecycle.conversationId
          /\ lifecycle.conversationId # NULL
    /\ Heard /\ call.req.name = "start" /\ call.out.interactionId # NULL =>
          /\ call.out.interactionId \in turnIssued
          /\ issued[call.out.interactionId] = call.out.conversationId
          /\ call.out.conversationId # NULL
    /\ ContextRequired /\ call.phase = "sent" /\ call.req.name = "business" =>
          /\ call.req.interactionId = lifecycle.interactionId /\ lifecycle.interactionId # NULL
          /\ call.req.conversationId = lifecycle.conversationId

(* What a successful start leaves in the state, and what no other result
   changes in it. *)
LEMMA FoldStart ==
    ASSUME NEW s \in InteractionLifecycleState, call \in Calls
    PROVE  LET p == projectLifecycleOutcome(call.out) IN
           /\ Succeeded("start") /\ p.interactionId # NULL =>
                 /\ Fold(s).interactionId = call.out.interactionId
                 /\ Fold(s).conversationId =
                       IF call.out.conversationId = NULL THEN s.conversationId
                                                         ELSE call.out.conversationId
           /\ Fold(s).open =>
                 \/ Fold(s) = s
                 \/ call.req.name = "start" /\ s.open
                 \/ Succeeded("start") /\ Fold(s).interactionId = p.interactionId
           /\ call.req.name = "start" =>
                 \/ Fold(s) = s
                 \/ Fold(s).conversationId = NULL
                 \/ Fold(s).starts = s.starts + 1
<1> DEFINE p == projectLifecycleOutcome(call.out)
<1>1. call.out \in Outcomes /\ call.req \in Requests
  BY DEF Calls
<1>2. call.req.name \in {"start", "finish", "business"}
  BY <1>1 DEF Requests, StartRequests, FinishRequests, BusinessRequests
<1>3. /\ p.interactionId # NULL => /\ p.interactionId = call.out.interactionId
                                   /\ p.conversationId = call.out.conversationId
  BY <1>1 DEF projectLifecycleOutcome, NoProjection
<1> HIDE DEF p
<1>4. CASE Succeeded("start")
  <2>1. Fold(s) = StartSucceeded(s, p)
    BY <1>4 DEF Fold, onToolResult, Succeeded, p
  <2>2. \/ StartSucceeded(s, p) = s
        \/ /\ StartSucceeded(s, p).interactionId = p.interactionId
           /\ StartSucceeded(s, p).starts = s.starts + 1
    BY DEF StartSucceeded, InteractionLifecycleState
  <2>3. p.interactionId # NULL => /\ StartSucceeded(s, p).interactionId = p.interactionId
                                  /\ StartSucceeded(s, p).conversationId = Adopt(s, p)
    BY DEF StartSucceeded, InteractionLifecycleState
  <2>4. p.interactionId # NULL => Adopt(s, p) = IF call.out.conversationId = NULL
                                                THEN s.conversationId
                                                ELSE call.out.conversationId
    BY <1>3 DEF Adopt
  <2> QED BY <1>3, <1>4, <2>1, <2>2, <2>3, <2>4 DEF Succeeded, p
<1>5. CASE call.req.name = "start" /\ call.out.isError
  <2>1. Fold(s) = StartFailed(s, p)
    BY <1>5 DEF Fold, onToolResult, p
  <2>2. /\ StartFailed(s, p).open = s.open
        /\ StartFailed(s, p) = s \/ StartFailed(s, p).conversationId = NULL
    BY DEF StartFailed, Invalidate, InteractionLifecycleState
  <2> QED BY <1>5, <2>1, <2>2 DEF Succeeded
<1>6. CASE call.req.name # "start"
  <2>1. Fold(s).open => Fold(s) = s
    BY <1>1, <1>2, <1>6, FoldWindow DEF Succeeded
  <2> QED BY <1>6, <2>1 DEF Succeeded
<1> QED BY <1>4, <1>5, <1>6 DEF Succeeded

(* At first there is no window to attribute. *)
LEMMA AttributionInit == Init => AttributionInv
BY DEF Init, AttributionInv, Heard, NoCall

(* Every action keeps the window's ids those of this turn. *)
LEMMA AttributionStep ==
    TypeOK /\ CallInv /\ AttributionInv /\ [Next]_vars => AttributionInv'
<1> SUFFICES ASSUME TypeOK, CallInv, AttributionInv, [Next]_vars PROVE AttributionInv'
  OBVIOUS
<1>1. CASE Mount
  <2>1. call.phase = "none" /\ ~lifecycle'.open
    BY <1>1, FreshState DEF Mount, CallInv, TypeOK
  <2> QED BY <1>1, <2>1 DEF Mount, AttributionInv, Heard, platform, history
<1>2. CASE Unmount
  <2>1. call.phase = "none"
    BY <1>2 DEF Unmount, CallInv, TypeOK
  <2> QED BY <1>2, <2>1 DEF Unmount, AttributionInv, Heard, platform, history
<1>3. CASE Crash
  BY <1>3 DEF Crash, AttributionInv, Heard, platform, history, NoCall
<1>4. CASE TurnStart
  <2>1. call.phase = "none" /\ (mounted => ~lifecycle'.open)
    BY <1>4, FreshState DEF TurnStart, CallInv, TypeOK
  <2> QED BY <1>4, <2>1 DEF TurnStart, AttributionInv, Heard, platform
<1>5. CASE TurnEnd
  BY <1>5 DEF TurnEnd, AttributionInv, Heard, platform, history
<1>6. ASSUME NEW r \in Requests, Dispatch(r) PROVE AttributionInv'
  <2>1. call'.phase = "sent" /\ call'.req = r
    BY <1>6 DEF Dispatch, NoCall
  <2>2. r.name = "business" /\ ContextRequired =>
           /\ r.interactionId = lifecycle.interactionId /\ lifecycle.interactionId # NULL
           /\ r.conversationId = lifecycle.conversationId
    BY <1>6, GuardAdmits DEF Dispatch, TypeOK
  <2> QED BY <1>6, <2>1, <2>2 DEF Dispatch, AttributionInv, Heard, platform, history
<1>7. CASE Settle
  <2>1. call'.phase = "settled" /\ call'.req = call.req /\ call'.out = call.out
    BY <1>7 DEF Settle, TypeOK, Calls
  <2>2. Heard /\ call.phase = "answered" /\ lifecycle' = Fold(lifecycle)
    BY <1>7 DEF Settle, Heard
  <2>3. \/ ~lifecycle'.open
        \/ lifecycle' = lifecycle
        \/ Succeeded("start")
           /\ lifecycle'.interactionId = projectLifecycleOutcome(call.out).interactionId
    BY <2>2, FoldStart DEF TypeOK, CallInv
  <2>4. CASE Succeeded("start") /\ projectLifecycleOutcome(call.out).interactionId # NULL
    <3>1. /\ lifecycle'.interactionId = call.out.interactionId
          /\ lifecycle'.conversationId =
                IF call.out.conversationId = NULL THEN lifecycle.conversationId
                                                  ELSE call.out.conversationId
      BY <2>2, <2>4, FoldStart DEF TypeOK
    <3> QED
      BY <1>7, <2>1, <2>2, <2>4, <3>1 DEF Settle, AttributionInv, Heard, platform, Succeeded
  <2>5. CASE ~(Succeeded("start") /\ projectLifecycleOutcome(call.out).interactionId # NULL)
    BY <1>7, <2>1, <2>2, <2>3, <2>5 DEF Settle, AttributionInv, Heard, platform
  <2> QED BY <2>4, <2>5
<1>8. CASE LogResult
  BY <1>8 DEF LogResult, AttributionInv, Heard, platform, NoCall
<1>9. ASSUME call.phase = "sent", NEW out \in Outcomes, Answer(out),
             UNCHANGED <<mounted, lifecycle, turn, issued, turnIssued>>,
             call.req.name = "start" => out.interactionId = NULL
      PROVE  AttributionInv'
  <2>1. call'.phase = "answered" /\ call'.req = call.req /\ call'.out = out
    BY <1>9, AnswerType DEF TypeOK
  <2> QED BY <1>9, <2>1 DEF AttributionInv, Heard
<1>10. ASSUME NEW i \in Interactions, NEW c \in Conversations, PlatformStart(i, c)
       PROVE  AttributionInv'
  <2>1. PICK out \in StartAnswers(i, c) \cup {Failure("other")} : Answer(out)
    BY <1>10 DEF PlatformStart
  <2>2. out \in Outcomes
    BY OutcomeType DEF ErrorCode
  <2>3. call'.phase = "answered" /\ call'.req = call.req /\ call'.out = out
    BY <2>1, <2>2, AnswerType DEF TypeOK
  <2>4. out.interactionId = NULL \/ (out.interactionId = i /\ out.conversationId = c)
    BY <2>1 DEF StartAnswers, Failure, NoOutcome
  <2>5. ~lifecycle.open /\ call.req.name = "start"
    BY <1>10 DEF PlatformStart, CallInv
  <2>6. i \in turnIssued' /\ issued'[i] = c /\ c # NULL
    BY <1>10, NullIsNoId DEF PlatformStart, TypeOK
  <2> QED BY <1>10, <2>3, <2>4, <2>5, <2>6 DEF PlatformStart, AttributionInv, Heard
<1>11. CASE PlatformJudge
  <2>1. /\ Failure("conversation-invalid") \in Outcomes
        /\ Failure("conversation-invalid").interactionId = NULL
    BY OutcomeType DEF ErrorCode, Failure, NoOutcome
  <2> QED BY <1>9, <1>11, <2>1 DEF PlatformJudge, platform, history
<1>12. CASE PlatformFinish
  <2>1. PICK out : Answer(out)
          /\ \/ \E t \in {"unavailable", "unexplained"} : out = [NoOutcome EXCEPT !.trace = t]
             \/ \E i \in known :
                   out = [NoOutcome EXCEPT !.interactionId = i, !.conversationId = issued[i]]
    BY <1>12 DEF PlatformFinish
  <2>2. out \in Outcomes
    BY <2>1 DEF NoOutcome, Outcomes, ErrorCode, InteractionId, ConversationId, TypeOK
  <2> QED BY <1>9, <1>12, <2>1, <2>2 DEF PlatformFinish, platform, history
<1>13. CASE PlatformBusiness
  BY <1>9, <1>13, OutcomeType DEF PlatformBusiness, platform, history
<1>14. CASE CallFails
  <2>1. Failure("other") \in Outcomes /\ Failure("other").interactionId = NULL
    BY OutcomeType DEF ErrorCode, Failure, NoOutcome
  <2> QED BY <1>9, <1>14, <2>1 DEF CallFails, platform, history
<1>15. ASSUME NEW c \in Conversations, PlatformDrops(c) PROVE AttributionInv'
  BY <1>15 DEF PlatformDrops, session, history, AttributionInv, Heard
<1>16. CASE UNCHANGED vars
  BY <1>16 DEF vars, session, platform, history, AttributionInv, Heard
<1> QED BY <1>1, <1>2, <1>3, <1>4, <1>5, <1>6, <1>7, <1>8, <1>10, <1>11, <1>12, <1>13,
           <1>14, <1>15, <1>16 DEF Next

(* A session that may create a conversation holds none, and a result names
   none but the one held. *)
MemoryInv ==
    /\ NothingForgotten
    /\ turn = "running" /\ mounted /\ lifecycle.invalidated /\ lifecycle.starts = 0 =>
          lifecycle.conversationId = NULL
    /\ call.phase = "sent" /\ call.req.name = "start" /\ call.req.mode = "new" =>
          lifecycle.conversationId = NULL
    /\ Heard /\ call.out.conversationId # NULL =>
          replay.conversationId \in {NULL, call.out.conversationId}

(* At first there is nothing to forget. *)
LEMMA MemoryInit == Init => MemoryInv
BY DEF Init, MemoryInv, NothingForgotten, KnownConversations, Heard, NoCall, initialState

(* Every action keeps the session to one conversation until it is judged. *)
LEMMA MemoryStep ==
    TypeOK /\ CallInv /\ TurnInv /\ ReplayInv /\ JudgedInv /\ AttributionInv /\ MemoryInv
    /\ [Next]_vars => MemoryInv'
<1> SUFFICES ASSUME TypeOK, CallInv, TurnInv, ReplayInv, JudgedInv, AttributionInv, MemoryInv,
                    [Next]_vars
             PROVE  MemoryInv'
  OBVIOUS
<1>0. ASSUME UNCHANGED <<issued, known, judged>>,
             replay'.conversationId = replay.conversationId
      PROVE  NothingForgotten'
  BY <1>0 DEF MemoryInv, NothingForgotten, KnownConversations
<1>1. CASE Mount
  <2>1. /\ call.phase = "none" /\ ~lifecycle'.invalidated
    BY <1>1 DEF Mount, CallInv, restoreFrom, initialState
  <2>2. NothingForgotten'
    BY <1>0, <1>1 DEF Mount, platform, history
  <2> QED BY <1>1, <2>1, <2>2 DEF Mount, MemoryInv, Heard
<1>2. CASE Unmount
  <2>1. call.phase = "none"
    BY <1>2 DEF Unmount, CallInv, TypeOK
  <2>2. NothingForgotten'
    BY <1>0, <1>2 DEF Unmount, platform, history
  <2> QED BY <1>2, <2>1, <2>2 DEF Unmount, MemoryInv, Heard
<1>3. CASE Crash
  <2>1. NothingForgotten'
    BY <1>0, <1>3 DEF Crash, platform, history
  <2> QED BY <1>3, <2>1 DEF Crash, MemoryInv, Heard, NoCall
<1>4. CASE TurnStart
  <2>1. call.phase = "none" /\ replay'.conversationId = replay.conversationId
    BY <1>4, FreshState DEF TurnStart, CallInv, TypeOK
  <2>2. mounted => ~lifecycle'.invalidated
    BY <1>4 DEF TurnStart, onTurnStart, initialState
  <2>3. NothingForgotten'
    BY <1>0, <1>4, <2>1 DEF TurnStart, platform
  <2> QED BY <1>4, <2>1, <2>2, <2>3 DEF TurnStart, MemoryInv, Heard
<1>5. CASE TurnEnd
  <2>1. NothingForgotten'
    BY <1>0, <1>5 DEF TurnEnd, platform, history
  <2> QED BY <1>5, <2>1 DEF TurnEnd, MemoryInv, Heard
<1>6. ASSUME NEW r \in Requests, Dispatch(r) PROVE MemoryInv'
  <2>1. call'.phase = "sent" /\ call'.req = r
    BY <1>6 DEF Dispatch, NoCall
  <2>2. r.name = "start" /\ r.mode = "new" => lifecycle.conversationId = NULL
    BY <1>6, GuardAdmits DEF Dispatch, TypeOK, MemoryInv
  <2>3. NothingForgotten'
    BY <1>0, <1>6 DEF Dispatch, platform, history
  <2> QED BY <1>6, <2>1, <2>2, <2>3 DEF Dispatch, MemoryInv, Heard
<1>7. CASE Settle
  <2>1. call'.phase = "settled" /\ call'.req = call.req /\ call'.out = call.out
    BY <1>7 DEF Settle, TypeOK, Calls
  <2>2. Heard /\ mounted /\ turn = "running" /\ lifecycle' = Fold(lifecycle)
    BY <1>7 DEF Settle, Heard, CallInv
  <2>3. lifecycle'.starts = 0 => lifecycle'.conversationId = NULL \/ lifecycle' = lifecycle
    <3>1. CASE call.req.name = "start"
      <4>1. lifecycle.starts = 0
        BY <1>7, <3>1 DEF Settle, CallInv
      <4> QED BY <2>2, <3>1, <4>1, FoldStart DEF TypeOK
    <3>2. CASE call.req.name # "start"
      <4>1. lifecycle.starts = 1
        BY <1>7, <2>2, <3>2 DEF Settle, CallInv, TurnInv
      <4> QED BY <2>2, <3>2, <4>1, FoldWindow DEF TypeOK
    <3> QED BY <3>1, <3>2
  <2>4. NothingForgotten'
    BY <1>0, <1>7 DEF Settle, platform
  <2> QED BY <1>7, <2>1, <2>2, <2>3, <2>4 DEF Settle, MemoryInv, Heard
<1>8. CASE LogResult
  <2>1. Heard /\ mounted /\ turn = "running" /\ call'.phase = "none"
    BY <1>8 DEF LogResult, Heard, CallInv, NoCall
  <2>2. replay' = Fold(replay) /\ lifecycle = Fold(replay)
    BY <1>8 DEF LogResult, ReplayInv
  <2>3. \A i \in known : issued[i] # NULL /\ issued[i] \in judged \cup {replay.conversationId}
    BY DEF JudgedInv, MemoryInv, NothingForgotten, KnownConversations
  <2>4. NothingForgotten'
    <3>1. CASE call.out.code = "conversation-invalid"
      <4>1. judged' = judged \cup {replay.conversationId}
        BY <1>8, <2>1, <3>1 DEF LogResult, JudgedInv
      <4>2. known' = known
        BY <1>8, <2>1, <3>1 DEF LogResult, JudgedInv, Succeeded
      <4> QED
        BY <1>8, <2>3, <4>1, <4>2 DEF LogResult, platform, NothingForgotten, KnownConversations
    <3>2. CASE call.out.code # "conversation-invalid"
      <4>1. judged' = judged /\ issued' = issued
        BY <1>8, <3>2 DEF LogResult, platform
      <4>2. \/ replay'.conversationId = replay.conversationId
            \/ /\ replay'.conversationId = call.out.conversationId
               /\ call.out.conversationId # NULL
        BY <2>2, <3>2, FoldConversation DEF TypeOK
      <4>3. \A i \in known : issued[i] \in judged \cup {replay'.conversationId}
        BY <2>1, <2>3, <4>2 DEF MemoryInv
      <4>4. ASSUME NEW i \in known' \ known
            PROVE  issued[i] = replay'.conversationId
        <5>1. /\ Succeeded("start") /\ i # NULL
              /\ i = projectLifecycleOutcome(call.out).interactionId
          BY <1>8, <4>4 DEF LogResult
        <5>2. i = call.out.interactionId
          BY <5>1, ProjectionType DEF TypeOK, Calls
        <5>3. issued[i] = call.out.conversationId /\ call.out.conversationId # NULL
          BY <2>1, <5>1, <5>2 DEF AttributionInv, Succeeded
        <5>4. replay'.conversationId = call.out.conversationId
          BY <2>2, <5>1, <5>3, FoldStart DEF TypeOK
        <5> QED BY <5>3, <5>4
      <4> QED BY <4>1, <4>3, <4>4 DEF NothingForgotten, KnownConversations
    <3> QED BY <3>1, <3>2
  <2> QED BY <1>8, <2>1, <2>4 DEF LogResult, MemoryInv, Heard
<1>9. ASSUME call.phase = "sent", NEW out \in Outcomes, Answer(out),
             UNCHANGED <<mounted, lifecycle, replay, turn>>, NothingForgotten',
             out.conversationId \in {NULL, replay.conversationId} \/ replay.conversationId = NULL
      PROVE  MemoryInv'
  <2>1. call'.phase = "answered" /\ call'.req = call.req /\ call'.out = out
    BY <1>9, AnswerType DEF TypeOK
  <2> QED BY <1>9, <2>1 DEF MemoryInv, Heard
<1>10. ASSUME NEW i \in Interactions, NEW c \in Conversations, PlatformStart(i, c)
       PROVE  MemoryInv'
  <2>1. PICK out \in StartAnswers(i, c) \cup {Failure("other")} : Answer(out)
    BY <1>10 DEF PlatformStart
  <2>2. out \in Outcomes
    BY OutcomeType DEF ErrorCode
  <2>3. out.conversationId \in {NULL, c}
    BY <2>1 DEF StartAnswers, Failure, NoOutcome
  <2>4. lifecycle = replay
    BY <1>10 DEF PlatformStart, CallInv, ReplayInv
  <2>5. replay.conversationId \in {NULL, c}
    BY <1>10, <2>4 DEF PlatformStart, MemoryInv, JudgedInv
  <2>6. i \notin known /\ issued' = [issued EXCEPT ![i] = c]
    BY <1>10 DEF PlatformStart, JudgedInv
  <2>7. \A j \in known : issued'[j] = issued[j]
    BY <2>6 DEF TypeOK
  <2>8. NothingForgotten'
    BY <1>10, <2>7 DEF PlatformStart, MemoryInv, NothingForgotten, KnownConversations
  <2> QED BY <1>9, <1>10, <2>1, <2>2, <2>3, <2>5, <2>8 DEF PlatformStart
<1>11. CASE PlatformJudge
  <2>1. /\ Failure("conversation-invalid") \in Outcomes
        /\ Failure("conversation-invalid").conversationId = NULL
    BY OutcomeType DEF ErrorCode, Failure, NoOutcome
  <2>2. NothingForgotten'
    BY <1>0, <1>11 DEF PlatformJudge, platform, history
  <2> QED BY <1>9, <1>11, <2>1, <2>2 DEF PlatformJudge
<1>12. CASE PlatformFinish
  <2>1. PICK out : Answer(out)
          /\ \/ \E t \in {"unavailable", "unexplained"} : out = [NoOutcome EXCEPT !.trace = t]
             \/ \E i \in known :
                   /\ out = [NoOutcome EXCEPT !.interactionId = i, !.conversationId = issued[i]]
                   /\ honoured[issued[i]] = "live"
    BY <1>12 DEF PlatformFinish
  <2>2. out \in Outcomes
    BY <2>1 DEF NoOutcome, Outcomes, ErrorCode, InteractionId, ConversationId, TypeOK
  <2>3. \A i \in known : honoured[issued[i]] = "live" => issued[i] = replay.conversationId
    BY DEF JudgedInv, MemoryInv, NothingForgotten, KnownConversations
  <2>4. out.conversationId \in {NULL, replay.conversationId}
    BY <2>1, <2>3 DEF NoOutcome
  <2>5. NothingForgotten'
    BY <1>0, <1>12 DEF PlatformFinish, platform, history
  <2> QED BY <1>9, <1>12, <2>1, <2>2, <2>4, <2>5 DEF PlatformFinish
<1>13. CASE PlatformBusiness
  <2>1. NothingForgotten'
    BY <1>0, <1>13 DEF PlatformBusiness, platform, history
  <2> QED BY <1>9, <1>13, <2>1, OutcomeType DEF PlatformBusiness, NoOutcome
<1>14. CASE CallFails
  <2>1. Failure("other") \in Outcomes /\ Failure("other").conversationId = NULL
    BY OutcomeType DEF ErrorCode, Failure, NoOutcome
  <2>2. NothingForgotten'
    BY <1>0, <1>14 DEF CallFails, platform, history
  <2> QED BY <1>9, <1>14, <2>1, <2>2 DEF CallFails
<1>15. ASSUME NEW c \in Conversations, PlatformDrops(c) PROVE MemoryInv'
  BY <1>15 DEF PlatformDrops, session, history, MemoryInv, NothingForgotten,
               KnownConversations, Heard
<1>16. CASE UNCHANGED vars
  BY <1>16 DEF vars, session, platform, history, MemoryInv, NothingForgotten,
               KnownConversations, Heard
<1> QED BY <1>1, <1>2, <1>3, <1>4, <1>5, <1>6, <1>7, <1>8, <1>10, <1>11, <1>12, <1>13,
           <1>14, <1>15, <1>16 DEF Next

-----------------------------------------------------------------------------
(* Layer 2e: what a denial may advise.                                     *)

(* A window a platform that requires bkn_context opened has both ids, whether
   its turn still runs or not; a judged session that has not started again
   holds no conversation. *)
AdviceInv ==
    /\ ContextRequired /\ lifecycle.open =>
          lifecycle.interactionId # NULL /\ lifecycle.conversationId # NULL
    /\ lifecycle.invalidated /\ lifecycle.starts = 0 => lifecycle.conversationId = NULL
    /\ ContextRequired /\ call.phase = "answered" /\ Succeeded("start") =>
          \/ call.out.interactionId # NULL /\ call.out.conversationId # NULL
          \/ projectLifecycleOutcome(call.out) = NoProjection

(* What a denial prescribes passes the guard it comes from, in every state in
   which an open window has the ids the platform requires and a judged session
   that has not started again holds no conversation. *)
LEMMA AdviceAdmitted ==
    ASSUME NEW s \in InteractionLifecycleState, NEW r \in Requests,
           ContextRequired /\ s.open => s.interactionId # NULL /\ s.conversationId # NULL,
           s.invalidated /\ s.starts = 0 => s.conversationId = NULL,
           NEW next \in Advice(s, guardDenial(s, r))
    PROVE  guardDenial(s, next) = "none"
<1> DEFINE d == guardDenial(s, r)
<1>0. s.starts \in Nat /\ s.open \in BOOLEAN /\ s.invalidated \in BOOLEAN
  BY DEF InteractionLifecycleState
(* The two calls that suit an open window, and the start that suits a closed one. *)
<1>1. s.open => guardDenial(s, FinishCall(s.interactionId)) = "none"
  BY DEF guardDenial, denialFor, BorrowsIdentity, FinishDenial, managedContextDenial, FinishCall
<1>2. s.open /\ s.interactionId # NULL =>
         guardDenial(s, BusinessCall(TRUE, s.interactionId, s.conversationId)) = "none"
  BY DEF guardDenial, denialFor, BorrowsIdentity, BusinessDenial, managedContextDenial,
         BusinessCall
<1>3. s.open /\ s.interactionId = NULL =>
         guardDenial(s, BusinessCall(FALSE, NULL, NULL)) = "none"
  BY DEF guardDenial, denialFor, BorrowsIdentity, BusinessDenial, managedContextDenial,
         BusinessCall
<1>4. ~s.open /\ s.starts = 0 /\ s.conversationId = NULL =>
         guardDenial(s, StartCall("new", NULL)) = "none"
  BY DEF guardDenial, denialFor, StartDenial, TurnCompleted, NewWhileHeld,
         managedContextDenial, StartCall
<1>5. ~s.open /\ s.starts = 0 /\ s.conversationId # NULL =>
         guardDenial(s, StartCall("continue", s.conversationId)) = "none"
  BY DEF guardDenial, denialFor, StartDenial, TurnCompleted, NewWhileHeld,
         managedContextDenial, StartCall
(* Each denial says which of the two cases the state is in. *)
<1>6. /\ d = "already-open" => s.open
      /\ d \in {"judged-invalid", "none-held"} =>
            ~s.open /\ s.starts = 0 /\ s.conversationId = NULL
      /\ d \in {"already-held", "mismatched"} =>
            ~s.open /\ s.starts = 0 /\ s.conversationId # NULL
      /\ d = "omit-context" => s.open /\ s.interactionId = NULL
      /\ d = "finish-current" => s.open
      /\ d = "start-first" => ~s.open /\ s.starts = 0
      /\ d = "context-required" => s.open /\ s.interactionId # NULL
  <2>1. r.name \in {"start", "finish", "business"}
    BY DEF Requests, StartRequests, FinishRequests, BusinessRequests
  <2>2. CASE r.name = "start"
    BY <1>0, <2>2 DEF guardDenial, denialFor, StartDenial, TurnCompleted, NewWhileHeld,
                      managedContextDenial
  <2>3. CASE r.name = "finish"
    BY <1>0, <2>3 DEF guardDenial, denialFor, BorrowsIdentity, FinishDenial,
                      managedContextDenial
  <2>4. CASE r.name = "business"
    BY <1>0, <2>4 DEF guardDenial, denialFor, BorrowsIdentity, BusinessDenial,
                      managedContextDenial
  <2> QED BY <2>1, <2>2, <2>3, <2>4
<1> HIDE DEF d
<1>7. next \in Advice(s, d)
  BY DEF d
<1>8. CASE d = "already-open"
  <2>1. next = FinishCall(s.interactionId) \/
           next = BusinessCall(s.interactionId # NULL, s.interactionId,
                               IF s.interactionId = NULL THEN NULL ELSE s.conversationId)
    BY <1>7, <1>8 DEF Advice
  <2>2. CASE s.interactionId = NULL
    <3>1. BusinessCall(s.interactionId # NULL, s.interactionId,
                       IF s.interactionId = NULL THEN NULL ELSE s.conversationId)
             = BusinessCall(FALSE, NULL, NULL)
      BY <2>2 DEF BusinessCall
    <3> QED BY <1>1, <1>3, <1>6, <1>8, <2>1, <2>2, <3>1
  <2>3. CASE s.interactionId # NULL
    <3>1. BusinessCall(s.interactionId # NULL, s.interactionId,
                       IF s.interactionId = NULL THEN NULL ELSE s.conversationId)
             = BusinessCall(TRUE, s.interactionId, s.conversationId)
      BY <2>3 DEF BusinessCall
    <3> QED BY <1>1, <1>2, <1>6, <1>8, <2>1, <2>3, <3>1
  <2> QED BY <2>2, <2>3
<1>9. CASE d \in {"judged-invalid", "none-held"}
  BY <1>4, <1>6, <1>7, <1>9 DEF Advice
<1>10. CASE d \in {"already-held", "mismatched"}
  BY <1>5, <1>6, <1>7, <1>10 DEF Advice
<1>11. CASE d = "omit-context"
  <2>1. next = FinishCall(NULL) \/ next = BusinessCall(FALSE, NULL, NULL)
    BY <1>7, <1>11 DEF Advice
  <2> QED BY <1>1, <1>3, <1>6, <1>11, <2>1
<1>12. CASE d = "finish-current"
  BY <1>1, <1>6, <1>7, <1>12 DEF Advice
<1>13. CASE d = "start-first"
  <2>1. next = StartCall(IF s.conversationId = NULL THEN "new" ELSE "continue",
                         s.conversationId)
    BY <1>7, <1>13 DEF Advice
  <2> QED BY <1>4, <1>5, <1>6, <1>13, <2>1
<1>14. CASE d = "context-required"
  BY <1>2, <1>6, <1>7, <1>14 DEF Advice
<1>15. CASE d \notin {"already-open", "judged-invalid", "none-held", "already-held",
                      "mismatched", "omit-context", "finish-current", "start-first",
                      "context-required"}
  BY <1>7, <1>15 DEF Advice
<1> QED BY <1>8, <1>9, <1>10, <1>11, <1>12, <1>13, <1>14, <1>15

(* What the result of the call in flight leaves of the two facts. *)
LEMMA FoldAdvice ==
    ASSUME NEW s \in InteractionLifecycleState, call \in Calls
    PROVE  LET p == projectLifecycleOutcome(call.out) IN
           /\ Succeeded("start") =>
                 \/ Fold(s) = s
                 \/ /\ p # NoProjection /\ Fold(s).starts = s.starts + 1
                    /\ Fold(s).interactionId = p.interactionId
                    /\ Fold(s).conversationId = Adopt(s, p)
           /\ call.req.name = "start" /\ call.out.isError =>
                 \/ Fold(s) = s
                 \/ Fold(s).open = s.open /\ Fold(s).conversationId = NULL
           /\ call.out.isError => p.interactionId = NULL
           /\ p # NoProjection /\ ~call.out.isError =>
                 /\ p.interactionId = call.out.interactionId
                 /\ p.conversationId = call.out.conversationId
<1> DEFINE p == projectLifecycleOutcome(call.out)
<1>1. call.out \in Outcomes
  BY DEF Calls
<1>2. CASE Succeeded("start")
  <2>1. Fold(s) = StartSucceeded(s, p)
    BY <1>2 DEF Fold, onToolResult, Succeeded
  <2>2. CASE p.recording = "none" /\ p.interactionId = NULL
    BY <1>2, <2>1, <2>2 DEF StartSucceeded, Succeeded, projectLifecycleOutcome
  <2>3. CASE ~(p.recording = "none" /\ p.interactionId = NULL)
    <3>1. p # NoProjection
      BY <2>3 DEF NoProjection
    <3> HIDE DEF p
    <3>2. /\ StartSucceeded(s, p).starts = s.starts + 1
          /\ StartSucceeded(s, p).interactionId = p.interactionId
          /\ StartSucceeded(s, p).conversationId = Adopt(s, p)
      BY <2>3 DEF StartSucceeded, InteractionLifecycleState
    <3>3. ~call.out.isError
      BY <1>2 DEF Succeeded
    <3>4. /\ p.interactionId = call.out.interactionId
          /\ p.conversationId = call.out.conversationId
      BY <3>1, <3>3 DEF p, projectLifecycleOutcome
    <3> QED BY <2>1, <3>1, <3>2, <3>3, <3>4 DEF p
  <2> QED BY <2>2, <2>3
<1>3. CASE ~Succeeded("start")
  <2>1. call.req.name = "start" /\ call.out.isError => Fold(s) = StartFailed(s, p)
    BY DEF Fold, onToolResult
  <2>2. \/ StartFailed(s, p) = s
        \/ StartFailed(s, p).open = s.open /\ StartFailed(s, p).conversationId = NULL
    BY DEF StartFailed, Invalidate, InteractionLifecycleState
  <2>3. /\ call.out.isError => p.interactionId = NULL
        /\ p # NoProjection /\ ~call.out.isError =>
              /\ p.interactionId = call.out.interactionId
              /\ p.conversationId = call.out.conversationId
    BY DEF projectLifecycleOutcome, NoProjection
  <2> QED BY <1>3, <2>1, <2>2, <2>3
<1> QED BY <1>2, <1>3

(* At first no window is open and nothing was judged. *)
LEMMA AdviceInit == Init => AdviceInv
BY DEF Init, AdviceInv, NoCall, initialState

(* Every action keeps the facts the advice rests on. *)
LEMMA AdviceStep ==
    TypeOK /\ CallInv /\ TurnInv /\ AdviceInv /\ [Next]_vars => AdviceInv'
<1> SUFFICES ASSUME TypeOK, CallInv, TurnInv, AdviceInv, [Next]_vars PROVE AdviceInv'
  OBVIOUS
<1>1. CASE Mount
  <2>1. call.phase = "none" /\ ~lifecycle'.open /\ ~lifecycle'.invalidated
    BY <1>1, FreshState DEF Mount, CallInv, TypeOK, restoreFrom, initialState
  <2> QED BY <1>1, <2>1 DEF Mount, AdviceInv
<1>2. CASE Unmount
  <2>1. ~lifecycle'.open /\ ~lifecycle'.invalidated
    BY <1>2 DEF Unmount, initialState
  <2>2. call.phase = "none"
    BY <1>2 DEF Unmount, CallInv, TypeOK
  <2> QED BY <1>2, <2>1, <2>2 DEF Unmount, AdviceInv
<1>3. CASE Crash
  BY <1>3 DEF Crash, AdviceInv, NoCall, initialState
<1>4. CASE TurnStart
  <2>1. call.phase = "none"
    BY <1>4 DEF TurnStart, CallInv
  <2>2. lifecycle' = lifecycle \/ (~lifecycle'.open /\ ~lifecycle'.invalidated)
    BY <1>4, FreshState DEF TurnStart, TypeOK, onTurnStart, initialState
  <2> QED BY <1>4, <2>1, <2>2 DEF TurnStart, AdviceInv
<1>5. CASE TurnEnd
  BY <1>5 DEF TurnEnd, AdviceInv, Succeeded
<1>6. ASSUME NEW r \in Requests, Dispatch(r) PROVE AdviceInv'
  <2>1. call'.phase = "sent"
    BY <1>6 DEF Dispatch, NoCall
  <2> QED BY <1>6, <2>1 DEF Dispatch, AdviceInv
<1>7. CASE Settle
  <2>1. call'.phase = "settled"
    BY <1>7 DEF Settle, TypeOK, Calls
  <2>2. call.phase = "answered" /\ lifecycle' = Fold(lifecycle)
    BY <1>7 DEF Settle
  <2>3. lifecycle \in InteractionLifecycleState /\ lifecycle.starts \in Nat
    BY DEF TypeOK, InteractionLifecycleState
  <2>4. CASE Succeeded("start")
    <3>1. \/ lifecycle' = lifecycle
          \/ /\ projectLifecycleOutcome(call.out) # NoProjection
             /\ lifecycle'.starts = lifecycle.starts + 1
             /\ lifecycle'.interactionId = call.out.interactionId
             /\ lifecycle'.conversationId =
                   IF call.out.conversationId = NULL THEN lifecycle.conversationId
                                                     ELSE call.out.conversationId
      BY <2>2, <2>4, FoldAdvice DEF TypeOK, Succeeded, Adopt
    <3> QED BY <2>1, <2>2, <2>3, <2>4, <3>1 DEF AdviceInv
  <2>5. CASE call.req.name = "start" /\ call.out.isError
    <3>1. lifecycle' = lifecycle \/ (lifecycle'.open = lifecycle.open
                                     /\ lifecycle'.conversationId = NULL)
      BY <2>2, <2>5, FoldAdvice DEF TypeOK
    <3>2. ~lifecycle.open
      BY <2>2, <2>5 DEF CallInv
    <3> QED BY <2>1, <3>1, <3>2 DEF AdviceInv
  <2>6. CASE call.req.name # "start"
    <3>1. lifecycle.starts = 1
      BY <2>2, <2>6 DEF CallInv, TurnInv
    <3>2. lifecycle'.starts = lifecycle.starts /\ (lifecycle' = lifecycle \/ ~lifecycle'.open)
      BY <2>2, <2>6, FoldWindow DEF TypeOK, Succeeded
    <3> QED BY <2>1, <3>1, <3>2 DEF AdviceInv
  <2> QED BY <2>4, <2>5, <2>6 DEF Succeeded
<1>8. CASE LogResult
  BY <1>8 DEF LogResult, AdviceInv, NoCall
<1>9. ASSUME NEW out \in Outcomes, Answer(out), UNCHANGED lifecycle,
             \/ call.req.name # "start" \/ out.isError
             \/ out.interactionId # NULL /\ out.conversationId # NULL
             \/ ~ContextRequired \/ projectLifecycleOutcome(out) = NoProjection
      PROVE  AdviceInv'
  <2>1. call'.req = call.req /\ call'.out = out
    BY <1>9, AnswerType DEF TypeOK
  <2> QED BY <1>9, <2>1 DEF AdviceInv, Succeeded
<1>10. ASSUME NEW i \in Interactions, NEW c \in Conversations, PlatformStart(i, c)
       PROVE  AdviceInv'
  <2>1. PICK out \in StartAnswers(i, c) \cup {Failure("other")} : Answer(out)
    BY <1>10 DEF PlatformStart
  <2>2. out \in Outcomes
    BY OutcomeType DEF ErrorCode
  <2>3. out = Failure("other") => out.isError
    BY DEF Failure, NoOutcome
  <2>4. \A t : LET o == [NoOutcome EXCEPT !.trace = t, !.interactionId = i, !.conversationId = c]
               IN  o.interactionId # NULL /\ o.conversationId # NULL
    BY NullIsNoId DEF NoOutcome
  <2>5. projectLifecycleOutcome([NoOutcome EXCEPT !.trace = "unexplained"]) = NoProjection
    BY DEF projectLifecycleOutcome, unrecordedLifecycleReason, NoOutcome
  <2>6. ContextRequired /\ out \in StartAnswers(i, c) =>
           \/ \E t : out = [NoOutcome EXCEPT !.trace = t, !.interactionId = i,
                                             !.conversationId = c]
           \/ out = [NoOutcome EXCEPT !.trace = "unexplained"]
    BY DEF StartAnswers
  <2> QED BY <1>9, <1>10, <2>1, <2>2, <2>3, <2>4, <2>5, <2>6 DEF PlatformStart
<1>11. CASE PlatformJudge
  <2>1. Failure("conversation-invalid") \in Outcomes /\ Failure("conversation-invalid").isError
    BY OutcomeType DEF ErrorCode, Failure, NoOutcome
  <2> QED BY <1>9, <1>11, <2>1 DEF PlatformJudge
<1>12. CASE PlatformFinish
  <2>1. PICK out : Answer(out)
          /\ \/ \E t \in {"unavailable", "unexplained"} : out = [NoOutcome EXCEPT !.trace = t]
             \/ \E i \in known :
                   out = [NoOutcome EXCEPT !.interactionId = i, !.conversationId = issued[i]]
    BY <1>12 DEF PlatformFinish
  <2>2. out \in Outcomes
    BY <2>1 DEF NoOutcome, Outcomes, ErrorCode, InteractionId, ConversationId, TypeOK
  <2> QED BY <1>9, <1>12, <2>1, <2>2 DEF PlatformFinish
<1>13. CASE PlatformBusiness
  BY <1>9, <1>13, OutcomeType DEF PlatformBusiness
<1>14. CASE CallFails
  <2>1. Failure("other") \in Outcomes /\ Failure("other").isError
    BY OutcomeType DEF ErrorCode, Failure, NoOutcome
  <2> QED BY <1>9, <1>14, <2>1 DEF CallFails
<1>15. ASSUME NEW c \in Conversations, PlatformDrops(c) PROVE AdviceInv'
  BY <1>15 DEF PlatformDrops, session, AdviceInv, Succeeded
<1>16. CASE UNCHANGED vars
  BY <1>16 DEF vars, session, AdviceInv, Succeeded
<1> QED BY <1>1, <1>2, <1>3, <1>4, <1>5, <1>6, <1>7, <1>8, <1>10, <1>11, <1>12, <1>13,
           <1>14, <1>15, <1>16 DEF Next

-----------------------------------------------------------------------------
(* Layer 3: the invariants together, and what follows.                     *)

SessionInv ==
    /\ TypeOK /\ WindowInv /\ ReplayInv /\ JudgedInv
    /\ AttributionInv /\ MemoryInv /\ AdviceInv

(* The invariant all the other theorems of a session rest on. *)
THEOREM SessionInvariant == Spec => []SessionInv
<1>1. Init => SessionInv
  BY TypeInit, WindowInit, ReplayInit, JudgedInit, AttributionInit, MemoryInit,
     AdviceInit DEF SessionInv
<1>2. SessionInv /\ [Next]_vars => SessionInv'
  BY TypeStep, WindowStep, ReplayStep, JudgedStep, AttributionStep, MemoryStep,
     AdviceStep DEF SessionInv, WindowInv
<1> QED BY <1>1, <1>2, PTL DEF Spec

(* A turn never opens a second access window, however starts are retried,
   answers are lost or the policy is remounted. *)
THEOREM WindowBounded == Spec => []OneWindowPerTurn
<1>1. SessionInv => OneWindowPerTurn
  BY DEF SessionInv, WindowInv, TurnInv, OneWindowPerTurn
<1> QED BY <1>1, SessionInvariant, PTL

(* No turn's log ever holds two successful finishes, which is what lets
   provenance name the turn's one completed interaction. *)
THEOREM FinishBounded == Spec => []FinishOncePerTurn
<1>1. SessionInv => FinishOncePerTurn
  BY DEF SessionInv, WindowInv, TurnInv, FinishOncePerTurn
<1> QED BY <1>1, SessionInvariant, PTL

(* No business call is ever on its way before the turn's window opened or
   after a finish succeeded. *)
THEOREM AccessNeedsWindow == Spec => []NoAccessOutsideWindow
<1>1. SessionInv => NoAccessOutsideWindow
  BY DEF SessionInv, WindowInv, CallInv, TurnInv, NoAccessOutsideWindow
<1> QED BY <1>1, SessionInvariant, PTL

(* Rebuilding the state from the session log gives what the live listener
   knows: a reload or a crash loses no conversation and resurrects none. *)
THEOREM ReplayFaithful == Spec => []ReplayIsExact
<1>1. SessionInv => ReplayIsExact
  BY DEF SessionInv, TypeOK, ReplayInv, ReplayIsExact
<1> QED BY <1>1, SessionInvariant, PTL

(* A conversation whose invalidation is in the log is never continued again:
   not in this turn, a later one, after a reload or after a crash. *)
THEOREM JudgedForGood == Spec => []JudgedNeverContinued
<1>1. SessionInv => JudgedNeverContinued
  BY DEF SessionInv, JudgedInv, Holdable, JudgedNeverContinued
<1> QED BY <1>1, SessionInvariant, PTL

(* On a platform that requires bkn_context, the ids a business call carries are
   those of an interaction issued for this very turn and of its conversation. *)
THEOREM AccessAttributed == Spec => []AccessIsAttributed
<1>1. SessionInv => AccessIsAttributed
  BY DEF SessionInv, WindowInv, CallInv, AttributionInv, AccessIsAttributed
<1> QED BY <1>1, SessionInvariant, PTL

(* The session forgets no conversation the platform has not judged invalid:
   it never trades a usable conversation for a second one. *)
THEOREM ConversationsKept == Spec => []NothingForgotten
<1>1. SessionInv => NothingForgotten
  BY DEF SessionInv, MemoryInv
<1> QED BY <1>1, SessionInvariant, PTL

(* No denial sends the model into another denial: whatever call is refused, the
   step its text prescribes passes the guard, on both kinds of platform. *)
THEOREM AdviceAlwaysWorks == Spec => []AdviceIsAdmissible
<1>1. SessionInv => AdviceIsAdmissible
  BY AdviceAdmitted DEF SessionInv, TypeOK, AdviceInv, AdviceIsAdmissible
<1> QED BY <1>1, SessionInvariant, PTL

-----------------------------------------------------------------------------
(* Layer 4: a session implements GovernedAccess.                           *)

(* The initial state of a session is one of GovernedAccess. *)
LEMMA GovernedInit == Init => Governed!Init
BY DEF Init, Governed!Init, Window, Accessing, Live, initialState, NoCall, BusinessCall

(* Every step of a session is a step of GovernedAccess or leaves it alone. *)
LEMMA GovernedStep == SessionInv /\ SessionInv' /\ [Next]_vars => [Governed!Next]_Governed!vars
<1> SUFFICES ASSUME SessionInv, SessionInv', [Next]_vars
             PROVE  Governed!Next \/ UNCHANGED Governed!vars
  OBVIOUS
<1> DEFINE held == replay.conversationId
<1>1. ASSUME Window' = Window, Accessing' = Accessing, held' = held, Live' = Live
      PROVE  UNCHANGED Governed!vars
  BY <1>1 DEF Governed!vars
<1>2. /\ Accessing => lifecycle.open
      /\ lifecycle.open => mounted /\ windows = 1
      /\ Accessing' = TRUE \/ Accessing' = FALSE
      /\ Accessing = TRUE \/ Accessing = FALSE
  BY DEF SessionInv, WindowInv, CallInv, TurnInv, Accessing
<1>3. ASSUME UNCHANGED <<lifecycle, windows>> PROVE Window' = Window
  BY <1>3 DEF Window
<1>4. ASSUME UNCHANGED honoured PROVE Live' = Live
  BY <1>4 DEF Live
<1>5. ASSUME ~lifecycle'.open, UNCHANGED <<replay, honoured, windows>>, ~Accessing'
      PROVE  Governed!Next \/ UNCHANGED Governed!vars
  <2>1. held' = held /\ Live' = Live
    BY <1>4, <1>5
  <2>2. CASE lifecycle.open
    <3>1. Window = "open" /\ Window' = "done"
      BY <1>2, <1>5, <2>2 DEF Window
    <3>2. Governed!Close
      BY <1>2, <1>5, <2>1, <3>1 DEF Governed!Close
    <3> QED BY <3>2 DEF Governed!Next
  <2>3. CASE ~lifecycle.open
    <3>1. Window' = Window /\ Accessing' = Accessing
      BY <1>2, <1>5, <2>3 DEF Window
    <3> QED BY <1>1, <2>1, <3>1
  <2> QED BY <2>2, <2>3
<1>6. ASSUME Window' = Window, ~Accessing', held' = held, Live' = Live
      PROVE  Governed!Next
  BY <1>2, <1>6 DEF Governed!EndAccess, Governed!Next
<1>7. CASE Mount
  <2>1. ~lifecycle'.open /\ ~lifecycle.open /\ windows' = windows
    BY <1>2, <1>7, FreshState DEF Mount, history, SessionInv, TypeOK
  <2>2. ~Accessing'
    BY <1>2, <1>7, <2>1 DEF Mount, Accessing
  <2> QED BY <1>5, <1>7, <2>1, <2>2 DEF Mount, platform
<1>8. CASE Unmount
  <2>1. ~lifecycle'.open /\ ~Accessing'
    BY <1>8 DEF Unmount, initialState, Accessing, SessionInv, WindowInv, CallInv, TypeOK
  <2> QED BY <1>5, <1>8, <2>1 DEF Unmount, platform, history
<1>9. CASE Crash
  <2>1. ~lifecycle'.open /\ ~Accessing'
    BY <1>9 DEF Crash, initialState, Accessing, NoCall
  <2> QED BY <1>5, <1>9, <2>1 DEF Crash, platform, history
<1>10. CASE TurnStart
  <2>1. ~lifecycle'.open
    BY <1>2, <1>10, FreshState DEF TurnStart, SessionInv, TypeOK
  <2>2. Window' = "closed"
    BY <1>10, <2>1 DEF TurnStart, Window
  <2>3. call.phase = "none" /\ ~Accessing /\ Accessing' = Accessing
    BY <1>10 DEF TurnStart, SessionInv, WindowInv, CallInv, Accessing
  <2>4. held' = held /\ Live' = Live
    BY <1>4, <1>10, FreshState DEF TurnStart, platform, SessionInv, TypeOK
  <2> QED BY <2>2, <2>3, <2>4 DEF Governed!NewTurn, Governed!Next
<1>11. CASE TurnEnd
  BY <1>1, <1>3, <1>4, <1>11 DEF TurnEnd, platform, history, Accessing
<1>12. ASSUME NEW r \in Requests, Dispatch(r)
       PROVE  Governed!Next \/ UNCHANGED Governed!vars
  <2>1. Window' = Window /\ held' = held /\ Live' = Live
    BY <1>3, <1>4, <1>12 DEF Dispatch, platform, history
  <2>2. CASE Accessing'
    <3>1. lifecycle.open
      BY <1>12, <2>2 DEF Dispatch, SessionInv, WindowInv, CallInv, Accessing
    <3>2. Window = "open"
      BY <3>1 DEF Window
    <3> QED BY <1>2, <2>1, <2>2, <3>2 DEF Governed!Access, Governed!Next
  <2>3. CASE ~Accessing'
    BY <1>6, <2>1, <2>3
  <2> QED BY <2>2, <2>3
<1>13. CASE Settle
  <2>1. ~Accessing /\ ~Accessing'
    BY <1>13 DEF Settle, Accessing, SessionInv, TypeOK, Calls
  <2>2. held' = held /\ Live' = Live
    BY <1>4, <1>13 DEF Settle, platform
  <2>3. CASE call.req.name = "start"
    <3>1. ~lifecycle.open /\ lifecycle.starts = 0 /\ windows = 0
      BY <1>13, <2>3 DEF Settle, SessionInv, WindowInv, CallInv, TurnInv
    <3>2. Window = "closed"
      BY <3>1 DEF Window
    <3>3. CASE lifecycle'.open
      <4>1. Window' = "open"
        BY <3>3 DEF Window
      <4> QED BY <1>2, <2>1, <2>2, <3>2, <4>1 DEF Governed!Open, Governed!Next
    <3>4. CASE ~lifecycle'.open
      <4>1. lifecycle'.starts = lifecycle.starts
        BY <1>13, <2>3, <3>4, FoldWindow DEF Settle, SessionInv, TypeOK
      <4>2. windows' = windows
        BY <1>13, <3>1, <4>1 DEF Settle
      <4>3. Window' = Window
        BY <3>1, <3>4, <4>2 DEF Window
      <4> QED BY <1>6, <2>1, <2>2, <4>3
    <3> QED BY <3>3, <3>4
  <2>4. CASE call.req.name # "start"
    <3>1. lifecycle.open /\ windows = 1
      BY <1>2, <1>13, <2>4 DEF Settle, SessionInv, WindowInv, CallInv
    <3>2. lifecycle'.starts = lifecycle.starts /\ lifecycle.starts \in Nat
      BY <1>13, <2>4, FoldWindow
      DEF Settle, SessionInv, TypeOK, InteractionLifecycleState
    <3>3. windows' = windows
      BY <1>13, <3>2 DEF Settle
    <3>4. CASE lifecycle'.open
      <4>1. Window' = Window
        BY <3>1, <3>4 DEF Window
      <4> QED BY <1>6, <2>1, <2>2, <4>1
    <3>5. CASE ~lifecycle'.open
      <4>1. Window = "open" /\ Window' = "done"
        BY <3>1, <3>3, <3>5 DEF Window
      <4> QED BY <1>2, <2>1, <2>2, <4>1 DEF Governed!Close, Governed!Next
    <3> QED BY <3>4, <3>5
  <2> QED BY <2>3, <2>4
<1>14. CASE LogResult
  <2>1. ~Accessing /\ ~Accessing' /\ Heard
    BY <1>14 DEF LogResult, Accessing, NoCall, Heard
  <2>2. Window' = Window /\ Live' = Live
    BY <1>3, <1>4, <1>14 DEF LogResult, platform
  <2>3. replay' = Fold(replay)
    BY <1>14 DEF LogResult
  <2>4. CASE call.out.code = "conversation-invalid"
    <3>1. call.req.name = "start" /\ call.out.isError /\ honoured[held] = "gone"
      BY <2>1, <2>4 DEF SessionInv, JudgedInv
    <3>2. held' = NULL /\ held \notin Live
      BY <2>3, <2>4, <3>1, FoldConversation DEF SessionInv, TypeOK, Live
    <3>3. Window # "open"
      BY <1>14, <3>1 DEF LogResult, SessionInv, WindowInv, CallInv, Window
    <3> QED BY <1>2, <2>1, <2>2, <3>2, <3>3 DEF Governed!LetGo, Governed!Next
  <2>5. CASE call.out.code # "conversation-invalid" /\ held' # held
    <3>1. held' = call.out.conversationId /\ call.out.conversationId # NULL
      BY <2>3, <2>5, FoldConversation DEF SessionInv, TypeOK
    <3>2. held = NULL
      BY <2>1, <2>5, <3>1 DEF SessionInv, MemoryInv
    <3>3. held' \in Conversations
      BY <2>1, <3>1 DEF SessionInv, JudgedInv, Holdable
    <3>4. lifecycle.starts # 0 /\ windows = lifecycle.starts
      <4>1. /\ mounted /\ turn = "running" /\ lifecycle = Fold(replay)
            /\ call.req.name # "start" => lifecycle.starts = 1
        BY <1>14 DEF LogResult, SessionInv, WindowInv, CallInv, ReplayInv
      <4>2. call.req.name = "start" => Fold(replay).starts = replay.starts + 1
        BY <2>3, <2>5, <3>1, FoldStart DEF SessionInv, TypeOK
      <4>3. replay.starts \in Nat
        BY DEF SessionInv, TypeOK, InteractionLifecycleState
      <4> QED BY <4>1, <4>2, <4>3 DEF SessionInv, WindowInv, TurnInv
    <3>5. Window # "closed"
      BY <3>4 DEF Window, SessionInv, TypeOK
    <3> QED BY <1>2, <2>1, <2>2, <3>2, <3>3, <3>5 DEF Governed!Hold, Governed!Next
  <2>6. CASE held' = held
    BY <1>6, <2>1, <2>2, <2>6
  <2> QED BY <2>4, <2>5, <2>6
<1>15. ASSUME NEW out, Answer(out), UNCHANGED <<lifecycle, replay, windows>>
       PROVE  Window' = Window /\ held' = held /\ ~Accessing'
  <2>1. call'.phase = "answered"
    BY <1>15 DEF Answer, SessionInv, TypeOK, Calls
  <2> QED BY <1>3, <1>15, <2>1 DEF Accessing
<1>16. ASSUME NEW i \in Interactions, NEW c \in Conversations, PlatformStart(i, c)
       PROVE  Governed!Next
  <2>1. PICK out : Answer(out)
    BY <1>16 DEF PlatformStart
  <2>2. Window' = Window /\ held' = held /\ ~Accessing'
    BY <1>15, <1>16, <2>1 DEF PlatformStart
  <2>3. ~Accessing /\ Live' \in SUBSET Conversations
    BY <1>16 DEF PlatformStart, Accessing, Live
  <2> QED BY <1>2, <2>2, <2>3 DEF Governed!Platform, Governed!Next
<1>17. CASE PlatformJudge \/ PlatformFinish \/ PlatformBusiness \/ CallFails
  <2>1. PICK out : Answer(out)
    BY <1>17 DEF PlatformJudge, PlatformFinish, PlatformBusiness, CallFails
  <2>2. UNCHANGED <<lifecycle, replay, platform, history>>
    BY <1>17 DEF PlatformJudge, PlatformFinish, PlatformBusiness, CallFails
  <2>3. Live' = Live /\ windows' = windows
    BY <1>4, <2>2 DEF platform, history
  <2> QED BY <1>6, <1>15, <2>1, <2>2, <2>3
<1>18. ASSUME NEW c \in Conversations, PlatformDrops(c) PROVE Governed!Next
  <2>1. UNCHANGED <<session, history>> /\ Live' \in SUBSET Conversations
    BY <1>18 DEF PlatformDrops, Live
  <2>2. Window' = Window /\ held' = held /\ Accessing' = Accessing
    BY <1>3, <2>1 DEF session, history, Accessing
  <2> QED BY <2>1, <2>2 DEF Governed!Platform, Governed!Next
<1>19. CASE UNCHANGED vars
  BY <1>1, <1>3, <1>4, <1>19 DEF vars, session, platform, history, Accessing
<1> QED BY <1>7, <1>8, <1>9, <1>10, <1>11, <1>12, <1>13, <1>14, <1>16, <1>17, <1>18, <1>19
        DEF Next

(* The session, with its guard, listener, log and restarts, implements the
   promise of GovernedAccess: one window a turn, access only inside it, and one
   conversation, given up only when the platform stopped honouring it. *)
THEOREM SessionIsGoverned == Spec => ImplementsGovernedAccess
<1>1. Spec => Init /\ [][Next]_vars /\ []SessionInv
  BY SessionInvariant, PTL DEF Spec
<1> QED BY <1>1, GovernedInit, GovernedStep, PTL
   DEF ImplementsGovernedAccess, Governed!Spec
=============================================================================
