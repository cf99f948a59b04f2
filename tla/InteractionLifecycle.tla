------------------------ MODULE InteractionLifecycle ------------------------
(***************************************************************************)
(* The pure state machine of interaction-lifecycle.ts: one governed access *)
(* window per turn, and the platform conversation a session carries from   *)
(* turn to turn.  The operators are total functions of a lifecycle record  *)
(* (what the TypeScript functions are), so that a live listener and a      *)
(* replay of the session log can use the very same definitions.            *)
(*                                                                         *)
(* Optional fields of the TypeScript records are NULL here, or "none" for  *)
(* `recording` and `errorCode`.  Texts, JSON and identifiers are data: an  *)
(* identifier is a member of Conversations or Interactions, and a denial   *)
(* is the name of the rule that produced its text.                         *)
(***************************************************************************)
EXTENDS Naturals

CONSTANTS
    Conversations,    \* platform conversation ids
    Interactions,     \* platform interaction ids
    NULL,             \* an absent identifier
    ContextRequired   \* whether the platform's tool schemas require bkn_context

ASSUME NullIsNoId == NULL \notin Conversations \cup Interactions
ASSUME ContextRequiredIsBoolean == ContextRequired \in BOOLEAN

ConversationId == Conversations \cup {NULL}
InteractionId  == Interactions \cup {NULL}
Recording      == {"none", "disabled", "unavailable"}
ErrorCode      == {"none", "conversation-invalid", "other"}

-----------------------------------------------------------------------------
(* Types of the three records the functions exchange.                      *)

\* A closed window keeps neither an interaction nor a recording reason.
WellFormed(s) == s.open \/ (s.interactionId = NULL /\ s.recording = "none")

InteractionLifecycleState ==
    { s \in [open : BOOLEAN, interactionId : InteractionId, recording : Recording,
             conversationId : ConversationId, invalidated : BOOLEAN, starts : Nat] :
      WellFormed(s) }

\* One managed tool call.  `context` says whether it carries bkn_context; a
\* business call's two ids are those of its bkn_context, a finish call's
\* interactionId is its interaction_id argument.
StartRequests ==
    [name : {"start"}, mode : {"new", "continue", "absent"},
     conversationId : ConversationId, interactionId : {NULL}, context : {FALSE}]
FinishRequests ==
    [name : {"finish"}, mode : {"absent"},
     conversationId : {NULL}, interactionId : InteractionId, context : BOOLEAN]
BusinessRequests ==
    { r \in [name : {"business"}, mode : {"absent"},
             conversationId : ConversationId, interactionId : InteractionId, context : BOOLEAN] :
      ~r.context => r.conversationId = NULL /\ r.interactionId = NULL }
Requests == StartRequests \cup FinishRequests \cup BusinessRequests

\* The settled outcome of a tool call, as far as projectLifecycleOutcome reads
\* it.  `trace` is what the platform said about recording: "unexplained" is
\* trace_recorded = false under no contract the plugin accepts.
Outcomes ==
    [isError : BOOLEAN, code : ErrorCode,
     trace : {"recorded", "capture-disabled", "unavailable", "unexplained"},
     interactionId : InteractionId, conversationId : ConversationId]

Projections ==
    [interactionId : InteractionId, conversationId : ConversationId,
     errorCode : ErrorCode, recording : Recording]

NoProjection == [interactionId |-> NULL, conversationId |-> NULL,
                 errorCode |-> "none", recording |-> "none"]

-----------------------------------------------------------------------------
(* From a settled outcome to the facts that may move the state.            *)

unrecordedLifecycleReason(o) ==
    IF o.trace = "capture-disabled" /\ (o.interactionId = NULL <=> o.conversationId = NULL)
    THEN "disabled"
    ELSE IF o.trace = "unavailable" /\ o.interactionId = NULL /\ o.conversationId = NULL
         THEN "unavailable" ELSE "none"

projectLifecycleOutcome(o) ==
    IF o.isError THEN [NoProjection EXCEPT !.errorCode = o.code]
    ELSE IF o.trace = "recorded" \/ unrecordedLifecycleReason(o) # "none"
         THEN [interactionId  |-> o.interactionId,
               conversationId |-> o.conversationId,
               errorCode      |-> "none",
               recording      |-> unrecordedLifecycleReason(o)]
         ELSE NoProjection

\* Mutant: every failed start counts as a judgement of the conversation.
classifyFailure_Any(p) == "conversation-invalid"
classifyFailure(p) ==
    IF p.errorCode = "conversation-invalid" THEN "conversation-invalid" ELSE "other"

-----------------------------------------------------------------------------
(* State transitions.                                                      *)

initialState == [open |-> FALSE, interactionId |-> NULL, recording |-> "none",
                 conversationId |-> NULL, invalidated |-> FALSE, starts |-> 0]

\* Mutant: the per-turn flags are reset but the window stays open.
onTurnStart_KeepsWindow(s) == [s EXCEPT !.invalidated = FALSE, !.starts = 0]
\* A new turn forgets everything but the conversation.
onTurnStart(s) == [initialState EXCEPT !.conversationId = s.conversationId]

\* The conversation a successful result leaves held.
Adopt(s, p) == IF p.conversationId = NULL THEN s.conversationId ELSE p.conversationId

\* Mutant: the dead id stays in memory.
Invalidate_KeepsDeadId(s) == [s EXCEPT !.recording = "none", !.invalidated = TRUE]
Invalidate(s) ==
    [s EXCEPT !.conversationId = NULL, !.recording = "none", !.invalidated = TRUE]

\* A failed start changes nothing, unless the platform judged the conversation.
StartFailed(s, p) ==
    IF classifyFailure(p) = "conversation-invalid" THEN Invalidate(s) ELSE s

\* A successful start opens the window only if the platform disclosed an
\* interaction or explicitly declined to record this turn.
StartSucceeded(s, p) ==
    IF p.recording = "none" /\ p.interactionId = NULL THEN s
    ELSE [s EXCEPT !.open = TRUE, !.starts = s.starts + 1,
                   !.recording = p.recording, !.interactionId = p.interactionId,
                   !.conversationId = Adopt(s, p)]

\* Mutant: the closed window keeps its interaction and recording reason.
CloseWindow_KeepsIdentity(s) == [s EXCEPT !.open = FALSE]
CloseWindow(s) == [s EXCEPT !.open = FALSE, !.interactionId = NULL, !.recording = "none"]

\* Mutant: a finish that discloses no interaction leaves the window open.
FinishSucceeded_OnlyWithIds(s, p) ==
    IF p.interactionId = NULL THEN s
    ELSE [CloseWindow(s) EXCEPT !.conversationId = Adopt(s, p)]
\* A successful finish closes the window whatever ids it discloses.
FinishSucceeded(s, p) == [CloseWindow(s) EXCEPT !.conversationId = Adopt(s, p)]

onToolResult(s, name, ok, p) ==
    CASE name = "start" /\ ok   -> StartSucceeded(s, p)
      [] name = "start" /\ ~ok  -> StartFailed(s, p)
      [] name = "finish" /\ ok  -> FinishSucceeded(s, p)
      [] OTHER                  -> s

\* Mutant: the conversation is lost with the process.
restoreFrom_ForgetsConversation(s) == initialState
\* How restoreFrom ends: of the replayed state only the conversation survives.
restoreFrom(s) == [initialState EXCEPT !.conversationId = s.conversationId]

-----------------------------------------------------------------------------
(* The scoped guard: the name of the rule that refuses a call, or "none".  *)

\* Mutant: a turn may start again once its interaction is finished.
TurnCompleted_Never(s) == FALSE
TurnCompleted(s) == s.starts > 0

\* Mutants: `new` is never, or always, refused.
NewWhileHeld_Never(s, r)  == FALSE
NewWhileHeld_Always(s, r) == r.mode = "new"
NewWhileHeld(s, r) == r.mode = "new" /\ s.conversationId # NULL

\* The rules for bkn_start_interaction; the first that applies answers.
StartDenial(s, r) ==
    IF s.open THEN "already-open"
    ELSE IF TurnCompleted(s) THEN "turn-completed"
    ELSE IF s.invalidated THEN IF r.mode = "continue" THEN "judged-invalid" ELSE "none"
    ELSE IF NewWhileHeld(s, r) THEN "already-held"
    ELSE IF r.mode # "continue" THEN "none"
    ELSE IF s.conversationId = NULL THEN "none-held"
    ELSE IF r.conversationId # s.conversationId THEN "mismatched" ELSE "none"

\* In a window the platform opened without an interaction, a call that names one
\* names another turn's.
BorrowsIdentity(s, r) ==
    /\ s.open /\ s.recording # "none" /\ s.interactionId = NULL
    /\ r.context \/ (r.name = "finish" /\ r.interactionId # NULL)

FinishDenial(s, r) ==
    IF ~s.open THEN "not-open"
    ELSE IF s.recording = "disabled" /\ s.interactionId # NULL
            /\ r.interactionId # s.interactionId
         THEN "finish-current" ELSE "none"

BusinessDenial(s, r) ==
    IF s.open THEN "none"
    ELSE IF s.starts > 0 THEN "access-over" ELSE "start-first"

denialFor(s, r) ==
    CASE r.name = "start"                                   -> StartDenial(s, r)
      [] r.name # "start" /\ BorrowsIdentity(s, r)          -> "omit-context"
      [] r.name = "finish" /\ ~BorrowsIdentity(s, r)        -> FinishDenial(s, r)
      [] OTHER                                              -> BusinessDenial(s, r)

\* Mutant: any bkn_context satisfies the platform's requirement.
managedContextDenial_AnyContext(s, r) ==
    IF ContextRequired /\ r.name = "business" /\ ~r.context THEN "context-required" ELSE "none"
\* A platform whose schemas require bkn_context gets exactly the current pair.
managedContextDenial(s, r) ==
    IF /\ ContextRequired /\ r.name = "business"
       /\ \/ s.interactionId = NULL \/ s.conversationId = NULL
          \/ r.interactionId # s.interactionId \/ r.conversationId # s.conversationId
    THEN "context-required" ELSE "none"

guardDenial(s, r) ==
    IF denialFor(s, r) # "none" THEN denialFor(s, r) ELSE managedContextDenial(s, r)

-----------------------------------------------------------------------------
(* The next step each denial text prescribes, as the calls it asks for.    *)
(* A denial that tells the model to stop prescribes none.                  *)

StartCall(mode, c) ==
    [name |-> "start", mode |-> mode, conversationId |-> c,
     interactionId |-> NULL, context |-> FALSE]
FinishCall(i) ==
    [name |-> "finish", mode |-> "absent", conversationId |-> NULL,
     interactionId |-> i, context |-> FALSE]
BusinessCall(context, i, c) ==
    [name |-> "business", mode |-> "absent", conversationId |-> c,
     interactionId |-> i, context |-> context]

Advice(s, denial) ==
    CASE denial = "already-open"     -> { FinishCall(s.interactionId),
                                          BusinessCall(s.interactionId # NULL, s.interactionId,
                                              IF s.interactionId = NULL THEN NULL
                                              ELSE s.conversationId) }
      [] denial \in {"judged-invalid", "none-held"}  -> { StartCall("new", NULL) }
      [] denial \in {"already-held", "mismatched"}   -> { StartCall("continue", s.conversationId) }
      [] denial = "omit-context"     -> { FinishCall(NULL), BusinessCall(FALSE, NULL, NULL) }
      [] denial = "finish-current"   -> { FinishCall(s.interactionId) }
      [] denial = "start-first"      -> { StartCall(IF s.conversationId = NULL THEN "new"
                                                    ELSE "continue", s.conversationId) }
      [] denial = "context-required" -> { BusinessCall(TRUE, s.interactionId, s.conversationId) }
      [] OTHER                       -> {}
=============================================================================
