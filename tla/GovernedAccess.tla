--------------------------- MODULE GovernedAccess ---------------------------
(***************************************************************************)
(* What a bound session promises about its OpenBKN access, with no word of *)
(* guards, results or logs:                                                *)
(*   - a turn has one access window: it opens at most once, and what it    *)
(*     closed stays closed until the next turn;                            *)
(*   - a business call runs only while the window is open;                 *)
(*   - the session holds at most one conversation, never trades it for     *)
(*     another, and lets it go only when the platform no longer honours it *)
(*     and while no window is open.                                        *)
(***************************************************************************)
CONSTANTS Conversations, NULL

VARIABLES
    window,     \* "closed" (not opened in this turn), "open" or "done"
    accessing,  \* a business call is on its way
    held,       \* the conversation the session would continue
    honoured    \* the conversations the platform accepts for this identity

vars == <<window, accessing, held, honoured>>

Init ==
    /\ window = "closed" /\ accessing = FALSE
    /\ held = NULL /\ honoured = {}

NewTurn ==
    /\ ~accessing
    /\ window' = "closed"
    /\ UNCHANGED <<accessing, held, honoured>>

Open ==
    /\ window = "closed"
    /\ window' = "open"
    /\ UNCHANGED <<accessing, held, honoured>>

\* The window closes because it was finished, or because its process went away.
Close ==
    /\ window = "open"
    /\ window' = "done" /\ accessing' = FALSE
    /\ UNCHANGED <<held, honoured>>

Access ==
    /\ window = "open" /\ accessing' = TRUE
    /\ UNCHANGED <<window, held, honoured>>

EndAccess ==
    /\ accessing' = FALSE
    /\ UNCHANGED <<window, held, honoured>>

Hold ==
    /\ held = NULL /\ window # "closed"
    /\ held' \in Conversations
    /\ UNCHANGED <<window, accessing, honoured>>

LetGo ==
    /\ held \notin honoured /\ window # "open"
    /\ held' = NULL
    /\ UNCHANGED <<window, accessing, honoured>>

\* The platform's own doing: conversations appear and stop being honoured.
Platform ==
    /\ honoured' \in SUBSET Conversations
    /\ UNCHANGED <<window, accessing, held>>

Next == NewTurn \/ Open \/ Close \/ Access \/ EndAccess \/ Hold \/ LetGo \/ Platform

Spec == Init /\ [][Next]_vars
=============================================================================
