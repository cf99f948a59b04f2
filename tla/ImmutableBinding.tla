-------------------------- MODULE ImmutableBinding --------------------------
(***************************************************************************)
(* What the plugin promises about a session and its knowledge network: the *)
(* session is bound at most once in its life, its OpenBKN tools are active *)
(* only for the network it is bound to, and the binding is forgotten only  *)
(* with the session itself.                                                *)
(***************************************************************************)
CONSTANTS Sessions, Networks, NULL

VARIABLES
    bound,   \* the network each session is bound to, or NULL
    active,  \* the network each session's tools reach, or NULL
    gone     \* sessions that no longer exist

vars == <<bound, active, gone>>

Init ==
    /\ bound \in [Sessions -> Networks \cup {NULL}]
    /\ active = [s \in Sessions |-> NULL]
    /\ gone = {}

Bind(s) ==
    /\ s \notin gone /\ bound[s] = NULL
    /\ \E n \in Networks : bound' = [bound EXCEPT ![s] = n]
    /\ UNCHANGED <<active, gone>>

Activate(s) ==
    /\ active[s] = NULL /\ bound[s] # NULL
    /\ active' = [active EXCEPT ![s] = bound[s]]
    /\ UNCHANGED <<bound, gone>>

\* One process may end the activity of several sessions, and the life of some.
End ==
    /\ \E ended \in SUBSET Sessions :
          active' = [s \in Sessions |-> IF s \in ended THEN NULL ELSE active[s]]
    /\ gone' \in SUBSET Sessions /\ gone \subseteq gone'
    /\ bound' = [s \in Sessions |-> IF s \in gone' THEN NULL ELSE bound[s]]
    /\ \A s \in gone' : active'[s] = NULL

Next == End \/ \E s \in Sessions : Bind(s) \/ Activate(s)

Spec == Init /\ [][Next]_vars
=============================================================================
