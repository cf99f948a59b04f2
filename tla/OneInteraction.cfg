\* One interaction per accessing turn, as the code comment and the plan say: TLC refutes it.
CONSTANTS
    Conversations = {c1, c2}
    Interactions = {i1, i2, i3}
    NULL = NULL
    ContextRequired = TRUE
SPECIFICATION Spec
INVARIANT OneInteractionPerTurn
