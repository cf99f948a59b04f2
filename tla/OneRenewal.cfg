\* One reopened conversation per turn, as the code comment and the plan say: TLC refutes it.
CONSTANTS
    Conversations = {c1, c2, c3}
    Interactions = {i1, i2, i3}
    NULL = NULL
    ContextRequired = TRUE
SPECIFICATION Spec
INVARIANT OneRenewalPerTurn
