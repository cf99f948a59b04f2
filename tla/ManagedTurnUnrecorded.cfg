\* A platform release whose tool schemas do not require bkn_context: turns may go unrecorded.
CONSTANTS
    Conversations = {c1, c2}
    Interactions = {i1, i2, i3}
    NULL = NULL
    ContextRequired = FALSE
SPECIFICATION Spec
INVARIANTS
    NoAccessOutsideWindow
    AdviceIsAdmissible
    FinishOncePerTurn
