\* A platform release that requires bkn_context.
CONSTANTS
    Conversations = {c1, c2}
    Interactions = {i1, i2, i3}
    NULL = NULL
    ContextRequired = TRUE
SPECIFICATION Spec
INVARIANTS
    TypeOK
    OneWindowPerTurn
    AccessIsAttributed
    NoAccessOutsideWindow
    ReplayIsExact
    JudgedNeverContinued
    NothingForgotten
    AdviceIsAdmissible
    FinishOncePerTurn
PROPERTY
    ImplementsGovernedAccess
