\* Ledgers of up to six events on one task: contests with lapses, releases,
\* confirmations and runs, status edits and escalations, in every order.
SPECIFICATION Spec
CONSTANTS
    Tasks = {t1}
    Actors = {a, b}
    MaxId = 6
    MaxGap = 1
    IdsPerTick = 2
    LeaseTimes <- MCLeaseTimes
    StatusChoices = {"open", "cancelled"}
    OutcomeChoices = {"done"}
    DepChoices <- MCNoDeps
    BlockingChoices = {TRUE}
INVARIANTS
    TypeOK
    ConfirmedIsNeverVoided
    RefereeRule
    AttemptsLeaveOneTrace
PROPERTIES
    VerdictsOnlyMoveForward
    ImplementsReferee
SYMMETRY MCSymmetry
CHECK_DEADLOCK FALSE
