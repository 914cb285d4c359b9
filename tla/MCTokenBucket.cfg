CONSTANTS
    Cost = 2
    Full = 4
    Times <- MCTimes
    MaxAdmitted = 5
SPECIFICATION Spec
INVARIANTS
    WindowBound
    NoLastingDebt
