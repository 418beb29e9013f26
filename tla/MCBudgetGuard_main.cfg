\* Three callers may pass a cap of 3 units together.
SPECIFICATION BudgetSpec
CONSTANTS
    a1 = a1
    a2 = a2
    a3 = a3
    Clients = {a1, a2, a3}
    Cap = 3
    MaxCost = 2
    MaxAttempts = 2
    BilledBound = 8
SYMMETRY ClientSymmetry
INVARIANTS OvershootBounded SpendAccounted
