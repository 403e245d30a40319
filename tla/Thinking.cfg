SPECIFICATION BudgetSpec
CONSTANTS
    Reqs = {r1, r2}
    Slots = {s1, s2}
    NoSlot = NoSlot
    Budgets = {0, 2}
    SpecSteps = 2
    MaxLen = 3
SYMMETRY MCSymmetry
INVARIANTS BudgetKept ForcedWhileReasoning
