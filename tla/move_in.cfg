SPECIFICATION Spec
CONSTANTS
    Thing = {x1}
    Kinds = {"job", "bot unit", "bot line"}
    Own = own
    App = {a1, a2}
    MaxFaults = 1
INVARIANTS
    Inv
    PlanTellsWhere
PROPERTIES
    OthersRowsKept
    AllIsBack
CHECK_DEADLOCK FALSE
