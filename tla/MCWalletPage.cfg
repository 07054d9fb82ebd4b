CONSTANTS
    Months = {1, 2}
    ThisMonth = 2
    Visits <- MCVisits
SPECIFICATION Spec
INVARIANTS TypeOK ShownIsCurrent SpinnerHasALoad
CHECK_DEADLOCK FALSE
PROPERTIES PageSettles
