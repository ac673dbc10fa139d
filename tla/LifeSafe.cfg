SPECIFICATION Spec
CONSTANTS
    Launch = {l1}
    Resume = {r1, r2}
    NoTask = NoTask NoRun = NoRun
INVARIANTS TypeOK OneExecutor RowsEnd
PROPERTIES OneSeater DismissedStays
SYMMETRY Symmetric
CHECK_DEADLOCK FALSE
