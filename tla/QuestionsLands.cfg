SPECIFICATION Spec
CONSTANTS
    q1 = q1  p1 = p1  r1 = r1  r2 = r2
    Questions <- MCQuestions
    Permissions <- MCPermissions
    Rows <- MCRows
    Says <- MCSays
INVARIANT RowLandsOnce
CHECK_DEADLOCK FALSE
