CONSTANT Messages = {m1, m2}
SPECIFICATION Spec
PROPERTY OnlyCancelledDropped
CHECK_DEADLOCK FALSE
