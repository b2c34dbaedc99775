SPECIFICATION Spec
CONSTANT Caller = {C1, C2}
INVARIANTS SpoofedNotAsked
CHECK_DEADLOCK FALSE
