SPECIFICATION Spec
CONSTANT Caller = {C1, C2}
INVARIANTS SupplementMayBeNil
CHECK_DEADLOCK FALSE
