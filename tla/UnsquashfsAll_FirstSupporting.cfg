SPECIFICATION Spec
CONSTANT N = 2
INVARIANTS FirstSupporting
CHECK_DEADLOCK FALSE
