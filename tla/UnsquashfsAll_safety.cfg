SPECIFICATION Spec
CONSTANT N = 3
INVARIANTS TypeOK RightTool FirstOnTime NothingLeft
CHECK_DEADLOCK FALSE
