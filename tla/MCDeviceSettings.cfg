SPECIFICATION Spec
CONSTANT Boards <- MCBoards
INVARIANTS
  FusesAsAsked
  ComposesAsAsked
  AcceptsDocumented
CHECK_DEADLOCK FALSE
