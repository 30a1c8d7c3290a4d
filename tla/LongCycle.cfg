SPECIFICATION OrderSpec
CONSTANT MaxContracts = 6
CHECK_DEADLOCK FALSE
INVARIANT NoConflictIsConsistent
