SPECIFICATION Spec
CONSTANT SF = 6
INVARIANT SymbolRecovered
CHECK_DEADLOCK FALSE
