SPECIFICATION AluSpec
CONSTANTS
    W = 2
    Samples <- MCSamples
    Tasks = {"add", "subtract", "compare", "double", "halve"}
INVARIANTS WordArithmetic AddsDecimal
CHECK_DEADLOCK FALSE
