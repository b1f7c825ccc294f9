SPECIFICATION Spec
CONSTANTS
    Nil = Nil
    MaxChunks = 5
INVARIANTS DisplayDials KeyStable
CHECK_DEADLOCK FALSE
