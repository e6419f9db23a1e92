SPECIFICATION Spec
CONSTANTS
  Effects = {e1}
  Owners = {o1, o2, o3}
  Nobody = Nobody
  MaxGeneration = 3
  ProofMode = "settled"
SYMMETRY Symmetry
CHECK_DEADLOCK FALSE
INVARIANTS AtMostOneExecution CreatedNamesTheExecution
           NoConflictingExecution AbsentIsProof
PROPERTIES FenceMonotone ImplementsCreateOnce
