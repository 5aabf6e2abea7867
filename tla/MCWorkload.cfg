CONSTANTS
  Names = {"", "NONAME", "a", "b", "f", "null"}
  Inputs <- AllInputs
SPECIFICATION Spec
CHECK_DEADLOCK FALSE
INVARIANTS TypeOK Inherited BioInRange BufferFits ReadsWritten SequentialFill
