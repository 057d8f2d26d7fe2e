CONSTANTS
  Names = {"auth", "tap"}
  Funcs = {f}
  Nil = Nil
  Modes = {"passthrough", "buffer"}
  DefaultMode = "passthrough"
SPECIFICATION Spec
INVARIANTS
  OneEntryPerName
PROPERTIES
  ImplementsTable
