SPECIFICATION Spec
CONSTANTS
  Maps <- MCMaps
  Structs <- MCStructs
  Encodings = {"j", "m", "file", "store"}
  MaxSends = 2
  Now <- MCNow
  FloatKinds = {"int", "float", "dur"}
  Atoms <- MCAtoms
  Files <- MCFiles
INVARIANTS
  Faithful
  SameFilter
  LogicHolds
  Restored
  PatchesApply
CHECK_DEADLOCK FALSE
