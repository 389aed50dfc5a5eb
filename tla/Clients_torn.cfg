SPECIFICATION Spec
CONSTANTS
  Programs <- MCCex
  Horizon = 3
INVARIANT WholeLines
