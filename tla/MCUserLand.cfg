SPECIFICATION Spec
CONSTANTS
  T = 3
  HALF_BITS = 2
  LONG_BITS = 8
  NALLOC = 4
  CORE = 14
  PAGE = 96
  MAXARG = 3
  MAXARGS = 3
  Arrays <- MCArrays
  Quads <- MCQuads
  Numbers <- MCNumbers
  Bases = {0, 1, 8, 10, 16, 36}
  AllocSizes = {2, 3, 5}
  Lines <- MCLines
  ArgLists <- MCArgLists
CHECK_DEADLOCK FALSE
INVARIANTS SortsAndFinds ArithmeticIsExact NumbersAreRead LinesParse CommandsAreWired ArgumentsArrive HeapIsWhole
