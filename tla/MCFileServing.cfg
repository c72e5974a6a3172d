CONSTANTS
  Segment = {"GET", "HEAD", "a", "b", "{x}", "{y}", "*", "**", "?q"}
  Template <- MCTemplate
  Param <- MCParam
  MaxAdded = 3
  Paths <- MCPaths
  Methods <- MCMethods
  FileSizes = {0, 3}
  BufMaxSize = 2
  Ranges <- MCRanges
  e = e  Empty = e
  Wide = 256
  MaxChanges = 1
SPECIFICATION Spec
INVARIANTS
  FindsBest ParamsRebuildPath RangeExact NeverMore
CHECK_DEADLOCK FALSE
