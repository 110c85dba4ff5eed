\* A build that failed, and the build after the source was mended.
CONSTANTS
  a = a
  b = b
  c = c
  Pkgs = {a, b, c}
  Root = main
  Sys = sys
  Lib = {}
  Graphs <- MCGraphs
  Layouts <- TidyLayouts
  Shorts <- DistinctShorts
  Kills = FALSE
  MaxRuns = 2
  MaxCalls = 5
SPECIFICATION Spec
INVARIANTS ImportsReady
CHECK_DEADLOCK FALSE
