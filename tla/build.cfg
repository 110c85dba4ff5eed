\* Two runs of the compiler on projects of three packages.
CONSTANTS
  a = a
  b = b
  c = c
  Pkgs = {a, b, c}
  Root = main
  Sys = sys
  Lib = {b, c}
  Graphs <- MCGraphs
  Layouts <- MCLayouts
  Shorts <- MCShorts
  Kills = TRUE
  MaxRuns = 2
  MaxCalls = 5
SPECIFICATION Spec
INVARIANTS
  TypeOK
  SoundImportsReady
  GoodBuildsLink
  OverflowIsCyclic
  OneUnfinished
  CleanIsSound
PROPERTY CachedUntouched
CHECK_DEADLOCK FALSE
