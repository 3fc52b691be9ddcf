SPECIFICATION Spec
CONSTANTS
  Procs = {p1, p2}
  Names = {n1}
  Sources = {f1}
  Contents = {c1, c2}
  Aliases = {best}
  Modes = {"copy", "link", "reference"}
  MaxLogs = 3
  MaxErrors = 1
  MaxMishaps = 2
  Latest = Latest
  NoOne = NoOne
  Shared = Shared
SYMMETRY Symmetry
INVARIANTS VersionsComplete AnswerFound OrphansExplained
PROPERTY ImplementsRegistry
