SPECIFICATION Spec
CONSTANTS
  Procs = {p1}
  Names = {n1}
  Sources = {f1, f2}
  Contents = {c1, c2}
  Aliases = {best}
  Modes = {"copy"}
  MaxLogs = 2
  MaxErrors = 0
  MaxMishaps = 0
  Latest = Latest
  NoOne = NoOne
  Shared = Shared
SYMMETRY Symmetry
INVARIANT PublishesComplete
