SPECIFICATION HostSpec
CONSTANTS
  Ids = {root, a1, a2, a3}
  Root = root
  Conns = {c1, c2, c3}
  None = None
  Torn = Torn
  Nil = Nil
  Partial = Partial
  Checkpoints = {k1, k2, k3}
  Workspaces = {main, fork}
  Main = main
  Reqs = {r1}
  Contents = {blank, edited}
  Blank = blank
  MaxAborts = 1
  Updaters = {u1, u2}
  Pids = {p1, p2}
  MaxRelease = 3
  Broken = {2}
  Attempts = {0}
  Mixed = Mixed
  NoPath = NoPath
  Nothing = Nothing
  Unknown = Unknown
  Missing = Missing
  NoArg = NoArg
INVARIANTS RegistryIsKept CheckpointsAreSound   ResolvedIsLeastClosure UpdateIsSafe  SettingsHold RoutesAreRight RecordsReadBack RunsAreApart StartsAreClean
PROPERTIES RemovalIsFinal RestoreIsExact NewestCredentialOnly
SYMMETRY MCSymmetry
CHECK_DEADLOCK FALSE
