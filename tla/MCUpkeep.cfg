SPECIFICATION Spec
CONSTANTS
  Null = Null
  Procs = {p1, p2}
  Sysroots <- MCSysroots
  FixedFields <- MCFixed
  Lanes <- MCLanes
  Contracts <- MCContracts
  Prohibited <- MCProhibited
  Shells <- MCShells
  FirstCrates <- MCFirstCrates
  FirstBaseline <- MCFirstBaseline
  FirstRepos <- MCFirstRepos
  FirstPackage <- MCFirstPackage
  Published <- MCPublished
  Mixes <- MCMixes
SYMMETRY ProcSymmetry
INVARIANTS
  InstalledWasObserved
  DriftIsNamed
  PassedCheckIsExact
PROPERTY ChecksumsKept
CHECK_DEADLOCK FALSE
