SPECIFICATION Spec
SYMMETRY Interchangeable
CONSTANTS
  r1 = r1
  r2 = r2
  r3 = r3
  f1 = f1
  f2 = f2
  Release = {r1, r2, r3}
  Alias = {staging, production}
  Request = {q1, q2}
  Profile = {f1, f2}
  ProfileOf <- MixedProfiles
  Policy = {launch}
  LaunchPolicy = {launch}
  Overridable = {}
  NoRelease = NoRelease
  NoJob = NoJob
  Evaluable = {}
  FlagValues = {FALSE}
  BuildKinds = {"none", "embed", "verify"}
INVARIANTS TypeOK TrailFollowsAlias
PROPERTY AliasesAreAtomic
CHECK_DEADLOCK FALSE
