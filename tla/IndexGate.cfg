SPECIFICATION Spec
SYMMETRY Interchangeable
CONSTANTS
  r1 = r1
  r2 = r2
  r3 = r3
  f1 = f1
  f2 = f2
  Release = {r1, r3}
  Alias = {staging, production}
  Request = {q1, q2}
  Profile = {f1, f2}
  ProfileOf <- MixedProfiles
  Policy = {launch1, launch2, conversational}
  LaunchPolicy = {launch1, launch2}
  Overridable = {launch1}
  NoRelease = NoRelease
  NoJob = NoJob
  Evaluable = {r1}
  FlagValues = {TRUE, FALSE}
  BuildKinds = {"none"}
INVARIANTS PinnedGateCleared GatedPromotionPinned
CHECK_DEADLOCK FALSE
