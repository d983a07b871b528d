SPECIFICATION Spec
SYMMETRY Interchangeable
CONSTANTS
  Changeset = {c1, c2}
  Concept = {k1, k2}
  Alias = {staging, production}
  Session = {s1, s2}
  Evidence = {"none"}
  FlagValues = {TRUE, FALSE}
  Targets = {"submitted", "changes_requested", "approved", "published", "rejected"}
INVARIANTS TypeOK OneReleasePerChangeset ReleasedAsSubmitted
CHECK_DEADLOCK FALSE
