SPECIFICATION Spec
SYMMETRY Interchangeable
CONSTANTS
  Changeset = {c1, c2, c3}
  Concept = {k1}
  Alias = {staging, production}
  Session = {s1, s2}
  Evidence = {"none"}
  FlagValues = {FALSE}
  Targets = {"submitted", "approved"}
PROPERTY SupersededWhenLeft
CHECK_DEADLOCK FALSE
