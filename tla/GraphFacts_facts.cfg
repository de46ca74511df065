SPECIFICATION Spec
CONSTANTS
  Agents = {a1}
  Surfaces = {s1, s2}
  Nickname = s2
  Objects = {o1}
  Writers = {w1, w2}
  Ends = {}
  Unbound = Unbound
  MaxTime = 2
  MaxFacts = 3
SYMMETRY Symmetry
CONSTRAINT OnePredicate
CHECK_DEADLOCK FALSE
INVARIANTS
  TypeOK
  OneCurrentFact
  SupersessionsMeet
  NoDuplicateFacts
PROPERTIES
  PredicatesOnlyAdvance
