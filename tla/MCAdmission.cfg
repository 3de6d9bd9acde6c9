\* Two connections, two keys, two contents, a backlog of one, and one insert
\* that goes on without its caller.
CONSTANTS
  k1 = k1  k2 = k2  a1 = a1  a2 = a2  x1 = x1  x2 = x2
  n1 = n1  n2 = n2  n3 = n3  None = None
  Key = {k1, k2}
  Client = {a1, a2}
  Content = {x1, x2}
  Ids = {n1, n2, n3}
  BacklogLimit = 1
  MaxAbandoned = 1
SPECIFICATION Spec
SYMMETRY MCSymmetry
INVARIANTS
  TypeOK
  BacklogBounded
PROPERTIES
  AnswersAsIfAlone
