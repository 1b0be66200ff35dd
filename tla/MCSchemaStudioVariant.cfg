SPECIFICATION Spec
CONSTANTS
  Slug = p1
  Run = {r1, r2}
  First = r1
  Second = r2
  Request = {q1, q2}
  Legacy = legacy
  Faults = {}
  None = None
INVARIANTS VariantMatchesSql
