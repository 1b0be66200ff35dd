SPECIFICATION StudioSpec
CONSTANTS
  Slug = p1
  Run = {r1, r2}
  First = r1
  Second = r2
  Request = {q1}
  Legacy = legacy
  Faults = {"interrupt", "delete"}
  None = None
INVARIANTS IInv EditedIsManual
PROPERTIES  SqlMatchesSchema EveryRunLeaves
