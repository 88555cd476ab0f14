\* One node, one file, two managers; one call at a time.
CONSTANTS
  Node = {n1}
  File = {f}
  Layout = {l1}
  Mgr = {m1, m2}
  Thread = {t1}
  None = None
  MaxAgent = 3
SPECIFICATION FairSpec
INVARIANTS TypeOK InSync
PROPERTIES ChangesAnswered ImplementsMap
