\* Two nodes, one file, one manager; two calls, of two nodes or of one.
CONSTANTS
  Node = {n1, n2}
  File = {f}
  Layout = {l1}
  Mgr = {m1}
  Thread = {t1, t2}
  None = None
  MaxAgent = 1
SYMMETRY Symmetry
SPECIFICATION Spec
INVARIANTS MapsAgree InSync
PROPERTIES ImplementsMap
