\* One file of a distributed volume, one agent.
CONSTANTS
  Types = {"Distribute"}
  n1 = n1
  Node = {n1}
  File = {f}
  Home <- OnFirst
  Layout = {l1, l2}
  Agent = {a1}
  None = None
  MaxQA = 2
  MaxEntries = 2
SPECIFICATION Spec
INVARIANT AnswersFromMap
