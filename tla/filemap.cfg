\* One node, one file, two agents, all types of volumes.
CONSTANTS
  Types = {"Distribute", "Replicate", "Disperse"}
  n1 = n1
  Node = {n1}
  File = {f}
  Home <- OnFirst
  Layout = {l1, l2}
  Agent = {a1, a2}
  None = None
  MaxQA = 2
  MaxEntries = 2
SPECIFICATION FairSpec
INVARIANTS TypeOK AgentsFollow AnswersUnlessDoubled
PROPERTIES DeliveriesAreCurrent CallsEnd
