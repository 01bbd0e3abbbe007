SPECIFICATION Spec
CONSTANTS
  Keys = {k1, k2, k3}
  Values = {v1, v2}
  Capacity = 2
  Nodes = {n1, n2, n3}
  HeadNode = head
  TailNode = tail
  Nil = nil
INVARIANTS ListMatchesMap
PROPERTIES Implements
