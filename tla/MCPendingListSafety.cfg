\* One thread in event_serial, two pool workers in task_pending_acquire.
SPECIFICATION Spec
CONSTANTS
  Nodes = {n1, n2, n3, n4}
  Adders = {serial}
  Takers = {t1, t2}
  Anchor = Anchor
  Poison1 = Poison1
  Poison2 = Poison2
  Wild = Wild
  NoNode = NoNode
  NoOne = NoOne
SYMMETRY Symmetry
INVARIANTS
  TypeOK
  RingIsQueue
  UnlockedEmptyIsExact
  OnePlace
PROPERTY
  ImplementsQueue
