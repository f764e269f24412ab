CONSTANTS
  Workers = {"w1", "w2"}
  Handlers = {"h1", "h2", "h3"}
  Updates = {"u1", "u2"}
  Func <- MCFunc
  Wants <- MCWants
  Groups <- MCGroups
  MaxDispatches = 2
SPECIFICATION Spec
INVARIANTS
  GroupServed
  InOrder
  PassedOnToAll
CHECK_DEADLOCK FALSE
