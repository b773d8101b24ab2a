SPECIFICATION BrokerSpec
CONSTANTS
  c1 = c1
  c2 = c2
  Client = {c1, c2}
  Expression <- MCExpression
  Topic <- MCTopic
  MaxMessages = 3
  Cuts = {1, 2}
INVARIANT SessionsMatch
INVARIANT HandledInOrder
INVARIANT DeliveredAsHandled
INVARIANT WireFormat
SYMMETRY MCSymmetry
CHECK_DEADLOCK FALSE
