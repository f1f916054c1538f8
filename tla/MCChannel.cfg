SPECIFICATION Spec
CONSTANTS
  first = first
  second = second
  third = third
  Clients = {first, second, third}
  Capacities = {0, 1, 2}
  MaxSends <- MCMaxSends
  NoClient = NoClient
  NoMsg = NoMsg
INVARIANTS NoLostWakeup HonestReplies EndMeansDrained SenderOrder
PROPERTIES ImplementsLog CloseReleases
CHECK_DEADLOCK FALSE
