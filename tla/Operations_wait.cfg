SPECIFICATION FairSpec
CONSTANTS
  c1 = c1
  c2 = c2
  Clients = {c1, c2}
  Setups <- MCSetups
  Wants <- MCWants
  Inner <- MCInner
  Outer <- MCOuter
  None = None
  Port = 8090
  OuterPort = 8091
  MaxPid = 2
INVARIANT TypeOK ConfirmedMeansDone
PROPERTY ReadyAfterCommand PendingDrains EditorFound
CHECK_DEADLOCK FALSE
