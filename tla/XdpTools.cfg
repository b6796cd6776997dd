CONSTANTS
  none = none
  Procs = {p1, p2, p3}
  Configs <- LoadersAndOther
  MaxPackets = 1
  MaxInfoFail = 1
SPECIFICATION FairSpec
INVARIANTS SwitchSound PinsRight
PROPERTIES AttachKeepsOthers FollowsPin
CHECK_DEADLOCK FALSE
