SPECIFICATION Spec
CONSTANTS
  in = in
  out = out
  NumFrames = 4
  FillRingNumDescs = 2
  CompletionRingNumDescs = 2
  RxRingNumDescs = 2
  TxRingNumDescs = 2
  MaxSent = 4
  MaxForwarders = 2
  MaxPackets <- OneWay
INVARIANT ForwardsReceived
