SPECIFICATION MCSpec
CONSTANTS
  in = in
  out = out
  NumFrames = 4
  FillRingNumDescs = 2
  CompletionRingNumDescs = 2
  RxRingNumDescs = 2
  TxRingNumDescs = 2
  MaxSent = 5
  MaxPackets <- Burst
INVARIANTS FramesOwned CountersExact InOrder OthersRight
CHECK_DEADLOCK FALSE
