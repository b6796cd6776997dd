SPECIFICATION UserSpec
CONSTANTS
  Frames = {f1, f2, f3, f4, f5}
  INVALID_UMEM_FRAME = INVALID_UMEM_FRAME
  FQ_SIZE = 2
  RX_SIZE = 2
  TX_SIZE = 2
  CQ_SIZE = 2
  RX_BATCH_SIZE = 2
  NIC_SIZE = 1
  TX_BUDGET = 2
  xsk_poll_mode = TRUE
SYMMETRY Symmetry
CHECK_DEADLOCK FALSE
INVARIANTS FrameOwnership OutstandingExact RingsRespected FreeAssertion UserOrder
PROPERTY StarvedBySending
