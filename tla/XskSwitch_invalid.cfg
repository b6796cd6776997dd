SPECIFICATION Spec
CONSTANTS
  Frames = {f1, f2, f3, f4}
  INVALID_UMEM_FRAME = INVALID_UMEM_FRAME
  FQ_SIZE = 2
  RX_SIZE = 2
  TX_SIZE = 2
  CQ_SIZE = 2
  RX_BATCH_SIZE = 1
  NIC_SIZE = 1
  TX_BUDGET = 1
  xsk_poll_mode = TRUE
CHECK_DEADLOCK FALSE
INVARIANTS NoInvalidFill
