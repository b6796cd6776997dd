SPECIFICATION FairSpec
CONSTANTS
  Frames = {f1, f2}
  INVALID_UMEM_FRAME = INVALID_UMEM_FRAME
  FQ_SIZE = 1
  RX_SIZE = 1
  TX_SIZE = 1
  CQ_SIZE = 1
  RX_BATCH_SIZE = 1
  NIC_SIZE = 1
  TX_BUDGET = 1
  xsk_poll_mode = FALSE
CHECK_DEADLOCK FALSE
PROPERTY TxRecycled
