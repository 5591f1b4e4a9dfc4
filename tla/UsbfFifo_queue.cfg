\* usbf_fifo.v with a flush that never meets a push or a pop
SPECIFICATION CarefulSpec
CONSTANTS
  Data = {d1, d2}
  ADDR_W = 2
  DEPTH = 4
INVARIANTS TypeOK PointersAgree
PROPERTIES IsAQueue
