CONSTANTS
  Byte <- MCByte
  NUL = "0"
  LF = "LF"
  bufsz = 3
  RECBUF_MAX = 3
  MaxBytes = 3
SPECIFICATION Spec
INVARIANTS TypeOK FullMeansFull NoLostWakeup Terminated Announced
PROPERTIES FifoSpec Drained CommandLeaves
