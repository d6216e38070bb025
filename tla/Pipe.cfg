SPECIFICATION PipeSpec
CONSTANTS
  PIPE_BUF_SIZE = 4
  Bytes = {a, b}
  MaxLen = 2
  EarlyClose = FALSE
INVARIANTS
  NeverTheSameByte
PROPERTY FifoSpec
