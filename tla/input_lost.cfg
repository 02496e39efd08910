SPECIFICATION FairSpec
CONSTANTS
  N = 2
  UART_BUFFER_SIZE = 3
  MAX_LEN = 2
  PREEMPTIVE = FALSE
  KEYS = {"a", "b", "enter", "delete"}
  MAX_KEYS = 3
PROPERTIES LineIsReturned
