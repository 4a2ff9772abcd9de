\* Buffers that hold two characters and wrap, a device that holds fewer than a
\* request, requests of nothing, and a host that gives out before the program does.
CONSTANTS
  BUF_LEN = 3
  RxDepth = 2
  TxDepth = 1
  Mark = 0
  INT_MAX = 5
  DEFAULT_TIMEOUT = 2
  Timeouts = {0}
  Sizes = {0, 2}
  MaxIn = 3
  MaxOut = 4
SPECIFICATION FairUARTSpec
INVARIANTS
  CharactersIntact
  WakeUpsKept
PROPERTIES
  ErrorsMeanSilence
  CallsEnd
\* With the host gone and nothing left to ask for the system may stop.
CHECK_DEADLOCK FALSE
