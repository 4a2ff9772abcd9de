\* Two threads and room for two descriptors beside the standard ones; three
\* interrupts, of which the one in the middle both interrupts and is interrupted;
\* two alarms, and a clock that turns after four ticks; a word of
\* microseconds that is full after a few seconds.
\* Two devices of any kind; caches of two lines before a memory of four; an
\* instruction of every kind; slabs that a handful of entries fill; words of a
\* byte in the log.
CONSTANTS
  a = a
  b = b
  Threads = {a, b}
  Main = a
  ALT_MAX_FD = 5
  Devices <- MCDevices
  FileSystems <- MCFileSystems
  alt_dev_null = "null"
  Stdio = "uart"
  NoDev = "none"
  Nobody = "nobody"
  CanRead = {"uart", "fs"}
  CanWrite = {"null", "uart", "fs"}
  CanSeek = {"fs"}
  HasStat = {"fs"}
  HasIoctl = {"other"}
  Openable = {"other", "fs"}
  OpenModes = {"O_RDWR"}
  NIRQ = 3
  Handlers = {"handler"}
  NULL = "NULL"
  MaxCalls = 1
  MaxDepth = 4
  Alarms = {"first", "second"}
  List = "alt_alarm_list"
  TickMod = 4
  Periods = {0, 1, 2}
  ALT_US = 8
  tick_rate = 4
  WordMod = 27
  TimesOfDay <- MCTimesOfDay
  LastTick = 26
  INT_MAX = 31
  CyclesPerMicrosecond = 10
  cycles_per_loop = 3
  SleepTimes = {0, 1, 5, 9, 10, 11, 20, 21, 35, 40, 63}
  SelfPcs = {"f", "g"}
  FromPcs = {"x"}
  MCOUNT_SLAB_INCREMENT = 20
  EntryBytes = 8
  heap_start = 4
  heap_limit = 64
  Increments = {21}
  TextBytes = 4
  PCSAMPLE_BYTES_PER_BUCKET = 4
  ProgramCalls = 3
  HandlerCalls = 2
  LongMod = 256
  LongBits = 8
  LongNibbles = 2
  Values = {0, 16, 133, 255}
  Conversions <- MCConversions
  Texts <- MCTexts
  ALT_LOG_FLAGS = 3
  ALT_LOG_WRITE_ECHO_LEN = 4
  ALT_LOG_SYS_CLK_INTERVAL = 1
  WSpace = 2
  LogInterrupts = 2
  Program <- MCProgram
  DeviceNames <- MCDeviceNames
  FileNames <- MCFileNames
  NoName <- MCNoName
  MaxUnits = 2
  CacheLine = 2
  CacheSets = 2
  MemoryLines = 4
  CacheRegions <- MCCacheRegions
SPECIFICATION MCSpec
INVARIANTS
  DescriptorsKept
  LockExclusive
  InterruptsNested
  ClockKept
  ProfileKept
  LogKept
  ExceptionsPrecise
  DevicesFound
  CachesCoherent
PROPERTY
  NothingStuck
