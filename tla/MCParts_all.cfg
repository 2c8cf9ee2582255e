CONSTANTS
  PARTS = {"files", "rate", "pace", "mutex", "semaphore", "cond", "main"}
  THREADS = {t1, t2, t3}
  GONE_MAX = 2
  QUEUE = 1
  CLIENTS = {c1, c2, c3}
  SENDERS = {"server", "rtserver"}
  FILE_SIZES = {0, 4, 5}
  BLOCK_SIZE = 2
  FAR = 1000
  RECORDING = 5
  NETWORK = 2
  TRANSFERS = 2
  PROGRAMS = {"server", "mk5server"}
  FULL = 20
  CEILING = 8
  UNIT = 2
  THRESHOLD = 2
  SLOWER_NUM = 5
  SLOWER_DEN = 4
  FASTER_NUM = 5
  FASTER_DEN = 6
  HISTORY = 25
  IPD_TIMES = {1, 3, 9}
  COUNTS = {0, 1, 3}
  REPORTS = 1
  SCALE = 3
  IPDS = {5, 9}
  LONGEST = 3
  WORK = {0, 1, 4}
  SKIPS = 1
  LAG = 3
SPECIFICATION PartsSpec
CHECK_DEADLOCK FALSE
INVARIANTS FileIsCopy BackupIsPrefix RateInv PaceInv CondInv
PROPERTIES RateConverges MutexSpec SemaphoreSpec CondSpec SessionIsReleased
