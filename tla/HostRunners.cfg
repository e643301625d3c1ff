CONSTANTS
  t1 = t1
  volume = volume
  system = system
  Task = {t1}
  Volume = {volume, system}
  Optional = {system}
  TailSize = 1
  ChanSize = 2
  MaxLines = 4
  MaxFaults = 2
SPECIFICATION Spec
INVARIANTS TypeOK HostFilesSafe NothingLeft LogInOrder
CHECK_DEADLOCK FALSE
