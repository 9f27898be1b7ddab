SPECIFICATION FairSpec
CONSTANTS
  Invs = {i1, i2}
  Cmds = {main}
  Configs = {{main}}
  Pids = {p1, p2}
  WaitSeconds = 1
  Faults = {}
  Foreign = Foreign
  Nobody = Nobody
  InitProc = InitProc
  NoPid = NoPid
  NoCmd = NoCmd
  Absent = Absent
  Torn = Torn
INVARIANTS TornMeansWriting
PROPERTIES InvocationsFinish
