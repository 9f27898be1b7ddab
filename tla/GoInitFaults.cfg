SPECIFICATION FairSpec
CONSTANTS
  Invs = {i1}
  Cmds = {main, side}
  Configs = {{main, side}}
  Pids = {p1, p2}
  WaitSeconds = 2
  Faults = {"crash", "io", "foreign"}
  Foreign = Foreign
  Nobody = Nobody
  InitProc = InitProc
  NoPid = NoPid
  NoCmd = NoCmd
  Absent = Absent
  Torn = Torn
INVARIANTS FaultIInv SuccessOnRecord
PROPERTIES TornPidfileWedges KillOnlyAfterGrace InvocationsFinish StopEndsProcesses
