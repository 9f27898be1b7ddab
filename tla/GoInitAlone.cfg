SPECIFICATION Spec
CONSTANTS
  Invs = {i1}
  Cmds = {main, side}
  Configs = {{main}, {side}, {main, side}}
  Pids = {p1, p2, p3}
  WaitSeconds = 2
  Faults = {"foreign", "config"}
  Foreign = Foreign
  Nobody = Nobody
  InitProc = InitProc
  NoPid = NoPid
  NoCmd = NoCmd
  Absent = Absent
  Torn = Torn
SYMMETRY Symmetry
INVARIANTS IInv NoOrphan OneInstance StopMeansStopped StatusTruth
PROPERTIES KeepsPromise
