SPECIFICATION Spec
CONSTANTS
  Tasks = {t1, t2}
  Slots <- MCSlots
  Listeners = {l1}
  NoTask = NoTask
INVARIANT ParamIsTheSignalledState
CHECK_DEADLOCK FALSE
