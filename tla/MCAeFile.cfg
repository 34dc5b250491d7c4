CONSTANTS
  p1 = p1
  p2 = p2
  NoProc = NoProc
  MaxSetSize = 2
  Procs <- MCProcs
SPECIFICATION Spec
INVARIANTS
  TypeOK
  MaxfdIsHighest
  EventsMatchRegistrations
  BarrierWritableFirst
  NoCallForRemovedEvent
