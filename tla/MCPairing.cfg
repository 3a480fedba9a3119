SPECIFICATION FairSpec
CONSTANTS
  l1 = l1
  l2 = l2
  m1 = m1
  c1 = c1
  c2 = c2
  Listeners = {l1, l2}
  Connectors = {c1, c2}
  Machines = {m1}
  MachineOf <- MCMachineOf
  NoNode = NoNode
  NoAddress = NoAddress
  MaxSessions = 2
INVARIANT TypeOK
INVARIANT BothSidesPaired
INVARIANT CodePairsOnce
INVARIANT CodeWasGiven
PROPERTY ListenerEnds
\* Every connector runs once, every listener a bounded number of times.
CHECK_DEADLOCK FALSE
