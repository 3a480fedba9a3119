SPECIFICATION FairSpec
CONSTANT MaxRestarts = 3
INVARIANT TypeOK
INVARIANT SpawnsBounded
INVARIANT OneProcess
PROPERTY StopFinishes
PROPERTY CrashIsHandled
\* The command ends.
CHECK_DEADLOCK FALSE
