SPECIFICATION Spec
CONSTANT MaxRestarts = 3
INVARIANT OnlyChildSignalled
CHECK_DEADLOCK FALSE
