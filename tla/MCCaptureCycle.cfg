\* The script ends, so the last state has no successor.
SPECIFICATION Spec
INVARIANT EnforcingRestored
CHECK_DEADLOCK FALSE
