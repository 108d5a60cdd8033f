\* Three kernel threads, imported and local objects.
SPECIFICATION FairSpec
CONSTANTS
  c1 = c1
  c2 = c2
  c3 = c3
  Callers = {c1, c2, c3}
  Free = Free
INVARIANTS OneSharedMapping UseIsMapped ReleaseBalanced
PROPERTIES ClosedIsReleased
