\* Two vendor workers, fence configured or not, descriptors readable or not.
SPECIFICATION FairSpec
CONSTANTS
  w1 = w1
  w2 = w2
  Workers = {w1, w2}
  MaxPending = 3
INVARIANT NoCrashBehindFence
PROPERTIES ServiceRecovers
