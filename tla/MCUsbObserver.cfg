\* Two ports and one address more, so that a reconnect may get a new address or
\* one used before.  The observer ends, so the last state has no successor.
SPECIFICATION Spec
CONSTANTS
  Ports = {"p1", "p2"}
  Addresses = {1, 2, 3}
  MaxArrivals = 3
  MaxGeneration = 4
INVARIANT ReconnectIsNewGeneration
CHECK_DEADLOCK FALSE
