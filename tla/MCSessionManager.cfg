\* Two device objects; up to MaxPlugs arrivals after the start.
SPECIFICATION FairSpec
CONSTANTS
  d1 = d1
  d2 = d2
  Devices = {d1, d2}
  MaxPlugs = 2
INVARIANTS RefsBalance NoZombieSession FreshGenerations DrainUncontended ExitIsClean
PROPERTIES ShutdownCompletes DepartureClosesSession
