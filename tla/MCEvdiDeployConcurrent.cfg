\* Kernel packages may be installed while the rollback runs.
SPECIFICATION Spec
CONSTANTS
  Kernels = {"k1", "k2", "k3"}
  Installed = {"k1", "k2"}
  Embeds = {"k1", "k3"}
  Concurrent = TRUE
INVARIANT RestoredEverywhere
