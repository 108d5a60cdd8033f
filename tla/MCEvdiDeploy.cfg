\* Two kernels at first and one that comes later; one initramfs without EVDI.
SPECIFICATION Spec
CONSTANTS
  Kernels = {"k1", "k2", "k3"}
  Installed = {"k1", "k2"}
  Embeds = {"k1", "k3"}
  Concurrent = FALSE
INVARIANTS EveryKernelHasModule RestoredEverywhere
PROPERTIES OnlyVerifiedModules
