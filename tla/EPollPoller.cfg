\* Two Channels on two descriptors, an array of one entry to start with.
CONSTANTS
  Channels = {c1, c2}
  Fds = {f1, f2}
  NoChannel = NoChannel
  NoFd = NoFd
  kInitEventListSize = 1
SPECIFICATION Spec
INVARIANTS
  TypeOK
  NeverFatal
  KernelMatchesChannels
  NoStalePointers
PROPERTY EventuallyReported
