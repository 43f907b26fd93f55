SPECIFICATION Spec
CONSTANTS
  t1 = t1
  t2 = t2
  t3 = t3
  shared = shared
  own = own
  disk = disk
  Threads <- MCThreads
  Files <- MCFiles
  Devices <- MCDevices
  FileOf <- MCFileOf
  DeviceOf <- MCDeviceOf
  ramdisk_size = 2
  MaxPosition = 3
  Lengths <- MCLengths
  Offsets <- MCOffsets
SYMMETRY MCSymmetry
INVARIANTS
  InBounds
  NoSkip
