CONSTANTS
  W = 14
  KDIR = 8
  NFRAMES = 38
  LOADS = 3
  Headers <- MCHeaders
SPECIFICATION Spec
INVARIANTS
  FramesExclusive
  ImageInPlace
  TablesSound
  MappingsLive
  TempsBounded
  LoadsLoseNothing
