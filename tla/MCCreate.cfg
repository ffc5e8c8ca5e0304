SPECIFICATION Spec
CONSTANTS
  ZoneCells = 3
  NDirect = 1
  LinkMax = 4
  Volumes <- AllVolumes
INVARIANTS
  VolumeIsSound
  NoStaleData
  ExactWhenQuiet
PROPERTIES
  ExecutableWhenWhole
CHECK_DEADLOCK FALSE
VIEW View
