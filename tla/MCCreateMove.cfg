SPECIFICATION Spec
CONSTANTS
  ZoneCells = 3
  NDirect = 1
  LinkMax = 4
  Volumes <- MovingVolumes
INVARIANT VolumeIsSound
CHECK_DEADLOCK FALSE
VIEW View
