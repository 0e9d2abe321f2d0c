SPECIFICATION Spec
CONSTANTS
  Defaults <- MCDefaults
  ConfigFiles <- MCFiles
  UINT16 = 16
  UINT32 = 200
  SIZE_T = 1000
  Types <- MCTypes
  Pointee <- MCPointee
  Owner <- MCOwner
  Flags = {1}
  Sizes <- MCSizes
  Header = 16
  Inputs <- MCInputs
  Events = {1, 2}
  Shown <- MCShown
  MaxText = 50
  HeadText = 8
  NameText = 5
  NumberText = 3
  Zeros = 1
INVARIANTS MessageKept CapturedOnly AlertShows
CHECK_DEADLOCK FALSE
