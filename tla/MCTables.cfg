SPECIFICATION MCSpec
CONSTANTS
  Keys = {1, 2, 3, 4}
  Data = {"a", "b"}
  Items = {"x", "y"}
  NodeIds = {1, 2, 3, 4}
  Dpi <- MCDpi
  Orders <- MCOrders
  DataTypes <- MCDataTypes
  RangeTexts <- MCRangeTexts
  MaskTexts <- MCMaskTexts
  Options <- MCOptions
  MaxClients = 4
INVARIANTS LookupRight MaskRead ParentSound
PROPERTIES MapRight ListRight
CHECK_DEADLOCK FALSE
