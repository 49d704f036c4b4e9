CONSTANTS
  Boards = {"visionfive2"}
  TableFrames = {1, 2, 3, 4, 5, 6, 7, 8, 9, 10, 11, 12, 13, 14}
  MaxMaps = 3
SPECIFICATION TableSpec
INVARIANT MapsOutside
CHECK_DEADLOCK FALSE
