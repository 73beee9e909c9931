SPECIFICATION Spec
CONSTANTS
  Peers = {a, b, c}
  None = none
  Slots = 2
  NChan = 2
  IdTop = 3
  MaxBlocks = 12
  MaxOpen = 2
  MaxCreate = 2
SYMMETRY Symmetry
INVARIANTS TypeOK NoDangling NothingLost ChannelsWhole LookUp
CHECK_DEADLOCK FALSE
