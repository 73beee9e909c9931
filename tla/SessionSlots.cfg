SPECIFICATION Spec
CONSTANTS
  Server = server
  Clients = {c, d}
  None = none
  Sizes = {1, 2}
  MaxRetry = 1
  MaxKeep = 0
  EventCap = 1
  Outcomes = {"sent"}
  Keeps = {TRUE}
  Mortal = {}
  Talkers = {}
  Pingers = {}
  Pollers = {}
  MaxConnect = 2
  MaxRestart = 0
  MaxId = 2
SYMMETRY Symmetry
VIEW Silent
INVARIANTS SlotsApart ClientsApart Agreement ChannelsReady
PROPERTY NoTakeover
CHECK_DEADLOCK FALSE
