SPECIFICATION FairSpec
CONSTANTS
  Server = server
  Clients = {c}
  None = none
  Sizes = {1}
  MaxRetry = 1
  MaxKeep = 0
  EventCap = 1
  Outcomes = {"sent", "lost"}
  Keeps = {FALSE}
  Mortal = {}
  Talkers = {}
  Pingers = {server, c}
  Pollers = {}
  MaxConnect = 1
  MaxRestart = 0
  MaxId = 1
PROPERTY OrphansEnd
CHECK_DEADLOCK FALSE
