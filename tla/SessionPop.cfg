SPECIFICATION Spec
CONSTANTS
  Server = server
  Clients = {c}
  None = none
  Sizes = {1}
  MaxRetry = 1
  MaxKeep = 0
  EventCap = 4
  Outcomes = {"sent"}
  Keeps = {FALSE}
  Mortal = {}
  Talkers = {c}
  Pingers = {}
  Pollers = {server, c}
  MaxConnect = 1
  MaxRestart = 0
  MaxId = 1
INVARIANT PopSafe
CHECK_DEADLOCK FALSE
