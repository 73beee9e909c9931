SPECIFICATION FairSpec
CONSTANTS
  Server = server
  Clients = {c}
  None = none
  Sizes = {1}
  MaxRetry = 1
  MaxKeep = 0
  EventCap = 1
  Outcomes = {"sent", "lost", "failed"}
  Keeps = {FALSE}
  Mortal = {c}
  Talkers = {c}
  Pingers = {server, c}
  Pollers = {server, c}
  MaxConnect = 1
  MaxRestart = 1
  MaxId = 2
INVARIANTS TypeOK ChannelsReady Announced
PROPERTIES AttemptsEnd PeerDeathNoticed
CHECK_DEADLOCK FALSE
