SPECIFICATION FairSpec
CONSTANTS
  Channels = {r}
  Reliable = {r}
  SeqMod = 8
  Isn = 2
  QueueCap = 2
  EventCap = 4
  RecvLimit = 2
  MaxRetry = 1
  Drains = TRUE
  MaxSend = 2
  MaxLoose = 0
  MaxRebind = 1
PROPERTY AllDelivered
