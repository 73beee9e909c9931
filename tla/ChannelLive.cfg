SPECIFICATION FairSpec
CONSTANTS
  Channels = {r, u}
  Reliable = {r}
  SeqMod = 4
  Isn = 2
  QueueCap = 2
  EventCap = 2
  RecvLimit = 1
  MaxRetry = 0
  Drains = TRUE
  MaxSend = 3
  MaxLoose = 1
  MaxRebind = 0
PROPERTIES ImplementsDelivery AllDelivered QueuesDrain
