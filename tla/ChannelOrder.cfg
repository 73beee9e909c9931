SPECIFICATION Spec
CONSTANTS
  Channels = {r, u}
  Reliable = {r}
  SeqMod = 4
  Isn = 1
  QueueCap = 2
  EventCap = 4
  RecvLimit = 2
  MaxRetry = 0
  Drains = TRUE
  MaxSend = 2
  MaxLoose = 2
  MaxRebind = 1
INVARIANTS TypeOK EventPerMessage OneInFlight Room Order
PROPERTIES ImplementsDelivery MigratesForward
