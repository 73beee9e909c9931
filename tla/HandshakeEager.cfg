SPECIFICATION Spec
CONSTANTS
  Channels = {a, b}
  Zero = a
  QueueCap = 2
  MaxSend = 2
  Eager = TRUE
PROPERTY ImplementsDelivery
