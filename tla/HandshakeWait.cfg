SPECIFICATION Spec
CONSTANTS
  Channels = {a, b}
  Zero = a
  QueueCap = 2
  MaxSend = 3
  Eager = FALSE
INVARIANTS TypeOK Synchronised Waiting OneOutstanding
PROPERTY ImplementsDelivery
