SPECIFICATION FairSpec
CONSTANTS
  Producers = {p1, p2}
  Consumers = {c1}
  Items = {i1, i2, i3}
  NoItem = NoItem
  QUEUE_SIZE = 3
  MAX_TRY_TIMES = 2
INVARIANT SlotsAreOwned
PROPERTIES ImplementsFifo PushReturns AcceptedItemsArrive
