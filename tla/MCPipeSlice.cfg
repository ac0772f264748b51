CONSTANTS
  Data = {0, 1}
  Zero = 0
  MaxStall = 3
  MaxBeats = 5
SPECIFICATION PipeSpec
INVARIANTS
  InOrder
PROPERTIES
  ImplementsChannel
  OfferHolds
  NoBubble
  EveryBeatDelivered
