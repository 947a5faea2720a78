SPECIFICATION Spec
CONSTANTS
  Modes <- AllModes
  Slots <- ChainSlots
  TxIndexes <- Positions
  MaxArrivals = 4
INVARIANTS
  EmissionOrdered
  Conservation
  BufferSound
  InOrderArrivalsKept
PROPERTIES
  HeldIsEmitted
\* a behaviour may end with everything emitted
CHECK_DEADLOCK FALSE
