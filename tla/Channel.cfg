SPECIFICATION StreamSpec
CONSTANTS
  CHANNEL_BUFFER_SIZE = 2
  Readers = {r1}
  Writers = {w1,w2}
  Reqs = {3}
  MaxBytes = 4
  Modes = {TRUE, FALSE}
  Killable = {w2}
INVARIANTS
  RingHoldsStream
  CopiesStand
  NoLostWakeup
PROPERTIES
  ImplementsPipe
  BytesArrive
  WriteReturns
CHECK_DEADLOCK FALSE
