SPECIFICATION FairSpec
CONSTANTS
  CHANNEL_BUFFER_SIZE = 2
  Readers = {r1}
  Writers = {w1}
  Reqs = {1, 3}
  MaxBytes = 3
  Modes = {TRUE}
  Killable = {r1}
PROPERTIES
  KilledLeaves
CHECK_DEADLOCK FALSE
