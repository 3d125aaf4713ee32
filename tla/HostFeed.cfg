\* feed() in dtalk_synth: 2,000 cycles after a byte, 100,000 to a chunk.
CONSTANTS
  AfterByte = 200
  AfterFeed = 10000
  Overshoots = {0, 9}
  Drops = {2, 3}
  Backs = {180, 190}
  Boots = {100000}
  Room = 3
  MaxBytes = 6
  MaxStops = 3
SPECIFICATION FairSpec
INVARIANT NoOverrun
PROPERTIES ImplementsByteChannel FeedsOn AllHandedOver
