SPECIFICATION FairSpec
CONSTANTS
  a = a
  b = b
  Systems <- MCSystems
  NoPass = NoPass
  Packets <- MCPackets
  NoPkg = NoPkg
  MaxArrivals = 2
  MaxFaults = 1
INVARIANTS
  PassesAreComplete
  InitialisedFirst
PROPERTIES
  SkipsOnlySuspects
  ChannelDrains
