SPECIFICATION Spec
CONSTANTS
  Kinds = {"udp", "tun", "tap", "stream"}
  Locals <- AllLocals
  Remotes <- AllRemotes
  Contacted <- AllContacted
  Segments <- AllSegments
  Deltas = {6, 128}
  Lists <- AllLists
  MaxWaiting = 2
INVARIANTS DeliveredAsSent OnlyOurPeer RepliesReachPeer WritesWhole
PROPERTIES IntactIsHeard
