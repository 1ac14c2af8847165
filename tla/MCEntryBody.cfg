SPECIFICATION FairSpec
CONSTANTS
  Symbol = {"a", "b", "c"}
  Entry <- Entries
  Replacement <- Grows
  Frame = 2
  ChannelFrames = 1
  SpoolLimit = 2
  OutputLimit = 12
  MaxAttempts = 2
INVARIANTS ProvenBody EtagIsBody NoFalseAlarm HandshakeReleases ClaimsReleased SnapshotIsCurrent
PROPERTIES InvalidEnds ProducersEnd
