SPECIFICATION Spec
CONSTANTS
  Symbol = {"a", "b", "c"}
  Entry <- EmptyFiles
  Replacement <- Grows
  Frame = 2
  ChannelFrames = 1
  SpoolLimit = 2
  OutputLimit = 12
  MaxAttempts = 1
INVARIANT UploadReleasesClaims
