SPECIFICATION FairSpec
CONSTANTS
  Server = {s1, s2, s3}
  None = None
  ChannelBound = 1
INVARIANT
  WatcherIsOwners
PROPERTY
  LossReleases
