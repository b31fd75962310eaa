SPECIFICATION FairSpec
CONSTANTS
  Int64 = 65536
  Int32 = 512
  Base = 8
  Width = 2
  OpBranch = 1
  OpInsert = 2
  Texts <- TextsVal
  Lists <- ListsVal
  None = None
  Disks <- DisksVal
  MaxFeeds = 1
INVARIANTS TypeOK CommitInside StoredAsSent RefusedLeavesFiles AcceptsWellFormed
PROPERTY FeedEnds
CHECK_DEADLOCK FALSE
