SPECIFICATION MaintFairSpec
CONSTANTS
  MaxEdits = 2
  MaxCopies = 2
  MaxFaults = 2
INVARIANTS PinnedReads TagsFollowReceipt
PROPERTIES PendingNeverReplaced AcceptedSettles
CHECK_DEADLOCK FALSE
