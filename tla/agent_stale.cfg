SPECIFICATION MCSpec
CONSTANTS
  Windows = {"doc", "vault"}
  Protected = {"vault"}
  Excluded = {}
  Orders = {"pause", "resume", "goodbye"}
  ChanCap = 1
  Budgets <- Days
  MaxPayload = 58
  MaxHandshake = 2
  Posts <- FewPosts
INVARIANT ExcludedNeverSent
CHECK_DEADLOCK FALSE
