SPECIFICATION PartSpec
CONSTANTS
  Ids = {"s1", "s2", "s3"}
  Calls = {"c1", "c2"}
  CapFor <- MCCapFor
  IdleMs = 0
  PerSession = 1
  PerToken = 2
  WindowMs = 2
  Paths = {"page.md", "page.meta.json"}
  Moves = {"entry1", "entry2"}
  Restores = {"restore1", "restore2"}
  MaxContent = 2
  Slugs = {"a", "b"}
  Plans = {"plan1", "plan2"}
  Researches = {"research"}
  Ttl = 1
  MaxFile = 2
  Old = "old"
  Redeemers = {"new1", "new2"}
  Codes = {"code"}
  Revokers = {"revoke"}
  Verifiers = {"verify"}
  MaxBoots = 1
  Notes = {"a", "b"}
  First = "a"
  MaxActs = 4

INVARIANTS PartsTypeOK SessionsWithinCaps LlmBudgets AnswersAreKept EditsAreSaved PlansHoldTheirPages
PROPERTIES PinnedSessionsStay ContentsKept
CHECK_DEADLOCK FALSE
