\* Every part of the storefronts in turn, with the four parts of the backend.
SPECIFICATION Spec
CONSTANTS
  Parts = {"session", "flow", "assistant", "browse", "merchant", "tables", "ssr", "legacy", "rate", "turn", "first", "policy"}
  Pages = {"/products", "/cart", "/login"}
  Tenants = {"a", "b"}
  MaxTokens = 2
  MaxRequests = 2
  MaxCarts = 2
  MaxQuotes = 2
  MaxCalls = 2
  MaxPrompts = 3
  MaxPosts = 1
  Texts = {"a"}
  Categories = {"x"}
  MaxQuantity = 2
  MaxAnswers = 2
  MaxEdits = 2
  MaxKeys = 2
  MaxPolicies = 1
  MaxUnderWay = 2
  Tables = {"orders", "growth", "products", "audit"}
  Visits = {1, 2, 3}
  MaxAge = 2
  Accounts = {1, 2}
  Merchants = {2}
  SiteLists = {"orders", "products", "policies", "audit"}
  MaxOpen = 2
  MaxDisturbed = 1
  MaxTalk = 3
  Limit = 1
  Window = 2
  Horizon = 4
  MaxWaiting = 2
  MaxIterations = 5
  MaxTools = 2
  Callers = {1, 2}
  Quantities = {1, 2}
  Variants = {"a", "b"}
  MaxRows = 2
  PolicyIds = {1, 2}
  Levels = {1, 2}
INVARIANTS
  StorefrontTypeOK
  OneSessionPerDocument
  GuardedPagesHaveSession
  PaidForOnce
  ReceivedMeansCreated
  OneConversation
  AskedOnce
  AnswersMatchQuestions
  LegalQuantities
  OwnErrorWhenAlone
  ShownIsSignedIn
  TakesTurns
  TwiceAtMost
  TurnStoredWhole
  OneRowAlone
  DeniedIffViolated
PROPERTIES
  FormSettles
  EveryVisitAnswered
  TurnEnds
  KeyStaysOpen
CHECK_DEADLOCK FALSE
