CONSTANTS
  needed = needed
  extra = extra
  own = own
  other = other
  ghost = ghost
  Classes <- MCClasses
  Mandatory = {needed}
  AllowZero = TRUE
  Artifacts = {own, other}
  Bound = {own}
  Invented = {ghost}
  LastNode = 3
  Answers <- MCAnswers
  Clients = {a1, a2}
  Nobody = none
  ResearchUrls = {page}
  FundingUrl = fund
  CaseTexts = {was, is}
  Original = was
  Callers = {c1}
  MaxSnapshots = 5
  MaxGates = 1
  MaxFunding = 1
  MaxBriefs = 1
  KeyCallers = {k1, k2}
  Rate = 2
  Window = 2
  Quota = 2
  KeyDay = 4
  MaxSecond = 4
  MaxCalls = 4
  Users = {u1, u2}
  Owners = {u1}
  Admin = admin
  Codes = {code}
  InvitesRequired = FALSE
  MaxTokens = 1
  MaxProfiles = 2
  DeskCases = {case1}
  Fields = {"disposition", "stage"}
  Choices = {0, 1}
  MaxHistory = 2
  MaxNotes = 1
  Lines = {"n", "o"}
  MaxRetries = 1
  MaxCaptures = 3
  DayLength = 8
  Soon = 1
  Authorities = 3
  Stated = {"v", "w"}
  Amounts = {0, 1, 2}
  MaxInstant = 30
  MaxFacts = 2
  Chains <- MCChains
  MAX_RETRIES = 1
  Caps = {0, 2}
  Cost = 2
  MaxRounds = 2
  MaxAsks = 4
  MaxHiccups = 1
  MaxMoves = 14
  Sections = {"facts"}
  RouteNames = {"n", "o"}
  RouteStates = {"ACTIVE", "RETIRED"}
  SeedFiles <- MCSeeds
  MaxDrafts = 2
  MaxRoutes = 2
SPECIFICATION MCSpec
INVARIANT ErasureSucceeds
CHECK_DEADLOCK FALSE
