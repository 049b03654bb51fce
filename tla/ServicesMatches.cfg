CONSTANTS
  Runs = {r1, r2}
  Sources <- MCSources
  Info <- MCInfo
  Request <- MCRequest
  Pages <- MCPages
  Concurrency = 2
  Config <- MCConfig
  Horizon = 2
  MaxDay = 3
  MaxRuns = 2
  MaxCrashes = 1
  Clients = {h1, h2}
  HaveCffi = TRUE
  HavePlaywright = TRUE
  HasDisplay = TRUE
  ForceRefresh = FALSE
  Fingerprints = 1
  MaxVersion = 2
  MaxFetches = 2
  RqJobs = {1, 2}
  Searches = {2}
  Workers = {"w"}
  NoWorker = "none"
  MaxRetries = 1
  Checks = 2
  MaxRequeues = 1
  Crons = {h1, h2, c3}
  Processes = {"q1", "q2"}
  ProcessOf <- MCProcessOf
  Subscribers = {"p1", "p2"}
  MaxWeek = 2
  MaxCalls = 3
  MaxHiccups = 1
  Deliveries = {0, 1, 3}
  Error <- MCError
  Windows <- MCWindows
  WINDOW = 30
  MAX_ERRORS = 3
  MaxHour = 2
  MaxPushes = 2
  MaxRows = 2
  MaxProfile = 2
  N = 2
  Deps <- MCDeps
  Ci = {1, 2}
  MAX_ATTEMPTS = 2
  MaxFixes = 1
  Writes <- MCWrites
  MaxKills = 1
  Papers <- MCPapers
  Authors = {"a", "b"}
  HIndex <- MCHIndex
  Recents <- MCRecents
  ResultsPerPage = 2
  ResultPages = 2
  PoolPages = 1
  QueryKeywords = 2
  Batches = 2
  MaxPapers = 3
  MaxAuthors = 2
  MinPapers = 2
  Enrich = 1
  Terms = 1
  Configs <- MCConfigs
  SearchPairs = 2
  BoardPosts <- MCBoard
  Registry <- MCRegistry
  Vocabulary = {"de", "fr"}
  Locations = {"fr", "us"}
  Asks <- MCAsks
  PostsPerPage = 1
  FieldPages = 4
  PhdPages = 3
  UNSCOPED_PAGES = 2
  LINKEDIN_MAX_KEYWORDS = 3
  LINKEDIN_KEYWORDS <- MCLinkedinKeywords
  MaxLinks = 2
  MaxSiblings = 2
  Builders = {"b1", "b2"}
  Countries <- MCCountries
  Aliases <- MCAliases
  Length <- MCLength
  Files <- MCFiles
  FieldProfiles <- MCFieldProfiles
  ProfileOrder <- MCProfileOrder
  FIELD_PROFILE = "dust"
  Defaults <- MCDefaults
  Builtin <- MCBuiltin
  Planned = {"masters"}
  Environments <- MCEnvironments
  Args <- MCArgs
  Subfields <- MCSubfields
  Absent = Absent
  Malformed = Malformed
  MaxBuilds = 3
  Seekers <- MCSeekers
  Offers <- MCOffers
  FieldKeywords <- MCFieldKeywords
  Fields = {"astro", "law"}
  ListPage = 2
  Thresholds = {0, 400}
  NoCountry = "none"
  MaxComputed = 3
SPECIFICATION MCSpec
INVARIANT MatchesFollowRun
CHECK_DEADLOCK FALSE
