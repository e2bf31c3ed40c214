SPECIFICATION Spec
CONSTANTS
  None = None
  Helpers = {t1, t2, t3}
  Workers = {b1, b2}
  Creators = {creator}
  Episodes = {episode}
  Videos = {video1, video2}
  SyncBudget = 1
  SyncLease = 1
  VisitInterval = 2
  SyncDay = 2
  SyncHorizon = 3
  MaxActs = 1
  HelperLease = 2
  HelperAttempts = 3
  MaxReleases = 2
  HelperTicks = 3
  CheckReserve = 2
  CheckBudget = 3
  CheckAttempts = 2
  CheckDay = 2
  CheckTicks = 2
  Sites = {site}
  Podcasts = {podcast}
  FeedReserve = 2
  FeedBudget = 3
  SiteBudget = 3
  FeedInterval = 2
  SitemapInterval = 1
  FeedDay = 2
  MaxPost = 2
  FeedRuns = 2
  FeedTicks = 2
  Channels = {channel1, channel2}
  BackfillBudget = 7
  MaxPages = 2
  PageWindow = 2
  PageVideos = {video1}
  ClaimTime = 1
  BackfillDay = 2
  BackfillRuns = 2
  BackfillTicks = 1
  ListInterval = 1
  MaxListed = 2
  MaxListings = 2
  MaxVideo = 3
  ListTicks = 2
  printing1 = printing1
  printing2 = printing2
  Printings = {printing1, printing2}
  ChartPrintings = {printing1}
  PriceCalls <- TwoCalls
  DoubtfulDays <- SecondDay
  StartBefore = 0
  StartAfter = 1
  CloseBefore = 1
  MaxDays = 3
  BatchSize = 2
  MaxPoints = 2
  ChartDays = 3
  RefreshDays = 2
  ChartOverlap = 1
  LastDay = 4
SYMMETRY Interchangeable
INVARIANTS
  TypesOK
  WithinDailyBudget
  ClaimsOverlap
  DecisionStands
  PostsAccountedFor
  VideosStored
  TranscriptStands
  FetchedIsStored
PROPERTY MonitoredHourly
CHECK_DEADLOCK FALSE
