SPECIFICATION ServicesSpec
CONSTANTS
  s1 = "s1"
  n1 = n1
  n2 = n2
  n3 = n3
  NodeId = {n1, n2, n3}
  NodeValue <- MCNodeValue
  Session <- MCSession
  EdgeSession = {"s1"}
  NoSource = "none"
  MaxEdges = 2
  MaxDepth = 2
  Clients = {"c1", "c2"}
  RowPlans <- MCRowPlans
  PartsOf <- MCPartsOf
  ById = ById
  NoRow = NoRow
  User = {"u1", "u2"}
  Phrase = {"s", "t"}
  EmbedModel = {"small", "large", "ada", "text004", "nomic", "gem", "none"}
  EmbedPlans <- MCEmbedPlans
  Speaker = {"s1", "s2"}
  Mixed = "mixed"
  MaxAttempts = 3
  TalkPlans <- MCTalkPlans
  Admin = {"a1", "a2"}
  Watcher = {"w1", "w2"}
  Nobody = "nobody"
  NoSetting = NoSetting
  Entry <- MCEntry
  ConfigPlans <- MCConfigPlans
  Operator = {"o1", "o2"}
  Loop = {"l1", "l2"}
  Free = "free"
  NoPart = NoPart
  CheckRetries = 1
  SetupPlans <- MCSetupPlans
  Absent = Absent
  Caller = {"c1", "c2"}
  Misfit = Misfit
  NoMeta = NoMeta
  Torn = Torn
  VectorPlans <- MCVectorPlans
  Queries <- MCQueries
  Party = {"p1", "p2"}
  Unsure = Unsure
  NoPoint = NoPoint
  BatchSize = 1
  RelationalPlans <- MCRelationalPlans
  HistoryBuffer = 2
  AnalysisWindow = 3
  NodesShown = 1
  ThinkPlans <- MCThinkPlans
  NoChunk = NoChunk
  MaxTokens = 8
  ExtractionPlans <- MCExtractionPlans
  Visitor = {"v1", "v2"}
  Anywhere = Anywhere
  Unheard = Unheard
  ViewPlans <- MCViewPlans
INVARIANTS StoresTypeOK ReadsAreExact GraphsAgree AddsFindEarlier HandedTwiceDone ClientsAreSound SetupsHold BackendsHold
PROPERTY WipeClears
SYMMETRY MCSymmetry
CHECK_DEADLOCK FALSE
