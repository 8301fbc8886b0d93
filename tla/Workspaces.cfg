SPECIFICATION MCSpec
CONSTANTS
  None = None
  Procs = {"k1", "k2"}
  Objects = {"top", "leaf"}
  Refs <- LeafOfTop
  Names = {"n1", "n2"}
  Archives <- TwoArchives
  Nothing = Nothing
  MaxOps = 3
  MaxFaults = 1
  Commands = {"k1", "k2"}
  Experiments = {1}
  Trials <- TwoTrials
  Budgets = {1, 2}
  Derived = 3
  MaxRuns = 2
  MaxBegun = 3
  Clients = {1, 2, 3, 4}
  MaxConnections = 3
  MaxConcurrent = 1
  Paths = {"p1", "p2"}
  Ignored = {}
  MaxVersions = 1
  MaxGitActs = 2
  Inits = {"k1", "k2"}
  Roles = {"store", "runtime"}
  Layouts = {"here", "there"}
  Settings = {"ask", "auto"}
  DefaultLayout = "here"
  DefaultSettings = "ask"
  MaxActs = 2
  Skills = {"case", "results"}
  Versions = {1, 2}
  Candidates = {"n1"}
  Micro = FALSE
  Drafts = {1, 2, 3, 4}
  Agreeing = {1, 2, 3}
  Fit = {1, 2}
  MaxEdits = 1
  MaxRevision = 5
INVARIANTS StoreSound ServerSound CheckpointSound CommandsSound
PROPERTIES AliasesKept OthersKept
CHECK_DEADLOCK FALSE
