\* Two processes over one session with six claims, mutations, deletions, repairs
\* and forks in all, where a fork counts for two, at most four mutations and three
\* claims; two agents over the project memory with two texts and two dialogs; three
\* tool calls on one file; two calls on auth.json, of one process or two, with three
\* tokens and a crash; six entries of a session and two label changes, navigations,
\* forks, opens and cut writes.
SPECIFICATION MCSpec
CONSTANTS
  Ids = {i1, i2, i3}
  Lanes = {main}
  Main = main
  Null = Null
  Missing = Missing
  Processes = {p1, p2}
  SqlCommands <- BranchCommands
  MaxClaims = 3
  MaxRows = 4
  MaxDeletes = 1
  MaxRepairs = 1
  Agents = {p1, p2}
  Texts = {t1, t2}
  CoreMax = 1
  MaxPrompts = 2
  MaxToolCalls = 3
  AuthProcesses = {p1, p2}
  Operations <- TwoEach
  MaxOperations = 2
  MaxTokens = 3
  MaxAuthCrashes = 1
  MaxEntries = 6
  MaxEvents = 2
SYMMETRY Symmetry
CONSTRAINT SqlBudget
INVARIANTS
  SharedFilesTypeOK
  OwnersDoNotInterleave
  CacheFaithful
  ForkResolves
  CoreIsSound
  MutationsSerialize
  CredentialsSound
  FileIsSession
  ContextComplete
PROPERTIES
  ForkKeepsPath
CHECK_DEADLOCK FALSE
