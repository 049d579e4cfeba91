SPECIFICATION Spec
CONSTANTS
  Threads = {t1, t2}
  Editor = editor
  Hosts = {"h1", "h2"}
  Newline = "newline"
  Clusters = "clusters"
  DataDir = "data_dir"
  NewDataDir = "new_data_dir"
  Other = "x"
  Key = "skv_offline"
  NoFile = NoFile
  Unlocked = Unlocked
  InitialFiles <- MCFiles
  MaxEdits = 3
  MaxCrashes = 1
  Keys = {k1, k2, k3}
  Values = {v1, v2}
  Nodes = {n1, n2, n3}
  max_size = 2
  NoNode = NoNode
  RangeError = RangeError
  Buffers = {1, 2}
  Bytes = {"x", "CR", "LF"}
  CR = "CR"
  LF = "LF"
  Chunks <- MCChunks
  kCheapPrepend = 1
  initialSize <- MCSizes
  Observers = {o1, o2, o3}
  States = {0, 1}
  NUM_THREADS = 3
  NoThread = NoThread
  NoArg = NoArg
  Dollar = "$"
  Digits <- MCDigits
  LengthError = LengthError
  Corrupted = Corrupted
  Texts <- MCTexts
  Symbols64 <- MCSymbols64
  Befores = {0, 1}
  Numbers32 <- MCNumbers32
  NameInputs <- MCNameInputs
  Formats <- MCFormats
  ArgumentLists <- MCArgumentLists
  TokenLists <- MCTokenLists
  ValueLists <- MCValueLists
  Letters = {"a", "Z"}
  NumberSigns = {"5"}
  Infinity = 999
  NotANumber = 998
CHECK_DEADLOCK FALSE
INVARIANT KeptSomewhere
PROPERTY InputOnce
PROPERTY EditsExact
PROPERTY ImplementsRecencyOrder
PROPERTY ImplementsByteQueue
INVARIANT NotifyShowsAttachedOnce
INVARIANT PrintedAll
PROPERTY MainPrints
INVARIANT RoundTrips
INVARIANT WrittenInDecimal
INVARIANT SubstituteMeansIt
INVARIANT NamesChecked
INVARIANT ExpositionReadsBack
