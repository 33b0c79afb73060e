SPECIFICATION AnySpec
CONSTANTS
  N = 3
  Half = 2
  Txs = {t1}
  MaxHeight = 2
  NumNodes = 2
  MaxStarts = 2
  Others = {o1, o2}
  Alike = {o2}
  MaxMoves = 2
  Threads = {thread1, thread2}
  MaxCalls = 2
INVARIANTS
  TipsAgreeOnReturn
  MempoolsAgreeAfterSyncAll
  NothingLeftBehind
  ConnectedMeansLoaded
  LinkIsAsAsked
  AnswerIsOwn
PROPERTIES
  EveryCallEnds
CHECK_DEADLOCK FALSE
