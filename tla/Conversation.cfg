SPECIFICATION TalkSpec
CONSTANTS
  Texts <- MCTexts
  DeepSeek <- MCDeepSeek
  GlobalEfforts <- MCGlobalEfforts
  Sanity = 120
  Clients <- MCClients
  Said <- MCSaid
  Replies <- MCReplies
  Refusals <- MCRefusals
  Tables <- MCTables
  CallIDs <- MCCallIDs
  MaxRotate = 2
INVARIANTS
  CallsMeetResults
  NothingSaidIsLost
  NoFingerprintLeaves
  OneTurnOneRequest
PROPERTIES
  RequestFaultsStayHere
CHECK_DEADLOCK FALSE
