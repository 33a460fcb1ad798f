SPECIFICATION MCSpec
CONSTANTS
  s1 = s1
  s2 = s2
  tg = tg
  NoMsg = NoMsg
  Bridges <- TwoBridges
  Turns <- AllTurns
  BridgeOf <- Belongs
  MaxTurns = 1
  SlotFaults = {}
  Messages = {1, 2, 3}
  SessionOf <- ThreeSent
  Telegram = tg
  BridgeFaults = {}
  MaxMishaps = 1
  MaxTelegram = 1
  b1 = b1
  user = user
  other = other
  NoBot = NoBot
  NoChat = NoChat
  Bots = {b1}
  Chats = {user, other}
  Incoming = {1, 2}
  BotOf <- OneBot
  ChatOf <- OneUser
  Unsupported = {}
  PairFaults = {}
  MaxLinks = 2
  MaxCrashes = 1
  Tools = {1, 2}
  HoldMax = 3
  CancelAfter = 1
  ShellAfter = 2
  StopFaults = {}
INVARIANTS
  
  OnlyTheLinkedChat
  
  StopIsExact
PROPERTIES
  FiledIsAnswered
  Converges
  StopEnds
CHECK_DEADLOCK FALSE
