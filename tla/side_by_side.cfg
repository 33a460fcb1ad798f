SPECIFICATION MCSpec
CONSTANTS
  s1 = s1
  s2 = s2
  tg = tg
  NoMsg = NoMsg
  Bridges <- TwoBridges
  Turns <- AllTurns
  BridgeOf <- Belongs
  MaxTurns = 2
  SlotFaults = {}
  Messages = {1, 2, 3}
  SessionOf <- ThreeSent
  Telegram = tg
  BridgeFaults = {"ack_lost"}
  MaxMishaps = 2
  MaxTelegram = 0
  MaxWords = 3
  ReplyFaults = {}
  Setups = {"unit", "no_unit", "no_sudo"}
  MaxBoots = 2
  MaxPresses = 2
  MaxByHand = 1
  MaxClosers = 2
  StartFaults = {}
  Strategies = {"a", "b"}
  Signals = {1, 2}
  NoSignal = NoSignal
  MaxSignals = 3
  MaxCommands = 3
  GateFaults = {}
  c1 = c1
  c2 = c2
  Callers <- TwoCallers
  LastHalf = 5
  MaxCalls = 2
  CacheFaults = {"unreadable", "killed"}
  Changes <- ThreeReleases
  MaxEdits = 1
  UpdateFaults = {"killed", "raised"}
  Senders <- TwoCallers
  Settle = 2
  Lag = 1
  LoginMax = 2
  Await = 1
  MaxLots = 1
  MaxSends = 2
  MaxMoves = 1
  Horizon = 3
  DeskFaults = {}
INVARIANTS
  
  
  ReplyIsKept
  StoppedUntilStart
  OneTrades
  
  HeldBackAsAsked
  HolesOnlyAtSeams
  NoOrderCut
  
  OwnMonthOnly
PROPERTIES
  StartsInOrder
  NoCatchUp
  
SYMMETRY Exchangeable
CHECK_DEADLOCK FALSE
