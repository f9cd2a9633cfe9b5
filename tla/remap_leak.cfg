SPECIFICATION Spec
CONSTANTS
  Windows = {"game", "chess"}
  NoWindow = NoWindow
  Consoles = {}
  Apps = {"vi", "arrows", "moves"}
  NoApp = NoApp
  TitleApp <- MCTitleApp
  ClassApp <- MCClassApp
  Keys = {"i", "j", "esc"}
  Binds <- MCBinds
  PtBinds <- MCPtBinds
  Count = 1
  Lang <- MCLang
  Outside = Outside
  Klcs = {"en"}
  ZeroTable = ZeroTable
  Neutral = "neutral"
  KL_vks_lang = "neutral"
  MaxEvents = 1
  MaxRequests = 0
  MaxBelow = 1
INVARIANTS OnlyItsWindow
