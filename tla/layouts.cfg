SPECIFICATION Spec
CONSTANTS
  Windows = {"editor", "game", "console"}
  NoWindow = NoWindow
  Consoles = {"console"}
  Apps = {"vi", "arrows", "moves"}
  NoApp = NoApp
  TitleApp <- MCTitleApp
  ClassApp <- MCClassApp
  Keys = {"i", "j", "esc"}
  Binds <- MCBinds
  PtBinds <- MCPtBinds
  Count = 3
  Lang <- MCLang
  Outside = Outside
  Klcs = {"en", "ru"}
  ZeroTable = ZeroTable
  Neutral = "neutral"
  KL_vks_lang = "neutral"
  MaxEvents = 1
  MaxRequests = 1
  MaxBelow = 1
INVARIANTS TypeOK TableOfSelected OverlayKnown NoRemapElsewhere
PROPERTIES WindowFollows
