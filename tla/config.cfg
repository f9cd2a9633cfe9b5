SPECIFICATION Spec
CONSTANTS
  KLVN = 4
  Keys = {"sc1", "sc2", "sc3"}
  Langs = {"en", "de"}
  Neutral = "neutral"
  Vks = {"Y", "Z", "C", "LEFT"}
  Chars = {"c", "C", "y", "at"}
  Actions = {"next"}
  NoVk = "0"
  KN_name_to_vk <- MCKN_name_to_vk
  sc_to_vk <- MCsc_to_vk
  VkKeyScan <- MCVkKeyScan
  NoKey = NoKey
  DefinedVks = {"Y", "Z", "C"}
  Lines <- MCLines
  Strs = {"game", "games", "other", "zzz"}
  StartsWith <- MCStartsWith
  HasPart <- MCHasPart
  Sum <- MCSum
  SumLen = 4
  Garbage = {0, 1, 2, 99}
  KlcsSize = 3
  AppsSize = 3
  MaxLines = 4
INVARIANTS TypeOK ShortcutsOfReference RangesHold NameFound
PROPERTIES MeaningIsRead PairsAlternate
CHECK_DEADLOCK FALSE
