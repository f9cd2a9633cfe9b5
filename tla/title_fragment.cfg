SPECIFICATION Spec
CONSTANTS
  KLVN = 4
  Keys = {"sc1", "sc2", "sc3"}
  Langs = {"en", "de"}
  Neutral = "neutral"
  Vks = {"Y", "Z", "C", "LEFT"}
  Chars = {"c", "C", "y", "at"}
  Actions = {"next"}
  NoVk = "0"
  KN_name_to_vk <- MCKN_name_to_vk
  sc_to_vk <- MCsc_to_vk
  VkKeyScan <- MCVkKeyScan
  NoKey = NoKey
  DefinedVks = {"Y", "Z", "C"}
  Lines <- FragmentLines
  Strs = {"No Options Game", "Games: No Options Game v1.0"}
  StartsWith <- MCStartsWith
  HasPart <- MCHasPart
  Sum <- FragmentSum
  SumLen = 256
  Garbage = {256}
  KlcsSize = 3
  AppsSize = 3
  MaxLines = 2
INVARIANT FoundByFragment
CHECK_DEADLOCK FALSE
