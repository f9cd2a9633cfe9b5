SPECIFICATION Spec
CONSTANTS
  Names = {"Multi_key", "dead_tilde", "dead_perispomeni", "a", "b", "Ua"}
  Multi_key = "Multi_key"
  DeadNames = {"dead_tilde", "dead_perispomeni"}
  Codes = {97, 98}
  NoCode = 0
  ucs2 <- MCucs2
  Syms = {"fe53"}
  NoSym = NoSym
  KeydefLines <- MCKeydefLines
  ComposeLines <- MCComposeLines
  Unquoted = Unquoted
  ReadBufs = 3
  MinSize = 2
  DksSize = 4
  KA_dkn_count = 3
  MaxLines = 5
INVARIANTS TypeOK WithinArrays ChildrenListed NoDeadEnd LookupAgrees
PROPERTIES NamesKeep Overrides
CHECK_DEADLOCK FALSE
