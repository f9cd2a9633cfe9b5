SPECIFICATION Spec
CONSTANTS
  MaxShifts = 2
  ReleasesMod = 256
  NoChar = NoChar
  VkOf <- MCVkOf
  VkChar <- MCVkChar
  ScChar <- MCScChar
  ModsVks <- MCModsVks
  Compose <- MCCompose
  Board <- BoardShifted
  Kly <- KlyShifted
  Windows = {"user", "other"}
  AdminWindows = {}
  MayToggle = FALSE
  Nested = FALSE
  MaxHeld = 2
  MaxUnhandled = 1
  ReleaseCounts <- ShiftCounts
INVARIANTS TypeOK Coherent ModifiersStay
PROPERTIES SentEndsSequence SequenceSwallows
