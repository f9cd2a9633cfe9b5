SPECIFICATION Spec
CONSTANTS
  MaxShifts = 4
  ReleasesMod = 256
  NoChar = NoChar
  VkOf <- MCVkOf
  VkChar <- MCVkChar
  ScChar <- MCScChar
  ModsVks <- MCModsVks
  Compose <- NoCompose
  Board <- BoardTwo
  Kly <- KlyHJKL
  Windows = {"user"}
  AdminWindows = {}
  MayToggle = FALSE
  Nested = TRUE
  MaxHeld = 3
  MaxUnhandled = 0
  ReleaseCounts <- SmallCounts
INVARIANTS RestIsNeutral
