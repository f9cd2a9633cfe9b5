SPECIFICATION Spec
CONSTANTS
  MaxShifts = 4
  ReleasesMod = 256
  NoChar = NoChar
  VkOf <- MCVkOf
  VkChar <- MCVkChar
  ScChar <- MCScChar
  ModsVks <- MCModsVks
  Compose <- MCCompose
  Board <- BoardCompose
  Kly <- KlyHJKL
  Windows = {"user"}
  AdminWindows = {}
  MayToggle = FALSE
  Nested = FALSE
  MaxHeld = 3
  MaxUnhandled = 0
  ReleaseCounts <- SmallCounts
PROPERTIES ComposeStarts
