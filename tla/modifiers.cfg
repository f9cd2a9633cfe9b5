SPECIFICATION Spec
CONSTANTS
  MaxShifts = 4
  ReleasesMod = 256
  NoChar = NoChar
  VkOf <- MCVkOf
  VkChar <- MCVkChar
  ScChar <- MCScChar
  ModsVks <- MCModsVks
  Compose <- NoCompose
  Board <- BoardModifiers
  Kly <- KlyModifiers
  Windows = {"user", "admin"}
  AdminWindows = {"admin"}
  MayToggle = TRUE
  Nested = FALSE
  MaxHeld = 2
  MaxUnhandled = 1
  ReleaseCounts <- SmallCounts
PROPERTIES Refines
