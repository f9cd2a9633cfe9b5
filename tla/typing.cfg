SPECIFICATION Spec
CONSTANTS
  MaxShifts = 4
  ReleasesMod = 256
  NoChar = NoChar
  VkOf <- MCVkOf
  VkChar <- MCVkChar
  ScChar <- MCScChar
  ModsVks <- MCModsVks
  Compose <- NoCompose
  Board <- BoardVi
  Kly <- KlyHJKL
  Windows = {"user"}
  AdminWindows = {}
  MayToggle = FALSE
  Nested = TRUE
  MaxHeld = 5
  MaxUnhandled = 0
  ReleaseCounts <- SmallCounts
INVARIANTS InEffectInOs NothingStuck RestIsNeutral FakedShiftTracked
PROPERTIES AlterationIsTemporary Refines
