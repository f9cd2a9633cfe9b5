SPECIFICATION FairSpec
CONSTANTS
  MaxInstances = 2
  Locales <- MCLocales
  Disks <- MCDisks
  Args <- MCArgs
  Combos = {"@a", "@b", "@c"}
  KAs = {"toggle", "restart", "other"}
  Cells = {"sc1.1", "sc2.1"}
  TableSize = 3
  Taken = {"@b"}
  MaxQueue = 1
INVARIANTS TypeOK HotkeyRunsItsLine IconShowsActive FilesInOrder
PROPERTIES ReportsBadFiles Settles QuitEnds
CHECK_DEADLOCK FALSE
