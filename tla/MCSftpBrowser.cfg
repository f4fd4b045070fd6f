SPECIFICATION BrowserSpec
CONSTANTS
  s1 = s1
  s2 = s2
  j1 = j1
  j2 = j2
  Servers <- TwoServers
  DirNames <- TwoDirs
  FileNames <- TwoFiles
  JobSlots <- TwoSlots
  Situations <- BrowserSituations
INVARIANTS
  ShownTogether
  OverwriteConfirmed
  Fresh
CHECK_DEADLOCK FALSE
