SPECIFICATION FairMemorySpec
CONSTANTS
  Keys <- MCKeys
  Position <- MCPosition
  Files <- MCFiles
  MaxSteps = 3
  RootMap <- MCRootMap
  Tree <- MCTree
  Under <- MCUnder
  Markdown <- MCTree
  Layouts <- MCLayouts
  Found <- MCFound
CHECK_DEADLOCK FALSE
INVARIANTS
  MemoryTypeOK
  ValidStored
  AppliedIsStored
  ShownWithinRules
  ServicesFollow
  CleanSwitch
PROPERTIES
  SaveEnds
