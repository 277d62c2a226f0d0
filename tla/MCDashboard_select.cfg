SPECIFICATION Spec
CONSTANTS
  Worlds <- MCWorlds
  Filters <- MCFilters
  Heights <- MCHeights
  SessionLines = 5
INVARIANTS TypeOK ViewIsModel ClickSelectsShown
