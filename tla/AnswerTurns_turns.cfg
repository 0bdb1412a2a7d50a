SPECIFICATION LiveSpec
CONSTANTS
  both = both
  one = one
  Turns = {t1, t2}
  Questions = {both, one}
  NoEntry = NoEntry
  MaxVersion = 1
  Worlds <- AllWorlds
  Parts <- MCParts
  MaxHops = 1
  MaxRegen = 1
INVARIANTS StaleNeedsOverlap
PROPERTIES TurnsReplied
