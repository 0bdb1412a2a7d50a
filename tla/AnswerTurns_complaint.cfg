SPECIFICATION Spec
CONSTANTS
  both = both
  one = one
  Turns = {t1, t2}
  Questions = {both, one}
  NoEntry = NoEntry
  MaxVersion = 1
  Worlds <- Calm
  Parts <- MCParts
  MaxHops = 1
  MaxRegen = 1
INVARIANT EscalationAnswered
