SPECIFICATION LiveSpec
CONSTANTS
  pa = pa
  pb = pb
  Product = {pa, pb}
  Price <- TwoPrices
  Quantity = {1, 2}
  InitPrice <- PriceOf
  InitStock <- StockOf
  Tier1Max = 200
  MaxCount = 2
  MaxDrafts = 3
  Worlds <- SomeWorlds
PROPERTIES PlacedHasContact ChangeIsJudged AutoPlacedSmall  PlacedAsShown TurnEnds
CHECK_DEADLOCK FALSE
