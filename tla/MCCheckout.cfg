SPECIFICATION FairSpec
CONSTANTS
  p1 = p1
  p2 = p2
  p3 = p3
  p4 = p4
  p5 = p5
  idr = idr
  usd = usd
  Products <- MCProducts
  Catalog <- MCCatalog
  Currencies <- MCCurrencies
  Price <- MCPrice
  Carts <- MCCarts
  MaxConcurrent = 2
  Half = 8
  NoProduct = NoProduct
  NoCurrency = NoCurrency
CHECK_DEADLOCK FALSE
INVARIANTS
  TypeOK
  CauseIsReal
  AmountsAddUp
PROPERTIES
  KeepsContract
  Answered
