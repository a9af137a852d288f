\* Two traders, three orders, words of four values.
CONSTANTS
  Traders = {t1, t2}
  Word = 4
  Quantities = {1, 2}
  Prices = {1, 2}
  Amounts = {2}
  MaxOrders = 2
  MaxFundings = 2
SPECIFICATION Spec
SYMMETRY Symmetry
INVARIANTS
  TypeOK
  MutualExclusion
  NoUseAfterFree
  NoLostMatch
  QuotesAreExtremes
  TradesAtBestPrices
  AccountsBalance
  ReferencesCounted
  FeedTellsBook
