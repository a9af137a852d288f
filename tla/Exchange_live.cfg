\* Every fair behaviour of two traders and at most three orders.
CONSTANTS
  Traders = {t1, t2}
  Word = 4
  Quantities = {1}
  Prices = {1, 2}
  Amounts = {1}
  MaxOrders = 2
  MaxFundings = 2
SPECIFICATION FairSpec
PROPERTIES
  EventuallyUncrossed
  FiniReturns
