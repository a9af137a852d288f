\* Words wide enough that nothing overflows: at most two deposits of 3.
CONSTANTS
  Traders = {t1, t2}
  Word = 16
  Quantities = {1, 2}
  Prices = {1, 2}
  Amounts = {3}
  MaxOrders = 2
  MaxFundings = 2
SPECIFICATION Spec
SYMMETRY Symmetry
INVARIANT
  Inv
PROPERTY
  ImplementsMarket
