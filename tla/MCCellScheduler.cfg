SPECIFICATION FairSpec
CONSTANTS
  Rates = {27, 1000}
  NumRbs = 25
  AlphaInv = 100
PROPERTY EveryoneServed
