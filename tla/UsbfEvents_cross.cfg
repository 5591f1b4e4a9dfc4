\* hclk up to twice as fast as phy_clk and up to six times as slow
SPECIFICATION FairSpec
CONSTANTS
  Data = {TRUE, FALSE}
  Data0 = FALSE
  HMAX = 2
  PMIN = 0
  PMAX = 6
  WIDTH = {1, 3}
  GAP = 24
  LATE = 12
INVARIANTS OneChange StatusIsThere
PROPERTIES EventsCross EventIsTold ImplementsSnapshot
