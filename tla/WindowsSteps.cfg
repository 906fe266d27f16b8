SPECIFICATION Spec
CONSTANTS
  Rows = 2
  Stocks = {"chest", "merchant"}
  MaxAsks = 2
  MaxClicks = 1
  MaxChanges = 1
INVARIANTS  WindowInStep InventoryInStep
 
\* Everything stops when nobody asks for more.
CHECK_DEADLOCK FALSE
