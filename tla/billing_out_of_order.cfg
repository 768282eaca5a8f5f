SPECIFICATION SpecBilling
CONSTANTS
  Customers = {u1}
  Hooks = {h1}
  Plans = {growth}
  NoPlan = NoPlan
  MaxSubs = 1
  MaxEvents = 4
  MaxFaults = 0
CHECK_DEADLOCK FALSE
PROPERTY LiveNeverRegresses
