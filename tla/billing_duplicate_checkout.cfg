SPECIFICATION SpecBilling
CONSTANTS
  Customers = {u1}
  Hooks = {h1}
  Plans = {growth}
  NoPlan = NoPlan
  MaxSubs = 2
  MaxEvents = 2
  MaxFaults = 0
CHECK_DEADLOCK FALSE
PROPERTY PendingCheckoutReused
