CONSTANTS
  alice = alice
  bob = bob
  Places <- MCPlaces
  Distance <- MCDistance
  Types <- MCTypes
  MaxEventAge = 2
  Users = {alice, bob}
  SubscriptionRows <- MCRows
  Inputs <- MCInputs
  MaxRows = 3
SPECIFICATION LoopSpec
INVARIANTS
  RowIffMatched
  WinnerNearlyClosest
