SPECIFICATION MarketSpec
CONSTANTS
  alice = alice
  bob = bob
  Market = Market
  NoOne = NoOne
  Users = {alice, bob}
  Contracts = {Market}
  Rejecting = {}
  Endowment <- MCEndowment
  GymKeys = {g1, g2}
  Prices = {0, 10}
  Payments = {10, 30}
  FeeChoices = {1000, 1001}
  Appointees = {alice, Market}
  MaxListings = 3
INVARIANTS
  MarketTypeOK
  RoyaltiesBacked
  PagesCoverKeys
  ActiveListingsShown
PROPERTY
  EveryPaymentBuysAccess
