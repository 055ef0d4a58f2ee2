SPECIFICATION EscrowSpec
CONSTANTS
  alice = alice
  bob = bob
  Market = Market
  Escrow = Escrow
  NoOne = NoOne
  Users = {alice, bob}
  Contracts = {Market, Escrow}
  Rejecting = {}
  Endowment <- MCEndowment
  GymKeys = {g1}
  Prices = {0}
  Payments = {}
  FeeChoices = {}
  Appointees = {alice, Market}
  MaxListings = 2
  JobIds = {j1, j2}
  Deposits = {0, 4, 15}
INVARIANTS
  EscrowTypeOK
  RoyaltiesBacked
  EscrowSolvent
PROPERTIES
  PayoutSplit
  ImplementsPromise
