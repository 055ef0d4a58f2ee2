SPECIFICATION Spec
CONSTANTS
  alice = alice
  bob = bob
  Market = Market
  Escrow = Escrow
  Verifier = Verifier
  OtherEscrow = OtherEscrow
  NoOne = NoOne
  Placeholder = Placeholder
  Users = {alice, bob}
  Contracts = {Market, Escrow, Verifier}
  Rejecting = {bob}
  Endowment <- MCEndowment
  GymKeys = {g1}
  Prices = {}
  Payments = {}
  FeeChoices = {}
  Appointees = {alice, Verifier}
  MaxListings = 0
  JobIds = {2, 5, 9}
  Deposits = {4}
  VerifyingKeys = {vk1}
  Indexes = {0, 2}
  FieldOrder = 7
  NonceLimit = 4
  Address <- MCAddress
  Requests <- MCRequests
  Other <- MCOther
INVARIANTS
  VerifierTypeOK
  EscrowSolvent
PROPERTIES
  
  SettledWithRelease
