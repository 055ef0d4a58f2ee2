--------------------------- MODULE GymMarketplace ---------------------------
(***************************************************************************)
(* contracts/contracts/GymMarketplace.sol: gym listings, paid access, and  *)
(* the royalties TrainingEscrow credits to gym builders.                   *)
(***************************************************************************)
EXTENDS Chain, Sequences

CONSTANTS
  Market,       \* address of this contract
  GymKeys,      \* rootHashKey = keccak256 of a gym's root hash
  Prices,       \* the prices a seller may ask
  Payments,     \* the msg.value a caller may attach
  FeeChoices,   \* the arguments of setPlatformFee
  Appointees,   \* the addresses an owner may name as treasury or escrow
  MaxListings   \* bound on the length of _keys

ASSUME MarketAssumption ==
  /\ Market \in Contracts
  /\ GymKeys # {}
  /\ Appointees \subseteq Accounts
  /\ Prices \subseteq Nat /\ Payments \subseteq Nat /\ FeeChoices \subseteq Nat
  /\ MaxListings \in Nat

VARIABLES
  listings,        \* _listings
  access,          \* _access[buyer][key]
  keys,            \* _keys, in insertion order
  royalties,       \* _royalties
  platformFeeBps,
  marketTreasury,  \* treasury
  marketEscrow     \* escrow

marketConfig == <<platformFeeBps, marketTreasury, marketEscrow>>
marketState == <<listings, access, keys, royalties>>
marketVars == <<balance, marketState, marketConfig>>

Listing == [seller : Accounts, price : Nat, active : BOOLEAN]
NoListing == [seller |-> NoOne, price |-> 0, active |-> FALSE]

(* marketTreasury and marketEscrow are set by the deployment, which runs    *)
(* setEscrow right after deploying TrainingEscrow.                          *)
MarketInit(treasury, escrow) ==
  /\ listings = [k \in GymKeys |-> NoListing]
  /\ access = [u \in Accounts |-> [k \in GymKeys |-> FALSE]]
  /\ keys = <<>>
  /\ royalties = [u \in Accounts |-> 0]
  /\ platformFeeBps = 500
  /\ marketTreasury = treasury
  /\ marketEscrow = escrow

-----------------------------------------------------------------------------
(* Listing.                                                                *)

ListGym(u, k, price) ==
  /\ ~listings[k].active
  /\ Len(keys) < MaxListings
  /\ listings' = [listings EXCEPT ![k] =
                    [seller |-> u, price |-> price, active |-> TRUE]]
  /\ keys' = Append(keys, k)
  /\ UNCHANGED <<balance, access, royalties, marketConfig>>

(* Mutant of DelistGym: delisting drops the newest entry of _keys.         *)
DelistGymPoppingKeys(u, k) ==
  /\ listings[k].active
  /\ listings[k].seller = u
  /\ listings' = [listings EXCEPT ![k].active = FALSE]
  /\ keys' = SubSeq(keys, 1, Len(keys) - 1)
  /\ UNCHANGED <<balance, access, royalties, marketConfig>>

DelistGym(u, k) ==
  /\ listings[k].active
  /\ listings[k].seller = u
  /\ listings' = [listings EXCEPT ![k].active = FALSE]
  /\ UNCHANGED <<balance, access, keys, royalties, marketConfig>>

-----------------------------------------------------------------------------
(* Purchase and access.                                                    *)

PlatformFee(value) == (value * platformFeeBps) \div 10000

(* What a purchase does with msg.value: a free gym keeps it in the         *)
(* contract, a priced one splits all of it between seller and treasury.    *)
PurchasePayment(u, k, value) ==
  LET listing == listings[k]
      fee == PlatformFee(value)
  IN  \/ /\ listing.price = 0
         /\ balance' = Transfer(balance, u, Market, value)
      \/ /\ listing.price > 0
         /\ value >= listing.price
         /\ Accepts(listing.seller)
         /\ Accepts(marketTreasury)
         /\ balance' = Transfer(Transfer(balance, u, listing.seller, value - fee),
                                u, marketTreasury, fee)

(* Mutant of PurchaseGym: no "Already have access" check.                  *)
PurchaseGymAgain(u, k, value) ==
  /\ listings[k].active
  /\ u # listings[k].seller
  /\ balance[u] >= value
  /\ access' = [access EXCEPT ![u][k] = TRUE]
  /\ PurchasePayment(u, k, value)
  /\ UNCHANGED <<listings, keys, royalties, marketConfig>>

PurchaseGym(u, k, value) ==
  /\ listings[k].active
  /\ u # listings[k].seller
  /\ ~access[u][k]
  /\ balance[u] >= value
  /\ access' = [access EXCEPT ![u][k] = TRUE]
  /\ PurchasePayment(u, k, value)
  /\ UNCHANGED <<listings, keys, royalties, marketConfig>>

CheckAccess(u, k) ==
  \/ listings[k].seller = u
  \/ listings[k].price = 0
  \/ access[u][k]

(* Mutant of GetListings: the end of a page is counted as part of it, so   *)
(* that a page also shows the first key of the next one.                   *)
GetListingsToEnd(offset, limit) ==
  LET total == Len(keys)
      end == IF offset + limit >= total THEN total ELSE offset + limit + 1
  IN  IF offset >= total \/ limit = 0
      THEN <<>>
      ELSE [i \in 1..(end - offset) |-> keys[total - (offset + i - 1)]]

(* getListings: the keys of one page, newest first.                        *)
GetListings(offset, limit) ==
  LET total == Len(keys)
      end == IF offset + limit > total THEN total ELSE offset + limit
  IN  IF offset >= total \/ limit = 0
      THEN <<>>
      ELSE [i \in 1..(end - offset) |-> keys[total - (offset + i - 1)]]

-----------------------------------------------------------------------------
(* Royalties.                                                              *)

CreditedRoyalties(builder, amount) ==
  [royalties EXCEPT ![builder] = @ + amount]

(* creditRoyalty called by a user the owner has set as escrow; the call    *)
(* made by TrainingEscrow is part of its CompleteJob.                      *)
CreditRoyalty(u, builder, amount) ==
  /\ u = marketEscrow
  /\ balance[u] >= amount
  /\ royalties' = CreditedRoyalties(builder, amount)
  /\ balance' = Transfer(balance, u, Market, amount)
  /\ UNCHANGED <<listings, access, keys, marketConfig>>

(* Mutant of ClaimRoyalties: the debt is not cleared.                      *)
ClaimRoyaltiesKept(u) ==
  /\ royalties[u] > 0
  /\ balance[Market] >= royalties[u]
  /\ Accepts(u)
  /\ balance' = Transfer(balance, Market, u, royalties[u])
  /\ UNCHANGED <<marketState, marketConfig>>

ClaimRoyalties(u) ==
  LET amount == royalties[u]
  IN  /\ amount > 0
      /\ balance[Market] >= amount
      /\ Accepts(u)
      /\ royalties' = [royalties EXCEPT ![u] = 0]
      /\ balance' = Transfer(balance, Market, u, amount)
      /\ UNCHANGED <<listings, access, keys, marketConfig>>

-----------------------------------------------------------------------------
(* Administration, by the owner.                                           *)

SetMarketEscrow(a) ==
  /\ marketEscrow' = a
  /\ UNCHANGED <<balance, marketState, platformFeeBps, marketTreasury>>

SetMarketTreasury(a) ==
  /\ marketTreasury' = a
  /\ UNCHANGED <<balance, marketState, platformFeeBps, marketEscrow>>

(* Mutant of SetPlatformFee: no "Max 10%" check.                           *)
SetPlatformFeeUncapped(bps) ==
  /\ platformFeeBps' = bps
  /\ UNCHANGED <<balance, marketState, marketTreasury, marketEscrow>>

SetPlatformFee(bps) ==
  /\ bps <= 1000
  /\ platformFeeBps' = bps
  /\ UNCHANGED <<balance, marketState, marketTreasury, marketEscrow>>

-----------------------------------------------------------------------------
MarketUserStep(u) ==
  \/ \E k \in GymKeys :
       \/ \E price \in Prices : ListGym(u, k, price)
       \/ DelistGym(u, k)
       \/ \E value \in Payments : PurchaseGym(u, k, value)
  \/ \E builder \in Users, amount \in Payments : CreditRoyalty(u, builder, amount)
  \/ ClaimRoyalties(u)

MarketOwnerStep ==
  \/ \E a \in Appointees : SetMarketEscrow(a) \/ SetMarketTreasury(a)
  \/ \E bps \in FeeChoices : SetPlatformFee(bps)

MarketNext == (\E u \in Users : MarketUserStep(u)) \/ MarketOwnerStep

MarketDeployed ==
  /\ ChainInit
  /\ \E treasury, escrow \in Appointees : MarketInit(treasury, escrow)

MarketSpec == MarketDeployed /\ [][MarketNext]_marketVars

-----------------------------------------------------------------------------
(* Every variable of the contract keeps its declared Solidity type, and    *)
(* no balance goes below zero.                                             *)
MarketTypeOK ==
  /\ balance \in [Accounts -> Nat]
  /\ listings \in [GymKeys -> Listing]
  /\ access \in [Accounts -> [GymKeys -> BOOLEAN]]
  /\ keys \in Seq(GymKeys)
  /\ royalties \in [Accounts -> Nat]
  /\ platformFeeBps \in 0..1000
  /\ marketTreasury \in Accounts
  /\ marketEscrow \in Accounts

(* The contract always holds enough to pay every royalty it owes at once:  *)
(* the transfer in claimRoyalties never lacks funds, whatever was credited *)
(* and claimed before and whoever else was paid out of purchases.          *)
RoyaltiesBacked == balance[Market] >= Total(royalties)

(* getListings paginates without loss or repetition: the pages of any size *)
(* put one after the other are the whole of _keys, newest first, once.     *)
(* Every key stands at its place on its page; and no page is longer than   *)
(* asked for or reaches beyond the oldest key, so that no place is left    *)
(* for a key that stands elsewhere.                                        *)
PagesCoverKeys ==
  \A limit \in 1..(Len(keys) + 1) :
    /\ \A i \in 1..Len(keys) :
         LET offset == limit * ((i - 1) \div limit)
             place == ((i - 1) % limit) + 1
             page == GetListings(offset, limit)
         IN  place \in DOMAIN page /\ page[place] = keys[Len(keys) - i + 1]
    /\ \A offset \in 0..(2 * Len(keys)) :
         LET shown == Len(GetListings(offset, limit))
         IN  shown <= limit /\ (shown > 0 => offset + shown <= Len(keys))

(* An active listing is always on some page, however often its gym was     *)
(* delisted and listed again.                                              *)
ActiveListingsShown ==
  \A k \in GymKeys :
    listings[k].active => \E i \in 1..Len(keys) : GetListings(0, Len(keys))[i] = k

(* A user's balance falls only when that user buys a gym it had not bought *)
(* before, which checkAccess then grants, or pays in a royalty as the      *)
(* marketplace's escrow: no listing, delisting, claim or change of         *)
(* settings by others spends it, and nobody pays for the same gym twice.   *)
EveryPaymentBuysAccess ==
  [][\A u \in Users :
       balance'[u] < balance[u] =>
         \/ u = marketEscrow
         \/ \E k \in GymKeys : ~access[u][k] /\ access'[u][k]
                             /\ CheckAccess(u, k)']_marketVars
=============================================================================
