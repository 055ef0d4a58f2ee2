------------------------ MODULE GymMarketplaceProofs ------------------------
(***************************************************************************)
(* The marketplace is typed and always able to pay its royalties, its      *)
(* pages cover every key, every active listing is shown and every payment  *)
(* buys access, for any users, gyms, prices, fees and number of listings.  *)
(* The lemmas about sums of amounts come first; the proofs about the other *)
(* contracts cite them.                                                    *)
(***************************************************************************)
EXTENDS GymMarketplace, FiniteSetTheorems, SequenceTheorems, TLAPS

-----------------------------------------------------------------------------
(* What sums of amounts satisfy, for every finite set of holders.          *)

(* The n units of one holder: finite, and n of them.                       *)
LEMMA HolderUnits ==
  ASSUME NEW x, NEW n \in Nat
  PROVE  /\ IsFiniteSet({x} \X (1..n))
         /\ Cardinality({x} \X (1..n)) = n
<1>1. IsFiniteSet({x}) /\ Cardinality({x}) = 1
  BY FS_Singleton
<1>2. IsFiniteSet(1..n) /\ Cardinality(1..n) = n
  BY FS_Interval
<1>3. /\ IsFiniteSet({x} \X (1..n))
      /\ Cardinality({x} \X (1..n)) = Cardinality({x}) * Cardinality(1..n)
  BY <1>1, <1>2, FS_Product, Zenon
<1>4. Cardinality({x} \X (1..n)) = 1 * n
  BY <1>1, <1>2, <1>3, Zenon
<1>5. QED
  BY <1>3, <1>4

(* Exchanging a part A of a finite set for a disjoint finite set B.        *)
LEMMA Exchange ==
  ASSUME NEW U, IsFiniteSet(U), NEW A \in SUBSET U,
         NEW B, IsFiniteSet(B), (U \ A) \cap B = {}
  PROVE  /\ Cardinality((U \ A) \cup B) =
              Cardinality(U) - Cardinality(A) + Cardinality(B)
         /\ Cardinality(A) <= Cardinality(U)
<1>1. U \cap A = A
  OBVIOUS
<1>2. IsFiniteSet(A) /\ Cardinality(A) <= Cardinality(U)
  BY FS_Subset
<1>3. IsFiniteSet(U \ A) /\ Cardinality(U \ A) = Cardinality(U) - Cardinality(A)
  BY <1>1, FS_Difference
<1>4. Cardinality((U \ A) \cap B) = 0
  BY FS_EmptySet
<1>5. Cardinality((U \ A) \cup B) =
        Cardinality(U \ A) + Cardinality(B) - Cardinality((U \ A) \cap B)
  BY <1>3, FS_Union
<1>6. /\ Cardinality(U) \in Nat /\ Cardinality(A) \in Nat
      /\ Cardinality(B) \in Nat
  BY <1>2, FS_CardinalityType
<1>7. QED
  BY <1>2, <1>3, <1>4, <1>5, <1>6

(* A finite number of holders has a finite number of units.                *)
LEMMA UnitsFinite ==
  ASSUME NEW S, IsFiniteSet(S), NEW f \in [S -> Nat]
  PROVE  IsFiniteSet(Units(f)) /\ Total(f) \in Nat
<1> DEFINE Holdings == {{x} \X (1..f[x]) : x \in S}
           holding == [x \in S |-> {x} \X (1..f[x])]
<1>1. holding \in Surjection(S, Holdings)
  BY DEF Surjection
<1>2. IsFiniteSet(Holdings)
  BY <1>1, FS_Surjection
<1>3. \A T \in Holdings : IsFiniteSet(T)
  <2>1. ASSUME NEW x \in S
        PROVE  IsFiniteSet({x} \X (1..f[x]))
    <3>1. f[x] \in Nat
      OBVIOUS
    <3>2. QED
      BY <3>1, HolderUnits, Zenon
  <2>2. QED
    BY <2>1
<1>4. IsFiniteSet(UNION Holdings)
  BY <1>2, <1>3, FS_UNION
<1>5. Units(f) = UNION Holdings
  BY DEF Units
<1>6. QED
  BY <1>4, <1>5, FS_CardinalityType DEF Total

(* Changing one amount changes the sum by as much, and no amount exceeds   *)
(* the sum it is part of.                                                  *)
THEOREM TotalUpdate ==
  ASSUME NEW S, IsFiniteSet(S), NEW f \in [S -> Nat],
         NEW x \in S, NEW n \in Nat
  PROVE  /\ Total([f EXCEPT ![x] = n]) = Total(f) - f[x] + n
         /\ f[x] <= Total(f)
<1> DEFINE g == [f EXCEPT ![x] = n]
           old == {x} \X (1..f[x])
           new == {x} \X (1..n)
           rest == Units(f) \ old
<1>1. g \in [S -> Nat]
  OBVIOUS
<1>2. IsFiniteSet(Units(f)) /\ Total(f) \in Nat
  BY UnitsFinite
<1>3. /\ IsFiniteSet(old) /\ Cardinality(old) = f[x]
      /\ IsFiniteSet(new) /\ Cardinality(new) = n
  BY HolderUnits
<1>4. old \subseteq Units(f)
  BY DEF Units
<1>7. \A u : u \in rest <=> \E y \in S : y # x /\ u \in {y} \X (1..f[y])
  <2>1. \A u : u \in Units(f) <=> \E y \in S : u \in {y} \X (1..f[y])
    BY DEF Units
  <2>2. QED
    BY <2>1
<1>8. \A u : u \in Units(g) <=> \E y \in S : u \in {y} \X (1..g[y])
  BY DEF Units
<1>9. Units(g) = rest \cup new
  <2>1. g[x] = n /\ \A y \in S : y # x => g[y] = f[y]
    OBVIOUS
  <2>2. QED
    BY <1>7, <1>8, <2>1
<1>10. rest \cap new = {}
  BY <1>7
<1>11. /\ Cardinality(rest \cup new) =
            Cardinality(Units(f)) - Cardinality(old) + Cardinality(new)
       /\ Cardinality(old) <= Cardinality(Units(f))
  <2> HIDE DEF old, new
  <2>1. QED
    BY <1>2, <1>3, <1>4, <1>10, Exchange
<1>12. QED
  <2> HIDE DEF old, new, rest
  <2>1. QED
    BY <1>3, <1>9, <1>11, Zenon DEF Total

(* Nobody holding anything, the sum is zero.                               *)
LEMMA TotalOfNothing ==
  ASSUME NEW S
  PROVE  Total([x \in S |-> 0]) = 0
<1>1. Units([x \in S |-> 0]) = {}
  BY DEF Units
<1>2. QED
  BY <1>1, FS_EmptySet DEF Total

-----------------------------------------------------------------------------
(* The marketplace.                                                        *)

(* A transfer that the sender can afford moves exactly v.                  *)
LEMMA TransferMoves ==
  ASSUME NEW b \in [Accounts -> Nat], NEW from \in Accounts, NEW to \in Accounts,
         NEW v \in Nat, v <= b[from]
  PROVE  /\ Transfer(b, from, to, v) \in [Accounts -> Nat]
         /\ \A a \in Accounts \ {from, to} : Transfer(b, from, to, v)[a] = b[a]
         /\ from # to =>
              /\ Transfer(b, from, to, v)[from] = b[from] - v
              /\ Transfer(b, from, to, v)[to] = b[to] + v
<1>1. CASE from = to
  BY <1>1 DEF Transfer
<1>2. CASE from # to
  BY <1>2 DEF Transfer
<1>3. QED
  BY <1>1, <1>2

(* The platform's fee, at most 10%, is never more than what was paid.      *)
LEMMA FeeWithinPayment ==
  ASSUME NEW value \in Nat, platformFeeBps \in 0..1000
  PROVE  PlatformFee(value) \in 0..value
<1>1. value * platformFeeBps <= value * 10000 /\ value * platformFeeBps >= 0
  OBVIOUS
<1>2. QED
  BY <1>1 DEF PlatformFee

(* Where addresses come from.                                              *)
LEMMA Addresses ==
  /\ Market \in Accounts /\ NoOne \in Accounts
  /\ Users \subseteq Accounts /\ Contracts \subseteq Accounts
  /\ IsFiniteSet(Accounts)
  /\ Market \notin Users /\ NoOne # Market
<1>1. IsFiniteSet(Users \cup Contracts)
  BY ChainAssumption, FS_Union
<1>2. IsFiniteSet(Accounts)
  BY <1>1, FS_AddElement DEF Accounts
<1>3. QED
  BY <1>2, ChainAssumption, MarketAssumption DEF Accounts

MarketInv == MarketTypeOK /\ RoyaltiesBacked

(* What the contracts other than this one see of a marketplace step.       *)
OthersKeepBalance == \A c \in Contracts \ {Market} : balance'[c] = balance[c]

(* The deployed marketplace owes nothing and holds nothing.                *)
LEMMA MarketInitInv ==
  ASSUME ChainInit, NEW treasury \in Appointees, NEW escrow \in Accounts,
         MarketInit(treasury, escrow)
  PROVE  MarketInv
<1>1. MarketTypeOK
  BY Addresses, ChainAssumption, MarketAssumption
  DEF ChainInit, MarketInit, MarketTypeOK, Listing, NoListing
<1>2. RoyaltiesBacked
  <2>1. balance[Market] = 0
    BY Addresses DEF ChainInit
  <2>2. Total(royalties) = 0
    BY TotalOfNothing DEF MarketInit
  <2>3. QED
    BY <2>1, <2>2 DEF RoyaltiesBacked
<1>3. QED
  BY <1>1, <1>2 DEF MarketInv

(* Listing and delisting move no wei and owe no royalty.                   *)
LEMMA ListGymInv ==
  ASSUME MarketInv, NEW u \in Users, NEW k \in GymKeys, NEW price \in Prices,
         ListGym(u, k, price)
  PROVE  MarketInv' /\ OthersKeepBalance
<1>1. listings' \in [GymKeys -> Listing]
  BY Addresses, MarketAssumption DEF ListGym, MarketInv, MarketTypeOK, Listing
<1>2. keys' \in Seq(GymKeys)
  <2>1. keys \in Seq(GymKeys) /\ keys' = Append(keys, k)
    BY DEF ListGym, MarketInv, MarketTypeOK
  <2>2. QED
    BY <2>1
<1>3. QED
  BY <1>1, <1>2
  DEF ListGym, MarketInv, MarketTypeOK, RoyaltiesBacked, OthersKeepBalance, marketConfig

(* Delisting moves no wei and owes no royalty either.                      *)
LEMMA DelistGymInv ==
  ASSUME MarketInv, NEW u \in Users, NEW k \in GymKeys, DelistGym(u, k)
  PROVE  MarketInv' /\ OthersKeepBalance
<1>1. listings' \in [GymKeys -> Listing]
  <2>1. listings \in [GymKeys -> Listing]
    BY DEF MarketInv, MarketTypeOK
  <2>2. [listings[k] EXCEPT !.active = FALSE] \in Listing
    BY <2>1 DEF Listing
  <2>3. listings' = [listings EXCEPT ![k] = [listings[k] EXCEPT !.active = FALSE]]
    BY DEF DelistGym
  <2>4. QED
    BY <2>1, <2>2, <2>3
<1>2. QED
  BY <1>1
  DEF DelistGym, MarketInv, MarketTypeOK, RoyaltiesBacked, OthersKeepBalance,
      marketConfig

(* A purchase pays out of the buyer's balance only.                        *)
LEMMA PurchaseInv ==
  ASSUME MarketInv, NEW u \in Users, NEW k \in GymKeys, NEW value \in Payments,
         PurchaseGym(u, k, value)
  PROVE  MarketInv' /\ OthersKeepBalance
<1> DEFINE listing == listings[k]
           fee == PlatformFee(value)
           once == Transfer(balance, u, listing.seller, value - fee)
<1>1. /\ value \in Nat /\ fee \in 0..value
      /\ balance \in [Accounts -> Nat] /\ value <= balance[u]
      /\ u \in Accounts /\ listing.seller \in Accounts
      /\ marketTreasury \in Accounts /\ u # listing.seller
  BY MarketAssumption, FeeWithinPayment, Addresses
  DEF PurchaseGym, MarketInv, MarketTypeOK, Listing
<1>2. /\ balance' \in [Accounts -> Nat]
      /\ balance'[Market] >= balance[Market]
      /\ OthersKeepBalance
  <2>1. CASE balance' = Transfer(balance, u, Market, value)
    <3>1. u # Market /\ Market \in Accounts
      BY Addresses
    <3>2. /\ balance' \in [Accounts -> Nat]
          /\ \A a \in Accounts \ {u, Market} : balance'[a] = balance[a]
          /\ balance'[Market] = balance[Market] + value
      <4> HIDE DEF fee, listing
      <4>1. QED
        BY <1>1, <2>1, <3>1, TransferMoves
    <3>3. balance[Market] \in Nat
      BY <1>1, <3>1
    <3>4. OthersKeepBalance
      BY <3>2, Addresses, ChainAssumption DEF OthersKeepBalance
    <3>5. QED
      BY <1>1, <3>2, <3>3, <3>4
  <2>2. CASE /\ Accepts(listing.seller) /\ Accepts(marketTreasury)
             /\ balance' = Transfer(once, u, marketTreasury, fee)
    <3>1. /\ once \in [Accounts -> Nat]
          /\ \A a \in Accounts \ {u, listing.seller} : once[a] = balance[a]
          /\ once[u] = balance[u] - (value - fee)
      <4> HIDE DEF fee, listing
      <4>1. value - fee \in Nat /\ value - fee <= balance[u]
        BY <1>1
      <4>2. QED
        BY <1>1, <4>1, TransferMoves
    <3>2. fee \in Nat /\ fee <= once[u]
      <4> HIDE DEF fee, listing, once
      <4>1. QED
        BY <1>1, <3>1
    <3>3. /\ balance' \in [Accounts -> Nat]
          /\ \A a \in Accounts \ {u, marketTreasury} : balance'[a] = once[a]
      <4> HIDE DEF fee, listing, once
      <4>1. QED
        BY <1>1, <2>2, <3>1, <3>2, TransferMoves
    <3>4. \A c \in Contracts : balance'[c] = balance[c]
      <4> HIDE DEF fee, once
      <4>1. \A c \in Contracts : c \in Accounts \ {u, listing.seller, marketTreasury}
        BY <2>2, Addresses, ChainAssumption DEF Accepts
      <4>2. QED
        BY <3>1, <3>3, <4>1
    <3>5. QED
      BY <1>1, <3>3, <3>4, MarketAssumption, Addresses DEF OthersKeepBalance
  <2>3. QED
    BY <2>1, <2>2 DEF PurchaseGym, PurchasePayment
<1>3. access' \in [Accounts -> [GymKeys -> BOOLEAN]]
  <2>1. access \in [Accounts -> [GymKeys -> BOOLEAN]]
    BY DEF MarketInv, MarketTypeOK
  <2>2. access' = [access EXCEPT ![u] = [access[u] EXCEPT ![k] = TRUE]]
    BY DEF PurchaseGym
  <2>3. QED
    BY <1>1, <2>1, <2>2
<1>4. UNCHANGED <<listings, keys, royalties, marketConfig>>
  BY DEF PurchaseGym
<1>5. Total(royalties) \in Nat
  BY UnitsFinite, Addresses DEF MarketInv, MarketTypeOK
<1>6. RoyaltiesBacked'
  <2>1. Total(royalties') = Total(royalties)
    BY <1>4
  <2>2. QED
    BY <1>1, <1>2, <1>5, <2>1, Addresses DEF MarketInv, RoyaltiesBacked
<1>7. QED
  BY <1>2, <1>3, <1>4, <1>6 DEF MarketInv, MarketTypeOK, marketConfig

(* What creditRoyalty adds to the debt arrives with the call.              *)
LEMMA CreditedInv ==
  ASSUME MarketInv, NEW from \in Accounts \ {Market}, NEW builder \in Accounts,
         NEW amount \in Nat, NEW b \in [Accounts -> Nat],
         b[Market] = balance[Market], amount <= b[from],
         royalties' = CreditedRoyalties(builder, amount),
         balance' = Transfer(b, from, Market, amount)
  PROVE  /\ balance' \in [Accounts -> Nat] /\ royalties' \in [Accounts -> Nat]
         /\ balance'[from] = b[from] - amount
         /\ \A a \in Accounts \ {from, Market} : balance'[a] = b[a]
         /\ RoyaltiesBacked'
<1>1. royalties \in [Accounts -> Nat]
  BY DEF MarketInv, MarketTypeOK
<1>2. royalties' = [royalties EXCEPT ![builder] = royalties[builder] + amount]
  BY DEF CreditedRoyalties
<1>3. royalties' \in [Accounts -> Nat]
  BY <1>1, <1>2
<1>4. Total(royalties') = Total(royalties) + amount
  <2> DEFINE owed == royalties[builder] + amount
  <2>1. owed \in Nat /\ royalties' = [royalties EXCEPT ![builder] = owed]
    BY <1>1, <1>2
  <2>2. Total(royalties') = Total(royalties) - royalties[builder] + owed
    <3> HIDE DEF owed
    <3>1. \A n \in Nat : Total([royalties EXCEPT ![builder] = n]) =
                          Total(royalties) - royalties[builder] + n
      BY <1>1, TotalUpdate, Addresses, Zenon
    <3>2. QED
      BY <2>1, <3>1, Zenon
  <2>3. Total(royalties) \in Nat /\ royalties[builder] \in Nat
    BY <1>1, UnitsFinite, Addresses
  <2>4. QED
    BY <2>2, <2>3
<1>5. /\ balance' \in [Accounts -> Nat]
      /\ balance'[from] = b[from] - amount
      /\ balance'[Market] = b[Market] + amount
      /\ \A a \in Accounts \ {from, Market} : balance'[a] = b[a]
  BY TransferMoves, Addresses
<1>6. RoyaltiesBacked'
  <2>1. Total(royalties) \in Nat /\ balance[Market] \in Nat
    BY <1>1, UnitsFinite, Addresses DEF MarketInv, MarketTypeOK
  <2>2. QED
    BY <1>4, <1>5, <2>1 DEF MarketInv, RoyaltiesBacked
<1>7. QED
  BY <1>3, <1>5, <1>6

(* creditRoyalty called by a user keeps the invariant.                     *)
LEMMA CreditInv ==
  ASSUME MarketInv, NEW u \in Users, NEW builder \in Users, NEW amount \in Payments,
         CreditRoyalty(u, builder, amount)
  PROVE  MarketInv' /\ OthersKeepBalance
<1>1. /\ u \in Accounts \ {Market} /\ builder \in Accounts /\ amount \in Nat
      /\ balance \in [Accounts -> Nat] /\ amount <= balance[u]
  BY Addresses, MarketAssumption DEF CreditRoyalty, MarketInv, MarketTypeOK
<1>2. /\ balance' \in [Accounts -> Nat] /\ royalties' \in [Accounts -> Nat]
      /\ \A a \in Accounts \ {u, Market} : balance'[a] = balance[a]
      /\ RoyaltiesBacked'
  BY <1>1, CreditedInv DEF CreditRoyalty
<1>3. OthersKeepBalance
  BY <1>2, Addresses, ChainAssumption DEF OthersKeepBalance
<1>4. UNCHANGED <<listings, access, keys, marketConfig>>
  BY DEF CreditRoyalty
<1>5. QED
  BY <1>2, <1>3, <1>4 DEF MarketInv, MarketTypeOK, marketConfig

(* A claim pays off exactly the debt it clears.                            *)
LEMMA ClaimInv ==
  ASSUME MarketInv, NEW u \in Users, ClaimRoyalties(u)
  PROVE  MarketInv' /\ OthersKeepBalance
<1>1. /\ u \in Accounts \ {Market} /\ balance \in [Accounts -> Nat]
      /\ royalties \in [Accounts -> Nat] /\ royalties[u] <= balance[Market]
      /\ royalties' = [royalties EXCEPT ![u] = 0]
      /\ balance' = Transfer(balance, Market, u, royalties[u])
  BY Addresses DEF ClaimRoyalties, MarketInv, MarketTypeOK
<1>2. /\ balance' \in [Accounts -> Nat]
      /\ balance'[Market] = balance[Market] - royalties[u]
      /\ \A a \in Accounts \ {u, Market} : balance'[a] = balance[a]
  <2>1. royalties[u] \in Nat /\ Market \in Accounts /\ Market # u /\ u \in Accounts
    BY <1>1, Addresses
  <2>2. QED
    BY <1>1, <2>1, TransferMoves
<1>3. Total(royalties') = Total(royalties) - royalties[u] + 0
  BY <1>1, TotalUpdate, Addresses
<1>4. RoyaltiesBacked'
  <2>1. /\ Total(royalties) \in Nat /\ royalties[u] \in Nat
        /\ balance[Market] \in Nat
    BY <1>1, UnitsFinite, Addresses
  <2>2. QED
    BY <1>2, <1>3, <2>1 DEF MarketInv, RoyaltiesBacked
<1>5. OthersKeepBalance
  BY <1>2, Addresses, ChainAssumption DEF OthersKeepBalance
<1>6. UNCHANGED <<listings, access, keys, marketConfig>>
  BY DEF ClaimRoyalties
<1>7. QED
  BY <1>1, <1>2, <1>4, <1>5, <1>6 DEF MarketInv, MarketTypeOK, marketConfig

(* The owner changes addresses and the capped fee, and nothing else.       *)
LEMMA MarketOwnerInv ==
  ASSUME MarketInv, MarketOwnerStep
  PROVE  MarketInv' /\ OthersKeepBalance
<1>1. UNCHANGED <<balance, marketState>>
  BY DEF MarketOwnerStep, SetMarketEscrow, SetMarketTreasury, SetPlatformFee
<1>2. /\ platformFeeBps' \in 0..1000
      /\ marketTreasury' \in Accounts /\ marketEscrow' \in Accounts
  <2> DEFINE Config == /\ platformFeeBps \in 0..1000
                       /\ marketTreasury \in Accounts /\ marketEscrow \in Accounts
  <2>1. Config
    BY DEF MarketInv, MarketTypeOK
  <2>2. ASSUME NEW a \in Appointees, SetMarketEscrow(a)
        PROVE  Config'
    BY <2>1, <2>2, MarketAssumption DEF SetMarketEscrow
  <2>3. ASSUME NEW a \in Appointees, SetMarketTreasury(a)
        PROVE  Config'
    BY <2>1, <2>3, MarketAssumption DEF SetMarketTreasury
  <2>4. ASSUME NEW bps \in FeeChoices, SetPlatformFee(bps)
        PROVE  Config'
    <3>1. bps \in Nat
      BY MarketAssumption
    <3>2. QED
      BY <2>1, <2>4, <3>1 DEF SetPlatformFee
  <2>5. QED
    BY <2>2, <2>3, <2>4 DEF MarketOwnerStep
<1>3. QED
  BY <1>1, <1>2
  DEF MarketInv, MarketTypeOK, RoyaltiesBacked, OthersKeepBalance, marketState

(* Every step of the marketplace, also one taken while it is composed with *)
(* other contracts, keeps its invariant and their balances.                *)
THEOREM MarketStepInv ==
  ASSUME MarketInv, MarketNext
  PROVE  MarketInv' /\ OthersKeepBalance
<1>1. ASSUME NEW u \in Users, MarketUserStep(u)
      PROVE  MarketInv' /\ OthersKeepBalance
  <2>1. ASSUME NEW k \in GymKeys, NEW price \in Prices, ListGym(u, k, price)
        PROVE  MarketInv' /\ OthersKeepBalance
    BY <2>1, ListGymInv
  <2>2. ASSUME NEW k \in GymKeys, DelistGym(u, k)
        PROVE  MarketInv' /\ OthersKeepBalance
    BY <2>2, DelistGymInv
  <2>3. ASSUME NEW k \in GymKeys, NEW value \in Payments, PurchaseGym(u, k, value)
        PROVE  MarketInv' /\ OthersKeepBalance
    BY <2>3, PurchaseInv
  <2>4. ASSUME NEW builder \in Users, NEW amount \in Payments,
               CreditRoyalty(u, builder, amount)
        PROVE  MarketInv' /\ OthersKeepBalance
    BY <2>4, CreditInv
  <2>5. QED
    BY <1>1, <2>1, <2>2, <2>3, <2>4, ClaimInv DEF MarketUserStep
<1>2. QED
  BY <1>1, MarketOwnerInv DEF MarketNext

(* The invariant holds in every behaviour, as long as the treasury and     *)
(* escrow the marketplace starts with are accounts.                        *)
LEMMA MarketInvariant == MarketSpec => []MarketInv
<1>1. ASSUME ChainInit, \E treasury, escrow \in Appointees : MarketInit(treasury, escrow)
      PROVE  MarketInv
  BY <1>1, MarketInitInv, MarketAssumption
<1>2. ASSUME MarketInv, [MarketNext]_marketVars
      PROVE  MarketInv'
  <2>1. CASE UNCHANGED marketVars
    BY <1>2, <2>1 DEF MarketInv, MarketTypeOK, RoyaltiesBacked, marketVars, marketState,
       marketConfig
  <2>2. QED
    BY <1>2, <2>1, MarketStepInv
<1>3. QED
  BY <1>1, <1>2, PTL DEF MarketSpec, MarketDeployed

(* Every variable of the contract keeps its declared type, and no balance  *)
(* goes below zero: for any users, gyms, prices and fees.                  *)
THEOREM MarketTyped == MarketSpec => []MarketTypeOK
<1>1. MarketInv => MarketTypeOK
  BY DEF MarketInv
<1>2. QED
  BY <1>1, MarketInvariant, PTL

(* The transfer of claimRoyalties never lacks funds.                       *)
THEOREM RoyaltiesStayBacked == MarketSpec => []RoyaltiesBacked
<1>1. MarketInv => RoyaltiesBacked
  BY DEF MarketInv
<1>2. QED
  BY <1>1, MarketInvariant, PTL

-----------------------------------------------------------------------------
(* Pagination.                                                             *)

(* Division by a page size.                                                *)
LEMMA Division ==
  ASSUME NEW n \in Nat, NEW d \in Nat \ {0}
  PROVE  /\ n \div d \in Nat /\ n % d \in 0..(d - 1)
         /\ d * (n \div d) + (n % d) = n
OBVIOUS

(* What stands on a page: its i-th entry is as far from the end of _keys   *)
(* as the offset and i say.                                                *)
LEMMA PageEntry ==
  ASSUME keys \in Seq(GymKeys), NEW offset \in Nat, NEW limit \in Nat,
         NEW i \in 1..limit, offset + i <= Len(keys)
  PROVE  /\ i \in DOMAIN GetListings(offset, limit)
         /\ GetListings(offset, limit)[i] = keys[Len(keys) - offset - i + 1]
<1> DEFINE total == Len(keys)
           end == IF offset + limit > total THEN total ELSE offset + limit
<1>1. total \in Nat /\ offset < total /\ limit # 0
  BY LenProperties
<1>2. i \in 1..(end - offset)
  BY <1>1
<1>3. GetListings(offset, limit)
        = [k \in 1..(end - offset) |-> keys[total - (offset + k - 1)]]
  BY <1>1 DEF GetListings
<1>4. total - (offset + i - 1) = total - offset - i + 1
  BY <1>1
<1>5. QED
  BY <1>2, <1>3, <1>4

(* The length of a page: the limit, or what is left of _keys.              *)
LEMMA PageLength ==
  ASSUME keys \in Seq(GymKeys), NEW offset \in Nat, NEW limit \in Nat
  PROVE  /\ Len(GetListings(offset, limit)) <= limit
         /\ Len(GetListings(offset, limit)) > 0 =>
              offset + Len(GetListings(offset, limit)) <= Len(keys)
<1> DEFINE total == Len(keys)
           end == IF offset + limit > total THEN total ELSE offset + limit
           page == GetListings(offset, limit)
<1>1. total \in Nat
  BY LenProperties
<1>2. CASE offset >= total \/ limit = 0
  <2>1. page = <<>> /\ Len(page) = 0
    BY <1>2 DEF GetListings
  <2>2. QED
    BY <2>1
<1>3. CASE ~(offset >= total \/ limit = 0)
  <2>1. page = [k \in 1..(end - offset) |-> keys[total - (offset + k - 1)]]
    BY <1>3 DEF GetListings
  <2>2. end - offset \in Nat /\ end - offset <= limit /\ end <= total
    BY <1>1, <1>3
  <2>3. \A k \in 1..(end - offset) : total - (offset + k - 1) \in 1..total
    BY <1>1, <2>2
  <2>4. \A k \in 1..(end - offset) : keys[total - (offset + k - 1)] \in GymKeys
    BY <2>3, ElementOfSeq
  <2>5. page \in Seq(GymKeys) /\ Len(page) = end - offset
    <3> HIDE DEF end, total
    <3>1. QED
      BY <2>1, <2>2, <2>4, SeqDef
  <2>6. QED
    <3>1. Len(page) <= limit /\ offset + Len(page) <= total
      <4> HIDE DEF page
      <4>1. offset + (end - offset) = end
        BY <1>1
      <4>2. QED
        BY <2>2, <2>5, <4>1
    <3>2. QED
      BY <3>1
<1>4. QED
  BY <1>2, <1>3

(* The pages of any size, one after the other, are _keys from its end, for *)
(* a list of any length.                                                   *)
LEMMA PagesCover ==
  ASSUME keys \in Seq(GymKeys)
  PROVE  PagesCoverKeys
<1>0. \A limit \in 1..(Len(keys) + 1), offset \in 0..(2 * Len(keys)) :
        LET shown == Len(GetListings(offset, limit))
        IN  shown <= limit /\ (shown > 0 => offset + shown <= Len(keys))
  <2>1. Len(keys) \in Nat
    BY LenProperties
  <2>2. QED
    BY <2>1, PageLength
<1>1. SUFFICES ASSUME NEW limit \in 1..(Len(keys) + 1), NEW i \in 1..Len(keys)
               PROVE  LET page == GetListings(limit * ((i - 1) \div limit), limit)
                          place == ((i - 1) % limit) + 1
                      IN  place \in DOMAIN page /\ page[place] = keys[Len(keys) - i + 1]
  BY <1>0 DEF PagesCoverKeys
<1> DEFINE page == (i - 1) \div limit
           rest == (i - 1) % limit
           offset == limit * page
<1>2. /\ Len(keys) \in Nat /\ i - 1 \in Nat /\ limit \in Nat \ {0}
  BY LenProperties
<1>3. /\ page \in Nat /\ rest \in 0..(limit - 1) /\ offset + rest = i - 1
  BY <1>2, Division
<1>4. offset \in Nat /\ rest + 1 \in 1..limit /\ offset + (rest + 1) = i
  <2> HIDE DEF page, rest
  <2>1. offset \in Nat
    BY <1>2, <1>3
  <2>2. QED
    BY <1>2, <1>3, <2>1
<1>5. rest + 1 \in DOMAIN GetListings(offset, limit)
      /\ GetListings(offset, limit)[rest + 1] = keys[Len(keys) - offset - (rest + 1) + 1]
  <2> HIDE DEF offset, rest
  <2>1. QED
    BY <1>2, <1>4, PageEntry
<1>6. Len(keys) - offset - (rest + 1) + 1 = Len(keys) - i + 1
  <2> HIDE DEF offset, rest
  <2>1. QED
    BY <1>2, <1>3, <1>4
<1>7. QED
  BY <1>5, <1>6

(* getListings loses and repeats no key, whatever was listed before.       *)
THEOREM PagesAlwaysCover == MarketSpec => []PagesCoverKeys
<1>1. MarketInv => PagesCoverKeys
  BY PagesCover DEF MarketInv, MarketTypeOK
<1>2. QED
  BY <1>1, MarketInvariant, PTL

(* An active gym is in _keys, which nothing is ever removed from.          *)
ActiveListed ==
  \A k \in GymKeys : listings[k].active => \E i \in 1..Len(keys) : keys[i] = k

(* Only listing makes a gym active, and it appends the gym's key.          *)
LEMMA ActiveStaysListed ==
  ASSUME MarketInv, ActiveListed, MarketNext
  PROVE  ActiveListed'
<1>1. listings \in [GymKeys -> Listing] /\ keys \in Seq(GymKeys)
  BY DEF MarketInv, MarketTypeOK
<1>2. ASSUME NEW u \in Users, NEW k \in GymKeys, NEW price \in Prices,
             ListGym(u, k, price)
      PROVE  ActiveListed'
  <2>1. /\ Len(keys) \in Nat /\ Len(keys') = Len(keys) + 1
        /\ \A i \in 1..Len(keys) : keys'[i] = keys[i]
        /\ keys'[Len(keys) + 1] = k
    BY <1>1, <1>2, AppendProperties, LenProperties DEF ListGym
  <2>2. ASSUME NEW g \in GymKeys, listings'[g].active
        PROVE  \E i \in 1..Len(keys') : keys'[i] = g
    <3>1. CASE g = k
      BY <2>1, <3>1
    <3>2. CASE g # k
      <4>1. listings[g].active
        BY <1>1, <1>2, <2>2, <3>2 DEF ListGym
      <4>2. PICK i \in 1..Len(keys) : keys[i] = g
        BY <4>1 DEF ActiveListed
      <4>3. i \in 1..Len(keys') /\ keys'[i] = g
        BY <2>1, <4>2
      <4>4. QED
        BY <4>3
    <3>3. QED
      BY <3>1, <3>2
  <2>3. QED
    BY <2>2 DEF ActiveListed
<1>3. ASSUME NEW u \in Users, NEW k \in GymKeys, DelistGym(u, k)
      PROVE  ActiveListed'
  <2>1. \A g \in GymKeys : listings'[g].active => listings[g].active
    BY <1>1, <1>3 DEF DelistGym, Listing
  <2>2. UNCHANGED keys
    BY <1>3 DEF DelistGym
  <2>3. QED
    BY <2>1, <2>2 DEF ActiveListed
<1>4. ASSUME UNCHANGED <<listings, keys>>
      PROVE  ActiveListed'
  BY <1>4 DEF ActiveListed
<1>5. ASSUME NEW u \in Users,
             \/ \E k \in GymKeys, value \in Payments : PurchaseGym(u, k, value)
             \/ \E builder \in Users, amount \in Payments : CreditRoyalty(u, builder, amount)
             \/ ClaimRoyalties(u) \/ MarketOwnerStep
      PROVE  UNCHANGED <<listings, keys>>
  BY <1>5 DEF PurchaseGym, CreditRoyalty, ClaimRoyalties, MarketOwnerStep, SetMarketEscrow,
     SetMarketTreasury, SetPlatformFee, marketState
<1>6. MarketOwnerStep => UNCHANGED <<listings, keys>>
  BY DEF MarketOwnerStep, SetMarketEscrow, SetMarketTreasury, SetPlatformFee, marketState
<1>7. QED
  BY <1>2, <1>3, <1>4, <1>5, <1>6 DEF MarketNext, MarketUserStep

(* An active listing is on the page that shows all of _keys, however often *)
(* gyms are delisted and listed again.                                     *)
THEOREM ActiveAlwaysShown == MarketSpec => []ActiveListingsShown
<1>1. ASSUME ChainInit, \E treasury, escrow \in Appointees : MarketInit(treasury, escrow)
      PROVE  MarketInv /\ ActiveListed
  BY <1>1, MarketInitInv, MarketAssumption DEF MarketInit, NoListing, ActiveListed
<1>2. ASSUME MarketInv /\ ActiveListed, [MarketNext]_marketVars
      PROVE  (MarketInv /\ ActiveListed)'
  <2>1. CASE UNCHANGED marketVars
    BY <1>2, <2>1
    DEF marketVars, marketState, marketConfig, MarketInv, MarketTypeOK, RoyaltiesBacked,
        ActiveListed
  <2>2. QED
    BY <1>2, <2>1, MarketStepInv, ActiveStaysListed
<1>3. ASSUME MarketInv, ActiveListed
      PROVE  ActiveListingsShown
  <2>1. SUFFICES ASSUME NEW k \in GymKeys, listings[k].active
                 PROVE  \E i \in 1..Len(keys) : GetListings(0, Len(keys))[i] = k
    BY DEF ActiveListingsShown
  <2>2. PICK i \in 1..Len(keys) : keys[i] = k
    BY <1>3, <2>1 DEF ActiveListed
  <2>3. keys \in Seq(GymKeys) /\ Len(keys) \in Nat
    BY <1>3, LenProperties DEF MarketInv, MarketTypeOK
  <2> DEFINE shown == Len(keys) - i + 1
  <2>4. shown \in 1..Len(keys) /\ Len(keys) - 0 - shown + 1 = i /\ 0 + shown <= Len(keys)
    BY <2>3
  <2>5. GetListings(0, Len(keys))[shown] = keys[Len(keys) - 0 - shown + 1]
    <3> HIDE DEF shown
    <3>1. QED
      BY <2>3, <2>4, PageEntry
  <2>6. QED
    BY <2>2, <2>4, <2>5
<1>4. QED
  BY <1>1, <1>2, <1>3, PTL DEF MarketSpec, MarketDeployed

-----------------------------------------------------------------------------
(* Payments.                                                               *)

(* A transfer takes from its sender only.                                  *)
LEMMA OnlySenderPays ==
  ASSUME NEW b \in [Accounts -> Nat], NEW from \in Accounts, NEW to \in Accounts,
         NEW v \in Nat, v <= b[from], NEW a \in Accounts, a # from
  PROVE  Transfer(b, from, to, v)[a] >= b[a]
<1>1. CASE a = to
  BY <1>1, TransferMoves
<1>2. CASE a # to
  BY <1>2, TransferMoves
<1>3. QED
  BY <1>1, <1>2

(* A purchase takes from the buyer only, and grants it access.             *)
LEMMA PurchaseGrants ==
  ASSUME MarketInv, NEW u \in Users, NEW k \in GymKeys, NEW value \in Payments,
         PurchaseGym(u, k, value)
  PROVE  /\ \A a \in Accounts \ {u} : balance'[a] >= balance[a]
         /\ ~access[u][k] /\ access'[u][k] /\ CheckAccess(u, k)'
<1> DEFINE listing == listings[k]
           fee == PlatformFee(value)
           once == Transfer(balance, u, listing.seller, value - fee)
<1>1. /\ value \in Nat /\ fee \in 0..value
      /\ balance \in [Accounts -> Nat] /\ value <= balance[u]
      /\ u \in Accounts /\ listing.seller \in Accounts
      /\ marketTreasury \in Accounts /\ u # listing.seller
      /\ Market \in Accounts
  BY MarketAssumption, FeeWithinPayment, Addresses
  DEF PurchaseGym, MarketInv, MarketTypeOK, Listing
<1>2. ASSUME NEW a \in Accounts \ {u}
      PROVE  balance'[a] >= balance[a]
  <2>1. CASE balance' = Transfer(balance, u, Market, value)
    <3> HIDE DEF fee, listing
    <3>1. QED
      BY <1>1, <1>2, <2>1, OnlySenderPays
  <2>2. CASE balance' = Transfer(once, u, marketTreasury, fee)
    <3>1. value - fee \in Nat /\ value - fee <= balance[u]
      <4> HIDE DEF fee, listing
      <4>1. QED
        BY <1>1
    <3>2. /\ once \in [Accounts -> Nat] /\ once[u] = balance[u] - (value - fee)
          /\ once[a] >= balance[a]
      <4> HIDE DEF fee, listing
      <4>1. QED
        BY <1>1, <1>2, <3>1, TransferMoves, OnlySenderPays
    <3>3. fee \in Nat /\ fee <= once[u]
      <4> HIDE DEF fee, listing, once
      <4>1. QED
        BY <1>1, <3>2
    <3>4. Transfer(once, u, marketTreasury, fee)[a] >= once[a]
      <4> HIDE DEF fee, listing, once
      <4>1. QED
        BY <1>1, <1>2, <3>2, <3>3, OnlySenderPays
    <3>5. /\ once[a] \in Nat /\ balance[a] \in Nat
          /\ Transfer(once, u, marketTreasury, fee) \in [Accounts -> Nat]
      <4> HIDE DEF fee, listing, once
      <4>1. QED
        BY <1>1, <1>2, <3>2, <3>3, TransferMoves
    <3>6. QED
      <4> HIDE DEF fee, listing, once
      <4>1. QED
        BY <2>2, <3>2, <3>4, <3>5
  <2>3. QED
    BY <2>1, <2>2 DEF PurchaseGym, PurchasePayment
<1>3. ~access[u][k] /\ access'[u][k]
  <2>1. access \in [Accounts -> [GymKeys -> BOOLEAN]]
    BY DEF MarketInv, MarketTypeOK
  <2>2. access' = [access EXCEPT ![u] = [access[u] EXCEPT ![k] = TRUE]]
    BY DEF PurchaseGym
  <2>3. ~access[u][k]
    BY DEF PurchaseGym
  <2>4. QED
    BY <1>1, <2>1, <2>2, <2>3
<1>4. QED
  BY <1>2, <1>3 DEF CheckAccess

(* Whatever others list, delist, buy, claim or set, a user's wei leave its *)
(* account only for a gym it had not bought before, or as the royalty it   *)
(* pays in as the marketplace's escrow.                                    *)
THEOREM PaymentsBuyAccess == MarketSpec => EveryPaymentBuysAccess
<1>1. ASSUME MarketInv, MarketNext, NEW u \in Users, balance'[u] < balance[u]
      PROVE  \/ u = marketEscrow
             \/ \E k \in GymKeys : ~access[u][k] /\ access'[u][k] /\ CheckAccess(u, k)'
  <2>1. balance \in [Accounts -> Nat] /\ u \in Accounts /\ u # Market /\ Market \in Accounts
    BY <1>1, Addresses DEF MarketInv, MarketTypeOK
  <2>2. balance' \in [Accounts -> Nat]
    BY <1>1, MarketStepInv DEF MarketInv, MarketTypeOK
  <2>3. balance'[u] \in Nat /\ balance[u] \in Nat /\ ~(balance'[u] >= balance[u])
    BY <1>1, <2>1, <2>2
  <2>4. ASSUME NEW v \in Users, NEW k \in GymKeys, NEW value \in Payments,
               PurchaseGym(v, k, value)
        PROVE  ~access[u][k] /\ access'[u][k] /\ CheckAccess(u, k)'
    <3>1. u = v
      BY <1>1, <2>1, <2>3, <2>4, PurchaseGrants
    <3>2. QED
      BY <1>1, <2>4, <3>1, PurchaseGrants
  <2>5. ASSUME NEW v \in Users, NEW builder \in Users, NEW amount \in Payments,
               CreditRoyalty(v, builder, amount)
        PROVE  u = marketEscrow
    <3>1. /\ v \in Accounts /\ amount \in Nat /\ amount <= balance[v]
          /\ balance' = Transfer(balance, v, Market, amount) /\ v = marketEscrow
      BY <2>1, <2>5, Addresses, MarketAssumption DEF CreditRoyalty
    <3>2. QED
      BY <2>1, <2>3, <3>1, OnlySenderPays
  <2>6. ~\E v \in Users : ClaimRoyalties(v)
    <3>1. SUFFICES ASSUME NEW v \in Users, ClaimRoyalties(v) PROVE FALSE
      OBVIOUS
    <3>2. /\ v \in Accounts /\ royalties[v] \in Nat /\ royalties[v] <= balance[Market]
          /\ balance' = Transfer(balance, Market, v, royalties[v])
      BY <1>1, <2>1, <3>1, Addresses DEF ClaimRoyalties, MarketInv, MarketTypeOK
    <3>3. QED
      BY <2>1, <2>3, <3>2, OnlySenderPays
  <2>7. /\ ~\E v \in Users, k \in GymKeys :
             DelistGym(v, k) \/ \E price \in Prices : ListGym(v, k, price)
        /\ ~MarketOwnerStep
    BY <2>3 DEF DelistGym, ListGym, MarketOwnerStep, SetMarketEscrow, SetMarketTreasury,
       SetPlatformFee
  <2>8. QED
    BY <1>1, <2>4, <2>5, <2>6, <2>7 DEF MarketNext, MarketUserStep
<1>2. MarketInv /\ [MarketNext]_marketVars =>
        [\A u \in Users :
           balance'[u] < balance[u] =>
             \/ u = marketEscrow
             \/ \E k \in GymKeys : ~access[u][k] /\ access'[u][k]
                                 /\ CheckAccess(u, k)']_marketVars
  BY <1>1
<1>3. QED
  BY <1>2, MarketInvariant, PTL DEF MarketSpec, EveryPaymentBuysAccess
=============================================================================
