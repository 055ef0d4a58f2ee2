----------------------- MODULE MCZKSettlementVerifier -----------------------
(* A field of order 7 and nonces below 4.  Job 2 is the nonce of a request *)
(* of alice's that bob provides; job 9 is the same number modulo the       *)
(* field; job 5 is alice's address.  The owner may misset the signal       *)
(* index, install the key, change the escrow and the oracle.               *)
EXTENDS ZKSettlementVerifier

CONSTANTS alice, bob

MCEndowment == [u \in Users |-> IF u = alice THEN 8 ELSE 0]
MCAddress == [u \in Users |-> IF u = alice THEN 5 ELSE 6]
MCRequests ==
  {[user |-> alice, provider |-> bob, nonce |-> 2],
   [user |-> bob, provider |-> alice, nonce |-> 3]}
MCOther == [r \in Requests |-> [i \in OtherSlots |-> 4]]
=============================================================================
