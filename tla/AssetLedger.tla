---------------------------- MODULE AssetLedger ----------------------------
(***************************************************************************)
(* What compressed NFTs are to their owners: a ledger that says who holds  *)
(* each asset.  Assets are issued once, given away by their holders, and   *)
(* burnt for good; the vault gives to anybody and never burns.             *)
(***************************************************************************)
EXTENDS Naturals, FiniteSets

CONSTANTS Assets, Parties, Vault

VARIABLE holder     \* who holds each asset, or Unissued, or Burnt

Unissued == "unissued"
Burnt == "burnt"

LedgerInit == holder = [a \in Assets |-> Unissued]

Issue(a, p) ==
  /\ holder[a] = Unissued
  /\ holder' = [holder EXCEPT ![a] = p]

\* One party gives assets of its own, the vault up to two at once.
GiveAway(from, given) ==
  /\ given # {}
  /\ Cardinality(given) <= IF from = Vault THEN 2 ELSE 1
  /\ \A a \in given : holder[a] = from
  /\ \E to \in [given -> Parties] :
       holder' = [a \in Assets |-> IF a \in given THEN to[a] ELSE holder[a]]

Burn(a) ==
  /\ holder[a] \in Parties \ {Vault}
  /\ holder' = [holder EXCEPT ![a] = Burnt]

LedgerNext ==
  \/ \E a \in Assets, p \in Parties : Issue(a, p)
  \/ \E from \in Parties, given \in SUBSET Assets : GiveAway(from, given)
  \/ \E a \in Assets : Burn(a)

LedgerSpec == LedgerInit /\ [][LedgerNext]_holder
=============================================================================
