------------------------------ MODULE MCEscrow ------------------------------
(* A small instance of Escrow for TLC: a maker that makes and remakes offers,  *)
(* a taker, and tokens and lamports sent in from outside.                      *)
EXTENDS Escrow

CONSTANTS mak, tak, tokA, tokB

\* Two tokens are swapped, or one for itself.
PlainTerms == {[mint_a |-> tokA, mint_b |-> tokB, offered |-> 2, wanted |-> 1]}
AllTerms ==
  PlainTerms \cup {[mint_a |-> tokA, mint_b |-> tokA, offered |-> 2, wanted |-> 1]}
TermsTried ==
  [p \in Programs |-> IF p = "Pinocchio" THEN PlainTerms ELSE AllTerms]

\* The maker holds the token it offers, once or twice over, and has no account
\* for what it wants; the taker holds both tokens, with the native program the
\* wanted one in two accounts.
Start ==
  [p \in Programs |->
    [x \in TokenAccounts |->
      CASE x = Ata(mak, tokA) -> IF p = "Pinocchio" THEN 4 ELSE 3
        [] x = Ata(tak, tokA) -> 1
        [] x = Ata(tak, tokB) -> IF p = "Anchor" THEN 2 ELSE 1
        [] x = [Ata(tak, tokB) EXCEPT !.kind = "other"] /\ p = "Native" -> 1
        [] OTHER -> NoAccount]]

Purses ==
  [p \in Programs |->
    [w \in Wallets |-> CASE p = "Anchor" -> 7
                         [] p # "Anchor" -> IF w = mak THEN 5 ELSE 4]]

\* The vault of one offer, and an address of the other that is not its vault.
OfOffers == {x \in TokenAccounts :
  /\ x.owner \in OfferKeys /\ x.mint = tokA
  /\ (x.kind = "ata") = (x.owner.bump = CANONICAL)}
\* The offer, its vault, and the maker's account for what it wants.
Funded == {Ata(mak, tokB)} \cup {k \in OfferKeys : k.bump = CANONICAL}
            \cup {x \in OfOffers : x.kind = "ata"}
=============================================================================
