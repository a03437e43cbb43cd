-------------------------- MODULE EscrowPinocchio ---------------------------
(***************************************************************************)
(* tokens/escrow/pinocchio: as the native program, but the caller of       *)
(* make_offer chooses the bump of the offer address, a vault that exists   *)
(* is taken over, and balances are not compared.                           *)
(***************************************************************************)
EXTENDS EscrowAccounts

\* make_offer: any bump that gives an address will do.  A vault that exists
\* keeps what it holds.
PinocchioMakeOffer(maker, payer, id, bump, o, from, v) ==
  LET k == [maker |-> maker, id |-> id, bump |-> bump]
      s == Ensured(Ledger, v)
      cost == OfferRent + s.due
  IN
  /\ program = "Pinocchio"
  /\ ~offer[k].open /\ lamports[k] = 0
  /\ IsVault(k, o.mint_a, v)
  /\ lamports[payer] >= cost
  /\ Deposits(s, k, o, from, v)
  /\ lamports' = Credit(Credit(lamports, payer, -cost), k, OfferRent)
  /\ made' = [made EXCEPT ![k] = [offered |-> o.offered, funder |-> payer]]
  /\ UNCHANGED program

\* take_offer.  The taker pays from any token account of its own; the rent of
\* the vault goes to it, that of the offer to this instruction's payer.
PinocchioCanTake(taker, payer, k, from, v) ==
  LET taker_a == Ata(taker, offer[k].mint_a)
      maker_b == Ata(k.maker, offer[k].mint_b)
      s == Ensured(Ensured(Ledger, taker_a), maker_b)
  IN
  /\ offer[k].open
  /\ IsVault(k, offer[k].mint_a, v)
  /\ lamports[payer] >= s.due
  /\ CanSwap(s, k, from, maker_b, taker_a, v)
PinocchioTakeOffer(taker, payer, k, from, v) ==
  LET taker_a == Ata(taker, offer[k].mint_a)
      maker_b == Ata(k.maker, offer[k].mint_b)
      s == Ensured(Ensured(Ledger, taker_a), maker_b)
  IN
  /\ program = "Pinocchio"
  /\ PinocchioCanTake(taker, payer, k, from, v)
  /\ Swaps(s, k, from, maker_b, taker_a, v)
  /\ LET settled == Credit(lamports, payer, OfferLamports(k) - s.due)
         repaid == Credit(settled, taker, tokenLamports[v])
     IN  lamports' = Credit(repaid, k, -lamports[k])
  /\ UNCHANGED <<program, made>>

\* refund_offer.
PinocchioRefundOffer(w, k, v) ==
  /\ program = "Pinocchio"
  /\ CanRefund(w, k, v)
  /\ Returns(k, Ata(w, offer[k].mint_a), v)
  /\ lamports' = Credit(Credit(lamports, w, tokenLamports[v] + OfferLamports(k)),
                        k, -lamports[k])
  /\ UNCHANGED <<program, made>>

PinocchioNext ==
  \/ \E maker \in Makers, payer \in Wallets, id \in Ids, bump \in Bumps :
       \E o \in Terms[program], from \in AccountsOf(maker), v \in TokenAccounts :
         PinocchioMakeOffer(maker, payer, id, bump, o, from, v)
  \/ \E taker, payer \in Wallets, k \in OfferKeys :
       \E from \in AccountsOf(taker), v \in TokenAccounts :
         PinocchioTakeOffer(taker, payer, k, from, v)
  \/ \E w \in Wallets, k \in OfferKeys, v \in TokenAccounts :
       PinocchioRefundOffer(w, k, v)
=============================================================================
