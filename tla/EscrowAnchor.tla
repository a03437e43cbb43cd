---------------------------- MODULE EscrowAnchor ----------------------------
(***************************************************************************)
(* tokens/escrow/anchor: the maker and the taker pay all rents, and the    *)
(* maker gets back those of the offer and the vault.  All token accounts   *)
(* passed are the associated ones.                                         *)
(***************************************************************************)
EXTENDS EscrowAccounts

\* make_offer.  Anchor's init tops up an offer address that holds lamports but
\* refuses a vault that exists.
AnchorMakeOffer(maker, id, o, v) ==
  LET k == [maker |-> maker, id |-> id, bump |-> CANONICAL]
      s == Created(Ledger, v)
      rent == TopUp(lamports[k], OfferRent)
  IN
  /\ program = "Anchor"
  /\ ~offer[k].open
  /\ IsVault(k, o.mint_a, v)
  /\ ~Exists(Ledger, v)
  /\ lamports[maker] >= rent + s.due
  /\ Deposits(s, k, o, Ata(maker, o.mint_a), v)
  /\ lamports' = Credit(Credit(lamports, maker, -(rent + s.due)), k, rent)
  /\ made' = [made EXCEPT ![k] = [offered |-> o.offered, funder |-> maker]]
  /\ UNCHANGED program

\* take_offer.  The taker's account of the wanted token must exist (Anchor reads
\* it before it creates any), the two that receive are created if needed.
AnchorCanTake(taker, k, v) ==
  LET taker_a == Ata(taker, offer[k].mint_a)
      taker_b == Ata(taker, offer[k].mint_b)
      maker_b == Ata(k.maker, offer[k].mint_b)
      s == Ensured(Ensured(Ledger, taker_a), maker_b)
  IN
  /\ offer[k].open
  /\ IsVault(k, offer[k].mint_a, v)
  /\ Exists(Ledger, taker_b)
  /\ lamports[taker] >= s.due
  /\ CanSwap(s, k, taker_b, maker_b, taker_a, v)
AnchorTakeOffer(taker, k, v) ==
  LET taker_a == Ata(taker, offer[k].mint_a)
      maker_b == Ata(k.maker, offer[k].mint_b)
      s == Ensured(Ensured(Ledger, taker_a), maker_b)
  IN
  /\ program = "Anchor"
  /\ AnchorCanTake(taker, k, v)
  /\ Swaps(s, k, Ata(taker, offer[k].mint_b), maker_b, taker_a, v)
  /\ LET charged == Credit(lamports, taker, -s.due)
         repaid == Credit(charged, k.maker, tokenLamports[v] + OfferLamports(k))
     IN  lamports' = Credit(repaid, k, -lamports[k])
  /\ UNCHANGED <<program, made>>

\* refund_offer.  The maker's account of the offered token must exist.
AnchorRefundOffer(w, k, v) ==
  /\ program = "Anchor"
  /\ CanRefund(w, k, v)
  /\ Returns(k, Ata(w, offer[k].mint_a), v)
  /\ lamports' = Credit(Credit(lamports, w, tokenLamports[v] + OfferLamports(k)),
                        k, -lamports[k])
  /\ UNCHANGED <<program, made>>

AnchorNext ==
  \/ \E maker \in Makers, id \in Ids, o \in Terms[program], v \in TokenAccounts :
       AnchorMakeOffer(maker, id, o, v)
  \/ \E taker \in Wallets, k \in OfferKeys, v \in TokenAccounts :
       AnchorTakeOffer(taker, k, v)
  \/ \E w \in Wallets, k \in OfferKeys, v \in TokenAccounts :
       AnchorRefundOffer(w, k, v)
=============================================================================
