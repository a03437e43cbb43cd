---------------------------- MODULE EscrowNative ----------------------------
(***************************************************************************)
(* tokens/escrow/native: a payer of its own funds each instruction, and    *)
(* the program compares the balances after a swap with those before it.    *)
(***************************************************************************)
EXTENDS EscrowAccounts

\* make_offer: create_account refuses an address that holds lamports, and the
\* associated-token program one that holds a token account.  The maker deposits
\* from any token account of its own.
NativeMakeOffer(maker, payer, id, o, from, v) ==
  LET k == [maker |-> maker, id |-> id, bump |-> CANONICAL]
      s == Created(Ledger, v)
      cost == OfferRent + s.due
  IN
  /\ program = "Native"
  /\ IsVault(k, o.mint_a, v)
  /\ ~offer[k].open /\ lamports[k] = 0
  /\ ~Exists(Ledger, v)
  /\ lamports[payer] >= cost
  /\ Deposits(s, k, o, from, v)
  /\ amount'[v] = o.offered
  /\ lamports' = Credit(Credit(lamports, payer, -cost), k, OfferRent)
  /\ made' = [made EXCEPT ![k] = [offered |-> o.offered, funder |-> payer]]
  /\ UNCHANGED program

\* A recipient is created if its address holds no lamports, and must be a token
\* account after that.
CreatedIfEmpty(s, x) == IF s.lam[x] = 0 THEN Created(s, x) ELSE s

\* take_offer.  The taker pays from any token account of its own; the rent of
\* the vault goes to it, that of the offer to this instruction's payer.
NativeCanTake(taker, payer, k, from, v) ==
  LET taker_a == Ata(taker, offer[k].mint_a)
      maker_b == Ata(k.maker, offer[k].mint_b)
      s == CreatedIfEmpty(CreatedIfEmpty(Ledger, taker_a), maker_b)
      after == Released(s, k, from, maker_b, taker_a, v)
  IN
  /\ offer[k].open
  /\ IsVault(k, offer[k].mint_a, v)
  /\ lamports[payer] >= s.due
  /\ \A x \in {taker_a, maker_b, from} : Exists(s, x)
  /\ CanSwap(s, k, from, maker_b, taker_a, v)
  /\ after.amount[taker_a] = s.amount[taker_a] + VaultAmount(k, v)
  /\ after.amount[maker_b] = s.amount[maker_b] + Price(k)
NativeTakeOffer(taker, payer, k, from, v) ==
  LET taker_a == Ata(taker, offer[k].mint_a)
      maker_b == Ata(k.maker, offer[k].mint_b)
      s == CreatedIfEmpty(CreatedIfEmpty(Ledger, taker_a), maker_b)
  IN
  /\ program = "Native"
  /\ NativeCanTake(taker, payer, k, from, v)
  /\ Swaps(s, k, from, maker_b, taker_a, v)
  /\ LET settled == Credit(lamports, payer, OfferLamports(k) - s.due)
         repaid == Credit(settled, taker, tokenLamports[v])
     IN  lamports' = Credit(repaid, k, -lamports[k])
  /\ UNCHANGED <<program, made>>

\* refund_offer.
NativeRefundOffer(w, k, v) ==
  /\ program = "Native"
  /\ CanRefund(w, k, v)
  /\ Returns(k, Ata(w, offer[k].mint_a), v)
  /\ lamports' = Credit(Credit(lamports, w, tokenLamports[v] + OfferLamports(k)),
                        k, -lamports[k])
  /\ UNCHANGED <<program, made>>

NativeNext ==
  \/ \E maker \in Makers, payer \in Wallets, id \in Ids, o \in Terms[program] :
       \E from \in AccountsOf(maker), v \in TokenAccounts :
         NativeMakeOffer(maker, payer, id, o, from, v)
  \/ \E taker, payer \in Wallets, k \in OfferKeys :
       \E from \in AccountsOf(taker), v \in TokenAccounts :
         NativeTakeOffer(taker, payer, k, from, v)
  \/ \E w \in Wallets, k \in OfferKeys, v \in TokenAccounts :
       NativeRefundOffer(w, k, v)
=============================================================================
