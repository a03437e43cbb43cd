------------------------------- MODULE Escrow -------------------------------
(***************************************************************************)
(* tokens/escrow: three implementations of one program, each on its own    *)
(* ledger of accounts and against the same surroundings.  A behaviour is   *)
(* that of one of them; what is stated here is stated of all.              *)
(***************************************************************************)
EXTENDS EscrowAnchor, EscrowNative, EscrowPinocchio

Init == InitAccounts

Next == AnchorNext \/ NativeNext \/ PinocchioNext \/ Others

Spec == Init /\ [][Next]_vars

-----------------------------------------------------------------------------

\* Nobody can lock the maker's tokens in: while its offer is open and it has an
\* account to receive them, every check of refund_offer passes for the maker,
\* whatever was sent to the vault and the offer.
MakerCanRefund ==
  \A k \in OfferKeys :
    offer[k].open /\ Exists(Ledger, Ata(k.maker, offer[k].mint_a))
      => CanRefund(k.maker, k, Vault(k))

\* An open offer of the Anchor or the Pinocchio program is open to everyone:
\* who has the wanted tokens, and lamports for the accounts that may have to be
\* created, passes every check of take_offer, whatever others did to the
\* accounts in between.
OpenToTakers ==
  \A k \in OfferKeys, w \in Wallets \ Makers : CanAfford(w, k) =>
    /\ program = "Anchor" => AnchorCanTake(w, k, Vault(k))
    /\ program = "Pinocchio" =>
         PinocchioCanTake(w, w, k, Ata(w, offer[k].mint_b), Vault(k))

\* The same of the native program, whose take_offer says it creates the accounts
\* that receive "if needed, before receiveing tokens"; but an address that was
\* sent lamports is taken for a token account.
CreatedIfNeeded ==
  \A k \in OfferKeys, w \in Wallets \ Makers :
    CanAfford(w, k) /\ program = "Native"
      => NativeCanTake(w, w, k, Ata(w, offer[k].mint_b), Vault(k))
=============================================================================
