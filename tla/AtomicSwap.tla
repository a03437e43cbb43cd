----------------------------- MODULE AtomicSwap -----------------------------
(***************************************************************************)
(* What an escrow promises the two parties of an offer, without accounts,  *)
(* addresses or rents: the offered tokens leave the maker when the offer   *)
(* is opened and go, all at once, either to a taker against the wanted     *)
(* tokens or back to the maker.                                            *)
(***************************************************************************)
EXTENDS Integers

CONSTANTS
  Parties,
  Offers,           \* the offers that can be opened, each by its maker
  Tokens

VARIABLES
  terms,            \* of each offer: none, or what it wants for what
  purse,            \* the tokens of each party
  pot               \* the tokens held for each offer

vars == <<terms, purse, pot>>

\* No offer is open, whatever was given to one before.
Init ==
  /\ terms = [k \in Offers |-> {}]
  /\ \A k \in Offers, m \in Tokens : pot[k][m] >= 0

Plus(f, x, m, n) == [f EXCEPT ![x][m] = @ + n]

\* The maker opens an offer and parts with what it offers.
Open(k) ==
  \E d \in terms'[k] :
    LET n == purse[k.maker][d.mint_a] - purse'[k.maker][d.mint_a]
    IN  /\ terms[k] = {}
        /\ terms' = [terms EXCEPT ![k] = {d}]
        /\ n >= 0
        /\ purse' = Plus(purse, k.maker, d.mint_a, -n)
        /\ pot' = Plus(pot, k, d.mint_a, n)

\* A closed offer leaves nothing behind of the token it offered.
Close(k, d) ==
  /\ terms' = [terms EXCEPT ![k] = {}]
  /\ pot' = [pot EXCEPT ![k][d.mint_a] = 0]

\* A taker pays the maker what is wanted and gets all that is held.
Take(k, taker) ==
  \E d \in terms[k] :
    /\ purse[taker][d.mint_b] >= d.wanted
    /\ LET paid == Plus(Plus(purse, taker, d.mint_b, -d.wanted),
                        k.maker, d.mint_b, d.wanted)
       IN  purse' = Plus(paid, taker, d.mint_a, pot[k][d.mint_a])
    /\ Close(k, d)

\* The maker gets all that is held.
Refund(k) ==
  \E d \in terms[k] :
    /\ purse' = Plus(purse, k.maker, d.mint_a, pot[k][d.mint_a])
    /\ Close(k, d)

\* A party gives tokens away, to what is held for an offer or to nobody.
Give(w, m) ==
  LET n == purse[w][m] - purse'[w][m]
  IN  /\ n > 0
      /\ purse' = Plus(purse, w, m, -n)
      /\ pot' = pot \/ \E k \in Offers : pot' = Plus(pot, k, m, n)
      /\ UNCHANGED terms

Next ==
  \/ \E k \in Offers : Open(k) \/ Refund(k)
  \/ \E k \in Offers, w \in Parties : Take(k, w)
  \/ \E w \in Parties, m \in Tokens : Give(w, m)

Spec == Init /\ [][Next]_vars
=============================================================================
