---------------------------- MODULE EscrowProofs ----------------------------
(***************************************************************************)
(* What holds of the three escrow programs for every number of wallets,    *)
(* offers and tokens, every terms, balances and rents: the accounts add    *)
(* up, and each program implements AtomicSwap.                             *)
(***************************************************************************)
EXTENDS Escrow, SumLemmas

(***************************************************************************)
(* Addresses.                                                              *)
(***************************************************************************)

LEMMA Constants ==
  /\ OfferRent \in Nat /\ TokenRent \in Nat \ {0} /\ RentFloor \in Nat \ {0}
  /\ MaxLamports \in Nat /\ MaxTokens \in Nat
  /\ RentFloor <= TokenRent /\ RentFloor <= OfferRent
  /\ Makers \subseteq Wallets /\ Givers \subseteq Wallets
  /\ Fresh \subseteq TokenAccounts
  /\ \A w \in Wallets : w \in Holders /\ w \notin OfferKeys
  /\ \A k \in OfferKeys : k \in Holders /\ k.maker \in Wallets
BY EscrowAssumption DEF Holders, OfferKeys

LEMMA TermsTyped ==
  ASSUME NEW p \in Programs, NEW o \in Terms[p]
  PROVE  /\ o.mint_a \in Mints /\ o.mint_b \in Mints
         /\ o.offered \in Nat /\ o.wanted \in Nat
BY EscrowAssumption

\* The finitely many addresses.
LEMMA AddressesFinite ==
  IsFiniteSet(OfferKeys) /\ IsFiniteSet(Holders) /\ IsFiniteSet(TokenAccounts)
<1>1. IsFiniteSet(OfferKeys)
  <2> DEFINE P == (Makers \X Ids) \X Bumps
             f == [t \in P |-> [maker |-> t[1][1], id |-> t[1][2], bump |-> t[2]]]
  <2>1. IsFiniteSet(Makers) /\ IsFiniteSet(Ids) /\ IsFiniteSet(Bumps)
    <3>1. 0 \in Int /\ 255 \in Int
      OBVIOUS
    <3>2. IsFiniteSet(0 .. 255)
      BY <3>1, FS_Interval
    <3> QED BY <3>2, EscrowAssumption, FS_Subset
  <2>2. IsFiniteSet(P)
    BY <2>1, FS_Product
  <2>3. f \in Surjection(P, OfferKeys)
    <3>1. f \in [P -> OfferKeys]
      BY DEF OfferKeys
    <3>2. ASSUME NEW k \in OfferKeys PROVE \E t \in P : f[t] = k
      <4>1. <<<<k.maker, k.id>>, k.bump>> \in P
        BY DEF OfferKeys
      <4>2. f[<<<<k.maker, k.id>>, k.bump>>] = k
        BY <4>1 DEF OfferKeys
      <4> QED BY <4>1, <4>2
    <3> QED BY <3>1, <3>2 DEF Surjection
  <2> QED BY <2>2, <2>3, FS_Surjection
<1>2. IsFiniteSet(Holders)
  BY <1>1, EscrowAssumption, FS_Union DEF Holders
<1>3. IsFiniteSet(TokenAccounts)
  <2> DEFINE K == {"ata", "other"}
             P == (Holders \X Mints) \X K
             f == [t \in P |-> [owner |-> t[1][1], mint |-> t[1][2], kind |-> t[2]]]
  <2>1. IsFiniteSet(Mints) /\ IsFiniteSet(K)
    <3>1. IsFiniteSet({"ata"}) /\ IsFiniteSet({"other"})
      BY FS_Singleton
    <3>2. K = {"ata"} \cup {"other"}
      OBVIOUS
    <3>3. IsFiniteSet({"ata"} \cup {"other"})
      BY <3>1, FS_Union
    <3> QED BY <3>2, <3>3, EscrowAssumption
  <2>2. IsFiniteSet(P)
    BY <1>2, <2>1, FS_Product
  <2>3. f \in Surjection(P, TokenAccounts)
    <3>1. f \in [P -> TokenAccounts]
      BY DEF TokenAccounts
    <3>2. ASSUME NEW x \in TokenAccounts PROVE \E t \in P : f[t] = x
      <4>1. <<<<x.owner, x.mint>>, x.kind>> \in P
        BY DEF TokenAccounts
      <4>2. f[<<<<x.owner, x.mint>>, x.kind>>] = x
        BY <4>1 DEF TokenAccounts
      <4> QED BY <4>1, <4>2
    <3> QED BY <3>1, <3>2 DEF Surjection
  <2> QED BY <2>2, <2>3, FS_Surjection
<1> QED BY <1>1, <1>2, <1>3

\* A token account is the associated one of its owner and mint, or the other.
Other(owner, mint) == [Ata(owner, mint) EXCEPT !.kind = "other"]

LEMMA Addresses ==
  /\ \A h \in Holders, m \in Mints :
       /\ Ata(h, m) \in TokenAccounts /\ Other(h, m) \in TokenAccounts
       /\ Ata(h, m) # Other(h, m)
       /\ Ata(h, m).owner = h /\ Other(h, m).owner = h
       /\ Ata(h, m).mint = m /\ Other(h, m).mint = m
  /\ \A x \in TokenAccounts :
       /\ x.owner \in Holders /\ x.mint \in Mints
       /\ x = Ata(x.owner, x.mint) \/ x = Other(x.owner, x.mint)
       /\ x.kind = "ata" <=> x = Ata(x.owner, x.mint)
BY DEF Ata, Other, TokenAccounts

(***************************************************************************)
(* The ledger of an instruction.                                           *)
(***************************************************************************)

Amounts == [TokenAccounts -> Nat \cup {NoAccount}]
LedgerType == [amount: Amounts, lam: [TokenAccounts -> Nat], due: Nat]

\* Every value has its type and every account its rent.
Good(s) ==
  /\ s \in LedgerType
  /\ \A x \in TokenAccounts : Exists(s, x) => s.lam[x] >= TokenRent

LEMMA GoodTypes ==
  ASSUME NEW s, Good(s)
  PROVE  s.amount \in Amounts /\ s.lam \in [TokenAccounts -> Nat] /\ s.due \in Nat
BY DEF Good, LedgerType

LEMMA LedgerIsGood ==
  ASSUME TypeOK
  PROVE  Good(Ledger) /\ Ledger.amount = amount /\ Ledger.lam = tokenLamports
         /\ Ledger.due = 0
BY DEF TypeOK, Good, LedgerType, Ledger, Amounts

\* What is held, by parties and for offers, with the amounts a.
HeldIn(a, x) == IF a[x] # NoAccount THEN a[x] ELSE 0
PurseIn(a) == [w \in Wallets |-> [m \in Mints |->
                 HeldIn(a, Ata(w, m)) + HeldIn(a, Other(w, m))]]
PotIn(a) == [k \in OfferKeys |-> [m \in Mints |-> HeldIn(a, Ata(k, m))]]

\* The ledger t is s with some accounts of X created, paid for by what is due.
Grown(s, t, X) ==
  /\ Good(t)
  /\ SumFunction(t.lam) = SumFunction(s.lam) + (t.due - s.due)
  /\ t.due >= s.due
  /\ \A x \in TokenAccounts : HeldIn(t.amount, x) = HeldIn(s.amount, x)
  /\ \A x \in TokenAccounts : Exists(s, x) => Exists(t, x)
  /\ \A x \in TokenAccounts \ X : /\ t.amount[x] = s.amount[x]
                                  /\ t.lam[x] = s.lam[x]

LEMMA SumOfLamports ==
  ASSUME NEW f \in [TokenAccounts -> Nat]
  PROVE  SumFunction(f) \in Int
BY AddressesFinite, SumOfFunction

LEMMA CreatedGrows ==
  ASSUME NEW s, Good(s), NEW x \in TokenAccounts, ~Exists(s, x)
  PROVE  Grown(s, Created(s, x), {x}) /\ Exists(Created(s, x), x)
<1> DEFINE t == Created(s, x)
           top == TopUp(s.lam[x], TokenRent)
<1>1. s.amount \in Amounts /\ s.lam \in [TokenAccounts -> Nat] /\ s.due \in Nat
  BY GoodTypes
<1>2. /\ t.amount = [s.amount EXCEPT ![x] = 0]
      /\ t.lam = [s.lam EXCEPT ![x] = @ + top]
      /\ t.due = s.due + top
      /\ t = [amount |-> t.amount, lam |-> t.lam, due |-> t.due]
  BY DEF Created
<1>3. top \in Nat /\ s.lam[x] + top >= TokenRent
  BY <1>1, Constants DEF TopUp
<1>4. s.amount[x] = NoAccount
  BY DEF Exists
<1> HIDE DEF t, top
<1>5. t.amount \in Amounts /\ t.lam \in [TokenAccounts -> Nat] /\ t.due \in Nat
  BY <1>1, <1>2, <1>3 DEF Amounts
<1>6. Good(t)
  <2>1. t \in LedgerType
    BY <1>2, <1>5 DEF LedgerType
  <2>2. ASSUME NEW y \in TokenAccounts, Exists(t, y) PROVE t.lam[y] >= TokenRent
    <3>1. CASE y = x
      BY <1>1, <1>2, <1>3, <3>1
    <3>2. CASE y # x
      BY <1>1, <1>2, <2>2, <3>2 DEF Good, Exists, Amounts
    <3> QED BY <3>1, <3>2
  <2> QED BY <2>1, <2>2 DEF Good
<1>7. SumFunction(t.lam) = SumFunction(s.lam) + top
  <2> DEFINE f == s.lam
             g == t.lam
  <2>1. /\ f \in [TokenAccounts -> Int] /\ g \in [TokenAccounts -> Int]
        /\ g[x] = f[x] + top /\ \A y \in TokenAccounts \ {x} : g[y] = f[y]
    BY <1>1, <1>2, <1>5
  <2> HIDE DEF f, g
  <2>2. SumFunction(g) = SumFunction(f) + top
    BY <1>3, <2>1, AddressesFinite, SumMoves
  <2> QED BY <2>2 DEF f, g
<1>8. \A y \in TokenAccounts \ {x} : t.amount[y] = s.amount[y] /\ t.lam[y] = s.lam[y]
  BY <1>1, <1>2 DEF Amounts
<1>9. t.amount[x] = 0
  BY <1>1, <1>2 DEF Amounts
<1>10. Exists(t, x) /\ \A y \in TokenAccounts : Exists(s, y) => Exists(t, y)
  BY <1>4, <1>8, <1>9 DEF Exists, NoAccount
<1>11. \A y \in TokenAccounts : HeldIn(t.amount, y) = HeldIn(s.amount, y)
  BY <1>4, <1>8, <1>9 DEF HeldIn
<1>12. t.due >= s.due /\ top = t.due - s.due
  BY <1>1, <1>2, <1>3
<1> QED BY <1>6, <1>7, <1>8, <1>10, <1>11, <1>12 DEF Grown, t

LEMMA SameGrows ==
  ASSUME NEW s, Good(s), NEW X
  PROVE  Grown(s, s, X)
<1>1. s.due \in Nat /\ SumFunction(s.lam) \in Int
  BY GoodTypes, SumOfLamports
<1> QED BY <1>1 DEF Grown

\* Creating what does not exist yet, as the programs do it.
LEMMA EnsuredGrows ==
  ASSUME NEW s, Good(s), NEW x \in TokenAccounts
  PROVE  /\ Grown(s, Ensured(s, x), {x}) /\ Exists(Ensured(s, x), x)
         /\ Grown(s, CreatedIfEmpty(s, x), {x})
<1>1. ~Exists(s, x) => Grown(s, Created(s, x), {x}) /\ Exists(Created(s, x), x)
  BY CreatedGrows
<1>2. s.lam[x] = 0 => ~Exists(s, x)
  BY Constants DEF Good
<1>3. Grown(s, s, {x})
  BY SameGrows
<1>4. CASE Exists(s, x)
  <2>1. Ensured(s, x) = s /\ CreatedIfEmpty(s, x) = s
    BY <1>2, <1>4 DEF Ensured, CreatedIfEmpty
  <2> QED BY <1>3, <1>4, <2>1
<1>5. CASE ~Exists(s, x)
  <2>1. /\ Ensured(s, x) = Created(s, x)
        /\ CreatedIfEmpty(s, x) = Created(s, x) \/ CreatedIfEmpty(s, x) = s
    BY <1>5 DEF Ensured, CreatedIfEmpty
  <2> QED BY <1>1, <1>3, <1>5, <2>1
<1> QED BY <1>4, <1>5

LEMMA GrowsTwice ==
  ASSUME NEW s, Good(s), NEW t, NEW u, NEW x, NEW y,
         Grown(s, t, {x}), Grown(t, u, {y})
  PROVE  Grown(s, u, {x, y})
<1>1. /\ s.due \in Nat /\ t.due \in Nat /\ u.due \in Nat
      /\ SumFunction(s.lam) \in Int /\ SumFunction(t.lam) \in Int
      /\ SumFunction(u.lam) \in Int
  BY GoodTypes, SumOfLamports DEF Grown
<1>2. /\ SumFunction(u.lam) = SumFunction(s.lam) + (u.due - s.due)
      /\ u.due >= s.due
  BY <1>1 DEF Grown
<1> QED BY <1>2 DEF Grown

\* What a change of one balance does to the balances and to their sum.
LEMMA CreditSum ==
  ASSUME NEW S, IsFiniteSet(S), NEW f \in [S -> Int], NEW h \in S, NEW n \in Int
  PROVE  /\ Credit(f, h, n) \in [S -> Int]
         /\ Credit(f, h, n)[h] = f[h] + n
         /\ \A x \in S \ {h} : Credit(f, h, n)[x] = f[x]
         /\ SumFunction(f) \in Int
         /\ SumFunction(Credit(f, h, n)) = SumFunction(f) + n
<1> DEFINE g == Credit(f, h, n)
<1>1. g \in [S -> Int] /\ g[h] = f[h] + n /\ \A x \in S \ {h} : g[x] = f[x]
  BY DEF Credit
<1> HIDE DEF g
<1>2. SumFunction(f) \in Int /\ SumFunction(g) = SumFunction(f) + n
  BY <1>1, SumMoves
<1> QED BY <1>1, <1>2 DEF g

LEMMA CreditAmount ==
  ASSUME NEW a \in Amounts, NEW x \in TokenAccounts, a[x] # NoAccount,
         NEW n \in Int, a[x] + n \in Nat
  PROVE  /\ Credit(a, x, n) \in Amounts
         /\ Credit(a, x, n)[x] = a[x] + n
         /\ \A y \in TokenAccounts \ {x} : Credit(a, x, n)[y] = a[y]
BY DEF Credit, Amounts

LEMMA SentEffect ==
  ASSUME NEW s, Good(s), NEW from \in TokenAccounts, NEW to \in TokenAccounts,
         NEW n \in Nat, CanSend(s, from, to, n)
  PROVE  /\ Good(Sent(s, from, to, n))
         /\ Sent(s, from, to, n).lam = s.lam
         /\ Sent(s, from, to, n).due = s.due
         /\ Sent(s, from, to, n).amount = Credit(Credit(s.amount, from, -n), to, n)
         /\ \A x \in TokenAccounts :
              Exists(Sent(s, from, to, n), x) <=> Exists(s, x)
<1> DEFINE a == Credit(s.amount, from, -n)
           b == Credit(a, to, n)
           t == Sent(s, from, to, n)
<1>0. s.amount \in Amounts /\ s.lam \in [TokenAccounts -> Nat] /\ s.due \in Nat
  BY GoodTypes
<1>1. /\ s.amount[from] # NoAccount /\ s.amount[to] # NoAccount
      /\ s.amount[from] >= n /\ s.amount[from] \in Nat /\ s.amount[to] \in Nat
  BY <1>0 DEF CanSend, Exists, Amounts
<1>2. a \in Amounts /\ a[from] = s.amount[from] + (-n)
      /\ \A y \in TokenAccounts \ {from} : a[y] = s.amount[y]
  <2>1. -n \in Int /\ s.amount[from] + (-n) \in Nat
    BY <1>1
  <2> QED BY <1>0, <1>1, <2>1, CreditAmount
<1> HIDE DEF a
<1>3. a[to] # NoAccount /\ a[to] + n \in Nat /\ a[from] \in Nat
  <2>1. a[from] \in Nat
    BY <1>1, <1>2
  <2> QED BY <1>1, <1>2, <2>1 DEF NoAccount
<1>4. b \in Amounts /\ b[to] = a[to] + n
      /\ \A y \in TokenAccounts \ {to} : b[y] = a[y]
  BY <1>2, <1>3, CreditAmount
<1> HIDE DEF b
<1>5. t.amount = b /\ t.lam = s.lam /\ t.due = s.due /\ t \in LedgerType
  <2>1. t = [s EXCEPT !.amount = b]
    BY DEF Sent, a, b
  <2> HIDE DEF t
  <2> QED BY <1>4, <2>1 DEF Good, LedgerType
<1> HIDE DEF t
<1>6. \A x \in TokenAccounts : b[x] # NoAccount <=> s.amount[x] # NoAccount
  <2>1. b[to] # NoAccount /\ b[from] # NoAccount
    BY <1>3, <1>4 DEF NoAccount
  <2> QED BY <1>1, <1>2, <1>4, <2>1
<1>7. \A x \in TokenAccounts : Exists(t, x) <=> Exists(s, x)
  BY <1>5, <1>6 DEF Exists
<1>8. Good(t)
  BY <1>5, <1>7 DEF Good
<1> QED BY <1>5, <1>7, <1>8 DEF t, a, b

LEMMA ClosedEffect ==
  ASSUME NEW s, Good(s), NEW x \in TokenAccounts, CanClose(s, x)
  PROVE  /\ Good(Closed(s, x))
         /\ SumFunction(Closed(s, x).lam) = SumFunction(s.lam) + (-s.lam[x])
         /\ \A y \in TokenAccounts :
              HeldIn(Closed(s, x).amount, y) = HeldIn(s.amount, y)
         /\ \A y \in TokenAccounts \ {x} :
              /\ Closed(s, x).amount[y] = s.amount[y]
              /\ Closed(s, x).lam[y] = s.lam[y]
<1> DEFINE t == Closed(s, x)
<1>0. s.amount \in Amounts /\ s.lam \in [TokenAccounts -> Nat] /\ s.due \in Nat
  BY GoodTypes
<1>1. /\ t.amount = [s.amount EXCEPT ![x] = NoAccount]
      /\ t.lam = [s.lam EXCEPT ![x] = 0] /\ t.due = s.due
      /\ t = [amount |-> t.amount, lam |-> t.lam, due |-> t.due]
  BY DEF Closed
<1>2. s.amount[x] = 0
  BY DEF CanClose
<1> HIDE DEF t
<1>3. t.amount \in Amounts /\ t.lam \in [TokenAccounts -> Nat]
  BY <1>0, <1>1 DEF Amounts
<1>4. /\ t.amount[x] = NoAccount /\ t.lam[x] = 0
      /\ \A y \in TokenAccounts \ {x} : /\ t.amount[y] = s.amount[y]
                                        /\ t.lam[y] = s.lam[y]
  BY <1>0, <1>1 DEF Amounts
<1>5. Good(t)
  <2>1. t \in LedgerType
    BY <1>0, <1>1, <1>3 DEF LedgerType
  <2> QED BY <1>4, <2>1 DEF Good, Exists
<1>6. \A y \in TokenAccounts : HeldIn(t.amount, y) = HeldIn(s.amount, y)
  BY <1>2, <1>4 DEF HeldIn
<1>7. SumFunction(t.lam) = SumFunction(s.lam) + (-s.lam[x])
  <2> DEFINE f == s.lam
             g == t.lam
  <2>1. /\ f \in [TokenAccounts -> Int] /\ g \in [TokenAccounts -> Int]
        /\ -f[x] \in Int /\ g[x] = f[x] + (-f[x])
        /\ \A y \in TokenAccounts \ {x} : g[y] = f[y]
    BY <1>0, <1>3, <1>4
  <2> HIDE DEF f, g
  <2>2. SumFunction(g) = SumFunction(f) + (-f[x])
    BY <2>1, AddressesFinite, SumMoves
  <2> QED BY <2>2 DEF f, g
<1> QED BY <1>4, <1>5, <1>6, <1>7 DEF t

\* What is held decides what parties and offers have.
LEMMA SameHeld ==
  ASSUME NEW a, NEW b, \A x \in TokenAccounts : HeldIn(a, x) = HeldIn(b, x)
  PROVE  PurseIn(a) = PurseIn(b) /\ PotIn(a) = PotIn(b)
<1>1. \A w \in Wallets, m \in Mints : /\ HeldIn(a, Ata(w, m)) = HeldIn(b, Ata(w, m))
                                      /\ HeldIn(a, Other(w, m)) = HeldIn(b, Other(w, m))
  BY Addresses, Constants
<1>2. \A k \in OfferKeys, m \in Mints : HeldIn(a, Ata(k, m)) = HeldIn(b, Ata(k, m))
  BY Addresses, Constants
<1> QED BY <1>1, <1>2 DEF PurseIn, PotIn

\* A balance of a wallet's account counts in its purse and nowhere else.
LEMMA CreditPurse ==
  ASSUME NEW a \in Amounts, NEW x \in TokenAccounts, a[x] # NoAccount,
         NEW n \in Int, a[x] + n \in Nat, x.owner \in Wallets
  PROVE  /\ PurseIn(Credit(a, x, n)) = Swap!Plus(PurseIn(a), x.owner, x.mint, n)
         /\ PotIn(Credit(a, x, n)) = PotIn(a)
<1> DEFINE b == Credit(a, x, n)
           w == x.owner
           m == x.mint
<1>1. b \in Amounts /\ b[x] = a[x] + n /\ \A y \in TokenAccounts \ {x} : b[y] = a[y]
  BY CreditAmount
<1>2. m \in Mints /\ w \in Wallets /\ (x = Ata(w, m) \/ x = Other(w, m))
  BY Addresses
<1>3. a[x] \in Nat
  BY DEF Amounts
<1> HIDE DEF b
<1>4. /\ HeldIn(b, x) = HeldIn(a, x) + n
      /\ \A y \in TokenAccounts \ {x} : HeldIn(b, y) = HeldIn(a, y)
      /\ \A y \in TokenAccounts : HeldIn(a, y) \in Nat /\ HeldIn(b, y) \in Nat
  <2>1. b[x] \in Nat
    BY <1>1
  <2>2. b[x] # NoAccount
    BY <2>1 DEF NoAccount
  <2> QED BY <1>1, <1>3, <2>2 DEF HeldIn, Amounts
<1>5. PotIn(b) = PotIn(a)
  <2>1. ASSUME NEW k \in OfferKeys, NEW p \in Mints
        PROVE  HeldIn(b, Ata(k, p)) = HeldIn(a, Ata(k, p))
    <3>1. Ata(k, p) \in TokenAccounts /\ Ata(k, p).owner = k /\ k \notin Wallets
      BY Addresses, Constants
    <3> QED BY <1>2, <1>4, <3>1
  <2> QED BY <2>1 DEF PotIn
<1>6. ASSUME NEW u \in Wallets, NEW p \in Mints
      PROVE  HeldIn(b, Ata(u, p)) + HeldIn(b, Other(u, p))
               = HeldIn(a, Ata(u, p)) + HeldIn(a, Other(u, p))
                 + (IF u = w /\ p = m THEN n ELSE 0)
  <2>1. /\ Ata(u, p) \in TokenAccounts /\ Other(u, p) \in TokenAccounts
        /\ Ata(u, p) # Other(u, p)
        /\ Ata(u, p).owner = u /\ Other(u, p).owner = u
        /\ Ata(u, p).mint = p /\ Other(u, p).mint = p
    BY Addresses, Constants
  <2>2. CASE u = w /\ p = m
    <3>1. CASE x = Ata(u, p)
      BY <1>4, <2>1, <2>2, <3>1
    <3>2. CASE x = Other(u, p)
      BY <1>4, <2>1, <2>2, <3>2
    <3> QED BY <1>2, <2>2, <3>1, <3>2
  <2>3. CASE ~(u = w /\ p = m)
    <3>1. x # Ata(u, p) /\ x # Other(u, p)
      BY <2>1, <2>3
    <3> QED BY <1>4, <2>1, <2>3, <3>1
  <2> QED BY <2>2, <2>3
<1>7. PurseIn(b) = Swap!Plus(PurseIn(a), w, m, n)
  <2> DEFINE P == PurseIn(a)
             Q == PurseIn(b)
  <2>1. /\ P \in [Wallets -> [Mints -> Int]] /\ Q \in [Wallets -> [Mints -> Int]]
        /\ \A u \in Wallets, p \in Mints :
             Q[u][p] = P[u][p] + (IF u = w /\ p = m THEN n ELSE 0)
    <3>1. /\ P \in [Wallets -> [Mints -> Int]] /\ Q \in [Wallets -> [Mints -> Int]]
      <4>1. \A u \in Wallets, p \in Mints :
              /\ HeldIn(b, Ata(u, p)) + HeldIn(b, Other(u, p)) \in Int
              /\ HeldIn(a, Ata(u, p)) + HeldIn(a, Other(u, p)) \in Int
        BY <1>4, Addresses, Constants
      <4> QED BY <4>1 DEF PurseIn
    <3> QED BY <1>6, <3>1 DEF PurseIn
  <2> HIDE DEF P, Q, m, w
  <2>2. Q = [P EXCEPT ![w][m] = @ + n]
    BY <1>2, <2>1
  <2> QED BY <2>2 DEF Swap!Plus, P, Q
<1> QED BY <1>5, <1>7 DEF b

\* The balance of an offer's associated account is what is held for it; another
\* token account of its address does not count.
LEMMA CreditPot ==
  ASSUME NEW a \in Amounts, NEW x \in TokenAccounts, a[x] # NoAccount,
         NEW n \in Int, a[x] + n \in Nat, x.owner \in OfferKeys
  PROVE  /\ PurseIn(Credit(a, x, n)) = PurseIn(a)
         /\ x.kind = "ata" =>
              PotIn(Credit(a, x, n)) = Swap!Plus(PotIn(a), x.owner, x.mint, n)
         /\ x.kind # "ata" => PotIn(Credit(a, x, n)) = PotIn(a)
<1> DEFINE b == Credit(a, x, n)
           k == x.owner
           m == x.mint
<1>1. b \in Amounts /\ b[x] = a[x] + n /\ \A y \in TokenAccounts \ {x} : b[y] = a[y]
  BY CreditAmount
<1>2. m \in Mints /\ k \in OfferKeys /\ k \notin Wallets
      /\ (x.kind = "ata" <=> x = Ata(k, m))
  BY Addresses, Constants
<1>3. a[x] \in Nat
  BY DEF Amounts
<1> HIDE DEF b
<1>4. /\ HeldIn(b, x) = HeldIn(a, x) + n
      /\ \A y \in TokenAccounts \ {x} : HeldIn(b, y) = HeldIn(a, y)
      /\ \A y \in TokenAccounts : HeldIn(a, y) \in Nat /\ HeldIn(b, y) \in Nat
  <2>1. b[x] \in Nat
    BY <1>1
  <2>2. b[x] # NoAccount
    BY <2>1 DEF NoAccount
  <2> QED BY <1>1, <1>3, <2>2 DEF HeldIn, Amounts
<1>5. PurseIn(b) = PurseIn(a)
  <2>1. ASSUME NEW u \in Wallets, NEW p \in Mints
        PROVE  /\ HeldIn(b, Ata(u, p)) = HeldIn(a, Ata(u, p))
               /\ HeldIn(b, Other(u, p)) = HeldIn(a, Other(u, p))
    <3>1. /\ Ata(u, p) \in TokenAccounts /\ Other(u, p) \in TokenAccounts
          /\ Ata(u, p).owner = u /\ Other(u, p).owner = u
      BY Addresses, Constants
    <3> QED BY <1>2, <1>4, <3>1
  <2> QED BY <2>1 DEF PurseIn
<1>6. ASSUME NEW l \in OfferKeys, NEW p \in Mints
      PROVE  HeldIn(b, Ata(l, p)) = HeldIn(a, Ata(l, p))
               + (IF x.kind = "ata" /\ l = k /\ p = m THEN n ELSE 0)
  <2>1. /\ Ata(l, p) \in TokenAccounts
        /\ Ata(l, p).owner = l /\ Ata(l, p).mint = p
    BY Addresses, Constants
  <2>2. CASE x = Ata(l, p)
    BY <1>2, <1>4, <2>1, <2>2
  <2>3. CASE x # Ata(l, p)
    BY <1>2, <1>4, <2>1, <2>3
  <2> QED BY <2>2, <2>3
<1> DEFINE P == PotIn(a)
           Q == PotIn(b)
<1>7. /\ P \in [OfferKeys -> [Mints -> Int]] /\ Q \in [OfferKeys -> [Mints -> Int]]
      /\ \A l \in OfferKeys, p \in Mints :
           Q[l][p] = P[l][p] + (IF x.kind = "ata" /\ l = k /\ p = m THEN n ELSE 0)
  <2>1. P \in [OfferKeys -> [Mints -> Int]] /\ Q \in [OfferKeys -> [Mints -> Int]]
    <3>1. \A l \in OfferKeys, p \in Mints : /\ HeldIn(b, Ata(l, p)) \in Int
                                            /\ HeldIn(a, Ata(l, p)) \in Int
      BY <1>4, Addresses, Constants
    <3> QED BY <3>1 DEF PotIn
  <2> QED BY <1>6, <2>1 DEF PotIn
<1> HIDE DEF P, Q, m, k
<1>8. x.kind = "ata" => Q = [P EXCEPT ![k][m] = @ + n]
  BY <1>2, <1>7
<1>9. x.kind # "ata" => Q = P
  BY <1>7
<1> QED BY <1>5, <1>8, <1>9 DEF Swap!Plus, P, Q, b, k, m

(***************************************************************************)
(* What AtomicSwap sees of the accounts, and its actions.                  *)
(***************************************************************************)

TermsSeen == [k \in OfferKeys |->
                IF ~offer[k].open THEN {}
                ELSE {[mint_a |-> offer[k].mint_a, mint_b |-> offer[k].mint_b,
                       wanted |-> offer[k].wanted]}]
Purses == [w \in Wallets |-> [m \in Mints |-> TokensOf(w, m)]]
Pots == [k \in OfferKeys |-> [m \in Mints |-> Held(Ata(k, m))]]

LEMMA Seen ==
  /\ Purses = PurseIn(amount) /\ Pots = PotIn(amount)
  /\ Purses' = PurseIn(amount') /\ Pots' = PotIn(amount')
BY DEF Purses, Pots, PurseIn, PotIn, TokensOf, Held, HeldIn, Exists, Ledger, Other

LEMMA OpenOf ==
  ASSUME NEW k \in OfferKeys, NEW d \in TermsSeen'[k],
         TermsSeen[k] = {}, TermsSeen' = [TermsSeen EXCEPT ![k] = {d}],
         Purses[k.maker][d.mint_a] - Purses'[k.maker][d.mint_a] >= 0,
         Purses' = Swap!Plus(Purses, k.maker, d.mint_a,
                     -(Purses[k.maker][d.mint_a] - Purses'[k.maker][d.mint_a])),
         Pots' = Swap!Plus(Pots, k, d.mint_a,
                     Purses[k.maker][d.mint_a] - Purses'[k.maker][d.mint_a])
  PROVE  Swap!Open(k)
BY DEF Swap!Open, TermsSeen, Purses, Pots

LEMMA TakeOf ==
  ASSUME NEW k \in OfferKeys, NEW taker \in Wallets, NEW d \in TermsSeen[k],
         Purses[taker][d.mint_b] >= d.wanted,
         Purses' = Swap!Plus(
                     Swap!Plus(Swap!Plus(Purses, taker, d.mint_b, -d.wanted),
                               k.maker, d.mint_b, d.wanted),
                     taker, d.mint_a, Pots[k][d.mint_a]),
         TermsSeen' = [TermsSeen EXCEPT ![k] = {}],
         Pots' = [Pots EXCEPT ![k][d.mint_a] = 0]
  PROVE  Swap!Take(k, taker)
BY DEF Swap!Take, Swap!Close, TermsSeen, Purses, Pots

LEMMA RefundOf ==
  ASSUME NEW k \in OfferKeys, NEW d \in TermsSeen[k],
         Purses' = Swap!Plus(Purses, k.maker, d.mint_a, Pots[k][d.mint_a]),
         TermsSeen' = [TermsSeen EXCEPT ![k] = {}],
         Pots' = [Pots EXCEPT ![k][d.mint_a] = 0]
  PROVE  Swap!Refund(k)
BY DEF Swap!Refund, Swap!Close, TermsSeen, Purses, Pots

LEMMA GiveOf ==
  ASSUME NEW w \in Wallets, NEW m \in Mints,
         Purses[w][m] - Purses'[w][m] > 0,
         Purses' = Swap!Plus(Purses, w, m, -(Purses[w][m] - Purses'[w][m])),
         Pots' = Pots \/ \E k \in OfferKeys :
           Pots' = Swap!Plus(Pots, k, m, Purses[w][m] - Purses'[w][m]),
         UNCHANGED TermsSeen
  PROVE  Swap!Give(w, m)
BY DEF Swap!Give, TermsSeen, Purses, Pots

LEMMA NothingOf ==
  UNCHANGED <<TermsSeen, Purses, Pots>> => UNCHANGED Swap!vars
BY DEF Swap!vars, TermsSeen, Purses, Pots

OfferType == [open: BOOLEAN, mint_a: Mints, mint_b: Mints, wanted: Nat]

LEMMA TermsChange ==
  ASSUME NEW k \in OfferKeys, NEW x \in OfferType, TypeOK,
         offer' = [offer EXCEPT ![k] = x]
  PROVE  /\ offer' \in [OfferKeys -> OfferType]
         /\ \A l \in OfferKeys \ {k} : offer'[l] = offer[l]
         /\ offer'[k] = x
         /\ TermsSeen' = [TermsSeen EXCEPT ![k] =
              IF ~x.open THEN {}
              ELSE {[mint_a |-> x.mint_a, mint_b |-> x.mint_b,
                     wanted |-> x.wanted]}]
<1>1. offer \in [OfferKeys -> OfferType]
  BY DEF TypeOK, OfferType
<1>2. /\ offer' \in [OfferKeys -> OfferType] /\ offer'[k] = x
      /\ \A l \in OfferKeys \ {k} : offer'[l] = offer[l]
  BY <1>1
<1> DEFINE D(y) == IF ~y.open THEN {}
                   ELSE {[mint_a |-> y.mint_a, mint_b |-> y.mint_b,
                          wanted |-> y.wanted]}
<1>3. /\ TermsSeen = [l \in OfferKeys |-> D(offer[l])]
      /\ TermsSeen' = [l \in OfferKeys |-> D(offer'[l])]
  BY DEF TermsSeen
<1> HIDE DEF D
<1>4. TermsSeen' = [TermsSeen EXCEPT ![k] = D(x)]
  BY <1>2, <1>3
<1> QED BY <1>2, <1>4 DEF D

LEMMA NoOfferType == NoOffer \in OfferType /\ ~NoOffer.open
BY EscrowAssumption DEF NoOffer, OfferType

\* What parties have are numbers of tokens.
LEMMA PursesTyped ==
  ASSUME NEW a \in Amounts
  PROVE  /\ PurseIn(a) \in [Wallets -> [Mints -> Nat]]
         /\ PotIn(a) \in [OfferKeys -> [Mints -> Nat]]
         /\ \A w \in Wallets, m \in Mints :
              /\ PurseIn(a)[w][m] >= HeldIn(a, Ata(w, m))
              /\ PurseIn(a)[w][m] >= HeldIn(a, Other(w, m))
         /\ \A k \in OfferKeys, m \in Mints : PotIn(a)[k][m] = HeldIn(a, Ata(k, m))
<1>1. \A x \in TokenAccounts : HeldIn(a, x) \in Nat
  BY DEF HeldIn, Amounts
<1>2. \A w \in Wallets, m \in Mints : /\ HeldIn(a, Ata(w, m)) \in Nat
                                      /\ HeldIn(a, Other(w, m)) \in Nat
  BY <1>1, Addresses, Constants
<1>3. \A k \in OfferKeys, m \in Mints : HeldIn(a, Ata(k, m)) \in Nat
  BY <1>1, Addresses, Constants
<1> QED BY <1>2, <1>3 DEF PurseIn, PotIn

\* Adding to one purse or pot.
LEMMA PlusIs ==
  ASSUME NEW S, NEW f \in [S -> [Mints -> Int]], NEW x \in S, NEW m \in Mints,
         NEW n \in Int
  PROVE  /\ Swap!Plus(f, x, m, n) \in [S -> [Mints -> Int]]
         /\ Swap!Plus(f, x, m, n)[x][m] = f[x][m] + n
BY DEF Swap!Plus

(***************************************************************************)
(* What the three instructions do to the token accounts.                   *)
(***************************************************************************)

\* The token accounts have their types and rents.
TokensOK ==
  /\ amount \in Amounts /\ tokenLamports \in [TokenAccounts -> Nat]
  /\ \A x \in TokenAccounts : amount[x] # NoAccount => tokenLamports[x] >= TokenRent

LEMMA Committed ==
  ASSUME NEW t, Good(t), Commit(t)
  PROVE  TokensOK' /\ amount' = t.amount /\ tokenLamports' = t.lam
BY GoodTypes DEF Commit, Good, TokensOK, Exists

\* A transfer is a debit that can be made and then a credit that can.
LEMMA SentMid ==
  ASSUME NEW s, Good(s), NEW from \in TokenAccounts, NEW to \in TokenAccounts,
         NEW n \in Nat, CanSend(s, from, to, n)
  PROVE  /\ s.amount \in Amounts /\ s.amount[from] # NoAccount
         /\ -n \in Int /\ s.amount[from] + (-n) \in Nat
         /\ Credit(s.amount, from, -n) \in Amounts
         /\ Credit(s.amount, from, -n)[to] # NoAccount
         /\ Credit(s.amount, from, -n)[to] + n \in Nat
         /\ \A x \in TokenAccounts \ {from} :
              Credit(s.amount, from, -n)[x] = s.amount[x]
<1>0. s.amount \in Amounts
  BY GoodTypes
<1>1. /\ s.amount[from] # NoAccount /\ s.amount[to] # NoAccount
      /\ s.amount[from] >= n /\ s.amount[from] \in Nat /\ s.amount[to] \in Nat
  BY <1>0 DEF CanSend, Exists, Amounts
<1> DEFINE a == Credit(s.amount, from, -n)
<1>2. -n \in Int /\ s.amount[from] + (-n) \in Nat
  BY <1>1
<1>3. a \in Amounts /\ a[from] = s.amount[from] + (-n)
      /\ \A y \in TokenAccounts \ {from} : a[y] = s.amount[y]
  BY <1>0, <1>1, <1>2, CreditAmount
<1> HIDE DEF a
<1>4. a[from] \in Nat
  BY <1>2, <1>3
<1>5. a[to] \in Nat
  BY <1>1, <1>3, <1>4
<1>6. a[to] # NoAccount /\ a[to] + n \in Nat
  BY <1>5 DEF NoAccount
<1> QED BY <1>0, <1>1, <1>2, <1>3, <1>6 DEF a

\* What a transfer moves between wallets, from a wallet to an offer's associated
\* account, and back.
LEMMA SentHeld ==
  ASSUME NEW s, Good(s), NEW from \in TokenAccounts, NEW to \in TokenAccounts,
         NEW n \in Nat, CanSend(s, from, to, n)
  PROVE  LET b == Sent(s, from, to, n).amount
             P == PurseIn(s.amount)
             Q == PotIn(s.amount)
             m == from.mint
         IN  /\ to.mint = m
             /\ from.owner \in Wallets /\ to.owner \in Wallets =>
                  /\ PurseIn(b) = Swap!Plus(Swap!Plus(P, from.owner, m, -n),
                                            to.owner, m, n)
                  /\ PotIn(b) = Q
             /\ from.owner \in Wallets /\ to.owner \in OfferKeys =>
                  /\ PurseIn(b) = Swap!Plus(P, from.owner, m, -n)
                  /\ PotIn(b) = IF to.kind = "ata" THEN Swap!Plus(Q, to.owner, m, n)
                                ELSE Q
             /\ from.owner \in OfferKeys /\ from.kind = "ata"
                  /\ to.owner \in Wallets =>
                  /\ PurseIn(b) = Swap!Plus(P, to.owner, m, n)
                  /\ PotIn(b) = Swap!Plus(Q, from.owner, m, -n)
<1> DEFINE a == Credit(s.amount, from, -n)
           b == Credit(a, to, n)
           P == PurseIn(s.amount)
           Q == PotIn(s.amount)
<1>1. /\ s.amount \in Amounts /\ s.amount[from] # NoAccount
      /\ -n \in Int /\ s.amount[from] + (-n) \in Nat
      /\ a \in Amounts /\ a[to] # NoAccount /\ a[to] + n \in Nat
  BY SentMid
<1>2. Sent(s, from, to, n).amount = b
  BY SentEffect
<1>3. from.mint = to.mint
  BY DEF CanSend
<1>4. from.owner \in Wallets =>
        PurseIn(a) = Swap!Plus(P, from.owner, from.mint, -n) /\ PotIn(a) = Q
  BY <1>1, CreditPurse
<1>5. from.owner \in OfferKeys /\ from.kind = "ata" =>
        PurseIn(a) = P /\ PotIn(a) = Swap!Plus(Q, from.owner, from.mint, -n)
  BY <1>1, CreditPot
<1> HIDE DEF a
<1>6. to.owner \in Wallets =>
        PurseIn(b) = Swap!Plus(PurseIn(a), to.owner, to.mint, n) /\ PotIn(b) = PotIn(a)
  BY <1>1, CreditPurse
<1>7. to.owner \in OfferKeys =>
        /\ PurseIn(b) = PurseIn(a)
        /\ PotIn(b) = IF to.kind = "ata" THEN Swap!Plus(PotIn(a), to.owner, to.mint, n)
                      ELSE PotIn(a)
  BY <1>1, CreditPot
<1> HIDE DEF b, P, Q
<1>8. /\ to.mint = from.mint
      /\ from.owner \in Wallets /\ to.owner \in Wallets =>
           /\ PurseIn(b) = Swap!Plus(Swap!Plus(P, from.owner, from.mint, -n),
                                     to.owner, from.mint, n)
           /\ PotIn(b) = Q
      /\ from.owner \in Wallets /\ to.owner \in OfferKeys =>
           /\ PurseIn(b) = Swap!Plus(P, from.owner, from.mint, -n)
           /\ PotIn(b) = IF to.kind = "ata"
                         THEN Swap!Plus(Q, to.owner, from.mint, n) ELSE Q
      /\ from.owner \in OfferKeys /\ from.kind = "ata" /\ to.owner \in Wallets =>
           /\ PurseIn(b) = Swap!Plus(P, to.owner, from.mint, n)
           /\ PotIn(b) = Swap!Plus(Q, from.owner, from.mint, -n)
  BY <1>3, <1>4, <1>5, <1>6, <1>7
<1> QED BY <1>2, <1>8 DEF P, Q

LEMMA AddressOf ==
  ASSUME NEW h \in Holders, NEW m \in Mints
  PROVE  /\ Ata(h, m) \in TokenAccounts /\ Ata(h, m).kind = "ata"
         /\ Ata(h, m).owner = h /\ Ata(h, m).mint = m
BY Addresses

\* An instruction that opens offer k with terms o.
Opened(k, o, due) ==
  /\ TokensOK'
  /\ SumFunction(tokenLamports') = SumFunction(tokenLamports) + due
  /\ amount'[Ata(k, o.mint_a)] >= o.offered
  /\ \A l \in OfferKeys \ {k}, m \in Mints : amount'[Ata(l, m)] = amount[Ata(l, m)]
  /\ offer' \in [OfferKeys -> OfferType]
  /\ \A l \in OfferKeys \ {k} : offer'[l] = offer[l]
  /\ offer'[k].open /\ offer'[k].mint_a = o.mint_a
  /\ Swap!Open(k)

LEMMA DepositEffect ==
  ASSUME TypeOK, NEW p \in Programs, NEW o \in Terms[p], NEW k \in OfferKeys,
         NEW from \in TokenAccounts, from.owner = k.maker,
         NEW s, Grown(Ledger, s, {Ata(k, o.mint_a)}), ~offer[k].open,
         Deposits(s, k, o, from, Ata(k, o.mint_a))
  PROVE  Opened(k, o, s.due)
<1> DEFINE v == Ata(k, o.mint_a)
           n == o.offered
           m == o.mint_a
           t == Sent(s, from, v, n)
           w == k.maker
<1>0. /\ m \in Mints /\ n \in Nat /\ o.mint_b \in Mints /\ o.wanted \in Nat
      /\ k \in Holders /\ w \in Wallets /\ k \notin Wallets
  BY TermsTyped, Constants
<1>1. /\ v \in TokenAccounts /\ v.kind = "ata" /\ v.owner = k /\ v.mint = m
  BY <1>0, AddressOf
<1>2. Good(s) /\ CanSend(s, from, v, n) /\ Commit(t)
      /\ offer' = [offer EXCEPT ![k] = OfferOf(o)]
  BY DEF Grown, Deposits
<1>3. TokensOK' /\ amount' = t.amount /\ tokenLamports' = s.lam /\ Good(t)
      /\ t.amount = Credit(Credit(s.amount, from, -n), v, n)
  <2>1. Good(t) /\ t.lam = s.lam
        /\ t.amount = Credit(Credit(s.amount, from, -n), v, n)
    BY <1>0, <1>1, <1>2, SentEffect
  <2> HIDE DEF t
  <2> QED BY <1>2, <2>1, Committed
<1>4. SumFunction(tokenLamports') = SumFunction(tokenLamports) + s.due
  <2>1. /\ SumFunction(s.lam) = SumFunction(Ledger.lam) + (s.due - Ledger.due)
        /\ Ledger.due = 0 /\ Ledger.lam = tokenLamports /\ s.due \in Nat
    BY <1>2, LedgerIsGood, GoodTypes DEF Grown
  <2> QED BY <1>3, <2>1
<1>5. PurseIn(s.amount) = Purses /\ PotIn(s.amount) = Pots
  <2>1. \A x \in TokenAccounts : HeldIn(s.amount, x) = HeldIn(amount, x)
    BY LedgerIsGood DEF Grown
  <2> QED BY <2>1, SameHeld, Seen
<1>6. from.mint = m
  BY <1>1, <1>2 DEF CanSend
<1>7. /\ Purses' = Swap!Plus(Purses, w, m, -n)
      /\ Pots' = Swap!Plus(Pots, k, m, n)
  <2>1. /\ PurseIn(t.amount) = Swap!Plus(PurseIn(s.amount), w, m, -n)
        /\ PotIn(t.amount) = Swap!Plus(PotIn(s.amount), k, m, n)
    BY <1>0, <1>1, <1>2, <1>6, SentHeld
  <2> HIDE DEF t
  <2> QED BY <1>3, <1>5, <2>1, Seen
<1>8. amount'[v] >= n
      /\ \A x \in TokenAccounts \ {v, from} : amount'[x] = s.amount[x]
  <2> DEFINE a == Credit(s.amount, from, -n)
  <2>1. /\ a \in Amounts /\ a[v] # NoAccount /\ a[v] + n \in Nat
        /\ \A x \in TokenAccounts \ {from} : a[x] = s.amount[x]
    BY <1>0, <1>1, <1>2, SentMid
  <2> HIDE DEF a
  <2>2. Credit(a, v, n)[v] = a[v] + n
        /\ \A x \in TokenAccounts \ {v} : Credit(a, v, n)[x] = a[x]
    BY <1>0, <1>1, <2>1, CreditAmount
  <2>3. a[v] \in Nat
    BY <1>1, <2>1 DEF Amounts
  <2>4. amount' = Credit(a, v, n)
    BY <1>3 DEF a
  <2> QED BY <1>0, <1>1, <2>1, <2>2, <2>3, <2>4
<1>9. \A l \in OfferKeys \ {k}, q \in Mints : amount'[Ata(l, q)] = amount[Ata(l, q)]
  <2> SUFFICES ASSUME NEW l \in OfferKeys \ {k}, NEW q \in Mints
               PROVE  amount'[Ata(l, q)] = amount[Ata(l, q)]
    OBVIOUS
  <2>1. l \in Holders /\ l \notin Wallets
    BY Constants
  <2>2. Ata(l, q) \in TokenAccounts /\ Ata(l, q).owner = l
    BY <2>1, AddressOf
  <2>3. Ata(l, q) # v /\ Ata(l, q) # from
    BY <1>0, <1>1, <2>1, <2>2
  <2>4. s.amount[Ata(l, q)] = amount[Ata(l, q)]
    BY <2>2, <2>3, LedgerIsGood DEF Grown
  <2> QED BY <1>8, <2>2, <2>3, <2>4
<1>10. OfferOf(o) \in OfferType /\ OfferOf(o).open /\ OfferOf(o).mint_a = m
       /\ OfferOf(o).mint_b = o.mint_b /\ OfferOf(o).wanted = o.wanted
  BY <1>0 DEF OfferOf, OfferType
<1> DEFINE d == [mint_a |-> m, mint_b |-> o.mint_b, wanted |-> o.wanted]
<1>11. /\ offer' \in [OfferKeys -> OfferType]
       /\ \A l \in OfferKeys \ {k} : offer'[l] = offer[l]
       /\ offer'[k] = OfferOf(o)
       /\ TermsSeen' = [TermsSeen EXCEPT ![k] = {d}]
  <2> DEFINE x == OfferOf(o)
  <2>1. /\ x \in OfferType /\ x.open /\ offer' = [offer EXCEPT ![k] = x]
        /\ [mint_a |-> x.mint_a, mint_b |-> x.mint_b, wanted |-> x.wanted] = d
    BY <1>2, <1>10
  <2> HIDE DEF x, d
  <2>2. /\ offer' \in [OfferKeys -> OfferType]
        /\ \A l \in OfferKeys \ {k} : offer'[l] = offer[l]
        /\ offer'[k] = x
        /\ TermsSeen' = [TermsSeen EXCEPT ![k] =
             IF ~x.open THEN {}
             ELSE {[mint_a |-> x.mint_a, mint_b |-> x.mint_b,
                    wanted |-> x.wanted]}]
    BY <2>1, TermsChange
  <2> QED BY <2>1, <2>2 DEF x
<1>12. TermsSeen[k] = {} /\ d \in TermsSeen'[k]
  <2>1. TermsSeen[k] = {} /\ k \in DOMAIN TermsSeen
    BY DEF TermsSeen
  <2> HIDE DEF d
  <2> QED BY <1>11, <2>1
<1>13. Purses[w][m] - Purses'[w][m] = n
  <2>1. Purses \in [Wallets -> [Mints -> Int]]
    <3>1. amount \in Amounts
      BY DEF TypeOK, Amounts
    <3>2. PurseIn(amount) \in [Wallets -> [Mints -> Nat]]
      BY <3>1, PursesTyped
    <3> QED BY <3>2, Seen
  <2>2. Purses'[w][m] = Purses[w][m] + (-n)
    <3> DEFINE f == Purses
               g == Purses'
    <3>1. /\ f \in [Wallets -> [Mints -> Int]] /\ g = Swap!Plus(f, w, m, -n)
          /\ w \in Wallets /\ m \in Mints /\ -n \in Int
      BY <1>0, <1>7, <2>1
    <3> HIDE DEF f, g, n, m, w
    <3>2. g[w][m] = f[w][m] + (-n)
      BY <3>1, PlusIs
    <3> QED BY <3>2 DEF f, g
  <2>3. Purses[w][m] \in Int
    BY <1>0, <2>1
  <2> HIDE DEF n, m, w
  <2> QED BY <1>0, <2>2, <2>3
<1>14. Swap!Open(k)
  <2>1. d.mint_a = m
    OBVIOUS
  <2>2. /\ Purses[w][d.mint_a] - Purses'[w][d.mint_a] = n /\ n >= 0
        /\ Purses' = Swap!Plus(Purses, w, d.mint_a, -n)
        /\ Pots' = Swap!Plus(Pots, k, d.mint_a, n)
    BY <1>0, <1>7, <1>13, <2>1
  <2> HIDE DEF d, n, m
  <2> QED BY <1>11, <1>12, <2>2, OpenOf
<1> QED BY <1>3, <1>4, <1>8, <1>9, <1>10, <1>11, <1>14 DEF Opened

\* Emptying the vault of offer k, in ledger s, and closing it.
LEMMA EmptiedEffect ==
  ASSUME NEW s, Good(s), NEW k \in OfferKeys, NEW m \in Mints,
         NEW to \in TokenAccounts, to.owner \in Wallets, NEW n,
         n = s.amount[Ata(k, m)],
         CanSend(s, Ata(k, m), to, n),
         CanClose(Sent(s, Ata(k, m), to, n), Ata(k, m))
  PROVE  LET t == Closed(Sent(s, Ata(k, m), to, n), Ata(k, m))
         IN  /\ Good(t) /\ n \in Nat
             /\ SumFunction(t.lam) = SumFunction(s.lam) + (-s.lam[Ata(k, m)])
             /\ PurseIn(t.amount) = Swap!Plus(PurseIn(s.amount), to.owner, m, n)
             /\ PotIn(t.amount) = [PotIn(s.amount) EXCEPT ![k][m] = 0]
             /\ \A x \in TokenAccounts :
                  x.owner \notin Wallets /\ x # Ata(k, m) =>
                    t.amount[x] = s.amount[x]
<1> DEFINE v == Ata(k, m)
           r == Sent(s, v, to, n)
           t == Closed(r, v)
<1>0. /\ v \in TokenAccounts /\ v.kind = "ata" /\ v.owner = k /\ v.mint = m
      /\ k \notin Wallets
  BY Constants, AddressOf
<1>1. n \in Nat /\ s.amount \in Amounts /\ s.lam \in [TokenAccounts -> Nat]
  BY <1>0, GoodTypes DEF CanSend, Exists, Amounts
<1>2. /\ Good(r) /\ r.lam = s.lam
      /\ r.amount = Credit(Credit(s.amount, v, -n), to, n)
  BY <1>0, <1>1, SentEffect
<1>3. /\ PurseIn(r.amount) = Swap!Plus(PurseIn(s.amount), to.owner, m, n)
      /\ PotIn(r.amount) = Swap!Plus(PotIn(s.amount), k, m, -n)
  BY <1>0, <1>1, SentHeld
<1>4. \A x \in TokenAccounts \ {v, to} : r.amount[x] = s.amount[x]
  <2> DEFINE a == Credit(s.amount, v, -n)
  <2>1. /\ a \in Amounts /\ a[to] # NoAccount /\ a[to] + n \in Nat
        /\ \A x \in TokenAccounts \ {v} : a[x] = s.amount[x]
    BY <1>0, <1>1, SentMid
  <2>2. r.amount = Credit(a, to, n)
    BY <1>2
  <2> HIDE DEF a
  <2>3. \A x \in TokenAccounts \ {to} : Credit(a, to, n)[x] = a[x]
    BY <1>1, <2>1, CreditAmount
  <2> QED BY <2>1, <2>2, <2>3
<1>5. PotIn(s.amount)[k][m] = n /\ PotIn(s.amount) \in [OfferKeys -> [Mints -> Nat]]
  <2>1. PotIn(s.amount)[k][m] = HeldIn(s.amount, v)
        /\ PotIn(s.amount) \in [OfferKeys -> [Mints -> Nat]]
    BY <1>1, PursesTyped
  <2>2. HeldIn(s.amount, v) = n
    BY DEF HeldIn, CanSend, Exists
  <2> QED BY <2>1, <2>2
<1>6. Swap!Plus(PotIn(s.amount), k, m, -n) = [PotIn(s.amount) EXCEPT ![k][m] = 0]
  <2> DEFINE Q == PotIn(s.amount)
  <2>1. Q \in [OfferKeys -> [Mints -> Nat]] /\ Q[k][m] + (-n) = 0
    BY <1>1, <1>5
  <2> HIDE DEF Q
  <2>2. [Q EXCEPT ![k][m] = @ + (-n)] = [Q EXCEPT ![k][m] = 0]
    BY <2>1
  <2> QED BY <2>2 DEF Swap!Plus, Q
<1> HIDE DEF r
<1>7. /\ Good(t) /\ SumFunction(t.lam) = SumFunction(r.lam) + (-r.lam[v])
      /\ \A y \in TokenAccounts : HeldIn(t.amount, y) = HeldIn(r.amount, y)
      /\ \A y \in TokenAccounts \ {v} : t.amount[y] = r.amount[y]
  BY <1>0, <1>2, ClosedEffect DEF r
<1> HIDE DEF t
<1>8. PurseIn(t.amount) = PurseIn(r.amount) /\ PotIn(t.amount) = PotIn(r.amount)
  BY <1>7, SameHeld
<1>9. \A x \in TokenAccounts : x.owner \notin Wallets /\ x # v
        => t.amount[x] = s.amount[x]
  BY <1>4, <1>7
<1>10. /\ Good(t) /\ n \in Nat
       /\ SumFunction(t.lam) = SumFunction(s.lam) + (-s.lam[v])
       /\ PurseIn(t.amount) = Swap!Plus(PurseIn(s.amount), to.owner, m, n)
       /\ PotIn(t.amount) = [PotIn(s.amount) EXCEPT ![k][m] = 0]
  BY <1>1, <1>2, <1>3, <1>6, <1>7, <1>8
<1> QED BY <1>9, <1>10 DEF t, r

\* An instruction that shuts offer k.
Shut(k, due) ==
  /\ TokensOK'
  /\ SumFunction(tokenLamports')
       = SumFunction(tokenLamports) + due + (-tokenLamports[Vault(k)])
  /\ \A l \in OfferKeys \ {k}, m \in Mints : amount'[Ata(l, m)] = amount[Ata(l, m)]
  /\ offer' \in [OfferKeys -> OfferType]
  /\ \A l \in OfferKeys \ {k} : offer'[l] = offer[l]
  /\ ~offer'[k].open

LEMMA ShutTerms ==
  ASSUME TypeOK, NEW k \in OfferKeys, offer' = [offer EXCEPT ![k] = NoOffer]
  PROVE  /\ offer' \in [OfferKeys -> OfferType] /\ ~offer'[k].open
         /\ \A l \in OfferKeys \ {k} : offer'[l] = offer[l]
         /\ TermsSeen' = [TermsSeen EXCEPT ![k] = {}]
<1> DEFINE x == NoOffer
<1>1. x \in OfferType /\ ~x.open /\ offer' = [offer EXCEPT ![k] = x]
  BY NoOfferType
<1> HIDE DEF x
<1>2. /\ offer' \in [OfferKeys -> OfferType]
      /\ \A l \in OfferKeys \ {k} : offer'[l] = offer[l]
      /\ offer'[k] = x
      /\ TermsSeen' = [TermsSeen EXCEPT ![k] =
           IF ~x.open THEN {}
           ELSE {[mint_a |-> x.mint_a, mint_b |-> x.mint_b, wanted |-> x.wanted]}]
  BY <1>1, TermsChange
<1> QED BY <1>1, <1>2

LEMMA OpenTerms ==
  ASSUME TypeOK, NEW k \in OfferKeys, offer[k].open
  PROVE  /\ offer[k].mint_a \in Mints /\ offer[k].mint_b \in Mints
         /\ offer[k].wanted \in Nat
         /\ \E d \in TermsSeen[k] : /\ d.mint_a = offer[k].mint_a
                                    /\ d.mint_b = offer[k].mint_b
                                    /\ d.wanted = offer[k].wanted
BY DEF TypeOK, TermsSeen

\* With accounts created for wallets, vaults are as they were.
LEMMA VaultsKept ==
  ASSUME TypeOK, NEW s, NEW X, Grown(Ledger, s, X), \A x \in X : x.owner \in Wallets
  PROVE  /\ Good(s) /\ s.amount \in Amounts
         /\ SumFunction(s.lam) = SumFunction(tokenLamports) + s.due
         /\ PurseIn(s.amount) = Purses /\ PotIn(s.amount) = Pots
         /\ \A x \in TokenAccounts : x.owner \notin Wallets =>
              s.amount[x] = amount[x] /\ s.lam[x] = tokenLamports[x]
<1>1. /\ SumFunction(s.lam) = SumFunction(Ledger.lam) + (s.due - Ledger.due)
      /\ Ledger.due = 0 /\ Ledger.lam = tokenLamports /\ s.due \in Nat
      /\ Ledger.amount = amount /\ s.amount \in Amounts /\ Good(s)
  BY LedgerIsGood, GoodTypes DEF Grown
<1>2. \A x \in TokenAccounts : HeldIn(s.amount, x) = HeldIn(amount, x)
  BY <1>1 DEF Grown
<1>3. PurseIn(s.amount) = Purses /\ PotIn(s.amount) = Pots
  BY <1>2, SameHeld, Seen
<1>4. \A x \in TokenAccounts \ X : s.amount[x] = amount[x] /\ s.lam[x] = tokenLamports[x]
  BY <1>1 DEF Grown
<1> QED BY <1>1, <1>3, <1>4

LEMMA ReturnEffect ==
  ASSUME TypeOK, NEW k \in OfferKeys, offer[k].open,
         Returns(k, Ata(k.maker, offer[k].mint_a), Vault(k))
  PROVE  Shut(k, 0) /\ Swap!Refund(k)
<1> DEFINE m == offer[k].mint_a
           v == Ata(k, m)
           w == k.maker
           to == Ata(w, m)
           n == amount[v]
           s == Ledger
           t == Closed(Sent(s, v, to, n), v)
<1>0. /\ m \in Mints /\ w \in Wallets /\ w \in Holders /\ k \notin Wallets
      /\ k \in Holders
  BY OpenTerms, Constants
<1>1. Vault(k) = v /\ VaultAmount(k, Vault(k)) = n
  BY DEF Vault, VaultAmount
<1>2. /\ CanSend(s, v, to, n) /\ CanClose(Sent(s, v, to, n), v) /\ Commit(t)
      /\ offer' = [offer EXCEPT ![k] = NoOffer]
  BY <1>1 DEF Returns, CanReturn
<1>3. to \in TokenAccounts /\ to.owner = w /\ v \in TokenAccounts /\ v.owner = k
  BY <1>0, AddressOf
<1>4. /\ Good(s) /\ PurseIn(s.amount) = Purses /\ PotIn(s.amount) = Pots
      /\ s.amount = amount /\ s.lam = tokenLamports
  BY LedgerIsGood, Seen
<1>5. /\ Good(t) /\ n \in Nat
      /\ SumFunction(t.lam) = SumFunction(s.lam) + (-s.lam[v])
      /\ PurseIn(t.amount) = Swap!Plus(PurseIn(s.amount), w, m, n)
      /\ PotIn(t.amount) = [PotIn(s.amount) EXCEPT ![k][m] = 0]
      /\ \A x \in TokenAccounts :
           x.owner \notin Wallets /\ x # v => t.amount[x] = s.amount[x]
  <2>1. n = s.amount[Ata(k, m)] /\ to.owner \in Wallets
    BY <1>0, <1>3, <1>4
  <2>2. /\ CanSend(s, Ata(k, m), to, n)
        /\ CanClose(Sent(s, Ata(k, m), to, n), Ata(k, m))
    BY <1>2
  <2> HIDE DEF m, w, to, n, s, v, t
  <2>3. LET u == Closed(Sent(s, Ata(k, m), to, n), Ata(k, m))
        IN  /\ Good(u) /\ n \in Nat
            /\ SumFunction(u.lam) = SumFunction(s.lam) + (-s.lam[Ata(k, m)])
            /\ PurseIn(u.amount) = Swap!Plus(PurseIn(s.amount), to.owner, m, n)
            /\ PotIn(u.amount) = [PotIn(s.amount) EXCEPT ![k][m] = 0]
            /\ \A x \in TokenAccounts :
                 x.owner \notin Wallets /\ x # Ata(k, m) =>
                   u.amount[x] = s.amount[x]
    BY <1>0, <1>3, <1>4, <2>1, <2>2, EmptiedEffect
  <2>4. t = Closed(Sent(s, Ata(k, m), to, n), Ata(k, m)) /\ v = Ata(k, m)
    BY DEF t, v
  <2> QED BY <1>3, <2>3, <2>4
<1> HIDE DEF t, s
<1>6. TokensOK' /\ amount' = t.amount /\ tokenLamports' = t.lam
  BY <1>2, <1>5, Committed
<1>7. /\ offer' \in [OfferKeys -> OfferType] /\ ~offer'[k].open
      /\ \A l \in OfferKeys \ {k} : offer'[l] = offer[l]
      /\ TermsSeen' = [TermsSeen EXCEPT ![k] = {}]
  BY <1>2, ShutTerms
<1>8. SumFunction(tokenLamports')
        = SumFunction(tokenLamports) + 0 + (-tokenLamports[v])
  <2>1. SumFunction(tokenLamports) \in Int /\ tokenLamports[v] \in Nat
    BY <1>3, SumOfLamports DEF TypeOK
  <2> QED BY <1>4, <1>5, <1>6, <2>1
<1>9. \A l \in OfferKeys \ {k}, q \in Mints : amount'[Ata(l, q)] = amount[Ata(l, q)]
  <2> SUFFICES ASSUME NEW l \in OfferKeys \ {k}, NEW q \in Mints
               PROVE  amount'[Ata(l, q)] = amount[Ata(l, q)]
    OBVIOUS
  <2>1. /\ Ata(l, q) \in TokenAccounts /\ Ata(l, q).owner = l /\ l \notin Wallets
    BY Constants, AddressOf
  <2> QED BY <1>3, <1>4, <1>5, <1>6, <2>1
<1>10. Shut(k, 0)
  BY <1>1, <1>6, <1>7, <1>8, <1>9 DEF Shut
<1>11. /\ Purses' = Swap!Plus(Purses, w, m, n) /\ Pots' = [Pots EXCEPT ![k][m] = 0]
  BY <1>4, <1>5, <1>6, Seen
<1>12. Pots[k][m] = n
  <2>1. amount \in Amounts /\ PotIn(amount)[k][m] = HeldIn(amount, v)
    BY <1>0, PursesTyped DEF TypeOK, Amounts
  <2>2. n # NoAccount
    BY <1>5 DEF NoAccount
  <2> QED BY <2>1, <2>2, Seen DEF HeldIn
<1>13. Swap!Refund(k)
  <2>1. PICK d \in TermsSeen[k] : d.mint_a = m
    BY OpenTerms
  <2>2. /\ Purses' = Swap!Plus(Purses, k.maker, d.mint_a, Pots[k][d.mint_a])
        /\ Pots' = [Pots EXCEPT ![k][d.mint_a] = 0]
    BY <1>11, <1>12, <2>1
  <2> QED BY <1>7, <2>1, <2>2, RefundOf
<1> QED BY <1>10, <1>13

\* A payment between wallets leaves the accounts of offers alone.
LEMMA SentKeeps ==
  ASSUME NEW s, Good(s), NEW from \in TokenAccounts, NEW to \in TokenAccounts,
         NEW n \in Nat, CanSend(s, from, to, n)
  PROVE  \A x \in TokenAccounts \ {from, to} :
           Sent(s, from, to, n).amount[x] = s.amount[x]
<1> DEFINE a == Credit(s.amount, from, -n)
<1>1. /\ a \in Amounts /\ a[to] # NoAccount /\ a[to] + n \in Nat
      /\ \A x \in TokenAccounts \ {from} : a[x] = s.amount[x]
  BY SentMid
<1>2. Sent(s, from, to, n).amount = Credit(a, to, n)
  BY SentEffect
<1> HIDE DEF a
<1>3. \A x \in TokenAccounts \ {to} : Credit(a, to, n)[x] = a[x]
  BY <1>1, CreditAmount
<1> QED BY <1>1, <1>2, <1>3

LEMMA SwapEffect ==
  ASSUME TypeOK, NEW k \in OfferKeys, offer[k].open, NEW taker \in Wallets,
         NEW from \in TokenAccounts, from.owner = taker, NEW s,
         Grown(Ledger, s, {Ata(taker, offer[k].mint_a), Ata(k.maker, offer[k].mint_b)}),
         Swaps(s, k, from, Ata(k.maker, offer[k].mint_b),
               Ata(taker, offer[k].mint_a), Vault(k))
  PROVE  Shut(k, s.due) /\ Swap!Take(k, taker)
<1> DEFINE m == offer[k].mint_a
           q == offer[k].mint_b
           c == offer[k].wanted
           v == Ata(k, m)
           w == k.maker
           to == Ata(taker, m)
           mb == Ata(w, q)
           n == amount[v]
           p == Sent(s, from, mb, c)
           t == Closed(Sent(p, v, to, n), v)
<1>0. /\ m \in Mints /\ q \in Mints /\ c \in Nat /\ w \in Wallets /\ w \in Holders
      /\ k \notin Wallets /\ k \in Holders /\ taker \in Holders
  BY OpenTerms, Constants
<1>1. Vault(k) = v /\ VaultAmount(k, Vault(k)) = n /\ Price(k) = c
  BY DEF Vault, VaultAmount, Price
<1>2. /\ CanSend(s, from, mb, c) /\ CanSend(p, v, to, n)
      /\ CanClose(Sent(p, v, to, n), v) /\ Commit(t)
      /\ offer' = [offer EXCEPT ![k] = NoOffer]
  BY <1>1 DEF Swaps, CanSwap, Released
<1>3. /\ to \in TokenAccounts /\ to.owner = taker
      /\ mb \in TokenAccounts /\ mb.owner = w /\ mb.mint = q
      /\ v \in TokenAccounts /\ v.owner = k
  BY <1>0, AddressOf
<1>4. /\ Good(s) /\ s.amount \in Amounts
      /\ SumFunction(s.lam) = SumFunction(tokenLamports) + s.due
      /\ PurseIn(s.amount) = Purses /\ PotIn(s.amount) = Pots
      /\ \A x \in TokenAccounts : x.owner \notin Wallets =>
           s.amount[x] = amount[x] /\ s.lam[x] = tokenLamports[x]
  <2> DEFINE X == {to, mb}
  <2>1. Grown(Ledger, s, X) /\ \A x \in X : x.owner \in Wallets
    BY <1>0, <1>3
  <2> HIDE DEF X
  <2> QED BY <2>1, VaultsKept
<1>5. from.mint = q
  BY <1>2, <1>3 DEF CanSend
<1> HIDE DEF to, mb, n, c, w, q, m
<1>6. Good(p) /\ p.lam = s.lam /\ \A x \in TokenAccounts \ {from, mb} : p.amount[x] = s.amount[x]
  BY <1>0, <1>2, <1>3, <1>4, SentEffect, SentKeeps
<1>7. /\ PurseIn(p.amount) = Swap!Plus(Swap!Plus(Purses, taker, q, -c), w, q, c)
      /\ PotIn(p.amount) = Pots
  BY <1>0, <1>2, <1>3, <1>4, <1>5, SentHeld
<1> HIDE DEF p
<1>8. n = p.amount[v] /\ p.lam[v] = tokenLamports[v]
  BY <1>0, <1>3, <1>4, <1>6 DEF n
<1>9. /\ Good(t) /\ n \in Nat
      /\ SumFunction(t.lam) = SumFunction(p.lam) + (-p.lam[v])
      /\ PurseIn(t.amount) = Swap!Plus(PurseIn(p.amount), taker, m, n)
      /\ PotIn(t.amount) = [PotIn(p.amount) EXCEPT ![k][m] = 0]
      /\ \A x \in TokenAccounts :
           x.owner \notin Wallets /\ x # v => t.amount[x] = p.amount[x]
  <2>1. n = p.amount[Ata(k, m)] /\ to.owner \in Wallets
    BY <1>3, <1>8
  <2>2. /\ CanSend(p, Ata(k, m), to, n)
        /\ CanClose(Sent(p, Ata(k, m), to, n), Ata(k, m))
    BY <1>2
  <2>0. k \in OfferKeys /\ m \in Mints /\ to \in TokenAccounts /\ Good(p)
    BY <1>0, <1>3, <1>6
  <2> HIDE DEF v, t
  <2>3. LET u == Closed(Sent(p, Ata(k, m), to, n), Ata(k, m))
        IN  /\ Good(u) /\ n \in Nat
            /\ SumFunction(u.lam) = SumFunction(p.lam) + (-p.lam[Ata(k, m)])
            /\ PurseIn(u.amount) = Swap!Plus(PurseIn(p.amount), to.owner, m, n)
            /\ PotIn(u.amount) = [PotIn(p.amount) EXCEPT ![k][m] = 0]
            /\ \A x \in TokenAccounts :
                 x.owner \notin Wallets /\ x # Ata(k, m) =>
                   u.amount[x] = p.amount[x]
    BY <2>0, <2>1, <2>2, EmptiedEffect
  <2>4. t = Closed(Sent(p, Ata(k, m), to, n), Ata(k, m)) /\ v = Ata(k, m)
    BY DEF t, v
  <2> QED BY <1>3, <2>3, <2>4
<1> HIDE DEF t
<1>10. TokensOK' /\ amount' = t.amount /\ tokenLamports' = t.lam
  BY <1>2, <1>9, Committed
<1>11. /\ offer' \in [OfferKeys -> OfferType] /\ ~offer'[k].open
       /\ \A l \in OfferKeys \ {k} : offer'[l] = offer[l]
       /\ TermsSeen' = [TermsSeen EXCEPT ![k] = {}]
  BY <1>2, ShutTerms
<1>12. SumFunction(tokenLamports')
         = SumFunction(tokenLamports) + s.due + (-tokenLamports[v])
  BY <1>4, <1>6, <1>8, <1>9, <1>10
<1>13. \A l \in OfferKeys \ {k}, r \in Mints : amount'[Ata(l, r)] = amount[Ata(l, r)]
  <2> SUFFICES ASSUME NEW l \in OfferKeys \ {k}, NEW r \in Mints
               PROVE  amount'[Ata(l, r)] = amount[Ata(l, r)]
    OBVIOUS
  <2>1. /\ Ata(l, r) \in TokenAccounts /\ Ata(l, r).owner = l /\ l \notin Wallets
    BY Constants, AddressOf
  <2>2. p.amount[Ata(l, r)] = amount[Ata(l, r)]
    BY <1>0, <1>3, <1>4, <1>6, <2>1
  <2> QED BY <1>3, <1>9, <1>10, <2>1, <2>2
<1>14. Shut(k, s.due)
  BY <1>1, <1>10, <1>11, <1>12, <1>13 DEF Shut
<1>15. /\ Purses' = Swap!Plus(Swap!Plus(Swap!Plus(Purses, taker, q, -c), w, q, c),
                              taker, m, n)
       /\ Pots' = [Pots EXCEPT ![k][m] = 0]
  BY <1>7, <1>9, <1>10, Seen
<1>16. Pots[k][m] = n
  <2>1. amount \in Amounts /\ PotIn(amount)[k][m] = HeldIn(amount, v)
    BY <1>0, PursesTyped DEF TypeOK, Amounts
  <2>2. n # NoAccount /\ n = amount[v]
    BY <1>9 DEF NoAccount, n
  <2> QED BY <2>1, <2>2, Seen DEF HeldIn
<1>17. Purses[taker][q] >= c
  <2>1. s.amount[from] \in Nat /\ s.amount[from] >= c /\ s.amount[from] # NoAccount
    BY <1>2, <1>4 DEF CanSend, Exists, Amounts
  <2>2. from = Ata(taker, q) \/ from = Other(taker, q)
    BY <1>5, Addresses
  <2>3. PurseIn(s.amount)[taker][q] \in Nat /\ PurseIn(s.amount)[taker][q] >= HeldIn(s.amount, from)
    BY <1>0, <1>4, <2>2, PursesTyped
  <2>4. HeldIn(s.amount, from) = s.amount[from]
    BY <2>1 DEF HeldIn
  <2> QED BY <1>0, <1>4, <2>1, <2>3, <2>4
<1>18. Swap!Take(k, taker)
  <2>1. PICK d \in TermsSeen[k] : d.mint_a = m /\ d.mint_b = q /\ d.wanted = c
    BY OpenTerms DEF m, q, c
  <2>2. /\ Purses[taker][d.mint_b] >= d.wanted
        /\ Purses' = Swap!Plus(
                       Swap!Plus(Swap!Plus(Purses, taker, d.mint_b, -d.wanted),
                                 k.maker, d.mint_b, d.wanted),
                       taker, d.mint_a, Pots[k][d.mint_a])
        /\ Pots' = [Pots EXCEPT ![k][d.mint_a] = 0]
    BY <1>15, <1>16, <1>17, <2>1 DEF w
  <2> QED BY <1>11, <2>1, <2>2, TakeOf
<1> QED BY <1>14, <1>18

(***************************************************************************)
(* Lamports.                                                               *)
(***************************************************************************)

LEMMA CreditNat ==
  ASSUME NEW f \in [Holders -> Nat], NEW h \in Holders, NEW n \in Int, f[h] + n >= 0
  PROVE  /\ Credit(f, h, n) \in [Holders -> Nat]
         /\ Credit(f, h, n)[h] = f[h] + n
         /\ \A x \in Holders \ {h} : Credit(f, h, n)[x] = f[x]
         /\ SumFunction(f) \in Int
         /\ SumFunction(Credit(f, h, n)) = SumFunction(f) + n
<1> DEFINE g == Credit(f, h, n)
<1>1. f \in [Holders -> Int]
  OBVIOUS
<1>2. /\ g \in [Holders -> Int] /\ g[h] = f[h] + n
      /\ \A x \in Holders \ {h} : g[x] = f[x]
      /\ SumFunction(f) \in Int /\ SumFunction(g) = SumFunction(f) + n
  BY <1>1, AddressesFinite, CreditSum
<1> HIDE DEF g
<1>3. \A x \in Holders : g[x] \in Nat
  BY <1>2
<1>4. g \in [Holders -> Nat]
  BY <1>2, <1>3
<1> QED BY <1>2, <1>4 DEF g

\* The rents of make_offer: the payer's x covers n for the offer.
LEMMA PaidIn ==
  ASSUME NEW f \in [Holders -> Nat], NEW a \in Wallets, NEW k \in OfferKeys,
         NEW x \in Nat, NEW n \in Nat, f[a] >= x
  PROVE  LET g == Credit(Credit(f, a, -x), k, n)
         IN  /\ g \in [Holders -> Nat]
             /\ SumFunction(f) \in Int
             /\ SumFunction(g) = SumFunction(f) + (n - x)
             /\ g[k] = f[k] + n
             /\ \A l \in OfferKeys \ {k} : g[l] = f[l]
<1> DEFINE d == Credit(f, a, -x)
           g == Credit(d, k, n)
<1>0. a \in Holders /\ k \in Holders /\ a # k
  BY Constants
<1>1. -x \in Int /\ f[a] + (-x) >= 0
  BY <1>0
<1>2. /\ d \in [Holders -> Nat] /\ \A h \in Holders \ {a} : d[h] = f[h]
      /\ SumFunction(f) \in Int /\ SumFunction(d) = SumFunction(f) + (-x)
  BY <1>0, <1>1, CreditNat
<1> HIDE DEF d
<1>3. n \in Int /\ d[k] + n >= 0
  BY <1>0, <1>2
<1>4. /\ g \in [Holders -> Nat] /\ g[k] = d[k] + n
      /\ \A h \in Holders \ {k} : g[h] = d[h]
      /\ SumFunction(g) = SumFunction(d) + n
  BY <1>0, <1>2, <1>3, CreditNat
<1> HIDE DEF g
<1>5. \A l \in OfferKeys \ {k} : g[l] = f[l]
  BY <1>0, <1>2, <1>4, Constants
<1>6. SumFunction(g) = SumFunction(f) + (n - x)
  BY <1>2, <1>4
<1> QED BY <1>0, <1>2, <1>4, <1>5, <1>6 DEF g, d

\* Closing offer k: a is settled x, b gets n, and the offer is left with nothing.
LEMMA PaidOut ==
  ASSUME NEW f \in [Holders -> Nat], NEW a \in Wallets, NEW b \in Wallets,
         NEW k \in OfferKeys, NEW x \in Int, NEW n \in Nat, f[a] + x >= 0
  PROVE  LET g == Credit(Credit(Credit(f, a, x), b, n), k, -f[k])
         IN  /\ g \in [Holders -> Nat]
             /\ SumFunction(f) \in Int
             /\ SumFunction(g) = SumFunction(f) + ((x + n) - f[k])
             /\ \A l \in OfferKeys \ {k} : g[l] = f[l]
<1> DEFINE c == Credit(f, a, x)
           d == Credit(c, b, n)
           g == Credit(d, k, -f[k])
<1>0. a \in Holders /\ b \in Holders /\ k \in Holders /\ a # k /\ b # k
  BY Constants
<1>1. /\ c \in [Holders -> Nat] /\ \A h \in Holders \ {a} : c[h] = f[h]
      /\ SumFunction(f) \in Int /\ SumFunction(c) = SumFunction(f) + x
  BY <1>0, CreditNat
<1> HIDE DEF c
<1>2. n \in Int /\ c[b] + n >= 0
  BY <1>0, <1>1
<1>3. /\ d \in [Holders -> Nat] /\ \A h \in Holders \ {b} : d[h] = c[h]
      /\ SumFunction(d) = SumFunction(c) + n
  BY <1>0, <1>1, <1>2, CreditNat
<1> HIDE DEF d
<1>4. -f[k] \in Int /\ d[k] + (-f[k]) >= 0 /\ f[k] \in Nat
  BY <1>0, <1>1, <1>3
<1>5. /\ g \in [Holders -> Nat] /\ \A h \in Holders \ {k} : g[h] = d[h]
      /\ SumFunction(g) = SumFunction(d) + (-f[k])
  BY <1>0, <1>3, <1>4, CreditNat
<1> HIDE DEF g
<1>6. \A l \in OfferKeys \ {k} : g[l] = f[l]
  BY <1>0, <1>1, <1>3, <1>5, Constants
<1>7. SumFunction(g) = SumFunction(f) + ((x + n) - f[k])
  BY <1>1, <1>3, <1>4, <1>5
<1> QED BY <1>1, <1>5, <1>6, <1>7 DEF g, d, c

(***************************************************************************)
(* The invariant: the accounts add up, for one of the programs.            *)
(***************************************************************************)

Total == SumFunction(Endowment[program])
           + TokenRent * Cardinality({x \in TokenAccounts : Holding[program][x] # NoAccount})

EscrowInv == program \in Programs /\ AccountsAddUp

LEMMA TypeParts ==
  /\ TypeOK <=>
       /\ offer \in [OfferKeys -> OfferType]
       /\ lamports \in [Holders -> Nat]
       /\ TokensOK
       /\ made \in [OfferKeys -> [offered: Nat, funder: Wallets]]
       /\ \A k \in OfferKeys : offer[k].open => lamports[k] >= OfferRent
  /\ TypeOK' <=>
       /\ offer' \in [OfferKeys -> OfferType]
       /\ lamports' \in [Holders -> Nat]
       /\ TokensOK'
       /\ made' \in [OfferKeys -> [offered: Nat, funder: Wallets]]
       /\ \A k \in OfferKeys : offer'[k].open => lamports'[k] >= OfferRent
BY DEF TypeOK, OfferType, TokensOK, Amounts, Exists, Ledger

LEMMA InvParts ==
  /\ EscrowInv <=>
       /\ program \in Programs /\ TypeOK
       /\ \A k \in OfferKeys : offer[k].open =>
            amount[Ata(k, offer[k].mint_a)] >= made[k].offered
       /\ SumFunction(lamports) + SumFunction(tokenLamports) = Total
  /\ EscrowInv' <=>
       /\ program' \in Programs /\ TypeOK'
       /\ \A k \in OfferKeys : offer'[k].open =>
            amount'[Ata(k, offer'[k].mint_a)] >= made'[k].offered
       /\ SumFunction(lamports') + SumFunction(tokenLamports') = Total'
  /\ UNCHANGED program => Total' = Total
<1>1. UNCHANGED program => Total' = Total
  BY DEF Total
<1>2. LamportsConserved <=> SumFunction(lamports) + SumFunction(tokenLamports) = Total
  BY DEF LamportsConserved, Total
<1>3. LamportsConserved' <=>
        SumFunction(lamports') + SumFunction(tokenLamports') = Total'
  BY DEF LamportsConserved, Total
<1> QED BY <1>1, <1>2, <1>3 DEF EscrowInv, AccountsAddUp, OffersBacked, Vault

\* Sums of lamports are numbers.
LEMMA SumsTyped ==
  ASSUME TypeOK
  PROVE  /\ SumFunction(lamports) \in Int /\ SumFunction(tokenLamports) \in Int
         /\ \A x \in TokenAccounts : tokenLamports[x] \in Nat
<1>1. /\ lamports \in [Holders -> Nat] /\ lamports \in [Holders -> Int]
      /\ tokenLamports \in [TokenAccounts -> Nat]
  BY DEF TypeOK
<1> QED BY <1>1, SumOfLamports, AddressesFinite, SumOfFunction

LEMMA OpenedKeeps ==
  ASSUME EscrowInv, NEW k \in OfferKeys, NEW o \in Terms[program],
         NEW due \in Nat, Opened(k, o, due), NEW payer \in Wallets, NEW rent \in Nat,
         lamports[payer] >= rent + due, lamports[k] + rent >= OfferRent,
         lamports' = Credit(Credit(lamports, payer, -(rent + due)), k, rent),
         made' = [made EXCEPT ![k] = [offered |-> o.offered, funder |-> payer]],
         UNCHANGED program
  PROVE  EscrowInv'
<1>0. /\ TypeOK /\ program \in Programs /\ Total' = Total
      /\ SumFunction(lamports) + SumFunction(tokenLamports) = Total
      /\ \A l \in OfferKeys : offer[l].open =>
            amount[Ata(l, offer[l].mint_a)] >= made[l].offered
      /\ o.offered \in Nat
  BY InvParts, TermsTyped
<1>1. /\ lamports' \in [Holders -> Nat]
      /\ SumFunction(lamports') = SumFunction(lamports) + (rent - (rent + due))
      /\ lamports'[k] = lamports[k] + rent
      /\ \A l \in OfferKeys \ {k} : lamports'[l] = lamports[l]
  <2>1. lamports \in [Holders -> Nat] /\ rent + due \in Nat
    BY <1>0, TypeParts
  <2> QED BY <2>1, PaidIn
<1>2. /\ made' \in [OfferKeys -> [offered: Nat, funder: Wallets]]
      /\ made'[k].offered = o.offered
      /\ \A l \in OfferKeys \ {k} : made'[l] = made[l]
  BY <1>0 DEF TypeOK
<1>3. TypeOK'
  BY <1>0, <1>1, <1>2, TypeParts DEF Opened
<1>4. ASSUME NEW l \in OfferKeys, offer'[l].open
      PROVE  amount'[Ata(l, offer'[l].mint_a)] >= made'[l].offered
  <2>1. CASE l = k
    BY <1>2, <2>1 DEF Opened
  <2>2. CASE l # k
    <3>1. offer'[l] = offer[l] /\ made'[l] = made[l] /\ offer[l].mint_a \in Mints
      BY <1>0, <1>2, <1>4, <2>2, OpenTerms DEF Opened
    <3>2. amount'[Ata(l, offer[l].mint_a)] = amount[Ata(l, offer[l].mint_a)]
      BY <2>2, <3>1 DEF Opened
    <3> QED BY <1>0, <1>4, <3>1, <3>2
  <2> QED BY <2>1, <2>2
<1>5. SumFunction(lamports') + SumFunction(tokenLamports') = Total'
  <2>1. SumFunction(tokenLamports') = SumFunction(tokenLamports) + due
    BY DEF Opened
  <2> QED BY <1>0, <1>1, <2>1, SumsTyped
<1> QED BY <1>0, <1>3, <1>4, <1>5, InvParts

LEMMA ShutKeeps ==
  ASSUME EscrowInv, NEW k \in OfferKeys, offer[k].open, NEW due \in Nat, Shut(k, due),
         NEW a \in Wallets, NEW b \in Wallets, NEW x \in Int, NEW n \in Nat,
         lamports[a] + x >= 0,
         x + n = (tokenLamports[Vault(k)] + lamports[k]) - due,
         lamports' = Credit(Credit(Credit(lamports, a, x), b, n), k, -lamports[k]),
         UNCHANGED <<program, made>>
  PROVE  EscrowInv'
<1>0. /\ TypeOK /\ program \in Programs /\ Total' = Total
      /\ SumFunction(lamports) + SumFunction(tokenLamports) = Total
      /\ \A l \in OfferKeys : offer[l].open =>
            amount[Ata(l, offer[l].mint_a)] >= made[l].offered
  BY InvParts
<1>1. /\ lamports' \in [Holders -> Nat]
      /\ SumFunction(lamports') = SumFunction(lamports) + ((x + n) - lamports[k])
      /\ \A l \in OfferKeys \ {k} : lamports'[l] = lamports[l]
  <2>1. lamports \in [Holders -> Nat]
    BY <1>0, TypeParts
  <2> QED BY <2>1, PaidOut
<1>2. made' \in [OfferKeys -> [offered: Nat, funder: Wallets]]
  BY <1>0 DEF TypeOK
<1>3. TypeOK'
  BY <1>0, <1>1, <1>2, TypeParts DEF Shut
<1>4. ASSUME NEW l \in OfferKeys, offer'[l].open
      PROVE  amount'[Ata(l, offer'[l].mint_a)] >= made'[l].offered
  <2>1. l # k
    BY <1>4 DEF Shut
  <2>2. offer'[l] = offer[l] /\ made'[l] = made[l] /\ offer[l].mint_a \in Mints
    BY <1>0, <1>4, <2>1, OpenTerms DEF Shut
  <2>3. amount'[Ata(l, offer[l].mint_a)] = amount[Ata(l, offer[l].mint_a)]
    BY <2>1, <2>2 DEF Shut
  <2> QED BY <1>0, <1>4, <2>2, <2>3
<1>5. SumFunction(lamports') + SumFunction(tokenLamports') = Total'
  <2>1. SumFunction(tokenLamports')
          = SumFunction(tokenLamports) + due + (-tokenLamports[Vault(k)])
    BY DEF Shut
  <2>2. tokenLamports[Vault(k)] \in Nat /\ lamports[k] \in Nat
    <3>1. Vault(k) \in TokenAccounts /\ k \in Holders
      BY <1>0, OpenTerms, Constants, AddressOf DEF Vault
    <3> QED BY <1>0, <3>1 DEF TypeOK
  <2> HIDE DEF Vault
  <2> QED BY <1>0, <1>1, <2>1, <2>2, SumsTyped
<1> QED BY <1>0, <1>3, <1>4, <1>5, InvParts

(***************************************************************************)
(* The instructions.                                                       *)
(***************************************************************************)

LEMMA NextOf ==
  /\ \A k \in OfferKeys : Swap!Open(k) => Swap!Next
  /\ \A k \in OfferKeys : Swap!Refund(k) => Swap!Next
  /\ \A k \in OfferKeys, w \in Wallets : Swap!Take(k, w) => Swap!Next
  /\ \A w \in Wallets, m \in Mints : Swap!Give(w, m) => Swap!Next
BY DEF Swap!Next

\* A step of an instruction keeps the invariant and is one of the swap's.
Kept == EscrowInv' /\ [Swap!Next]_(Swap!vars)

LEMMA KeyOf ==
  ASSUME NEW maker \in Makers, NEW id \in Ids, NEW bump \in Bumps
  PROVE  /\ [maker |-> maker, id |-> id, bump |-> bump] \in OfferKeys
         /\ [maker |-> maker, id |-> id, bump |-> bump].maker = maker
         /\ maker \in Wallets
BY Constants DEF OfferKeys

LEMMA InvUse ==
  EscrowInv => /\ program \in Programs /\ TypeOK /\ Good(Ledger)
               /\ lamports \in [Holders -> Nat]
               /\ \A w \in Wallets : lamports[w] \in Nat
               /\ \A k \in OfferKeys : lamports[k] \in Nat
               /\ \A x \in TokenAccounts : tokenLamports[x] \in Nat
BY LedgerIsGood, SumsTyped, TypeParts, Constants DEF EscrowInv, AccountsAddUp

\* make_offer: what the three have in common.
LEMMA MakeKeeps ==
  ASSUME EscrowInv, NEW k \in OfferKeys, NEW o \in Terms[program],
         NEW from \in TokenAccounts, from.owner = k.maker,
         NEW s, Grown(Ledger, s, {Ata(k, o.mint_a)}), ~offer[k].open,
         Deposits(s, k, o, from, Ata(k, o.mint_a)),
         NEW payer \in Wallets, NEW rent \in Nat,
         lamports[payer] >= rent + s.due, lamports[k] + rent >= OfferRent,
         lamports' = Credit(Credit(lamports, payer, -(rent + s.due)), k, rent),
         made' = [made EXCEPT ![k] = [offered |-> o.offered, funder |-> payer]],
         UNCHANGED program
  PROVE  Kept
<1>1. s.due \in Nat
  BY GoodTypes DEF Grown
<1>2. Opened(k, o, s.due)
  BY InvUse, DepositEffect
<1>3. EscrowInv'
  BY <1>1, <1>2, OpenedKeeps
<1>4. Swap!Next
  BY <1>2, NextOf DEF Opened
<1> QED BY <1>3, <1>4 DEF Kept

LEMMA AnchorMakeKeeps ==
  ASSUME EscrowInv, NEW maker \in Makers, NEW id \in Ids, NEW o \in Terms[program],
         NEW v \in TokenAccounts, AnchorMakeOffer(maker, id, o, v)
  PROVE  Kept
<1> DEFINE k == [maker |-> maker, id |-> id, bump |-> CANONICAL]
           s == Created(Ledger, v)
           rent == TopUp(lamports[k], OfferRent)
           from == Ata(maker, o.mint_a)
<1>1. k \in OfferKeys /\ k.maker = maker /\ maker \in Wallets
  BY KeyOf, EscrowAssumption
<1>2. /\ ~offer[k].open /\ v = Ata(k, o.mint_a) /\ ~Exists(Ledger, v)
      /\ lamports[maker] >= rent + s.due
      /\ Deposits(s, k, o, from, v)
      /\ lamports' = Credit(Credit(lamports, maker, -(rent + s.due)), k, rent)
      /\ made' = [made EXCEPT ![k] = [offered |-> o.offered, funder |-> maker]]
      /\ UNCHANGED program
  BY DEF AnchorMakeOffer, IsVault
<1> HIDE DEF k, s
<1>3. Grown(Ledger, s, {v})
  BY <1>2, InvUse, CreatedGrows DEF s
<1>4. rent \in Nat /\ lamports[k] + rent >= OfferRent
  BY <1>1, InvUse, Constants DEF TopUp
<1>5. from \in TokenAccounts /\ from.owner = k.maker
  BY <1>1, InvUse, TermsTyped, Constants, AddressOf
<1> HIDE DEF rent, from
<1> QED BY <1>1, <1>2, <1>3, <1>4, <1>5, MakeKeeps

LEMMA NativeMakeKeeps ==
  ASSUME EscrowInv, NEW maker \in Makers, NEW payer \in Wallets, NEW id \in Ids,
         NEW o \in Terms[program], NEW from \in AccountsOf(maker),
         NEW v \in TokenAccounts, NativeMakeOffer(maker, payer, id, o, from, v)
  PROVE  Kept
<1> DEFINE k == [maker |-> maker, id |-> id, bump |-> CANONICAL]
           s == Created(Ledger, v)
<1>1. k \in OfferKeys /\ k.maker = maker
  BY KeyOf, EscrowAssumption
<1>2. /\ ~offer[k].open /\ v = Ata(k, o.mint_a) /\ ~Exists(Ledger, v)
      /\ lamports[k] = 0 /\ lamports[payer] >= OfferRent + s.due
      /\ Deposits(s, k, o, from, v)
      /\ lamports' = Credit(Credit(lamports, payer, -(OfferRent + s.due)), k, OfferRent)
      /\ made' = [made EXCEPT ![k] = [offered |-> o.offered, funder |-> payer]]
      /\ UNCHANGED program
  BY DEF NativeMakeOffer, IsVault
<1> HIDE DEF k, s
<1>3. Grown(Ledger, s, {v})
  BY <1>2, InvUse, CreatedGrows DEF s
<1>4. OfferRent \in Nat /\ lamports[k] + OfferRent >= OfferRent
  BY <1>2, Constants
<1>5. from \in TokenAccounts /\ from.owner = k.maker
  BY <1>1 DEF AccountsOf
<1> QED BY <1>1, <1>2, <1>3, <1>4, <1>5, MakeKeeps

LEMMA PinocchioMakeKeeps ==
  ASSUME EscrowInv, NEW maker \in Makers, NEW payer \in Wallets, NEW id \in Ids,
         NEW bump \in Bumps, NEW o \in Terms[program], NEW from \in AccountsOf(maker),
         NEW v \in TokenAccounts, PinocchioMakeOffer(maker, payer, id, bump, o, from, v)
  PROVE  Kept
<1> DEFINE k == [maker |-> maker, id |-> id, bump |-> bump]
           s == Ensured(Ledger, v)
<1>1. k \in OfferKeys /\ k.maker = maker
  BY KeyOf
<1>2. /\ ~offer[k].open /\ v = Ata(k, o.mint_a)
      /\ lamports[k] = 0 /\ lamports[payer] >= OfferRent + s.due
      /\ Deposits(s, k, o, from, v)
      /\ lamports' = Credit(Credit(lamports, payer, -(OfferRent + s.due)), k, OfferRent)
      /\ made' = [made EXCEPT ![k] = [offered |-> o.offered, funder |-> payer]]
      /\ UNCHANGED program
  BY DEF PinocchioMakeOffer, IsVault
<1> HIDE DEF k, s
<1>3. Grown(Ledger, s, {v})
  BY InvUse, EnsuredGrows DEF s
<1>4. OfferRent \in Nat /\ lamports[k] + OfferRent >= OfferRent
  BY <1>2, Constants
<1>5. from \in TokenAccounts /\ from.owner = k.maker
  BY <1>1 DEF AccountsOf
<1> QED BY <1>1, <1>2, <1>3, <1>4, <1>5, MakeKeeps

\* take_offer: what the three have in common; payer settles x and b gets n.
LEMMA TakeKeeps ==
  ASSUME EscrowInv, NEW k \in OfferKeys, offer[k].open, NEW taker \in Wallets,
         NEW from \in TokenAccounts, from.owner = taker, NEW s,
         Grown(Ledger, s, {Ata(taker, offer[k].mint_a), Ata(k.maker, offer[k].mint_b)}),
         Swaps(s, k, from, Ata(k.maker, offer[k].mint_b),
               Ata(taker, offer[k].mint_a), Vault(k)),
         NEW a \in Wallets, NEW b \in Wallets, NEW x \in Int, NEW n \in Nat,
         lamports[a] + x >= 0,
         x + n = (tokenLamports[Vault(k)] + lamports[k]) - s.due,
         lamports' = Credit(Credit(Credit(lamports, a, x), b, n), k, -lamports[k]),
         UNCHANGED <<program, made>>
  PROVE  Kept
<1>1. s.due \in Nat
  BY GoodTypes DEF Grown
<1>2. Shut(k, s.due) /\ Swap!Take(k, taker)
  BY InvUse, SwapEffect
<1>3. EscrowInv'
  BY <1>1, <1>2, ShutKeeps
<1>4. Swap!Next
  BY <1>2, NextOf
<1> QED BY <1>3, <1>4 DEF Kept

LEMMA EnsuredTwice ==
  ASSUME NEW s, Good(s), NEW x \in TokenAccounts, NEW y \in TokenAccounts
  PROVE  /\ Grown(s, Ensured(Ensured(s, x), y), {x, y})
         /\ Grown(s, CreatedIfEmpty(CreatedIfEmpty(s, x), y), {x, y})
<1> DEFINE t == Ensured(s, x)
           u == CreatedIfEmpty(s, x)
<1>1. Grown(s, t, {x}) /\ Grown(s, u, {x})
  BY EnsuredGrows
<1>2. Good(t) /\ Good(u)
  BY <1>1 DEF Grown
<1> HIDE DEF t, u
<1>3. Grown(t, Ensured(t, y), {y}) /\ Grown(u, CreatedIfEmpty(u, y), {y})
  BY <1>2, EnsuredGrows
<1>4. Grown(s, Ensured(t, y), {x, y})
  BY <1>1, <1>2, <1>3, GrowsTwice
<1>5. Grown(s, CreatedIfEmpty(u, y), {x, y})
  BY <1>1, <1>2, <1>3, GrowsTwice
<1> QED BY <1>4, <1>5 DEF t, u

\* The token accounts of a swap, and what the open offer holds.
LEMMA SwapAccounts ==
  ASSUME EscrowInv, NEW k \in OfferKeys, offer[k].open, NEW taker \in Wallets
  PROVE  /\ Ata(taker, offer[k].mint_a) \in TokenAccounts
         /\ Ata(taker, offer[k].mint_b) \in TokenAccounts
         /\ Ata(taker, offer[k].mint_b).owner = taker
         /\ Ata(k.maker, offer[k].mint_b) \in TokenAccounts
         /\ Vault(k) \in TokenAccounts /\ tokenLamports[Vault(k)] \in Nat
         /\ lamports[k] \in Nat /\ lamports[taker] \in Nat /\ k.maker \in Wallets
         /\ Good(Ledger)
<1>1. /\ offer[k].mint_a \in Mints /\ offer[k].mint_b \in Mints
      /\ k.maker \in Holders /\ taker \in Holders /\ k \in Holders /\ k.maker \in Wallets
  BY InvUse, OpenTerms, Constants
<1> QED BY <1>1, InvUse, AddressOf DEF Vault

LEMMA AnchorTakeKeeps ==
  ASSUME EscrowInv, NEW taker \in Wallets, NEW k \in OfferKeys,
         NEW v \in TokenAccounts, AnchorTakeOffer(taker, k, v)
  PROVE  Kept
<1> DEFINE to == Ata(taker, offer[k].mint_a)
           from == Ata(taker, offer[k].mint_b)
           mb == Ata(k.maker, offer[k].mint_b)
           s == Ensured(Ensured(Ledger, to), mb)
           n == tokenLamports[Vault(k)] + lamports[k]
<1>1. /\ offer[k].open /\ v = Vault(k) /\ lamports[taker] >= s.due
      /\ Swaps(s, k, from, mb, to, Vault(k))
      /\ lamports' = Credit(Credit(Credit(lamports, taker, -s.due), k.maker, n),
                            k, -lamports[k])
      /\ UNCHANGED <<program, made>>
  BY DEF AnchorTakeOffer, AnchorCanTake, IsVault, Vault, OfferLamports
<1>2. Grown(Ledger, s, {to, mb})
  BY <1>1, SwapAccounts, EnsuredTwice
<1> HIDE DEF s
<1>3. s.due \in Nat
  BY <1>2, GoodTypes DEF Grown
<1>4. /\ n \in Nat /\ -s.due \in Int /\ lamports[taker] + (-s.due) >= 0
      /\ -s.due + n = (tokenLamports[Vault(k)] + lamports[k]) - s.due
  BY <1>1, <1>3, SwapAccounts
<1>5. from \in TokenAccounts /\ from.owner = taker /\ k.maker \in Wallets
  BY <1>1, SwapAccounts
<1> HIDE DEF n, from
<1> QED BY <1>1, <1>2, <1>4, <1>5, TakeKeeps

LEMMA NativeTakeKeeps ==
  ASSUME EscrowInv, NEW taker \in Wallets, NEW payer \in Wallets, NEW k \in OfferKeys,
         NEW from \in AccountsOf(taker), NEW v \in TokenAccounts,
         NativeTakeOffer(taker, payer, k, from, v)
  PROVE  Kept
<1> DEFINE to == Ata(taker, offer[k].mint_a)
           mb == Ata(k.maker, offer[k].mint_b)
           s == CreatedIfEmpty(CreatedIfEmpty(Ledger, to), mb)
           x == lamports[k] - s.due
           n == tokenLamports[Vault(k)]
<1>1. /\ offer[k].open /\ v = Vault(k) /\ lamports[payer] >= s.due
      /\ Swaps(s, k, from, mb, to, Vault(k))
      /\ lamports' = Credit(Credit(Credit(lamports, payer, x), taker, n),
                            k, -lamports[k])
      /\ UNCHANGED <<program, made>>
  BY DEF NativeTakeOffer, NativeCanTake, IsVault, Vault, OfferLamports
<1>2. Grown(Ledger, s, {to, mb})
  BY <1>1, SwapAccounts, EnsuredTwice
<1> HIDE DEF s
<1>3. s.due \in Nat
  BY <1>2, GoodTypes DEF Grown
<1>4. /\ n \in Nat /\ x \in Int /\ lamports[payer] + x >= 0
      /\ x + n = (tokenLamports[Vault(k)] + lamports[k]) - s.due
  BY <1>1, <1>3, SwapAccounts
<1>5. from \in TokenAccounts /\ from.owner = taker
  BY DEF AccountsOf
<1> HIDE DEF n, x
<1> QED BY <1>1, <1>2, <1>4, <1>5, TakeKeeps

LEMMA PinocchioTakeKeeps ==
  ASSUME EscrowInv, NEW taker \in Wallets, NEW payer \in Wallets, NEW k \in OfferKeys,
         NEW from \in AccountsOf(taker), NEW v \in TokenAccounts,
         PinocchioTakeOffer(taker, payer, k, from, v)
  PROVE  Kept
<1> DEFINE to == Ata(taker, offer[k].mint_a)
           mb == Ata(k.maker, offer[k].mint_b)
           s == Ensured(Ensured(Ledger, to), mb)
           x == lamports[k] - s.due
           n == tokenLamports[Vault(k)]
<1>1. /\ offer[k].open /\ v = Vault(k) /\ lamports[payer] >= s.due
      /\ Swaps(s, k, from, mb, to, Vault(k))
      /\ lamports' = Credit(Credit(Credit(lamports, payer, x), taker, n),
                            k, -lamports[k])
      /\ UNCHANGED <<program, made>>
  BY DEF PinocchioTakeOffer, PinocchioCanTake, IsVault, Vault, OfferLamports
<1>2. Grown(Ledger, s, {to, mb})
  BY <1>1, SwapAccounts, EnsuredTwice
<1> HIDE DEF s
<1>3. s.due \in Nat
  BY <1>2, GoodTypes DEF Grown
<1>4. /\ n \in Nat /\ x \in Int /\ lamports[payer] + x >= 0
      /\ x + n = (tokenLamports[Vault(k)] + lamports[k]) - s.due
  BY <1>1, <1>3, SwapAccounts
<1>5. from \in TokenAccounts /\ from.owner = taker
  BY DEF AccountsOf
<1> HIDE DEF n, x
<1> QED BY <1>1, <1>2, <1>4, <1>5, TakeKeeps

\* refund_offer, the same in all three.
LEMMA RefundKeeps ==
  ASSUME EscrowInv, NEW k \in OfferKeys, offer[k].open,
         Returns(k, Ata(k.maker, offer[k].mint_a), Vault(k)),
         lamports' = Credit(Credit(lamports, k.maker,
                                   tokenLamports[Vault(k)] + OfferLamports(k)),
                            k, -lamports[k]),
         UNCHANGED <<program, made>>
  PROVE  Kept
<1> DEFINE n == tokenLamports[Vault(k)] + lamports[k]
           w == k.maker
<1>1. /\ n \in Nat /\ w \in Wallets /\ lamports[w] \in Nat
      /\ 0 + n = (tokenLamports[Vault(k)] + lamports[k]) - 0
      /\ lamports[w] + 0 >= 0
  BY InvUse, SwapAccounts, Constants
<1>2. Shut(k, 0) /\ Swap!Refund(k)
  BY InvUse, ReturnEffect
<1>3. Credit(lamports, w, 0) = lamports
  <2>1. lamports \in [Holders -> Nat]
    BY InvUse
  <2> QED BY <1>1, <2>1 DEF Credit
<1>4. lamports' = Credit(Credit(Credit(lamports, w, 0), w, n), k, -lamports[k])
  BY <1>3 DEF OfferLamports
<1> HIDE DEF n
<1>5. EscrowInv'
  BY <1>1, <1>2, <1>4, ShutKeeps
<1>6. Swap!Next
  BY <1>2, NextOf
<1> QED BY <1>5, <1>6 DEF Kept

LEMMA RefundsKeep ==
  ASSUME EscrowInv, NEW w \in Wallets, NEW k \in OfferKeys, NEW v \in TokenAccounts,
         \/ AnchorRefundOffer(w, k, v)
         \/ NativeRefundOffer(w, k, v)
         \/ PinocchioRefundOffer(w, k, v)
  PROVE  Kept
<1>1. /\ offer[k].open /\ w = k.maker /\ v = Vault(k)
      /\ Returns(k, Ata(w, offer[k].mint_a), v)
      /\ lamports' = Credit(Credit(lamports, w, tokenLamports[v] + OfferLamports(k)),
                            k, -lamports[k])
      /\ UNCHANGED <<program, made>>
  BY DEF AnchorRefundOffer, NativeRefundOffer, PinocchioRefundOffer, CanRefund, IsVault, Vault
<1> QED BY <1>1, RefundKeeps

(***************************************************************************)
(* Other transactions.                                                     *)
(***************************************************************************)

\* A transaction that leaves offers alone, takes nothing from their accounts and
\* moves lamports.
LEMMA ElsewhereKeeps ==
  ASSUME EscrowInv, TokensOK', lamports' \in [Holders -> Nat],
         \A k \in OfferKeys : lamports'[k] >= lamports[k],
         SumFunction(lamports') + SumFunction(tokenLamports')
           = SumFunction(lamports) + SumFunction(tokenLamports),
         \A x \in TokenAccounts : x.owner \in OfferKeys /\ amount[x] # NoAccount
           => amount'[x] >= amount[x],
         UNCHANGED <<program, offer, made>>
  PROVE  EscrowInv'
<1>0. /\ TypeOK /\ program \in Programs /\ Total' = Total
      /\ SumFunction(lamports) + SumFunction(tokenLamports) = Total
      /\ \A l \in OfferKeys : offer[l].open =>
            amount[Ata(l, offer[l].mint_a)] >= made[l].offered
  BY InvParts
<1>1. TypeOK'
  <2>1. \A k \in OfferKeys : offer'[k].open => lamports'[k] >= OfferRent
    <3> SUFFICES ASSUME NEW k \in OfferKeys, offer'[k].open
                 PROVE  lamports'[k] >= OfferRent
      OBVIOUS
    <3>1. lamports[k] >= OfferRent /\ lamports[k] \in Nat /\ OfferRent \in Nat
          /\ lamports'[k] >= lamports[k] /\ lamports'[k] \in Nat
      BY <1>0, TypeParts, Constants
    <3> QED BY <3>1
  <2> QED BY <1>0, <2>1, TypeParts
<1>2. ASSUME NEW l \in OfferKeys, offer'[l].open
      PROVE  amount'[Ata(l, offer'[l].mint_a)] >= made'[l].offered
  <2> DEFINE v == Ata(l, offer[l].mint_a)
             o == made[l].offered
  <2>1. v \in TokenAccounts /\ v.owner \in OfferKeys /\ o \in Nat
        /\ amount \in Amounts
    BY <1>0, <1>2, OpenTerms, Constants, AddressOf DEF TypeOK, Amounts
  <2>2. amount[v] >= o
    BY <1>0, <1>2
  <2> HIDE DEF v, o
  <2>3. amount[v] # NoAccount /\ amount[v] \in Nat
    BY <2>1, <2>2 DEF NoAccount, Amounts
  <2>4. amount'[v] >= amount[v] /\ amount'[v] \in Int
    BY <2>1, <2>3 DEF TokensOK, Amounts, NoAccount
  <2>5. amount'[v] >= o
    BY <2>1, <2>2, <2>3, <2>4
  <2> QED BY <2>5 DEF v, o
<1> QED BY <1>0, <1>1, <1>2, InvParts

\* One that leaves what is held as it was is nothing to the swap.
LEMMA NothingKept ==
  ASSUME EscrowInv', UNCHANGED offer,
         \A x \in TokenAccounts : HeldIn(amount', x) = HeldIn(amount, x)
  PROVE  Kept
<1>1. Purses' = Purses /\ Pots' = Pots
  BY SameHeld, Seen
<1>2. TermsSeen' = TermsSeen
  BY DEF TermsSeen
<1>3. UNCHANGED Swap!vars
  BY <1>1, <1>2, NothingOf
<1> QED BY <1>3 DEF Kept

LEMMA CreateTokenKeeps ==
  ASSUME EscrowInv, NEW w \in Givers, NEW x \in Fresh, CreateToken(w, x)
  PROVE  Kept
<1> DEFINE s == Created(Ledger, x)
<1>0. w \in Wallets /\ w \in Holders /\ x \in TokenAccounts
      /\ \A k \in OfferKeys : k # w /\ k \in Holders
  BY Constants
<1>1. /\ ~Exists(Ledger, x) /\ lamports[w] >= s.due /\ Commit(s)
      /\ lamports' = Credit(lamports, w, -s.due)
      /\ UNCHANGED <<program, offer, made>>
  BY DEF CreateToken
<1>2. Grown(Ledger, s, {x})
  BY <1>0, <1>1, InvUse, CreatedGrows
<1> HIDE DEF s
<1>3. /\ Good(s) /\ s.due \in Nat
      /\ SumFunction(s.lam) = SumFunction(tokenLamports) + s.due
      /\ \A y \in TokenAccounts : HeldIn(s.amount, y) = HeldIn(amount, y)
      /\ \A y \in TokenAccounts \ {x} : s.amount[y] = amount[y]
  BY <1>2, InvUse, LedgerIsGood, GoodTypes, SumsTyped DEF Grown
<1>4. TokensOK' /\ amount' = s.amount /\ tokenLamports' = s.lam
  BY <1>1, <1>3, Committed
<1>5. /\ lamports' \in [Holders -> Nat]
      /\ SumFunction(lamports') = SumFunction(lamports) + (-s.due)
      /\ \A h \in Holders \ {w} : lamports'[h] = lamports[h]
  <2>1. -s.due \in Int /\ lamports[w] + (-s.due) >= 0 /\ lamports \in [Holders -> Nat]
    BY <1>0, <1>1, <1>3, InvUse
  <2> QED BY <1>0, <1>1, <2>1, CreditNat
<1>6. \A k \in OfferKeys : lamports'[k] >= lamports[k]
  BY <1>0, <1>5, InvUse
<1>7. SumFunction(lamports') + SumFunction(tokenLamports')
        = SumFunction(lamports) + SumFunction(tokenLamports)
  BY <1>3, <1>4, <1>5, InvUse, SumsTyped
<1>8. \A y \in TokenAccounts : amount[y] # NoAccount => amount'[y] >= amount[y]
  <2> SUFFICES ASSUME NEW y \in TokenAccounts, amount[y] # NoAccount
               PROVE  amount'[y] >= amount[y]
    OBVIOUS
  <2>1. y # x
    BY <1>1 DEF Exists, Ledger
  <2>2. amount'[y] = amount[y] /\ amount[y] \in Int
    BY <1>3, <1>4, <2>1, InvUse DEF TypeOK, NoAccount
  <2> QED BY <2>2
<1>9. EscrowInv'
  BY <1>1, <1>4, <1>5, <1>6, <1>7, <1>8, ElsewhereKeeps
<1> QED BY <1>1, <1>3, <1>4, <1>9, NothingKept

LEMMA CloseTokenKeeps ==
  ASSUME EscrowInv, NEW w \in Wallets, NEW x \in TokenAccounts, CloseToken(w, x)
  PROVE  Kept
<1> DEFINE s == Closed(Ledger, x)
<1>0. w \in Holders /\ \A k \in OfferKeys : k # w /\ k \in Holders
  BY Constants
<1>1. /\ x.owner = w /\ CanClose(Ledger, x) /\ Commit(s)
      /\ lamports' = Credit(lamports, w, tokenLamports[x])
      /\ UNCHANGED <<program, offer, made>>
  BY DEF CloseToken
<1>2. /\ Good(s)
      /\ SumFunction(s.lam) = SumFunction(Ledger.lam) + (-Ledger.lam[x])
      /\ \A y \in TokenAccounts : HeldIn(s.amount, y) = HeldIn(Ledger.amount, y)
      /\ \A y \in TokenAccounts \ {x} : s.amount[y] = Ledger.amount[y]
  BY <1>1, InvUse, ClosedEffect
<1> HIDE DEF s
<1>3. /\ SumFunction(s.lam) = SumFunction(tokenLamports) + (-tokenLamports[x])
      /\ \A y \in TokenAccounts : HeldIn(s.amount, y) = HeldIn(amount, y)
      /\ \A y \in TokenAccounts \ {x} : s.amount[y] = amount[y]
  BY <1>2, InvUse, LedgerIsGood
<1>4. TokensOK' /\ amount' = s.amount /\ tokenLamports' = s.lam
  BY <1>1, <1>2, Committed
<1>5. /\ lamports' \in [Holders -> Nat]
      /\ SumFunction(lamports') = SumFunction(lamports) + tokenLamports[x]
      /\ \A h \in Holders \ {w} : lamports'[h] = lamports[h]
  <2>1. tokenLamports[x] \in Int /\ lamports[w] + tokenLamports[x] >= 0
        /\ lamports \in [Holders -> Nat]
    BY InvUse
  <2> QED BY <1>0, <1>1, <2>1, CreditNat
<1>6. \A k \in OfferKeys : lamports'[k] >= lamports[k]
  BY <1>0, <1>5, InvUse
<1>7. SumFunction(lamports') + SumFunction(tokenLamports')
        = SumFunction(lamports) + SumFunction(tokenLamports)
  <2>1. tokenLamports[x] \in Nat
    BY InvUse
  <2> QED BY <1>3, <1>4, <1>5, <2>1, InvUse, SumsTyped
<1>8. \A y \in TokenAccounts : y.owner \in OfferKeys /\ amount[y] # NoAccount
        => amount'[y] >= amount[y]
  <2> SUFFICES ASSUME NEW y \in TokenAccounts, y.owner \in OfferKeys
               PROVE  amount'[y] >= amount[y]
    OBVIOUS
  <2>1. amount'[y] = amount[y] /\ amount[y] \in Int
    BY <1>0, <1>1, <1>3, <1>4, InvUse DEF TypeOK, NoAccount
  <2> QED BY <2>1
<1>9. EscrowInv'
  BY <1>1, <1>4, <1>5, <1>6, <1>7, <1>8, ElsewhereKeeps
<1> QED BY <1>1, <1>3, <1>4, <1>9, NothingKept

LEMMA PrefundTokenKeeps ==
  ASSUME EscrowInv, NEW w \in Givers, NEW x \in TokenAccounts, PrefundToken(w, x)
  PROVE  Kept
<1>0. w \in Wallets /\ w \in Holders /\ RentFloor \in Nat
      /\ \A k \in OfferKeys : k # w /\ k \in Holders
  BY Constants
<1>1. /\ amount[x] = NoAccount /\ tokenLamports[x] = 0 /\ lamports[w] >= RentFloor
      /\ lamports' = Credit(lamports, w, -RentFloor)
      /\ tokenLamports' = [tokenLamports EXCEPT ![x] = RentFloor]
      /\ UNCHANGED <<program, offer, amount, made>>
  BY DEF PrefundToken, Exists, Ledger
<1>2. /\ tokenLamports \in [TokenAccounts -> Nat] /\ TokensOK /\ amount \in Amounts
      /\ lamports \in [Holders -> Nat]
  BY InvUse, TypeParts DEF TokensOK
<1>3. /\ tokenLamports' \in [TokenAccounts -> Nat]
      /\ tokenLamports'[x] = RentFloor
      /\ \A y \in TokenAccounts \ {x} : tokenLamports'[y] = tokenLamports[y]
  BY <1>0, <1>1, <1>2
<1>4. TokensOK'
  BY <1>1, <1>2, <1>3 DEF TokensOK
<1>5. SumFunction(tokenLamports') = SumFunction(tokenLamports) + RentFloor
  <2> DEFINE f == tokenLamports
             g == tokenLamports'
  <2>1. /\ f \in [TokenAccounts -> Int] /\ g \in [TokenAccounts -> Int]
        /\ RentFloor \in Int /\ g[x] = f[x] + RentFloor
        /\ \A y \in TokenAccounts \ {x} : g[y] = f[y]
    BY <1>0, <1>1, <1>2, <1>3
  <2> HIDE DEF f, g
  <2>2. SumFunction(g) = SumFunction(f) + RentFloor
    BY <2>1, AddressesFinite, SumMoves
  <2> QED BY <2>2 DEF f, g
<1>6. /\ lamports' \in [Holders -> Nat]
      /\ SumFunction(lamports') = SumFunction(lamports) + (-RentFloor)
      /\ \A h \in Holders \ {w} : lamports'[h] = lamports[h]
  <2>1. -RentFloor \in Int /\ lamports[w] + (-RentFloor) >= 0
    BY <1>0, <1>1, <1>2
  <2> QED BY <1>0, <1>1, <1>2, <2>1, CreditNat
<1>7. \A k \in OfferKeys : lamports'[k] >= lamports[k]
  BY <1>0, <1>6, InvUse
<1>8. SumFunction(lamports') + SumFunction(tokenLamports')
        = SumFunction(lamports) + SumFunction(tokenLamports)
  BY <1>0, <1>5, <1>6, InvUse, SumsTyped
<1>9. \A y \in TokenAccounts : amount[y] # NoAccount => amount'[y] >= amount[y]
  <2>1. \A y \in TokenAccounts : amount[y] \in Int
    BY <1>2 DEF Amounts, NoAccount
  <2> QED BY <1>1, <2>1
<1>10. EscrowInv'
  BY <1>1, <1>4, <1>6, <1>7, <1>8, <1>9, ElsewhereKeeps
<1> QED BY <1>1, <1>10, NothingKept

LEMMA GiveOfferKeeps ==
  ASSUME EscrowInv, NEW w \in Givers, NEW k \in OfferKeys, GiveOffer(w, k)
  PROVE  Kept
<1>0. w \in Wallets /\ RentFloor \in Nat
  BY Constants
<1>1. /\ lamports[w] >= RentFloor
      /\ lamports' = Credit(Credit(lamports, w, -RentFloor), k, RentFloor)
      /\ UNCHANGED <<program, offer, amount, tokenLamports, made>>
  BY DEF GiveOffer
<1>2. TokensOK /\ amount \in Amounts /\ lamports \in [Holders -> Nat]
  BY InvUse, TypeParts DEF TokensOK
<1>3. TokensOK'
  BY <1>1, <1>2 DEF TokensOK
<1>4. /\ lamports' \in [Holders -> Nat]
      /\ SumFunction(lamports') = SumFunction(lamports) + (RentFloor - RentFloor)
      /\ lamports'[k] = lamports[k] + RentFloor
      /\ \A l \in OfferKeys \ {k} : lamports'[l] = lamports[l]
  BY <1>0, <1>1, <1>2, PaidIn
<1>5. \A l \in OfferKeys : lamports'[l] >= lamports[l]
  BY <1>0, <1>4, InvUse
<1>6. SumFunction(lamports') + SumFunction(tokenLamports')
        = SumFunction(lamports) + SumFunction(tokenLamports)
  BY <1>0, <1>1, <1>4, InvUse, SumsTyped
<1>7. \A y \in TokenAccounts : amount[y] # NoAccount => amount'[y] >= amount[y]
  <2>1. \A y \in TokenAccounts : amount[y] \in Int
    BY <1>2 DEF Amounts, NoAccount
  <2> QED BY <1>1, <2>1
<1>8. EscrowInv'
  BY <1>1, <1>3, <1>4, <1>5, <1>6, <1>7, ElsewhereKeeps
<1> QED BY <1>1, <1>8, NothingKept

LEMMA GiveTokenKeeps ==
  ASSUME EscrowInv, NEW w \in Givers, NEW x \in TokenAccounts, GiveToken(w, x)
  PROVE  Kept
<1> DEFINE m == x.mint
           from == Ata(w, m)
           t == Sent(Ledger, from, x, 1)
<1>0. w \in Wallets /\ m \in Mints /\ x.mint = m
  BY Constants, Addresses
<1>1. /\ x.owner \in OfferKeys /\ CanSend(Ledger, from, x, 1) /\ Commit(t)
      /\ UNCHANGED <<program, offer, lamports, made>>
  BY DEF GiveToken
<1>2. /\ from \in TokenAccounts /\ from.owner = w /\ from.mint = m /\ from # x
  BY <1>0, <1>1, Constants, AddressOf
<1>3. /\ Good(Ledger) /\ Ledger.amount = amount /\ Ledger.lam = tokenLamports
      /\ amount \in Amounts
  BY InvUse, LedgerIsGood, TypeParts DEF TokensOK
<1> HIDE DEF m, from
<1>4. /\ Good(t) /\ t.lam = tokenLamports
      /\ t.amount = Credit(Credit(amount, from, -1), x, 1)
  BY <1>1, <1>2, <1>3, SentEffect
<1>5. /\ PurseIn(t.amount) = Swap!Plus(Purses, w, m, -1)
      /\ PotIn(t.amount) = IF x.kind = "ata" THEN Swap!Plus(Pots, x.owner, m, 1) ELSE Pots
  <2>1. PurseIn(Ledger.amount) = Purses /\ PotIn(Ledger.amount) = Pots
    BY <1>3, Seen
  <2> QED BY <1>0, <1>1, <1>2, <1>3, <2>1, SentHeld
<1>6. /\ \A y \in TokenAccounts \ {from, x} : t.amount[y] = amount[y]
      /\ t.amount[x] = amount[x] + 1
  <2> DEFINE a == Credit(amount, from, -1)
  <2>1. /\ a \in Amounts /\ a[x] # NoAccount /\ a[x] + 1 \in Nat
        /\ \A y \in TokenAccounts \ {from} : a[y] = amount[y]
    BY <1>1, <1>2, <1>3, SentMid
  <2>2. t.amount = Credit(a, x, 1)
    BY <1>4
  <2> HIDE DEF a, t
  <2>3. Credit(a, x, 1)[x] = a[x] + 1
        /\ \A y \in TokenAccounts \ {x} : Credit(a, x, 1)[y] = a[y]
    BY <2>1, CreditAmount
  <2> QED BY <1>2, <2>1, <2>2, <2>3
<1> HIDE DEF t
<1>7. TokensOK' /\ amount' = t.amount /\ tokenLamports' = t.lam
  BY <1>1, <1>4, Committed
<1>8. \A y \in TokenAccounts : y.owner \in OfferKeys /\ amount[y] # NoAccount
        => amount'[y] >= amount[y]
  <2>1. \A y \in TokenAccounts : amount[y] \in Int
    BY <1>3 DEF Amounts, NoAccount
  <2>2. w \notin OfferKeys
    BY <1>0, Constants
  <2> QED BY <1>2, <1>6, <1>7, <2>1, <2>2
<1>9. EscrowInv'
  <2>1. lamports' \in [Holders -> Nat] /\ \A k \in OfferKeys : lamports'[k] >= lamports[k]
    BY <1>1, InvUse
  <2> QED BY <1>1, <1>4, <1>7, <1>8, <2>1, ElsewhereKeeps
<1>10. Purses' = Swap!Plus(Purses, w, m, -1)
       /\ Pots' = IF x.kind = "ata" THEN Swap!Plus(Pots, x.owner, m, 1) ELSE Pots
  BY <1>5, <1>7, Seen
<1>11. Purses[w][m] - Purses'[w][m] = 1
  <2>1. Purses \in [Wallets -> [Mints -> Int]]
    <3>1. PurseIn(amount) \in [Wallets -> [Mints -> Nat]]
      BY <1>3, PursesTyped
    <3> QED BY <3>1, Seen
  <2> DEFINE f == Purses
             g == Purses'
  <2>2. f \in [Wallets -> [Mints -> Int]] /\ g = Swap!Plus(f, w, m, -1)
    BY <1>10, <2>1
  <2> HIDE DEF f, g
  <2>3. g[w][m] = f[w][m] + (-1) /\ f[w][m] \in Int
    BY <1>0, <2>2, PlusIs
  <2>4. f[w][m] - g[w][m] = 1
    BY <2>3
  <2> QED BY <2>4 DEF f, g
<1>12. TermsSeen' = TermsSeen
  BY <1>1 DEF TermsSeen
<1>13. Swap!Give(w, m)
  <2>1. /\ Purses[w][m] - Purses'[w][m] > 0
        /\ Purses' = Swap!Plus(Purses, w, m, -(Purses[w][m] - Purses'[w][m]))
        /\ Pots' = Pots \/ \E k \in OfferKeys :
             Pots' = Swap!Plus(Pots, k, m, Purses[w][m] - Purses'[w][m])
    BY <1>1, <1>10, <1>11
  <2> QED BY <1>0, <1>12, <2>1, GiveOf
<1> QED BY <1>0, <1>9, <1>13, NextOf DEF Kept

LEMMA OthersKeep ==
  ASSUME EscrowInv, Others
  PROVE  Kept
<1>1. ASSUME NEW w \in Givers, NEW x \in Fresh, CreateToken(w, x) PROVE Kept
  BY <1>1, CreateTokenKeeps
<1>2. ASSUME NEW w \in Wallets, NEW x \in TokenAccounts, CloseToken(w, x) PROVE Kept
  BY <1>2, CloseTokenKeeps
<1>3. ASSUME NEW w \in Givers, NEW x \in TokenAccounts, GiveToken(w, x) PROVE Kept
  BY <1>3, GiveTokenKeeps
<1>4. ASSUME NEW w \in Givers, NEW x \in Prefunded \cap TokenAccounts,
             PrefundToken(w, x)
      PROVE  Kept
  BY <1>4, PrefundTokenKeeps
<1>5. ASSUME NEW w \in Givers, NEW k \in Prefunded \cap OfferKeys, GiveOffer(w, k)
      PROVE  Kept
  BY <1>5, GiveOfferKeeps
<1> QED BY <1>1, <1>2, <1>3, <1>4, <1>5 DEF Others

(***************************************************************************)
(* The theorems.                                                           *)
(***************************************************************************)

LEMMA InvInitially == Init => EscrowInv
<1> SUFFICES ASSUME Init PROVE EscrowInv
  OBVIOUS
<1>1. /\ program \in Programs /\ offer = [k \in OfferKeys |-> NoOffer]
      /\ lamports = [h \in Holders |-> IF h \in Wallets THEN Endowment[program][h] ELSE 0]
      /\ amount = Holding[program]
      /\ tokenLamports =
           [x \in TokenAccounts |-> IF Holding[program][x] = NoAccount THEN 0 ELSE TokenRent]
      /\ made = [k \in OfferKeys |-> [offered |-> 0, funder |-> k.maker]]
  BY DEF Init, InitAccounts
<1>2. /\ Holding[program] \in Amounts /\ Endowment[program] \in [Wallets -> Nat]
      /\ IsFiniteSet(Wallets) /\ TokenRent \in Nat
  BY <1>1, EscrowAssumption DEF Amounts
<1>3. lamports \in [Holders -> Nat] /\ tokenLamports \in [TokenAccounts -> Nat]
  BY <1>1, <1>2
<1>4. TypeOK
  <2>1. /\ offer \in [OfferKeys -> OfferType]
        /\ \A k \in OfferKeys : ~offer[k].open
    BY <1>1, NoOfferType
  <2>2. made \in [OfferKeys -> [offered: Nat, funder: Wallets]]
    BY <1>1, Constants
  <2>3. TokensOK
    BY <1>1, <1>2, <1>3 DEF TokensOK
  <2> QED BY <1>3, <2>1, <2>2, <2>3, TypeParts
<1>5. \A k \in OfferKeys : ~offer[k].open
  BY <1>1, NoOfferType
<1>6. SumFunction(lamports) = SumFunction(Endowment[program])
  <2> DEFINE f == lamports
             e == Endowment[program]
  <2>1. /\ \A h \in Wallets : f[h] = e[h]
        /\ \A h \in Holders \ Wallets : f[h] = 0
        /\ \A h \in Holders : f[h] \in Int
        /\ Wallets \in SUBSET Holders
    BY <1>1, <1>3 DEF Holders
  <2>2. f \in [Holders -> Int] /\ e \in [Wallets -> Int]
    BY <1>2, <1>3
  <2> HIDE DEF f, e
  <2>3. SumFunction(f) = SumFunctionOnSet(f, Holders)
        /\ SumFunction(e) = SumFunctionOnSet(e, Wallets)
    BY <1>2, <2>2, AddressesFinite, SumOfFunction
  <2>4. SumFunctionOnSet(f, Holders) = SumFunctionOnSet(f, Wallets)
    BY <2>1, AddressesFinite, SumOutside
  <2>5. SumFunctionOnSet(f, Wallets) = SumFunctionOnSet(e, Wallets)
    BY <1>2, <2>1, SumSame
  <2> QED BY <2>3, <2>4, <2>5 DEF f, e
<1>7. SumFunction(tokenLamports)
        = TokenRent * Cardinality({x \in TokenAccounts : Holding[program][x] # NoAccount})
  <2> DEFINE f == tokenLamports
             R == {x \in TokenAccounts : Holding[program][x] # NoAccount}
  <2>1. /\ \A x \in R : f[x] = TokenRent
        /\ \A x \in TokenAccounts \ R : f[x] = 0
        /\ \A x \in TokenAccounts : f[x] \in Int
        /\ R \in SUBSET TokenAccounts
    BY <1>1, <1>3
  <2>2. f \in [TokenAccounts -> Int] /\ TokenRent \in Int
    BY <1>2, <1>3
  <2> HIDE DEF f, R
  <2>3. SumFunction(f) = SumFunctionOnSet(f, TokenAccounts)
    BY <2>2, AddressesFinite, SumOfFunction
  <2>4. SumFunctionOnSet(f, TokenAccounts) = SumFunctionOnSet(f, R)
    BY <2>1, AddressesFinite, SumOutside
  <2>5. IsFiniteSet(R)
    BY <2>1, AddressesFinite, FS_Subset
  <2>6. SumFunctionOnSet(f, R) = TokenRent * Cardinality(R)
    BY <2>1, <2>2, <2>5, SumConstant
  <2> QED BY <2>3, <2>4, <2>6 DEF f, R
<1>8. SumFunction(lamports) + SumFunction(tokenLamports) = Total
  BY <1>6, <1>7 DEF Total
<1> QED BY <1>1, <1>4, <1>5, <1>8, InvParts

LEMMA SwapInitially == Init => Swap!Init
<1> SUFFICES ASSUME Init PROVE Swap!Init
  OBVIOUS
<1>1. TypeOK /\ \A k \in OfferKeys : ~offer[k].open
  <2>1. EscrowInv
    BY InvInitially
  <2>2. offer = [k \in OfferKeys |-> NoOffer]
    BY DEF Init, InitAccounts
  <2> QED BY <2>1, <2>2, InvUse, NoOfferType
<1>2. TermsSeen = [k \in OfferKeys |-> {}]
  BY <1>1 DEF TermsSeen
<1>3. \A k \in OfferKeys, m \in Mints : Pots[k][m] >= 0
  <2>1. amount \in Amounts
    BY <1>1, TypeParts DEF TokensOK
  <2>2. PotIn(amount) \in [OfferKeys -> [Mints -> Nat]]
    BY <2>1, PursesTyped
  <2> QED BY <2>2, Seen
<1> QED BY <1>2, <1>3 DEF Swap!Init, TermsSeen, Pots

LEMMA Stutters == ASSUME EscrowInv, UNCHANGED vars PROVE Kept
<1>1. UNCHANGED <<program, offer, lamports, amount, tokenLamports, made>>
  BY DEF vars
<1>2. EscrowInv'
  BY <1>1 DEF EscrowInv, AccountsAddUp, TypeOK, OffersBacked, LamportsConserved,
              Exists, Ledger, Vault
<1> QED BY <1>1, <1>2, NothingKept

LEMMA InvStep == EscrowInv /\ [Next]_vars => Kept
<1> SUFFICES ASSUME EscrowInv, [Next]_vars PROVE Kept
  OBVIOUS
<1>1. CASE AnchorNext
  <2>1. ASSUME NEW maker \in Makers, NEW id \in Ids, NEW o \in Terms[program],
               NEW v \in TokenAccounts, AnchorMakeOffer(maker, id, o, v)
        PROVE  Kept
    BY <2>1, AnchorMakeKeeps
  <2>2. ASSUME NEW taker \in Wallets, NEW k \in OfferKeys, NEW v \in TokenAccounts,
               AnchorTakeOffer(taker, k, v)
        PROVE  Kept
    BY <2>2, AnchorTakeKeeps
  <2>3. ASSUME NEW w \in Wallets, NEW k \in OfferKeys, NEW v \in TokenAccounts,
               AnchorRefundOffer(w, k, v)
        PROVE  Kept
    BY <2>3, RefundsKeep
  <2> QED BY <1>1, <2>1, <2>2, <2>3 DEF AnchorNext
<1>2. CASE NativeNext
  <2>1. ASSUME NEW maker \in Makers, NEW payer \in Wallets, NEW id \in Ids,
               NEW o \in Terms[program], NEW from \in AccountsOf(maker),
               NEW v \in TokenAccounts, NativeMakeOffer(maker, payer, id, o, from, v)
        PROVE  Kept
    BY <2>1, NativeMakeKeeps
  <2>2. ASSUME NEW taker \in Wallets, NEW payer \in Wallets, NEW k \in OfferKeys,
               NEW from \in AccountsOf(taker), NEW v \in TokenAccounts,
               NativeTakeOffer(taker, payer, k, from, v)
        PROVE  Kept
    BY <2>2, NativeTakeKeeps
  <2>3. ASSUME NEW w \in Wallets, NEW k \in OfferKeys, NEW v \in TokenAccounts,
               NativeRefundOffer(w, k, v)
        PROVE  Kept
    BY <2>3, RefundsKeep
  <2> QED BY <1>2, <2>1, <2>2, <2>3 DEF NativeNext
<1>3. CASE PinocchioNext
  <2>1. ASSUME NEW maker \in Makers, NEW payer \in Wallets, NEW id \in Ids,
               NEW bump \in Bumps, NEW o \in Terms[program],
               NEW from \in AccountsOf(maker), NEW v \in TokenAccounts,
               PinocchioMakeOffer(maker, payer, id, bump, o, from, v)
        PROVE  Kept
    BY <2>1, PinocchioMakeKeeps
  <2>2. ASSUME NEW taker \in Wallets, NEW payer \in Wallets, NEW k \in OfferKeys,
               NEW from \in AccountsOf(taker), NEW v \in TokenAccounts,
               PinocchioTakeOffer(taker, payer, k, from, v)
        PROVE  Kept
    BY <2>2, PinocchioTakeKeeps
  <2>3. ASSUME NEW w \in Wallets, NEW k \in OfferKeys, NEW v \in TokenAccounts,
               PinocchioRefundOffer(w, k, v)
        PROVE  Kept
    BY <2>3, RefundsKeep
  <2> QED BY <1>3, <2>1, <2>2, <2>3 DEF PinocchioNext
<1>4. CASE Others
  BY <1>4, OthersKeep
<1>5. CASE UNCHANGED vars
  BY <1>5, Stutters
<1> QED BY <1>1, <1>2, <1>3, <1>4, <1>5 DEF Next

\* Whatever accounts are passed and whatever others send, every account keeps
\* its type and rent, every open offer its deposit, and no lamport is made or
\* lost by the balances the programs set directly (AccountsAddUp).
THEOREM AccountsAlwaysAddUp == Spec => []AccountsAddUp
<1>1. Init => EscrowInv
  BY InvInitially
<1>2. EscrowInv /\ [Next]_vars => EscrowInv'
  BY InvStep DEF Kept
<1>3. EscrowInv => AccountsAddUp
  BY DEF EscrowInv
<1> QED BY <1>1, <1>2, <1>3, PTL DEF Spec

\* Each of the three programs is an atomic swap: an instruction moves exactly
\* the tokens of one step of AtomicSwap, and other transactions are gifts or
\* nothing (ImplementsSwap).
THEOREM ProgramsImplementSwap == Spec => ImplementsSwap
<1>1. Init => EscrowInv /\ Swap!Init
  BY InvInitially, SwapInitially
<1>2. EscrowInv /\ [Next]_vars => EscrowInv' /\ [Swap!Next]_(Swap!vars)
  BY InvStep DEF Kept
<1> QED BY <1>1, <1>2, PTL DEF Spec, ImplementsSwap, Swap!Spec

(***************************************************************************)
(* Nobody is locked out: the checks of refund_offer and take_offer pass.   *)
(***************************************************************************)

\* Between two accounts, the one that sends has less and any other but the one
\* that receives has what it had.
LEMMA SentAway ==
  ASSUME NEW s, Good(s), NEW from \in TokenAccounts, NEW to \in TokenAccounts,
         NEW n \in Nat, CanSend(s, from, to, n), from # to
  PROVE  /\ Sent(s, from, to, n).amount[from] = s.amount[from] - n
         /\ \A x \in TokenAccounts \ {from, to} :
              Sent(s, from, to, n).amount[x] = s.amount[x]
<1> DEFINE a == Credit(s.amount, from, -n)
           b == Credit(a, to, n)
<1>1. s.amount \in Amounts
  BY GoodTypes
<1>2. Sent(s, from, to, n).amount = b
  BY SentEffect
<1>3. a[from] = s.amount[from] + (-n) /\ a \in [TokenAccounts -> Int]
      /\ \A x \in TokenAccounts \ {from} : a[x] = s.amount[x]
  BY <1>1 DEF Credit, Amounts, NoAccount
<1> HIDE DEF a
<1>4. \A x \in TokenAccounts \ {to} : b[x] = a[x]
  BY <1>3 DEF Credit
<1> HIDE DEF b
<1>5. s.amount[from] \in Int
  BY <1>1 DEF Amounts, NoAccount
<1> QED BY <1>2, <1>3, <1>4, <1>5

\* A vault that is there can be emptied into another account, and closed then.
LEMMA CanEmpty ==
  ASSUME NEW s, Good(s), NEW v \in TokenAccounts, NEW to \in TokenAccounts,
         v # to, v.mint = to.mint, Exists(s, v), Exists(s, to)
  PROVE  /\ CanSend(s, v, to, s.amount[v])
         /\ CanClose(Sent(s, v, to, s.amount[v]), v)
<1> DEFINE n == s.amount[v]
<1>1. n \in Nat
  BY GoodTypes DEF Exists, Amounts
<1>2. CanSend(s, v, to, n)
  BY <1>1 DEF CanSend
<1> HIDE DEF n
<1>3. Sent(s, v, to, n).amount[v] = s.amount[v] - n
  BY <1>1, <1>2, SentAway
<1>4. Exists(Sent(s, v, to, n), v)
  BY <1>1, <1>2, SentEffect
<1> QED BY <1>1, <1>2, <1>3, <1>4 DEF CanClose, n

\* The address and the existence of an open offer's vault.
LEMMA VaultThere ==
  ASSUME EscrowInv, NEW k \in OfferKeys, offer[k].open
  PROVE  /\ offer[k].mint_a \in Mints /\ offer[k].mint_b \in Mints /\ offer[k].wanted \in Nat
         /\ k.maker \in Wallets /\ Vault(k) = Ata(k, offer[k].mint_a)
         /\ Vault(k) \in TokenAccounts /\ Exists(Ledger, Vault(k))
<1>1. /\ offer[k] \in OfferType /\ k.maker \in Wallets
      /\ made[k].offered \in Nat /\ amount[Vault(k)] >= made[k].offered
  BY InvUse, TypeParts, Constants DEF EscrowInv, AccountsAddUp, OffersBacked, OfferKeys
<1>2. offer[k].mint_a \in Mints /\ offer[k].mint_b \in Mints /\ offer[k].wanted \in Nat
  BY <1>1 DEF OfferType
<1>3. Vault(k) \in TokenAccounts
  BY <1>2, Addresses DEF Vault, Holders
<1>4. amount[Vault(k)] # NoAccount
  BY <1>1, <1>3, InvUse, TypeParts DEF TokensOK, Amounts, NoAccount
<1> QED BY <1>1, <1>2, <1>3, <1>4 DEF Vault, Exists, Ledger

LEMMA CanRefundAlways == EscrowInv => MakerCanRefund
<1> SUFFICES ASSUME EscrowInv, NEW k \in OfferKeys, offer[k].open,
                    Exists(Ledger, Ata(k.maker, offer[k].mint_a))
             PROVE  CanRefund(k.maker, k, Vault(k))
  BY DEF MakerCanRefund
<1> DEFINE v == Vault(k)
           to == Ata(k.maker, offer[k].mint_a)
<1>1. /\ v = Ata(k, offer[k].mint_a) /\ v \in TokenAccounts /\ Exists(Ledger, v)
      /\ offer[k].mint_a \in Mints /\ k.maker \in Wallets
  BY VaultThere
<1>2. to \in TokenAccounts /\ v # to /\ v.mint = to.mint
  BY <1>1, Addresses, Constants DEF Holders, Ata
<1>3. Good(Ledger) /\ Ledger.amount[v] = VaultAmount(k, v)
  BY InvUse DEF Ledger, VaultAmount
<1>4. CanReturn(k, to, v)
  <2> HIDE DEF v, to
  <2>1. Exists(Ledger, to)
    BY DEF to
  <2> QED BY <1>1, <1>2, <1>3, <2>1, CanEmpty DEF CanReturn
<1> QED BY <1>1, <1>4 DEF CanRefund, IsVault

\* What ensuring that an account exists costs: a rent, or less.
LEMMA EnsuredCost ==
  ASSUME NEW s, Good(s), NEW x \in TokenAccounts
  PROVE  Ensured(s, x).due <= s.due + TokenRent
<1>1. s.due \in Nat /\ s.lam[x] \in Nat /\ TokenRent \in Nat
  BY GoodTypes, Constants
<1> QED BY <1>1 DEF Ensured, Created, TopUp

\* The swap's two transfers and the closing of the vault, when the recipients exist.
LEMMA CanSwapAll ==
  ASSUME EscrowInv, NEW k \in OfferKeys, NEW w \in Wallets \ Makers, CanAfford(w, k),
         NEW s, s = Ensured(Ensured(Ledger, Ata(w, offer[k].mint_a)),
                            Ata(k.maker, offer[k].mint_b))
  PROVE  /\ offer[k].open /\ IsVault(k, offer[k].mint_a, Vault(k))
         /\ Exists(Ledger, Ata(w, offer[k].mint_b))
         /\ lamports[w] >= s.due
         /\ CanSwap(s, k, Ata(w, offer[k].mint_b), Ata(k.maker, offer[k].mint_b),
                    Ata(w, offer[k].mint_a), Vault(k))
<1> DEFINE v == Vault(k)
           to == Ata(w, offer[k].mint_a)
           from == Ata(w, offer[k].mint_b)
           mb == Ata(k.maker, offer[k].mint_b)
           t == Ensured(Ledger, to)
           c == offer[k].wanted
           p == Sent(s, from, mb, c)
<1>1. /\ offer[k].open /\ offer[k].mint_a # offer[k].mint_b
      /\ amount[from] >= c /\ lamports[w] >= 2 * TokenRent
  BY DEF CanAfford
<1>2. /\ v = Ata(k, offer[k].mint_a) /\ v \in TokenAccounts /\ Exists(Ledger, v)
      /\ offer[k].mint_a \in Mints /\ offer[k].mint_b \in Mints
      /\ k.maker \in Wallets /\ k.maker \in Makers /\ c \in Nat
  BY <1>1, VaultThere DEF OfferKeys
<1>3. /\ to \in TokenAccounts /\ from \in TokenAccounts /\ mb \in TokenAccounts
      /\ from # mb /\ v \notin {from, mb, to} /\ from \notin {to, mb}
      /\ from.mint = mb.mint /\ v.mint = to.mint
  BY <1>1, <1>2, Addresses, Constants DEF Holders, Ata
<1>4. Good(Ledger) /\ Ledger.amount = amount /\ Ledger.due = 0
  BY InvUse, LedgerIsGood
<1>5. Exists(Ledger, from)
  <2>1. amount[from] # NoAccount
    BY <1>1, <1>2, <1>3, InvUse, TypeParts DEF TokensOK, Amounts, NoAccount
  <2> QED BY <1>4, <2>1 DEF Exists
<1> HIDE DEF v, to, from, mb, c
<1>6. /\ Good(t) /\ Exists(t, to) /\ Exists(t, from) /\ Exists(t, v)
      /\ t.amount[v] = amount[v] /\ t.amount[from] = amount[from] /\ t.due <= TokenRent
  <2>1. Grown(Ledger, t, {to}) /\ Exists(t, to)
    BY <1>3, <1>4, EnsuredGrows
  <2>2. t.due <= Ledger.due + TokenRent
    BY <1>3, <1>4, EnsuredCost
  <2>3. t.due <= TokenRent
    BY <1>4, <2>2, Constants
  <2> HIDE DEF t
  <2> QED BY <1>2, <1>3, <1>4, <1>5, <2>1, <2>3 DEF Grown
<1>7. s = Ensured(t, mb)
  BY DEF to, mb
<1> HIDE DEF t
<1>8. /\ Good(s) /\ Exists(s, mb) /\ Exists(s, to) /\ Exists(s, from) /\ Exists(s, v)
      /\ s.amount[v] = t.amount[v] /\ s.amount[from] = t.amount[from]
  <2>1. Grown(t, s, {mb}) /\ Exists(s, mb)
    BY <1>3, <1>6, <1>7, EnsuredGrows
  <2> QED BY <1>2, <1>3, <1>6, <2>1 DEF Grown
<1>9. lamports[w] >= s.due
  <2>1. s.due <= t.due + TokenRent
    BY <1>3, <1>6, <1>7, EnsuredCost
  <2>2. s.due \in Nat /\ t.due \in Nat /\ TokenRent \in Nat /\ lamports[w] \in Nat
    BY <1>6, <1>8, GoodTypes, Constants, InvUse
  <2> QED BY <1>1, <1>6, <2>1, <2>2
<1>10. CanSend(s, from, mb, c)
  BY <1>1, <1>3, <1>6, <1>8 DEF CanSend
<1>11. Good(p) /\ Exists(p, v) /\ Exists(p, to)
  BY <1>2, <1>3, <1>8, <1>10, SentEffect
<1>12. p.amount[v] = amount[v]
  BY <1>2, <1>3, <1>6, <1>8, <1>10, SentAway
<1>13. CanSend(p, v, to, amount[v]) /\ CanClose(Sent(p, v, to, amount[v]), v)
  <2> HIDE DEF p
  <2> QED BY <1>2, <1>3, <1>11, <1>12, CanEmpty
<1>14. CanSwap(s, k, from, mb, to, v)
  BY <1>10, <1>13 DEF CanSwap, Released, Price, VaultAmount, c
<1>15. IsVault(k, offer[k].mint_a, v)
  BY <1>2 DEF IsVault
<1> QED BY <1>1, <1>5, <1>9, <1>14, <1>15 DEF v, to, from, mb

LEMMA OpenAlways == EscrowInv => OpenToTakers
<1> SUFFICES ASSUME EscrowInv, NEW k \in OfferKeys, NEW w \in Wallets \ Makers, CanAfford(w, k)
             PROVE  /\ AnchorCanTake(w, k, Vault(k))
                    /\ PinocchioCanTake(w, w, k, Ata(w, offer[k].mint_b), Vault(k))
  BY DEF OpenToTakers
<1> DEFINE s == Ensured(Ensured(Ledger, Ata(w, offer[k].mint_a)), Ata(k.maker, offer[k].mint_b))
<1>1. /\ offer[k].open /\ IsVault(k, offer[k].mint_a, Vault(k))
      /\ Exists(Ledger, Ata(w, offer[k].mint_b))
      /\ lamports[w] >= s.due
      /\ CanSwap(s, k, Ata(w, offer[k].mint_b), Ata(k.maker, offer[k].mint_b),
                 Ata(w, offer[k].mint_a), Vault(k))
  BY CanSwapAll
<1> QED BY <1>1 DEF AnchorCanTake, PinocchioCanTake

LEMMA EscrowInvariant == Spec => []EscrowInv
<1>1. EscrowInv /\ [Next]_vars => EscrowInv'
  BY InvStep DEF Kept
<1> QED BY <1>1, InvInitially, PTL DEF Spec

\* Whatever anybody sent to the vault, to the offer or to the accounts that
\* receive: a maker that has an account for its tokens passes every check of
\* refund_offer, of each of the three programs.
THEOREM MakersCanAlwaysRefund == Spec => []MakerCanRefund
BY EscrowInvariant, CanRefundAlways, PTL

\* And who has the wanted tokens, and lamports for two accounts, passes every
\* check of take_offer of the Anchor and of the Pinocchio program.
THEOREM OffersStayOpen == Spec => []OpenToTakers
BY EscrowInvariant, OpenAlways, PTL
=============================================================================
