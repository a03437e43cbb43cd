----------------------------- MODULE BasicProofs ------------------------------
(***************************************************************************)
(* The accounts of basics/ keep their rents, and nobody who can pay for an *)
(* instruction is stuck, for any wallets, addresses, lengths, rents and    *)
(* gifts.                                                                  *)
(***************************************************************************)
EXTENDS BasicAccounts, SumLemmas

\* What accounts hold.
Kinds == {"none", "user", "favorites", "address", "visits", "message", "enhanced", "work",
          "vault", "payer"}

Accounts == [lamports : Nat, size : Nat, owner : NewOwners, data : Kinds]

\* The programs that pay from accounts what is not rent.
Payers == {"pda-rent-payer", "transfer-sol"}

BasicShapes ==
  /\ program \in Programs /\ version \in Versions
  /\ wallet \in [Users -> Nat] /\ touched \in SUBSET Addresses
  /\ account \in [Addresses -> Accounts] /\ peak \in [Addresses -> Nat]

AllLamports == SumFunction(wallet) + SumFunction(Lamports)

\* What is at an address: nothing short of its rent, and an account of the program has
\* some; what is not of the program has no data.
Sound(a) ==
  /\ Exempt(a)
  /\ a.owner = "program" => a.lamports > 0
  /\ a.owner # "program" => a.size = 0

\* Where there is no account nobody sent lamports.
Unfunded(p) == account[p].owner = "system" => account[p].lamports = 0

\* What nobody sent lamports to: nothing, or the rent of an account.
Clean(p) ==
  account[p].lamports =
    IF account[p].owner = "system" THEN 0
    ELSE minimum_balance(IF version = "anchor" THEN account[p].size ELSE peak[p])

\* Also, an address without an account has no lamports unless somebody sent them there:
\* otherwise Anchor's init, which keeps what it finds, would hold more than the rent.
BasicOK ==
  /\ BasicShapes
  /\ AllLamports = SumFunction([u \in Users |-> Endowment])
  /\ \A p \in Addresses : Sound(account[p])
  /\ \A p \in Addresses \ touched : Unfunded(p)
  /\ program \notin Payers => \A p \in Addresses \ touched : Clean(p)

LEMMA AddressesFinite == IsFiniteSet(Addresses)
<1> DEFINE K == Users \cup {"rent_vault", "keypair"}
           V == Bumps \cup Keypairs
<1>1. IsFiniteSet(Users) /\ IsFiniteSet(Keypairs) /\ IsFiniteSet(Bumps)
  BY BasicAssumption
<1>2. IsFiniteSet({"rent_vault"}) /\ IsFiniteSet({"keypair"})
  BY FS_Singleton
<1>3. {"rent_vault", "keypair"} = {"rent_vault"} \cup {"keypair"}
  OBVIOUS
<1>4. IsFiniteSet({"rent_vault", "keypair"})
  BY <1>2, <1>3, FS_Union
<1>5. IsFiniteSet(K) /\ IsFiniteSet(V)
  BY <1>1, <1>4, FS_Union
<1>6. IsFiniteSet(K \X V)
  BY <1>5, FS_Product
<1>7. Addresses \subseteq K \X V
  BY DEF Addresses, PDA, Vault, New
<1> QED BY <1>6, <1>7, FS_Subset

\* Lengths and rents are natural numbers, and no rent is zero.
LEMMA Rents ==
  /\ RENT_BASE \in Nat \ {0} /\ Endowment \in Nat /\ Funds \subseteq Nat \ {0}
  /\ LEN \in Nat /\ ENHANCED_LEN \in Nat /\ WORK_LEN \in Nat /\ Lengths \subseteq Nat
  /\ CANONICAL \in Bumps
  /\ \A n \in Nat : minimum_balance(n) \in Nat /\ minimum_balance(n) > 0
BY BasicAssumption DEF minimum_balance

\* The addresses that actions name are addresses.
LEMMA Named ==
  /\ \A u \in Users, b \in Bumps : PDA(u, b) \in Addresses
  /\ \A b \in Bumps : Vault(b) \in Addresses
  /\ \A k \in Keypairs : New(k) \in Addresses
BY DEF Addresses

LEMMA ReachedAreAddresses == Reached \in SUBSET Addresses
BY DEF Reached, Addresses

LEMMA LamportsTyped ==
  ASSUME BasicShapes
  PROVE  Lamports \in [Addresses -> Int] /\ wallet \in [Users -> Int]
BY DEF BasicShapes, Lamports, Accounts

\* A wallet that pays, or is paid when the amount is negative.
LEMMA Paying ==
  ASSUME BasicShapes, NEW u \in Users, NEW d \in Int, wallet[u] >= d,
         wallet' = [wallet EXCEPT ![u] = wallet[u] - d]
  PROVE  wallet' \in [Users -> Nat] /\ SumFunction(wallet') = SumFunction(wallet) - d
<1> DEFINE f == wallet
           g == wallet'
           e == 0 - d
<1>1. f \in [Users -> Int] /\ g \in [Users -> Nat] /\ g \in [Users -> Int]
  BY DEF BasicShapes
<1>2. e \in Int /\ g[u] = f[u] + e /\ \A y \in Users \ {u} : g[y] = f[y]
  BY DEF BasicShapes
<1>3. IsFiniteSet(Users)
  BY BasicAssumption
<1>4. SumFunction(f) \in Int /\ SumFunction(g) = SumFunction(f) + e
  <2> HIDE DEF f, g, e
  <2> QED BY <1>1, <1>2, <1>3, SumMoves
<1> QED BY <1>1, <1>4

\* One account changes.
LEMMA AccountMoves ==
  ASSUME BasicShapes, NEW p \in Addresses, NEW new \in Accounts,
         account' = [account EXCEPT ![p] = new]
  PROVE  /\ account' \in [Addresses -> Accounts]
         /\ SumFunction(Lamports') = SumFunction(Lamports) + (new.lamports - account[p].lamports)
<1> DEFINE f == Lamports
           g == [q \in Addresses |-> account'[q].lamports]
           e == new.lamports - account[p].lamports
<1>1. account' \in [Addresses -> Accounts]
  BY DEF BasicShapes
<1>2. f \in [Addresses -> Int] /\ g \in [Addresses -> Int]
  BY <1>1 DEF BasicShapes, Lamports, Accounts
<1>3. e \in Int /\ g[p] = f[p] + e /\ \A y \in Addresses \ {p} : g[y] = f[y]
  BY DEF BasicShapes, Lamports, Accounts
<1>4. SumFunction(f) \in Int /\ SumFunction(g) = SumFunction(f) + e
  <2> HIDE DEF f, g, e
  <2> QED BY <1>2, <1>3, AddressesFinite, SumMoves
<1>5. Lamports' = g
  BY DEF Lamports
<1> QED BY <1>1, <1>4, <1>5

\* What a step that changes one account has to see to.
LEMMA OneChanges ==
  ASSUME BasicOK, NEW p \in Addresses, NEW new \in Accounts, NEW d \in Int,
         account' = [account EXCEPT ![p] = new],
         new.lamports = account[p].lamports + d,
         wallet' \in [Users -> Nat], SumFunction(wallet') = SumFunction(wallet) - d,
         Sound(new),
         peak' \in [Addresses -> Nat], \A q \in Addresses \ {p} : peak'[q] = peak[q],
         touched' \in SUBSET Addresses, touched \subseteq touched' \cup {p},
         program' = program, version' = version,
         p \notin touched' => Unfunded(p)',
         program \notin Payers /\ p \notin touched' => Clean(p)'
  PROVE  BasicOK'
<1>1. BasicShapes
  BY DEF BasicOK
<1>2. /\ account' \in [Addresses -> Accounts]
      /\ SumFunction(Lamports') = SumFunction(Lamports) + (new.lamports - account[p].lamports)
  BY <1>1, AccountMoves
<1>3. BasicShapes'
  BY <1>1, <1>2 DEF BasicShapes
<1>4. AllLamports' = AllLamports
  <2>1. SumFunction(wallet) \in Int /\ SumFunction(Lamports) \in Int
    <3>1. Lamports \in [Addresses -> Int] /\ wallet \in [Users -> Int] /\ IsFiniteSet(Users)
      BY <1>1, LamportsTyped, BasicAssumption
    <3> QED BY <3>1, AddressesFinite, SumOfFunction
  <2>2. account[p].lamports \in Int /\ new.lamports - account[p].lamports = d
    BY <1>1 DEF BasicShapes, Accounts
  <2> QED BY <1>2, <2>1, <2>2 DEF AllLamports
<1>5. \A q \in Addresses : Sound(account'[q])
  BY <1>1 DEF BasicOK, BasicShapes
<1>6. program' \notin Payers => \A q \in Addresses \ touched' : Clean(q)'
  <2> SUFFICES ASSUME program \notin Payers, NEW q \in Addresses \ touched'
               PROVE  Clean(q)'
    OBVIOUS
  <2>1. CASE q = p
    BY <2>1
  <2>2. CASE q # p
    <3>1. Clean(q)
      BY <2>2 DEF BasicOK
    <3>2. account'[q] = account[q] /\ peak'[q] = peak[q]
      BY <1>1, <2>2 DEF BasicShapes
    <3> QED BY <3>1, <3>2 DEF Clean
  <2> QED BY <2>1, <2>2
<1>7. AllLamports' = SumFunction([u \in Users |-> Endowment])
  BY <1>4 DEF BasicOK
<1>8. \A q \in Addresses : Sound(account[q])'
  BY <1>5 DEF Sound, Exempt, minimum_balance
<1>9. \A q \in Addresses \ touched' : Unfunded(q)'
  <2> SUFFICES ASSUME NEW q \in Addresses \ touched', q # p PROVE Unfunded(q)'
    OBVIOUS
  <2>1. Unfunded(q) /\ account'[q] = account[q]
    BY <1>1 DEF BasicOK, BasicShapes
  <2> QED BY <2>1 DEF Unfunded
<1> QED BY <1>3, <1>6, <1>7, <1>8, <1>9 DEF BasicOK

LEMMA SizedKeeps ==
  ASSUME BasicOK, NEW p \in Addresses, NEW lamports \in Nat, NEW size \in Nat,
         NEW data \in Kinds, NEW d \in Int, lamports = account[p].lamports + d,
         wallet' \in [Users -> Nat], SumFunction(wallet') = SumFunction(wallet) - d,
         Sized(p, lamports, size, data), lamports >= minimum_balance(size),
         touched' \in SUBSET Addresses, touched \subseteq touched' \cup {p},
         program' = program, version' = version,
         program \notin Payers /\ p \notin touched' =>
           lamports = minimum_balance(IF version = "anchor" THEN size ELSE peak'[p])
  PROVE  BasicOK'
<1> DEFINE new == [lamports |-> lamports, size |-> size, owner |-> "program", data |-> data]
<1>1. new \in Accounts /\ new.lamports = account[p].lamports + d
  BY DEF Accounts, NewOwners
<1>2. account' = [account EXCEPT ![p] = new]
  BY DEF Sized
<1>3. Sound(new)
  BY Rents DEF Sound, Exempt
<1>4. peak' \in [Addresses -> Nat] /\ \A q \in Addresses \ {p} : peak'[q] = peak[q]
  BY DEF Sized, BasicOK, BasicShapes
<1>5. account'[p] = new
  BY <1>2 DEF BasicOK, BasicShapes
<1>6. program \notin Payers /\ p \notin touched' => Clean(p)'
  BY <1>5 DEF Clean, minimum_balance
<1>7. Unfunded(p)'
  BY <1>5 DEF Unfunded
<1> HIDE DEF new
<1> QED BY <1>1, <1>2, <1>3, <1>4, <1>6, <1>7, OneChanges

\* An account of the program has its rent; what is not of it has no data.
LEMMA NothingThere ==
  ASSUME BasicOK, NEW p \in Addresses
  PROVE  /\ account[p].lamports \in Nat /\ account[p].size \in Nat /\ account[p].data \in Kinds
         /\ peak[p] \in Nat
         /\ account[p].lamports = 0 => account[p].owner # "program"
         /\ account[p].owner # "program" => account[p].size = 0
         /\ account[p].owner = "program" => account[p].lamports >= minimum_balance(account[p].size)
BY DEF BasicOK, BasicShapes, Accounts, Sound, Exempt

\* Every program's create_account, with the rent of the size, or more of it where the
\* program gives it away again.
LEMMA CreateKeeps ==
  ASSUME BasicOK, NEW u \in Users, NEW p \in Addresses, NEW lamports \in Nat,
         NEW size \in Nat, NEW data \in Kinds,
         CreateAccount(u, p, lamports, size, data), lamports >= minimum_balance(size),
         program \notin Payers => lamports = minimum_balance(size),
         program' = program, version' = version
  PROVE  BasicOK'
<1>1. wallet' \in [Users -> Nat] /\ SumFunction(wallet') = SumFunction(wallet) - lamports
  <2>1. BasicShapes /\ wallet[u] >= lamports /\ lamports \in Int
        /\ wallet' = [wallet EXCEPT ![u] = wallet[u] - lamports]
    BY DEF CreateAccount, CanCreate, Pay, CanPay, BasicOK
  <2> QED BY <2>1, Paying
<1>2. lamports = account[p].lamports + lamports
  BY DEF CreateAccount, CanCreate
<1>3. peak'[p] = size
  BY NothingThere DEF CreateAccount, CanCreate, Sized, BasicOK, BasicShapes
<1>4. touched' \in SUBSET Addresses /\ touched \subseteq touched' \cup {p}
  BY DEF CreateAccount, CanCreate, BasicOK, BasicShapes
<1>5. program \notin Payers =>
        lamports = minimum_balance(IF version = "anchor" THEN size ELSE peak'[p])
  BY <1>3
<1>6. lamports \in Int /\ Sized(p, lamports, size, data)
  BY DEF CreateAccount
<1> QED BY <1>1, <1>2, <1>4, <1>5, <1>6, SizedKeeps

\* Anchor's init, which tops up the lamports that are there.
LEMMA InitKeeps ==
  ASSUME BasicOK, version = "anchor", NEW u \in Users, NEW p \in Addresses, NEW size \in Nat,
         InitAccount(u, p, size), program' = program, version' = version
  PROVE  BasicOK'
<1> DEFINE have == account[p].lamports
           need == minimum_balance(size)
           paid == IF have >= need THEN 0 ELSE need - have
<1>1. have \in Nat /\ need \in Nat /\ paid \in Int
  BY NothingThere, Rents
<1>2. Pay(u, paid) /\ Sized(p, have + paid, size, "message") /\ touched' = touched
  BY DEF InitAccount, TopUp
<1>3. wallet' \in [Users -> Nat] /\ SumFunction(wallet') = SumFunction(wallet) - paid
  <2>1. BasicShapes /\ wallet[u] >= paid /\ wallet' = [wallet EXCEPT ![u] = wallet[u] - paid]
    BY <1>2 DEF Pay, CanPay, BasicOK
  <2> HIDE DEF paid
  <2> QED BY <1>1, <2>1, Paying
<1>4. have + paid \in Nat /\ have + paid >= need
  BY <1>1
<1>5. program \notin Payers /\ p \notin touched' => have + paid = minimum_balance(size)
  <2> SUFFICES ASSUME program \notin Payers, p \notin touched PROVE have + paid = need
    BY <1>2
  <2>1. have = 0
    BY DEF InitAccount, CanInit, BasicOK, Clean
  <2> QED BY <1>1, <2>1
<1>6. touched' \in SUBSET Addresses /\ touched \subseteq touched' \cup {p}
  BY <1>2 DEF BasicOK, BasicShapes
<1>7. have + paid = account[p].lamports + paid /\ have + paid >= minimum_balance(size)
  BY <1>4
<1>8. program \notin Payers /\ p \notin touched' =>
        have + paid = minimum_balance(IF version = "anchor" THEN size ELSE peak'[p])
  BY <1>5
<1>9. have + paid \in Nat
  BY <1>4
<1>10. "message" \in Kinds
  BY DEF Kinds
<1> HIDE DEF have, paid, need
<1> QED BY <1>1, <1>2, <1>3, <1>6, <1>7, <1>8, <1>9, <1>10, SizedKeeps

\* Anybody sends lamports to any address.
LEMMA GiftKeeps ==
  ASSUME BasicOK, NEW u \in Users, NEW p \in Addresses, NEW amount \in Nat,
         Gift(u, p, amount), program' = program, version' = version
  PROVE  BasicOK'
<1> DEFINE there == [account[p] EXCEPT !.lamports = @ + amount]
<1>1. BasicShapes /\ account[p] \in Accounts
  BY DEF BasicOK, BasicShapes
<1>2. there \in Accounts /\ there.lamports = account[p].lamports + amount
      /\ there.owner = account[p].owner /\ there.size = account[p].size
  BY <1>1 DEF Accounts
<1>3. account' = [account EXCEPT ![p] = there] /\ Exempt(there)
  BY DEF Gift
<1>4. Sound(there)
  <2>1. /\ account[p].owner = "program" => account[p].lamports > 0
        /\ account[p].owner # "program" => account[p].size = 0
    BY DEF BasicOK, Sound
  <2>2. account[p].lamports \in Nat
    BY <1>1 DEF Accounts
  <2> HIDE DEF there
  <2> QED BY <1>2, <1>3, <2>1, <2>2 DEF Sound
<1>5. wallet' \in [Users -> Nat] /\ SumFunction(wallet') = SumFunction(wallet) - amount
  <2>1. wallet[u] >= amount /\ amount \in Int
        /\ wallet' = [wallet EXCEPT ![u] = wallet[u] - amount]
    BY DEF Gift, Pay, CanPay
  <2> QED BY <1>1, <2>1, Paying
<1>6. /\ touched' \in SUBSET Addresses /\ touched \subseteq touched' \cup {p}
      /\ p \in touched'
      /\ peak' \in [Addresses -> Nat] /\ \A q \in Addresses \ {p} : peak'[q] = peak[q]
  BY <1>1 DEF Gift, BasicShapes
<1>7. amount \in Int
  OBVIOUS
<1> HIDE DEF there
<1> QED BY <1>2, <1>3, <1>4, <1>5, <1>6, <1>7, OneChanges

\* close-account: Anchor's gives back everything.
LEMMA CloseAnchorKeeps ==
  ASSUME BasicOK, NEW u \in Users, CloseUserAnchor(u), program' = program, version' = version
  PROVE  BasicOK'
<1> DEFINE p == PDA(u, CANONICAL)
           d == 0 - account[p].lamports
<1>1. p \in Addresses /\ account[p].lamports \in Nat /\ BasicShapes
  BY Named, Rents, NothingThere DEF BasicOK
<1>2. Absent \in Accounts /\ Absent.lamports = 0 /\ Absent.owner = "system" /\ Absent.size = 0
  BY DEF Absent, Accounts, Kinds, NewOwners
<1>3. account' = [account EXCEPT ![p] = Absent] /\ peak' = peak /\ touched' = touched \ {p}
  BY DEF CloseUserAnchor, Emptied
<1>4. wallet' \in [Users -> Nat] /\ SumFunction(wallet') = SumFunction(wallet) - d
  <2>1. wallet' = [wallet EXCEPT ![u] = wallet[u] - d]
    <3>1. wallet' = [wallet EXCEPT ![u] = wallet[u] + account[p].lamports]
      BY DEF CloseUserAnchor
    <3>2. wallet[u] + account[p].lamports = wallet[u] - d
      BY <1>1 DEF BasicShapes
    <3> QED BY <3>1, <3>2
  <2>2. d \in Int /\ wallet[u] >= d
    BY <1>1 DEF BasicShapes
  <2> HIDE DEF d
  <2> QED BY <1>1, <2>1, <2>2, Paying
<1>5. d \in Int /\ Absent.lamports = account[p].lamports + d
  BY <1>1, <1>2
<1>6. Sound(Absent)
  BY <1>2 DEF Sound, Exempt
<1>7. /\ peak' \in [Addresses -> Nat] /\ \A q \in Addresses \ {p} : peak'[q] = peak[q]
      /\ touched' \in SUBSET Addresses /\ touched \subseteq touched' \cup {p}
  BY <1>1, <1>3 DEF BasicShapes
<1>8. Clean(p)' /\ Unfunded(p)'
  BY <1>1, <1>2, <1>3 DEF Clean, Unfunded, BasicShapes
<1> HIDE DEF p, d
<1> QED BY <1>1, <1>2, <1>3, <1>4, <1>5, <1>6, <1>7, <1>8, OneChanges

\* The others leave the rent of an empty account behind, whoever owns it then.
LEMMA CloseKeeps ==
  ASSUME BasicOK, NEW u \in Users, NEW o \in NewOwners, CloseUser(u, o),
         program' = program, version' = version
  PROVE  BasicOK'
<1> DEFINE p == PDA(u, CANONICAL)
           d == 0 - Excess(p)
           new == [Absent EXCEPT !.lamports = minimum_balance(0), !.owner = o]
<1>1. p \in Addresses /\ account[p].lamports \in Nat /\ BasicShapes
  BY Named, Rents, NothingThere DEF BasicOK
<1>2. /\ minimum_balance(0) \in Nat
      /\ new \in Accounts /\ new.lamports = minimum_balance(0)
      /\ minimum_balance(0) > 0 /\ new.size = 0
  BY Rents DEF Absent, Accounts, Kinds
<1>3. account' = [account EXCEPT ![p] = new] /\ peak' = peak /\ touched' = touched \cup {p}
  BY DEF CloseUser
<1>4. d \in Int /\ 0 >= d /\ Excess(p) \in Int
      /\ new.lamports = account[p].lamports + d
  BY <1>1, <1>2 DEF Excess, CloseUser, CanClose
<1>5. wallet' \in [Users -> Nat] /\ SumFunction(wallet') = SumFunction(wallet) - d
  <2>1. wallet' = [wallet EXCEPT ![u] = wallet[u] - d]
    <3>1. wallet' = [wallet EXCEPT ![u] = wallet[u] + Excess(p)]
      BY DEF CloseUser
    <3>2. wallet[u] + Excess(p) = wallet[u] - d
      BY <1>1, <1>4 DEF BasicShapes
    <3> QED BY <3>1, <3>2
  <2>2. wallet[u] >= d
    BY <1>1, <1>4 DEF BasicShapes
  <2> HIDE DEF d
  <2> QED BY <1>1, <1>4, <2>1, <2>2, Paying
<1>6. Sound(new)
  BY <1>2 DEF Sound, Exempt
<1>7. /\ peak' \in [Addresses -> Nat] /\ \A q \in Addresses \ {p} : peak'[q] = peak[q]
      /\ touched' \in SUBSET Addresses /\ touched \subseteq touched' \cup {p}
      /\ p \in touched'
  BY <1>1, <1>3 DEF BasicShapes
<1> HIDE DEF p, d, new
<1> QED BY <1>1, <1>2, <1>3, <1>4, <1>5, <1>6, <1>7, OneChanges

\* realloc with Anchor: the caller pays for a longer message, and is paid for a shorter.
LEMMA UpdateKeeps ==
  ASSUME BasicOK, version = "anchor", program \notin Payers,
         NEW u \in Users, NEW k \in Keypairs, NEW length \in Nat,
         UpdateMessage(u, k, length), program' = program, version' = version
  PROVE  BasicOK'
<1> DEFINE p == New(k)
           a == account[p]
           need == minimum_balance(length)
           left == IF length = a.size \/ (length > a.size /\ a.lamports >= need) THEN a.lamports
                   ELSE need
           d == left - a.lamports
<1>1. /\ p \in Addresses /\ BasicShapes
      /\ a.lamports \in Nat /\ a.size \in Nat /\ a.data \in Kinds /\ need \in Nat
      /\ (a.owner = "program" => a.lamports >= minimum_balance(a.size))
  BY Named, NothingThere, Rents DEF BasicOK
<1>2. /\ a.owner = "program" /\ Pay(u, d) /\ Sized(p, left, length, a.data)
      /\ touched' = IF length < a.size THEN touched \ {p} ELSE touched
  BY DEF UpdateMessage, CanUpdate, LeftIn
<1>3. left \in Nat /\ d \in Int /\ left = a.lamports + d
  BY <1>1
<1>4. left >= need
  BY <1>1, <1>2, <1>3
<1>5. wallet' \in [Users -> Nat] /\ SumFunction(wallet') = SumFunction(wallet) - d
  <2>1. wallet[u] >= d /\ wallet' = [wallet EXCEPT ![u] = wallet[u] - d]
    BY <1>2 DEF Pay, CanPay
  <2> HIDE DEF d
  <2> QED BY <1>1, <1>3, <2>1, Paying
<1>6. touched' \in SUBSET Addresses /\ touched \subseteq touched' \cup {p}
  BY <1>1, <1>2 DEF BasicShapes
<1>7. p \notin touched' => left = need
  <2> SUFFICES ASSUME p \notin touched' PROVE left = need
    OBVIOUS
  <2>1. CASE length < a.size
    BY <1>1, <2>1
  <2>2. CASE ~(length < a.size)
    <3>1. a.lamports = minimum_balance(a.size)
      BY <1>1, <1>2, <2>2 DEF BasicOK, Clean
    <3> QED BY <1>1, <3>1, <2>2, Rents DEF minimum_balance
  <2> QED BY <2>1, <2>2
<1>8. /\ left >= minimum_balance(length)
      /\ program \notin Payers /\ p \notin touched' =>
           left = minimum_balance(IF version = "anchor" THEN length ELSE peak'[p])
  BY <1>4, <1>7
<1>9. left = account[p].lamports + d /\ account[p].data \in Kinds
      /\ Sized(p, left, length, account[p].data)
  BY <1>1, <1>2, <1>3
<1> HIDE DEF p, left, d, need
<1> QED BY <1>1, <1>3, <1>5, <1>6, <1>8, <1>9, SizedKeeps

\* realloc of the others: the caller pays what is short, and never gets anything back.
LEMMA ExtendKeeps ==
  ASSUME BasicOK, version # "anchor", program \notin Payers,
         NEW u \in Users, NEW k \in Keypairs, NEW length \in Nat,
         Extend(u, k, length), program' = program, version' = version
  PROVE  BasicOK'
<1> DEFINE p == New(k)
           d == Shortfall(p, length)
           need == minimum_balance(length)
<1>1. /\ p \in Addresses /\ BasicShapes
      /\ account[p].lamports \in Nat /\ peak[p] \in Nat /\ need \in Nat
  BY Named, NothingThere, Rents DEF BasicOK
<1>2. /\ account[p].owner = "program" /\ d >= 0 /\ Pay(u, d) /\ touched' = touched
      /\ Sized(p, account[p].lamports + d, length, "enhanced")
  BY DEF Extend, CanExtend
<1>3. d \in Int /\ account[p].lamports + d = need
  BY <1>1 DEF Shortfall
<1>4. wallet' \in [Users -> Nat] /\ SumFunction(wallet') = SumFunction(wallet) - d
  <2>1. wallet[u] >= d /\ wallet' = [wallet EXCEPT ![u] = wallet[u] - d]
    BY <1>2 DEF Pay, CanPay
  <2> HIDE DEF d
  <2> QED BY <1>1, <1>3, <2>1, Paying
<1>5. touched' \in SUBSET Addresses /\ touched \subseteq touched' \cup {p}
  BY <1>1, <1>2 DEF BasicShapes
<1>6. peak'[p] = IF peak[p] > length THEN peak[p] ELSE length
  BY <1>1, <1>2 DEF Sized, BasicShapes
<1>7. p \notin touched' => need = minimum_balance(peak'[p])
  <2> SUFFICES ASSUME p \notin touched PROVE minimum_balance(length) = minimum_balance(peak'[p])
    BY <1>2
  <2>1. account[p].lamports = minimum_balance(peak[p])
    BY <1>1, <1>2 DEF BasicOK, Clean
  <2>2. peak[p] <= length
    BY <1>1, <1>2, <1>3, <2>1, Rents DEF minimum_balance
  <2> QED BY <1>1, <1>6, <2>2
<1>8. /\ account[p].lamports + d \in Nat /\ account[p].lamports + d >= minimum_balance(length)
      /\ program \notin Payers /\ p \notin touched' =>
           account[p].lamports + d
             = minimum_balance(IF version = "anchor" THEN length ELSE peak'[p])
  BY <1>1, <1>3, <1>7
<1>9. "enhanced" \in Kinds
  BY DEF Kinds
<1> HIDE DEF p, d, need
<1> QED BY <1>1, <1>2, <1>3, <1>4, <1>5, <1>8, <1>9, SizedKeeps

\* Without zero_init nobody pays, so the account must have had the rent.
LEMMA ZeroInitKeeps ==
  ASSUME BasicOK, version # "anchor", program \notin Payers,
         NEW k \in Keypairs, NEW length \in Nat,
         ReallocateZeroInit(k, length), program' = program, version' = version
  PROVE  BasicOK'
<1> DEFINE p == New(k)
           have == account[p].lamports
           d == 0
<1>1. /\ p \in Addresses /\ BasicShapes
      /\ have \in Nat /\ peak[p] \in Nat /\ account[p] \in Accounts
  BY Named, NothingThere DEF BasicOK, BasicShapes
<1>2. /\ account[p].owner = "program" /\ Sized(p, have, length, "work")
      /\ wallet' = wallet /\ touched' = touched
      /\ Exempt([account[p] EXCEPT !.size = length])
  BY DEF ReallocateZeroInit
<1>3. have >= minimum_balance(length)
  <2>1. [account[p] EXCEPT !.size = length].lamports = have
        /\ [account[p] EXCEPT !.size = length].size = length
    BY <1>1 DEF Accounts
  <2>2. have # 0
    BY <1>2, <1>1 DEF BasicOK, Sound
  <2> QED BY <1>2, <2>1, <2>2 DEF Exempt
<1>4. wallet' \in [Users -> Nat] /\ SumFunction(wallet') = SumFunction(wallet) - d
  <2>1. wallet \in [Users -> Int] /\ IsFiniteSet(Users)
    BY <1>1, LamportsTyped, BasicAssumption
  <2>2. SumFunction(wallet) \in Int
    BY <2>1, SumOfFunction
  <2> QED BY <1>1, <1>2, <2>2 DEF BasicShapes
<1>5. touched' \in SUBSET Addresses /\ touched \subseteq touched' \cup {p}
  BY <1>1, <1>2 DEF BasicShapes
<1>6. peak'[p] = IF peak[p] > length THEN peak[p] ELSE length
  BY <1>1, <1>2 DEF Sized, BasicShapes
<1>7. p \notin touched' => have = minimum_balance(peak'[p])
  <2> SUFFICES ASSUME p \notin touched PROVE have = minimum_balance(peak'[p])
    BY <1>2
  <2>1. have = minimum_balance(peak[p])
    BY <1>1, <1>2 DEF BasicOK, Clean
  <2>2. peak[p] >= length
    BY <1>1, <1>3, <2>1, Rents DEF minimum_balance
  <2> QED BY <1>1, <1>6, <2>1, <2>2
<1>8. /\ d \in Int /\ have = account[p].lamports + d
      /\ program \notin Payers /\ p \notin touched' =>
           have = minimum_balance(IF version = "anchor" THEN length ELSE peak'[p])
  BY <1>1, <1>7
<1>9. "work" \in Kinds
  BY DEF Kinds
<1> HIDE DEF p, d, have
<1> QED BY <1>1, <1>2, <1>3, <1>4, <1>5, <1>8, <1>9, SizedKeeps

\* Lamports that move between two accounts.
LEMMA MovedKeeps ==
  ASSUME BasicOK, program \in Payers, NEW from \in Addresses, NEW to \in Addresses,
         NEW amount \in Nat, amount > 0,
         MovedBetween(from, to, amount), program' = program, version' = version
  PROVE  BasicOK'
<1> DEFINE a == account[from]
           b == account[to]
           f == Lamports
           h == [Lamports EXCEPT ![from] = @ - amount]
           g == [q \in Addresses |-> account'[q].lamports]
           less == 0 - amount
<1>1. /\ BasicShapes /\ account \in [Addresses -> Accounts]
      /\ a \in Accounts /\ b \in Accounts /\ Sound(a) /\ Sound(b)
  BY DEF BasicOK, BasicShapes
<1>2. /\ from # to /\ a.lamports >= amount
      /\ Exempt(Debited(a, amount)) /\ Exempt(Credited(b, amount))
      /\ account' = [account EXCEPT ![from] = Debited(@, amount), ![to] = Credited(@, amount)]
      /\ touched' = touched \cup {to} /\ wallet' = wallet /\ peak' = peak
  BY DEF MovedBetween, CanMove
<1>3. /\ Debited(a, amount) \in Accounts
      /\ Debited(a, amount).lamports = a.lamports - amount
      /\ Debited(a, amount).owner = "program" => Debited(a, amount).lamports > 0
      /\ Debited(a, amount).owner # "program" => Debited(a, amount).size = 0
      /\ Debited(a, amount).owner = "system" /\ a.lamports # amount => a.owner = "system"
  BY <1>1, <1>2 DEF Debited, Absent, Accounts, Kinds, NewOwners, Sound
<1>4. /\ Credited(b, amount) \in Accounts
      /\ Credited(b, amount).lamports = b.lamports + amount
      /\ Credited(b, amount).lamports > 0
      /\ Credited(b, amount).owner # "program" => Credited(b, amount).size = 0
  BY <1>1 DEF Credited, Accounts, Sound
<1>5. /\ account' \in [Addresses -> Accounts]
      /\ account'[from] = Debited(a, amount) /\ account'[to] = Credited(b, amount)
      /\ \A q \in Addresses \ {from, to} : account'[q] = account[q]
  <2> HIDE DEF a, b
  <2>1. account[from] = a /\ account[to] = b
    BY DEF a, b
  <2> QED BY <1>1, <1>2, <1>3, <1>4, <2>1
<1>6. BasicShapes'
  BY <1>1, <1>2, <1>5 DEF BasicShapes
<1>7. \A q \in Addresses : Sound(account[q])'
  <2> SUFFICES ASSUME NEW q \in Addresses PROVE Sound(account'[q])
    BY DEF Sound, Exempt, minimum_balance
  <2>1. CASE q = from
    BY <1>2, <1>3, <1>5, <2>1 DEF Sound
  <2>2. CASE q = to
    BY <1>2, <1>4, <1>5, <2>2 DEF Sound
  <2>3. CASE q \notin {from, to}
    BY <1>5, <2>3 DEF BasicOK
  <2> QED BY <2>1, <2>2, <2>3
<1>8. SumFunction(f) \in Int /\ SumFunction(h) = SumFunction(f) + less
  <2>1. f \in [Addresses -> Int]
    BY <1>1, LamportsTyped
  <2>2. h \in [Addresses -> Int] /\ less \in Int
    BY <2>1
  <2>3. h[from] = f[from] + less /\ \A y \in Addresses \ {from} : h[y] = f[y]
    BY <2>1
  <2> HIDE DEF f, h, less
  <2> QED BY <2>1, <2>2, <2>3, AddressesFinite, SumMoves
<1>9. SumFunction(g) = SumFunction(h) + amount
  <2>1. h \in [Addresses -> Int] /\ g \in [Addresses -> Int] /\ amount \in Int
    BY <1>1, <1>5, LamportsTyped DEF Accounts
  <2>2. g[to] = h[to] + amount
    BY <1>1, <1>2, <1>4, <1>5, LamportsTyped DEF Lamports
  <2>3. \A y \in Addresses \ {to} : g[y] = h[y]
    BY <1>1, <1>2, <1>3, <1>5, LamportsTyped DEF Lamports
  <2> HIDE DEF g, h
  <2> QED BY <2>1, <2>2, <2>3, AddressesFinite, SumMoves
<1>10. AllLamports' = AllLamports
  <2>1. Lamports' = g
    BY DEF Lamports
  <2>2. SumFunction(g) = SumFunction(f)
    <3> HIDE DEF f, g, h
    <3> QED BY <1>8, <1>9
  <2> QED BY <1>2, <2>1, <2>2 DEF AllLamports
<1>11. \A q \in Addresses \ touched' : Unfunded(q)'
  <2> SUFFICES ASSUME NEW q \in Addresses \ touched' PROVE Unfunded(q)'
    OBVIOUS
  <2>1. Unfunded(q) /\ q # to
    BY <1>2 DEF BasicOK
  <2>2. CASE q = from
    <3>1. account[q] = a /\ account'[q] = Debited(a, amount) /\ a.lamports \in Nat
      BY <1>1, <1>5, <2>2 DEF Accounts
    <3> HIDE DEF a
    <3> QED BY <1>2, <1>3, <2>1, <3>1 DEF Unfunded
  <2>3. CASE q # from
    BY <1>5, <2>1, <2>3 DEF Unfunded
  <2> QED BY <2>2, <2>3
<1> QED BY <1>6, <1>7, <1>10, <1>11 DEF BasicOK

\* An account with just the rent of its length.
LEMMA RentOnly ==
  ASSUME BasicOK, NEW u \in Users, NEW p \in Addresses, NEW size \in Nat, NEW data \in Kinds,
         CreateAccount(u, p, minimum_balance(size), size, data),
         program' = program, version' = version
  PROVE  BasicOK'
<1> DEFINE l == minimum_balance(size)
<1>1. l \in Nat /\ l >= minimum_balance(size) /\ (program \notin Payers => l = minimum_balance(size))
  BY Rents
<1>2. CreateAccount(u, p, l, size, data)
  OBVIOUS
<1> HIDE DEF l
<1> QED BY <1>1, <1>2, CreateKeeps

LEMMA CloseAccountKeeps ==
  ASSUME BasicOK, program = "close-account", CloseAccountNext,
         program' = program, version' = version
  PROVE  BasicOK'
<1> PICK u \in Users :
      \/ version = "anchor" /\ (CreateUserAnchor(u) \/ CloseUserAnchor(u))
      \/ version # "anchor" /\ \E o \in NewOwners : CloseUser(u, o)
      \/ version = "native" /\ \E p \in Reached, n \in Lengths : CreateUserNative(u, p, n)
      \/ version = "pinocchio" /\ \E p \in Reached : CreateUserPinocchio(u, p)
  BY DEF CloseAccountNext
<1>1. CASE version = "anchor" /\ CreateUserAnchor(u)
  BY <1>1, InitKeeps, Named, Rents DEF CreateUserAnchor
<1>2. CASE CloseUserAnchor(u)
  BY <1>2, CloseAnchorKeeps
<1>3. CASE \E o \in NewOwners : CloseUser(u, o)
  BY <1>3, CloseKeeps
<1>4. ASSUME NEW p \in Reached, NEW n \in Lengths, CreateUserNative(u, p, n) PROVE BasicOK'
  <2>1. "user" \in Kinds /\ p \in Addresses /\ n \in Nat
    BY ReachedAreAddresses, Rents DEF Kinds
  <2> QED BY <1>4, <2>1, RentOnly DEF CreateUserNative
<1>5. ASSUME NEW p \in Reached, CreateUserPinocchio(u, p) PROVE BasicOK'
  <2>1. "user" \in Kinds /\ p \in Addresses /\ LEN \in Nat
    BY ReachedAreAddresses, Rents DEF Kinds
  <2> QED BY <1>5, <2>1, RentOnly DEF CreateUserPinocchio
<1> QED BY <1>1, <1>2, <1>3, <1>4, <1>5

LEMMA FavoritesKeep ==
  ASSUME BasicOK, FavoritesNext, program' = program, version' = version
  PROVE  BasicOK'
<1> PICK u \in Users :
      \/ version = "anchor" /\ SetFavorites(u)
      \/ version = "native" /\ \E n \in Lengths : CreatePdaNative(u, n)
      \/ version = "pinocchio" /\ \E b \in Bumps : CreatePdaPinocchio(u, b)
  BY DEF FavoritesNext
<1>1. CASE version = "anchor" /\ SetFavorites(u)
  BY <1>1, InitKeeps, Named, Rents DEF SetFavorites
<1>2. ASSUME NEW n \in Lengths, CreatePdaNative(u, n) PROVE BasicOK'
  <2>1. "favorites" \in Kinds /\ PDA(u, CANONICAL) \in Addresses /\ n \in Nat
    BY Named, Rents DEF Kinds
  <2> QED BY <1>2, <2>1, RentOnly DEF CreatePdaNative
<1>3. ASSUME NEW b \in Bumps, CreatePdaPinocchio(u, b) PROVE BasicOK'
  <2>1. "favorites" \in Kinds /\ PDA(u, b) \in Addresses /\ LEN \in Nat
    BY Named, Rents DEF Kinds
  <2> QED BY <1>3, <2>1, RentOnly DEF CreatePdaPinocchio
<1> QED BY <1>1, <1>2, <1>3

LEMMA AddressKeeps ==
  ASSUME BasicOK, NEW u \in Users, NEW k \in Keypairs, program' = program, version' = version
  PROVE  /\ version = "anchor" /\ CreateAddressInfoAnchor(u, k) => BasicOK'
         /\ \A n \in Lengths : CreateAddressInfoNative(u, k, n) => BasicOK'
         /\ CreateAddressInfoPinocchio(u, k) => BasicOK'
<1>1. "address" \in Kinds /\ New(k) \in Addresses /\ LEN \in Nat /\ \A n \in Lengths : n \in Nat
  BY Named, Rents DEF Kinds
<1>2. version = "anchor" /\ CreateAddressInfoAnchor(u, k) => BasicOK'
  BY <1>1, InitKeeps DEF CreateAddressInfoAnchor
<1>3. \A n \in Lengths : CreateAddressInfoNative(u, k, n) => BasicOK'
  BY <1>1, RentOnly DEF CreateAddressInfoNative
<1>4. CreateAddressInfoPinocchio(u, k) => BasicOK'
  BY <1>1, RentOnly DEF CreateAddressInfoPinocchio
<1> QED BY <1>2, <1>3, <1>4

LEMMA AccountDataKeeps ==
  ASSUME BasicOK, AccountDataNext, program' = program, version' = version
  PROVE  BasicOK'
BY AddressKeeps DEF AccountDataNext

LEMMA PageVisitsKeep ==
  ASSUME BasicOK, PageVisitsNext, program' = program, version' = version
  PROVE  BasicOK'
<1> PICK payer \in Users, u \in Users :
      \/ version = "anchor" /\ payer = u /\ CreatePageVisitsAnchor(u)
      \/ version # "anchor" /\ \E p \in Reached : CreatePageVisits(payer, u, p)
  BY DEF PageVisitsNext
<1>1. CASE version = "anchor" /\ CreatePageVisitsAnchor(u)
  BY <1>1, InitKeeps, Named, Rents DEF CreatePageVisitsAnchor
<1>2. ASSUME NEW p \in Reached, CreatePageVisits(payer, u, p) PROVE BasicOK'
  <2>1. "visits" \in Kinds /\ p \in Addresses /\ LEN \in Nat
    BY ReachedAreAddresses, Rents DEF Kinds
  <2> QED BY <1>2, <2>1, RentOnly DEF CreatePageVisits
<1> QED BY <1>1, <1>2

LEMMA ReallocKeeps ==
  ASSUME BasicOK, program = "realloc", ReallocNext, program' = program, version' = version
  PROVE  BasicOK'
<1>1. program \notin Payers /\ ENHANCED_LEN \in Nat /\ WORK_LEN \in Nat /\ Lengths \subseteq Nat
  BY Rents DEF Payers
<1> PICK k \in Keypairs :
      \/ /\ version = "anchor"
         /\ \E u \in Users, n \in Lengths : InitializeMessage(u, k, n) \/ UpdateMessage(u, k, n)
      \/ /\ version = "native"
         /\ \E n \in Lengths :
              \/ \E u \in Users : CreateAddressInfoNative(u, k, n) \/ ReallocateNative(u, k, n)
              \/ ReallocateZeroInit(k, n)
      \/ /\ version = "pinocchio"
         /\ \/ \E u \in Users : CreateAddressInfoPinocchio(u, k) \/ ReallocatePinocchio(u, k)
            \/ ReallocateZeroInit(k, WORK_LEN)
  BY DEF ReallocNext
<1>2. ASSUME version = "anchor", NEW u \in Users, NEW n \in Lengths,
             InitializeMessage(u, k, n) \/ UpdateMessage(u, k, n)
      PROVE  BasicOK'
  <2>1. n \in Nat /\ New(k) \in Addresses
    BY <1>1, Named
  <2>2. CASE InitializeMessage(u, k, n)
    BY <1>2, <2>1, <2>2, InitKeeps DEF InitializeMessage
  <2>3. CASE UpdateMessage(u, k, n)
    BY <1>1, <1>2, <2>1, <2>3, UpdateKeeps
  <2> QED BY <1>2, <2>2, <2>3
<1>3. ASSUME version # "anchor", NEW u \in Users, NEW n \in Nat, Extend(u, k, n)
      PROVE  BasicOK'
  BY <1>1, <1>3, ExtendKeeps
<1>4. ASSUME version # "anchor", NEW n \in Nat, ReallocateZeroInit(k, n)
      PROVE  BasicOK'
  BY <1>1, <1>4, ZeroInitKeeps
<1>5. ASSUME version = "native", NEW n \in Lengths,
             \/ \E u \in Users : CreateAddressInfoNative(u, k, n) \/ ReallocateNative(u, k, n)
             \/ ReallocateZeroInit(k, n)
      PROVE  BasicOK'
  BY <1>1, <1>3, <1>4, <1>5, AddressKeeps DEF ReallocateNative
<1>6. ASSUME version = "pinocchio",
             \/ \E u \in Users : CreateAddressInfoPinocchio(u, k) \/ ReallocatePinocchio(u, k)
             \/ ReallocateZeroInit(k, WORK_LEN)
      PROVE  BasicOK'
  BY <1>1, <1>3, <1>4, <1>6, AddressKeeps DEF ReallocatePinocchio
<1> QED BY <1>2, <1>5, <1>6

LEMMA RentPayerKeeps ==
  ASSUME BasicOK, program = "pda-rent-payer", RentPayerNext,
         program' = program, version' = version
  PROVE  BasicOK'
<1>1. program \in Payers /\ minimum_balance(0) \in Nat /\ minimum_balance(0) > 0
      /\ Funds \subseteq Nat /\ CANONICAL \in Bumps
  BY Rents DEF Payers
<1>2. ASSUME NEW u \in Users, NEW n \in Funds, InitRentVaultAnchor(u, n) PROVE BasicOK'
  BY <1>1, <1>2, GiftKeeps, Named DEF InitRentVaultAnchor
<1>3. ASSUME NEW k \in Keypairs, NEW b \in Bumps, MovedBetween(Vault(b), New(k), minimum_balance(0))
      PROVE  BasicOK'
  <2>1. Vault(b) \in Addresses /\ New(k) \in Addresses
    BY Named
  <2> QED BY <1>1, <1>3, <2>1, MovedKeeps
<1>4. ASSUME NEW u \in Users, NEW b \in Bumps, NEW n \in Funds, InitRentVault(u, b, n)
      PROVE  BasicOK'
  <2> DEFINE l == minimum_balance(0) + n
  <2>1. /\ "vault" \in Kinds /\ Vault(b) \in Addresses /\ 0 \in Nat
        /\ l \in Nat /\ l >= minimum_balance(0)
    BY <1>1, Named DEF Kinds
  <2>2. CreateAccount(u, Vault(b), l, 0, "vault")
    BY <1>4 DEF InitRentVault
  <2> HIDE DEF l
  <2> QED BY <1>1, <2>1, <2>2, CreateKeeps
<1> QED BY <1>1, <1>2, <1>3, <1>4 DEF RentPayerNext, CreateNewAccountAnchor, CreateNewAccount

LEMMA TransferSolKeeps ==
  ASSUME BasicOK, program = "transfer-sol", TransferSolNext,
         program' = program, version' = version
  PROVE  BasicOK'
<1>1. program \in Payers /\ Funds \subseteq Nat /\ \A n \in Funds : n > 0
  BY Rents DEF Payers
<1>2. ASSUME NEW u \in Users, NEW k \in Keypairs, MakePayer(u, k) PROVE BasicOK'
  <2>1. "payer" \in Kinds /\ New(k) \in Addresses /\ 0 \in Nat
    BY Named DEF Kinds
  <2> QED BY <1>2, <2>1, RentOnly DEF MakePayer
<1>3. ASSUME NEW u \in Users, NEW k \in Keypairs, NEW n \in Funds, TransferSolWithCpi(u, k, n)
      PROVE  BasicOK'
  BY <1>1, <1>3, GiftKeeps, Named DEF TransferSolWithCpi
<1>4. ASSUME NEW from \in Keypairs, NEW to \in Keypairs, NEW n \in Funds,
             TransferSolWithProgram(from, to, n)
      PROVE  BasicOK'
  <2>1. New(from) \in Addresses /\ New(to) \in Addresses /\ n \in Nat /\ n > 0
    BY <1>1, Named
  <2>2. MovedBetween(New(from), New(to), n)
    BY <1>4 DEF TransferSolWithProgram
  <2> QED BY <1>1, <2>1, <2>2, MovedKeeps
<1> QED BY <1>2, <1>3, <1>4 DEF TransferSolNext

LEMMA BasicStarts == BasicInit => BasicOK
<1> SUFFICES ASSUME BasicInit PROVE BasicOK
  OBVIOUS
<1>1. Absent \in Accounts /\ Absent.lamports = 0 /\ Absent.owner = "system" /\ Absent.size = 0
  BY DEF Absent, Accounts, Kinds, NewOwners
<1>2. BasicShapes
  BY <1>1, Rents DEF BasicInit, BasicShapes
<1>3. Lamports = [p \in Addresses |-> 0]
  BY <1>1 DEF BasicInit, Lamports
<1>4. SumFunction(Lamports) = 0
  BY <1>3, AddressesFinite, SumOfZeros
<1>5. AllLamports = SumFunction([u \in Users |-> Endowment])
  <2>1. wallet = [u \in Users |-> Endowment] /\ wallet \in [Users -> Int] /\ IsFiniteSet(Users)
    BY <1>2, LamportsTyped, BasicAssumption DEF BasicInit
  <2>2. SumFunction(wallet) \in Int
    BY <2>1, SumOfFunction
  <2> QED BY <1>4, <2>1, <2>2 DEF AllLamports
<1>6. \A p \in Addresses : Sound(account[p]) /\ Clean(p) /\ Unfunded(p)
  BY <1>1 DEF BasicInit, Sound, Exempt, Clean, Unfunded
<1> QED BY <1>2, <1>5, <1>6 DEF BasicOK

LEMMA BasicKeeps == BasicOK /\ [BasicNext]_basicVars => BasicOK'
<1> SUFFICES ASSUME BasicOK, [BasicNext]_basicVars PROVE BasicOK'
  OBVIOUS
<1>1. CASE BasicNext
  <2>1. program' = program /\ version' = version
    BY <1>1 DEF BasicNext
  <2>2. ASSUME NEW u \in Users, NEW p \in Reached, NEW n \in Funds, Gift(u, p, n)
        PROVE  BasicOK'
    <3>1. p \in Addresses /\ n \in Nat
      BY ReachedAreAddresses, Rents
    <3> QED BY <2>1, <2>2, <3>1, GiftKeeps
  <2> QED BY <1>1, <2>1, <2>2, CloseAccountKeeps, FavoritesKeep, AccountDataKeeps, ReallocKeeps,
             PageVisitsKeep, RentPayerKeeps, TransferSolKeeps DEF BasicNext
<1>2. CASE UNCHANGED basicVars
  <2>1. /\ program' = program /\ version' = version /\ wallet' = wallet
        /\ account' = account /\ peak' = peak /\ touched' = touched
    BY <1>2 DEF basicVars
  <2>2. BasicShapes' /\ AllLamports' = AllLamports
    BY <2>1 DEF BasicOK, BasicShapes, AllLamports, Lamports
  <2> QED BY <2>1, <2>2 DEF BasicOK, Sound, Exempt, Clean, Unfunded, minimum_balance
<1> QED BY <1>1, <1>2

LEMMA BasicInvariant == BasicSpec => []BasicOK
BY BasicStarts, BasicKeeps, PTL DEF BasicSpec

\* However the programs of basics/ create, resize, close and pay from accounts, and
\* whoever sends lamports to them: none is made or lost, no account is short of its rent,
\* and what nobody sent lamports to holds the rent of its size (Anchor) or of the largest
\* size it had (native, Pinocchio).
THEOREM RentsAreKept == BasicSpec => []RentsKept
<1>1. BasicOK => RentsKept
  <2> SUFFICES ASSUME BasicOK PROVE RentsKept
    OBVIOUS
  <2>1. BasicTypeOK
    BY DEF BasicOK, BasicShapes, BasicTypeOK, Accounts
  <2>2. \A p \in Addresses : Exempt(account[p])
    BY DEF BasicOK, Sound
  <2>3. program \notin Payers => \A p \in Addresses \ touched :
          account[p].owner = "program" =>
            account[p].lamports =
              minimum_balance(IF version = "anchor" THEN account[p].size ELSE peak[p])
    BY DEF BasicOK, Clean
  <2> QED BY <2>1, <2>2, <2>3 DEF BasicOK, RentsKept, AllLamports, Payers
<1> QED BY <1>1, BasicInvariant, PTL

-----------------------------------------------------------------------------
(* Nobody is stuck.  What that needs beyond the rents is how large accounts   *)
(* are and were, which no other program's accounts have to satisfy.           *)

\* An account of Anchor's close-account has data, and so is told from a closed one.
UsersSized == \A p \in Addresses : account[p].owner = "program" => account[p].size > 0

\* The vaults and the accounts that they pay have no data.
VaultsSized == \A p \in Addresses : account[p].size = 0

\* What reallocate_without_zero_init extends was never longer than it is (native), and
\* nothing ever longer than what it is extended to (Pinocchio).
MessagesSized ==
  \A k \in Keypairs :
    /\ version = "native" /\ account[New(k)].data = "address" =>
         peak[New(k)] = account[New(k)].size
    /\ version = "pinocchio" => peak[New(k)] <= ENHANCED_LEN

SizesOK ==
  /\ program = "close-account" /\ version = "anchor" => UsersSized
  /\ program = "pda-rent-payer" => VaultsSized
  /\ program = "realloc" => MessagesSized

\* One account changes its lamports, or nothing does but the wallets.
LEMMA SizesStay ==
  ASSUME BasicOK, SizesOK, program' = program, version' = version, peak' = peak,
         \A q \in Addresses : /\ account'[q].size = account[q].size
                              /\ account'[q].owner = account[q].owner
                              /\ account'[q].data = account[q].data
  PROVE  SizesOK'
BY Named DEF SizesOK, UsersSized, VaultsSized, MessagesSized

LEMMA GiftSizes ==
  ASSUME BasicOK, SizesOK, program' = program, version' = version,
         NEW u \in Users, NEW p \in Addresses, NEW amount \in Nat, Gift(u, p, amount)
  PROVE  SizesOK'
<1> DEFINE there == [account[p] EXCEPT !.lamports = @ + amount]
<1>1. account \in [Addresses -> Accounts] /\ account[p] \in Accounts
  BY DEF BasicOK, BasicShapes
<1>2. /\ there.size = account[p].size /\ there.owner = account[p].owner
      /\ there.data = account[p].data
  BY <1>1 DEF Accounts
<1>3. account' = [account EXCEPT ![p] = there] /\ peak' = peak
  BY DEF Gift
<1>4. \A q \in Addresses : /\ account'[q].size = account[q].size
                           /\ account'[q].owner = account[q].owner
                           /\ account'[q].data = account[q].data
  <2> HIDE DEF there
  <2> QED BY <1>1, <1>2, <1>3
<1> QED BY <1>3, <1>4, SizesStay

\* Anchor's close-account makes accounts of some length, and leaves no owner behind.
LEMMA CloseAccountSizes ==
  ASSUME BasicOK, SizesOK, program = "close-account", CloseAccountNext,
         program' = program, version' = version
  PROVE  SizesOK'
<1> SUFFICES ASSUME version = "anchor" PROVE UsersSized'
  BY DEF SizesOK
<1>1. UsersSized /\ LEN > 0 /\ LEN \in Nat
  BY BasicAssumption DEF SizesOK
<1>2. PICK u \in Users : CreateUserAnchor(u) \/ CloseUserAnchor(u)
  BY DEF CloseAccountNext
<1> DEFINE p == PDA(u, CANONICAL)
<1>3. p \in Addresses /\ account \in [Addresses -> Accounts]
  BY Named, Rents DEF BasicOK, BasicShapes
<1>4. CASE CreateUserAnchor(u)
  <2> DEFINE l == account[p].lamports + TopUp(p, LEN)
             new == [lamports |-> l, size |-> LEN, owner |-> "program", data |-> "message"]
  <2>1. account' = [account EXCEPT ![p] = new] /\ new.size = LEN
    BY <1>4 DEF CreateUserAnchor, InitAccount, Sized
  <2> HIDE DEF new, p
  <2> QED BY <1>1, <1>3, <2>1 DEF UsersSized
<1>5. CASE CloseUserAnchor(u)
  <2>1. account' = [account EXCEPT ![p] = Absent] /\ Absent.owner # "program"
    BY <1>5 DEF CloseUserAnchor, Emptied, Absent
  <2> HIDE DEF p
  <2> QED BY <1>1, <1>3, <2>1 DEF UsersSized
<1> QED BY <1>2, <1>4, <1>5

\* pda-rent-payer only makes accounts without data, and moves lamports.
LEMMA RentPayerSizes ==
  ASSUME BasicOK, SizesOK, program = "pda-rent-payer", RentPayerNext,
         program' = program, version' = version
  PROVE  SizesOK'
<1> SUFFICES VaultsSized'
  BY DEF SizesOK
<1>1. VaultsSized /\ account \in [Addresses -> Accounts]
  BY DEF SizesOK, BasicOK, BasicShapes
<1>2. ASSUME NEW u \in Users, NEW n \in Funds, InitRentVaultAnchor(u, n) PROVE VaultsSized'
  BY <1>2, GiftSizes, Named, Rents DEF InitRentVaultAnchor, SizesOK
<1>3. ASSUME NEW u \in Users, NEW b \in Bumps, NEW n \in Funds, InitRentVault(u, b, n)
      PROVE  VaultsSized'
  <2> DEFINE l == minimum_balance(0) + n
  <2>1. Sized(Vault(b), l, 0, "vault")
    BY <1>3 DEF InitRentVault, CreateAccount
  <2> HIDE DEF l
  <2>2. /\ account'[Vault(b)] = [lamports |-> l, size |-> 0, owner |-> "program", data |-> "vault"]
        /\ \A q \in Addresses \ {Vault(b)} : account'[q] = account[q]
    BY <1>1, <2>1, Named DEF Sized
  <2>3. account'[Vault(b)].size = 0
    BY <2>2
  <2> QED BY <1>1, <2>2, <2>3 DEF VaultsSized
<1>4. ASSUME NEW from \in Addresses, NEW to \in Addresses, NEW amount,
             MovedBetween(from, to, amount)
      PROVE  VaultsSized'
  <2>1. account' = [account EXCEPT ![from] = Debited(account[from], amount),
                                   ![to] = Credited(account[to], amount)]
        /\ from # to
    BY <1>4 DEF MovedBetween, CanMove
  <2>2. account[from] \in Accounts /\ account[to] \in Accounts
        /\ account[from].size = 0 /\ account[to].size = 0
    BY <1>1 DEF VaultsSized
  <2>3. Debited(account[from], amount).size = 0 /\ Credited(account[to], amount).size = 0
    BY <2>2 DEF Debited, Credited, Absent, Accounts
  <2> QED BY <1>1, <2>1, <2>3 DEF VaultsSized
<1> QED BY <1>2, <1>3, <1>4, Named, Rents DEF RentPayerNext, CreateNewAccountAnchor, CreateNewAccount

\* realloc makes addresses as long as they are, and nothing longer than ENHANCED_LEN.
LEMMA ReallocSizes ==
  ASSUME BasicOK, SizesOK, program = "realloc", ReallocNext,
         program' = program, version' = version
  PROVE  SizesOK'
<1> SUFFICES MessagesSized'
  BY DEF SizesOK
<1>1. MessagesSized /\ LEN <= ENHANCED_LEN /\ WORK_LEN <= ENHANCED_LEN
      /\ LEN \in Nat /\ ENHANCED_LEN \in Nat /\ WORK_LEN \in Nat /\ Lengths \subseteq Nat
  BY BasicAssumption DEF SizesOK
<1>2. ASSUME NEW k \in Keypairs, NEW lamports, NEW size \in Nat, NEW data,
             Sized(New(k), lamports, size, data),
             version = "native" /\ data = "address" => account[New(k)].owner # "program",
             version = "pinocchio" => size <= ENHANCED_LEN
      PROVE  MessagesSized'
  <2> DEFINE new == [lamports |-> lamports, size |-> size, owner |-> "program", data |-> data]
             top == IF account[New(k)].owner = "program" /\ peak[New(k)] > size
                    THEN peak[New(k)] ELSE size
  <2>1. /\ account'[New(k)] = new /\ peak'[New(k)] = top
        /\ \A q \in Addresses \ {New(k)} : account'[q] = account[q] /\ peak'[q] = peak[q]
    BY <1>2, Named DEF Sized, BasicOK, BasicShapes
  <2>2. new.size = size /\ new.data = data
    OBVIOUS
  <2>3. peak[New(k)] \in Nat
    BY Named, NothingThere
  <2>4. version = "native" /\ data = "address" => top = size
    BY <1>2
  <2>5. version = "pinocchio" => top <= ENHANCED_LEN
    BY <1>1, <1>2, <2>3 DEF MessagesSized
  <2> HIDE DEF new, top
  <2>6. ASSUME NEW j \in Keypairs
        PROVE  /\ version = "native" /\ account'[New(j)].data = "address" =>
                    peak'[New(j)] = account'[New(j)].size
               /\ version = "pinocchio" => peak'[New(j)] <= ENHANCED_LEN
    <3>1. CASE New(j) = New(k)
      BY <2>1, <2>2, <2>4, <2>5, <3>1
    <3>2. CASE New(j) # New(k)
      <4>1. account'[New(j)] = account[New(j)] /\ peak'[New(j)] = peak[New(j)]
        BY <2>1, <2>6, <3>2, Named
      <4> QED BY <1>1, <2>6, <4>1 DEF MessagesSized
    <3> QED BY <3>1, <3>2
  <2> QED BY <2>6 DEF MessagesSized
<1>3. ASSUME version = "anchor" PROVE MessagesSized'
  BY <1>3 DEF MessagesSized
<1>4. ASSUME version = "native", NEW k \in Keypairs, NEW u \in Users, NEW n \in Lengths,
             CreateAddressInfoNative(u, k, n)
      PROVE  MessagesSized'
  <2>1. Sized(New(k), minimum_balance(n), n, "address") /\ account[New(k)].owner # "program"
        /\ n \in Nat
    BY <1>1, <1>4, NothingThere, Named DEF CreateAddressInfoNative, CreateAccount, CanCreate
  <2> QED BY <1>2, <1>4, <2>1
<1>5. ASSUME NEW k \in Keypairs, NEW u \in Users, NEW n \in Nat, Extend(u, k, n),
             version = "pinocchio" => n <= ENHANCED_LEN
      PROVE  MessagesSized'
  <2> DEFINE l == account[New(k)].lamports + Shortfall(New(k), n)
  <2>1. Sized(New(k), l, n, "enhanced") /\ "enhanced" # "address"
    BY <1>5 DEF Extend
  <2> HIDE DEF l
  <2> QED BY <1>2, <1>5, <2>1
<1>6. ASSUME NEW k \in Keypairs, NEW n \in Nat, ReallocateZeroInit(k, n),
             version = "pinocchio" => n <= ENHANCED_LEN
      PROVE  MessagesSized'
  <2> DEFINE l == account[New(k)].lamports
  <2>1. Sized(New(k), l, n, "work") /\ "work" # "address"
    BY <1>6 DEF ReallocateZeroInit
  <2> HIDE DEF l
  <2> QED BY <1>2, <1>6, <2>1
<1>7. ASSUME version = "pinocchio", NEW k \in Keypairs, NEW u \in Users,
             CreateAddressInfoPinocchio(u, k)
      PROVE  MessagesSized'
  <2>1. Sized(New(k), minimum_balance(LEN), LEN, "address")
    BY <1>7 DEF CreateAddressInfoPinocchio, CreateAccount
  <2> QED BY <1>1, <1>2, <1>7, <2>1
<1>8. ASSUME version = "native", NEW k \in Keypairs, NEW n \in Lengths,
             \/ \E u \in Users : ReallocateNative(u, k, n)
             \/ ReallocateZeroInit(k, n)
      PROVE  MessagesSized'
  BY <1>1, <1>5, <1>6, <1>8 DEF ReallocateNative
<1>9. ASSUME version = "pinocchio", NEW k \in Keypairs,
             \/ \E u \in Users : ReallocatePinocchio(u, k)
             \/ ReallocateZeroInit(k, WORK_LEN)
      PROVE  MessagesSized'
  BY <1>1, <1>5, <1>6, <1>9 DEF ReallocatePinocchio
<1> QED BY <1>3, <1>4, <1>7, <1>8, <1>9 DEF ReallocNext

LEMMA SizesStart == BasicInit => SizesOK
<1> SUFFICES ASSUME BasicInit PROVE SizesOK
  OBVIOUS
<1>1. Absent.size = 0 /\ Absent.owner = "system" /\ Absent.data = "none"
  BY DEF Absent
<1>2. ENHANCED_LEN \in Nat
  BY Rents
<1> QED BY <1>1, <1>2, Named DEF BasicInit, SizesOK, UsersSized, VaultsSized, MessagesSized

LEMMA SizesKeep == BasicOK /\ SizesOK /\ [BasicNext]_basicVars => SizesOK'
<1> SUFFICES ASSUME BasicOK, SizesOK, [BasicNext]_basicVars PROVE SizesOK'
  OBVIOUS
<1>1. CASE BasicNext
  <2>1. program' = program /\ version' = version
    BY <1>1 DEF BasicNext
  <2>2. ASSUME NEW u \in Users, NEW p \in Reached, NEW n \in Funds, Gift(u, p, n)
        PROVE  SizesOK'
    <3>1. p \in Addresses /\ n \in Nat
      BY ReachedAreAddresses, Rents
    <3> QED BY <2>1, <2>2, <3>1, GiftSizes
  <2>3. CASE program \notin {"close-account", "realloc", "pda-rent-payer"}
    BY <2>1, <2>3 DEF SizesOK
  <2> QED BY <1>1, <2>1, <2>2, <2>3, CloseAccountSizes, ReallocSizes, RentPayerSizes DEF BasicNext
<1>2. CASE UNCHANGED basicVars
  BY <1>2, SizesStay DEF basicVars
<1> QED BY <1>1, <1>2

LEMMA SizesInvariant == BasicSpec => [](BasicOK /\ SizesOK)
<1>1. BasicInit => BasicOK /\ SizesOK
  BY BasicStarts, SizesStart
<1>2. BasicOK /\ SizesOK /\ [BasicNext]_basicVars => BasicOK' /\ SizesOK'
  BY BasicKeeps, SizesKeep
<1> QED BY <1>1, <1>2, PTL DEF BasicSpec

\* Whatever others send and whatever was created, resized or closed before, the checks of
\* these instructions pass for who has the lamports: creating an account or a vault at its
\* usual address (unless others sent lamports there or it was closed, where it is
\* create_account), closing the account at one's canonical address, extending a message
\* (native and Pinocchio unless others sent lamports), paying a rent out of a vault that
\* has two, and emptying an account of transfer-sol.
THEOREM NobodyIsStuck == BasicSpec => []NeverStuck
<1>1. BasicOK /\ SizesOK => NeverStuck
  <2> SUFFICES ASSUME BasicOK, SizesOK PROVE NeverStuck
    OBVIOUS
  <2> DEFINE Affords(u, n) == wallet[u] >= minimum_balance(n)
             Waits(p) == account[p].owner = "system" /\ (version = "anchor" \/ p \notin touched)
  <2>1. /\ \A u \in Users : wallet[u] \in Nat
        /\ \A n \in Nat : minimum_balance(n) = RENT_BASE + n
        /\ RENT_BASE \in Nat /\ RENT_BASE > 0
        /\ LEN \in Nat /\ ENHANCED_LEN \in Nat /\ Lengths \subseteq Nat
    BY Rents DEF BasicOK, BasicShapes, minimum_balance
  <2>2. ASSUME NEW p \in Addresses, account[p].owner = "system", p \notin touched
        PROVE  account[p].lamports = 0
    BY <2>2 DEF BasicOK, Unfunded
  <2>3. ASSUME NEW u \in Users, NEW p \in Usual(u), Waits(p), Affords(u, LEN)
        PROVE  IF version = "anchor" THEN CanInit(u, p, LEN)
               ELSE account[p].size = 0 /\ CanCreate(u, p, minimum_balance(LEN))
    <3>1. p \in Addresses
      BY Named, Rents DEF Usual
    <3>2. account[p].lamports \in Nat /\ account[p].size = 0
      BY <2>3, <3>1, NothingThere
    <3>3. CanPay(u, TopUp(p, LEN))
      BY <2>1, <2>3, <3>2 DEF CanPay, TopUp
    <3> QED BY <2>2, <2>3, <3>1, <3>2, <3>3 DEF CanInit, CanCreate, CanPay
  <2>4. ASSUME program = "close-account", NEW u \in Users,
               account[PDA(u, CANONICAL)].owner = "program"
        PROVE  IF version = "anchor" THEN CanCloseAnchor(u) ELSE CanClose(u)
    <3> DEFINE p == PDA(u, CANONICAL)
    <3>1. p \in Addresses
      BY Named, Rents
    <3>2. /\ account[p].lamports \in Nat /\ account[p].size \in Nat
          /\ account[p].lamports >= minimum_balance(account[p].size)
      BY <2>4, <3>1, NothingThere
    <3>3. Excess(p) >= 0
      BY <2>1, <3>2 DEF Excess
    <3>4. version = "anchor" => account[p].size > 0
      BY <2>4, <3>1 DEF SizesOK, UsersSized
    <3> QED BY <2>4, <3>3, <3>4 DEF CanClose, CanCloseAnchor
  <2>5. ASSUME program = "realloc", NEW u \in Users, NEW k \in Keypairs,
               account[New(k)].owner = "program"
        PROVE  IF version = "anchor"
               THEN \A n \in Lengths : wallet[u] >= minimum_balance(n) => CanUpdate(u, k, n)
               ELSE New(k) \notin touched /\ wallet[u] >= minimum_balance(ENHANCED_LEN)
                      /\ (version = "native" => CanExtendNative(k, ENHANCED_LEN))
                      => CanExtend(u, k, ENHANCED_LEN)
    <3>1. /\ New(k) \in Addresses /\ account[New(k)].lamports \in Nat
          /\ account[New(k)].size \in Nat /\ peak[New(k)] \in Nat
      BY <2>5, Named, NothingThere
    <3>2. ASSUME NEW n \in Lengths, wallet[u] >= minimum_balance(n) PROVE CanUpdate(u, k, n)
      BY <2>1, <2>5, <3>1, <3>2 DEF CanUpdate, CanPay, LeftIn
    <3>3. ASSUME version # "anchor", New(k) \notin touched,
                 wallet[u] >= minimum_balance(ENHANCED_LEN),
                 version = "native" => CanExtendNative(k, ENHANCED_LEN)
          PROVE  CanExtend(u, k, ENHANCED_LEN)
      <4>1. account[New(k)].lamports = minimum_balance(peak[New(k)])
        BY <2>5, <3>1, <3>3 DEF BasicOK, Clean, Payers
      <4>2. version \in {"native", "pinocchio"}
        BY <3>3 DEF BasicOK, BasicShapes, Versions
      <4>3. peak[New(k)] <= ENHANCED_LEN
        BY <2>1, <2>5, <3>1, <3>3, <4>2 DEF SizesOK, MessagesSized, CanExtendNative
      <4> QED BY <2>1, <2>5, <3>1, <3>3, <4>1, <4>3 DEF CanExtend, CanPay, Shortfall
    <3> QED BY <3>2, <3>3
  <2>6. ASSUME program = "pda-rent-payer", NEW b \in Bumps, NEW u \in Users, NEW n \in Funds,
               Waits(Vault(b)), version # "anchor", wallet[u] >= minimum_balance(0) + n
        PROVE  CanCreate(u, Vault(b), minimum_balance(0) + n)
    BY <2>2, <2>6, Named DEF CanCreate, CanPay
  <2>7. ASSUME program = "pda-rent-payer", NEW b \in Bumps, NEW k \in Keypairs,
               account[Vault(b)].lamports >= 2 * minimum_balance(0)
        PROVE  CanMove(Vault(b), New(k), minimum_balance(0))
    <3> DEFINE v == account[Vault(b)]
               a == account[New(k)]
               m == minimum_balance(0)
    <3>1. /\ Vault(b) \in Addresses /\ New(k) \in Addresses /\ Vault(b) # New(k)
          /\ v \in Accounts /\ a \in Accounts /\ v.size = 0 /\ a.size = 0
          /\ m \in Nat /\ v.lamports >= 2 * m /\ m > 0
      BY <2>7, Named, Rents DEF BasicOK, BasicShapes, SizesOK, VaultsSized, Vault, New
    <3>2. Debited(v, m).lamports >= m /\ Debited(v, m).size = 0
      BY <3>1 DEF Debited, Absent, Accounts
    <3>3. Credited(a, m).lamports >= m /\ Credited(a, m).size = 0
      BY <3>1 DEF Credited, Accounts
    <3>4. v.lamports >= m
      BY <3>1 DEF Accounts
    <3> QED BY <3>1, <3>2, <3>3, <3>4 DEF CanMove, Exempt
  <2>8. ASSUME program = "transfer-sol", NEW from \in Keypairs, NEW to \in Keypairs,
               account[New(from)].owner = "program", from # to
        PROVE  CanMove(New(from), New(to), account[New(from)].lamports)
    <3> DEFINE f == account[New(from)]
               a == account[New(to)]
    <3>1. New(from) \in Addresses /\ New(to) \in Addresses /\ New(from) # New(to)
      BY <2>8, Named DEF New
    <3>2. f.lamports \in Nat /\ f.size \in Nat /\ f.lamports >= minimum_balance(f.size)
      BY <2>8, <3>1, NothingThere
    <3>3. /\ a.lamports \in Nat /\ a.size \in Nat /\ Exempt(a)
          /\ a.lamports = 0 => a.size = 0
      BY <3>1, NothingThere DEF BasicOK, Sound
    <3>4. Credited(a, f.lamports).lamports = a.lamports + f.lamports
          /\ Credited(a, f.lamports).size = a.size
      <4>1. a \in Accounts
        BY <3>1 DEF BasicOK, BasicShapes
      <4> QED BY <4>1 DEF Credited, Accounts
    <3>5. Exempt(Credited(a, f.lamports))
      BY <2>1, <3>2, <3>3, <3>4 DEF Exempt
    <3>6. Exempt(Debited(f, f.lamports))
      BY DEF Exempt, Debited, Absent
    <3> QED BY <3>1, <3>2, <3>5, <3>6 DEF CanMove
  <2> QED BY <2>3, <2>4, <2>5, <2>6, <2>7, <2>8 DEF NeverStuck
<1> QED BY <1>1, SizesInvariant, PTL
=============================================================================
