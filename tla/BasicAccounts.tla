---------------------------- MODULE BasicAccounts ----------------------------
(***************************************************************************)
(* The programs of basics/ that create, resize and close accounts and move *)
(* their rents by hand: close-account, favorites, account-data, realloc,   *)
(* program-derived-addresses, pda-rent-payer and transfer-sol, each as an  *)
(* Anchor, a native and a Pinocchio program.                               *)
(*                                                                         *)
(* What is stored is left out but for what realloc reads of it.  Anybody   *)
(* may send lamports to any address at any time.                           *)
(***************************************************************************)
EXTENDS Integers, FiniteSets, Functions

CONSTANTS
  Users,                \* wallets, which sign and pay
  Keypairs,             \* addresses whose keys the user makes
  Bumps, CANONICAL,     \* bumps of a PDA, and the one that is found first
  RENT_BASE,            \* rent of an account without data, in lamports
  LEN, ENHANCED_LEN, WORK_LEN,      \* lengths of fixed size, scaled
  Lengths,              \* bound: lengths of what native and Anchor programs store
  Funds,                \* bound: lamports sent, arguments and gifts
  Endowment             \* bound: lamports of each wallet at the beginning

ASSUME BasicAssumption ==
  /\ IsFiniteSet(Users) /\ IsFiniteSet(Keypairs) /\ IsFiniteSet(Bumps)
  /\ CANONICAL \in Bumps
  /\ RENT_BASE \in Nat \ {0} /\ Endowment \in Nat /\ Funds \subseteq Nat \ {0}
  /\ {LEN, ENHANCED_LEN, WORK_LEN} \cup Lengths \subseteq Nat \ {0}
  /\ LEN <= ENHANCED_LEN /\ WORK_LEN <= ENHANCED_LEN

VARIABLES
  program, version,     \* what is deployed, the same throughout
  wallet,               \* lamports of each user
  account,              \* every other address
  peak,                 \* history: the largest size since the account was created
  touched               \* history: addresses that others sent lamports to, or closed ones

basicVars == <<program, version, wallet, account, peak, touched>>

Programs == {"close-account", "favorites", "account-data", "realloc", "page-visits",
             "pda-rent-payer", "transfer-sol"}
Versions == {"anchor", "native", "pinocchio"}

PDA(u, bump) == <<u, bump>>
Vault(bump) == <<"rent_vault", bump>>
New(k) == <<"keypair", k>>
Addresses == {PDA(u, b) : u \in Users, b \in Bumps}
               \cup {Vault(b) : b \in Bumps} \cup {New(k) : k \in Keypairs}

\* The addresses that the deployed program has to do with.
Reached ==
  (IF program \in {"close-account", "favorites", "page-visits"}
   THEN {PDA(u, b) : u \in Users, b \in Bumps} ELSE {})
  \cup (IF program = "pda-rent-payer" THEN {Vault(b) : b \in Bumps} ELSE {})
  \cup (IF program # "favorites" THEN {New(k) : k \in Keypairs} ELSE {})

\* The addresses that sign a creation: derived ones through the program, others by their
\* keys.  Not every program compares the address with the one it derives.
Signing(u, bumps) == {PDA(u, b) : b \in bumps} \cup {New(k) : k \in Keypairs}

Absent == [lamports |-> 0, size |-> 0, owner |-> "system", data |-> "none"]

-----------------------------------------------------------------------------
(* Slips: wrong forms of the definitions named in the comments (README).      *)

\* Excess: everything, although the account stays.
ExcessOfAll(place) == account[place].lamports
\* Shortfall: what the new size needs, whatever is there.
ShortfallInFull(place, size) == RENT_BASE + size
\* Emptied: the lamports are gone, the owner is not.
EmptiedButOwned(place) == [account EXCEPT ![place] = [Absent EXCEPT !.owner = "program"]]

-----------------------------------------------------------------------------
(* The system program and the runtime, as seen from here.                     *)

minimum_balance(size) == RENT_BASE + size

\* An account is absent or has its rent when a transaction ends.
Exempt(a) == a.lamports = 0 \/ a.lamports >= minimum_balance(a.size)

CanPay(u, amount) == wallet[u] >= amount
Pay(u, amount) ==
  /\ CanPay(u, amount)
  /\ wallet' = [wallet EXCEPT ![u] = @ - amount]

\* An account that is made or resized: how its rent came there is the caller's concern.
Sized(place, lamports, size, data) ==
  /\ account' = [account EXCEPT ![place] =
       [lamports |-> lamports, size |-> size, owner |-> "program", data |-> data]]
  /\ peak' = [peak EXCEPT ![place] =
       IF account[place].owner = "program" /\ @ > size THEN @ ELSE size]

\* create_account takes an address without lamports only.
CanCreate(payer, place, lamports) == account[place].lamports = 0 /\ CanPay(payer, lamports)
CreateAccount(payer, place, lamports, size, data) ==
  /\ CanCreate(payer, place, lamports)
  /\ Pay(payer, lamports)
  /\ Sized(place, lamports, size, data)
  /\ UNCHANGED touched

\* Anchor's init tops up what is there.
TopUp(place, size) ==
  LET have == account[place].lamports
      need == minimum_balance(size)
  IN  IF have >= need THEN 0 ELSE need - have
CanInit(payer, place, size) ==
  account[place].owner = "system" /\ CanPay(payer, TopUp(place, size))
InitAccount(payer, place, size) ==
  LET paid == TopUp(place, size)
  IN  /\ CanInit(payer, place, size)
      /\ Pay(payer, paid)
      /\ Sized(place, account[place].lamports + paid, size, "message")
      /\ UNCHANGED touched

BasicInit ==
  /\ program \in Programs /\ version \in Versions
  /\ wallet = [u \in Users |-> Endowment]
  /\ account = [p \in Addresses |-> Absent]
  /\ peak = [p \in Addresses |-> 0]
  /\ touched = {}

Gift(u, place, amount) ==
  LET there == [account[place] EXCEPT !.lamports = @ + amount]
  IN  /\ Pay(u, amount)
      /\ Exempt(there)
      /\ account' = [account EXCEPT ![place] = there]
      /\ touched' = touched \cup {place}
      /\ UNCHANGED peak

-----------------------------------------------------------------------------
(* close-account.                                                             *)

Emptied(place) == [account EXCEPT ![place] = Absent]

CreateUserAnchor(u) == InitAccount(u, PDA(u, CANONICAL), LEN)
\* What is to be closed is of the program and has its data.
CanCloseAnchor(u) ==
  account[PDA(u, CANONICAL)].owner = "program" /\ account[PDA(u, CANONICAL)].size > 0
CloseUserAnchor(u) ==
  LET place == PDA(u, CANONICAL)
  IN  /\ CanCloseAnchor(u)
      /\ wallet' = [wallet EXCEPT ![u] = @ + account[place].lamports]
      /\ account' = Emptied(place)
      /\ touched' = touched \ {place}
      /\ UNCHANGED peak

CreateUserNative(u, place, length) ==
  /\ place \in Signing(u, {CANONICAL})
  /\ CreateAccount(u, place, minimum_balance(length), length, "user")
CreateUserPinocchio(u, place) ==
  /\ place \in Signing(u, Bumps)
  /\ CreateAccount(u, place, minimum_balance(LEN), LEN, "user")

\* close_user (native and Pinocchio): the rent of an empty account stays behind, with the
\* owner that the caller passes for the system program.
NewOwners == {"system", "program", "other"}
Excess(place) == account[place].lamports - minimum_balance(0)
CanClose(u) ==
  account[PDA(u, CANONICAL)].owner = "program" /\ Excess(PDA(u, CANONICAL)) >= 0
CloseUser(u, system_program) ==
  LET place == PDA(u, CANONICAL)
  IN  /\ CanClose(u)
      /\ wallet' = [wallet EXCEPT ![u] = @ + Excess(place)]
      /\ account' = [account EXCEPT ![place] =
           [Absent EXCEPT !.lamports = minimum_balance(0), !.owner = system_program]]
      /\ touched' = touched \cup {place}
      /\ UNCHANGED peak

CloseAccountNext ==
  \E u \in Users :
    \/ version = "anchor" /\ (CreateUserAnchor(u) \/ CloseUserAnchor(u))
    \/ version # "anchor" /\ \E o \in NewOwners : CloseUser(u, o)
    \/ version = "native" /\ \E p \in Reached, n \in Lengths : CreateUserNative(u, p, n)
    \/ version = "pinocchio" /\ \E p \in Reached : CreateUserPinocchio(u, p)

-----------------------------------------------------------------------------
(* favorites, account-data and program-derived-addresses: accounts that stay. *)

\* set_favorites also writes over what is there, which nothing here depends on.
SetFavorites(u) == InitAccount(u, PDA(u, CANONICAL), LEN)
CreatePdaNative(u, length) ==
  /\ account[PDA(u, CANONICAL)].size = 0
  /\ CreateAccount(u, PDA(u, CANONICAL), minimum_balance(length), length, "favorites")
CreatePdaPinocchio(u, bump) ==
  /\ account[PDA(u, bump)].size = 0
  /\ CreateAccount(u, PDA(u, bump), minimum_balance(LEN), LEN, "favorites")

CreateAddressInfoAnchor(u, k) == InitAccount(u, New(k), LEN)
CreateAddressInfoNative(u, k, length) ==
  CreateAccount(u, New(k), minimum_balance(length), length, "address")
CreateAddressInfoPinocchio(u, k) ==
  CreateAccount(u, New(k), minimum_balance(LEN), LEN, "address")

CreatePageVisitsAnchor(u) == InitAccount(u, PDA(u, CANONICAL), LEN)
\* The payer need not be the user whose page it is.
CreatePageVisits(payer, u, place) ==
  /\ place \in Signing(u, Bumps)
  /\ CreateAccount(payer, place, minimum_balance(LEN), LEN, "visits")

FavoritesNext ==
  \E u \in Users :
    \/ version = "anchor" /\ SetFavorites(u)
    \/ version = "native" /\ \E n \in Lengths : CreatePdaNative(u, n)
    \/ version = "pinocchio" /\ \E b \in Bumps : CreatePdaPinocchio(u, b)
AccountDataNext ==
  \E u \in Users, k \in Keypairs :
    \/ version = "anchor" /\ CreateAddressInfoAnchor(u, k)
    \/ version = "native" /\ \E n \in Lengths : CreateAddressInfoNative(u, k, n)
    \/ version = "pinocchio" /\ CreateAddressInfoPinocchio(u, k)
PageVisitsNext ==
  \E payer, u \in Users :
    \/ version = "anchor" /\ payer = u /\ CreatePageVisitsAnchor(u)
    \/ version # "anchor" /\ \E p \in Reached : CreatePageVisits(payer, u, p)

-----------------------------------------------------------------------------
(* realloc.                                                                   *)

InitializeMessage(u, k, length) == InitAccount(u, New(k), length)

\* update: whoever calls pays for a longer message, or is paid for a shorter one.
LeftIn(a, length) ==
  LET need == minimum_balance(length)
  IN  IF length = a.size \/ (length > a.size /\ a.lamports >= need) THEN a.lamports ELSE need
CanUpdate(u, k, length) ==
  LET a == account[New(k)]
  IN  a.owner = "program" /\ CanPay(u, LeftIn(a, length) - a.lamports)
UpdateMessage(u, k, length) ==
  LET a == account[New(k)]
      left == LeftIn(a, length)
  IN  /\ CanUpdate(u, k, length)
      /\ Pay(u, left - a.lamports)
      /\ Sized(New(k), left, length, a.data)
      /\ touched' = IF length < a.size THEN touched \ {New(k)} ELSE touched

\* What reallocation has the payer send; less than nothing aborts.
Shortfall(place, size) == minimum_balance(size) - account[place].lamports

CanExtend(u, k, length) ==
  /\ account[New(k)].owner = "program"
  /\ Shortfall(New(k), length) >= 0
  /\ CanPay(u, Shortfall(New(k), length))
Extend(u, k, length) ==
  LET place == New(k)
  IN  /\ CanExtend(u, k, length)
      /\ Pay(u, Shortfall(place, length))
      /\ Sized(place, account[place].lamports + Shortfall(place, length), length, "enhanced")
      /\ UNCHANGED touched

\* reallocate_without_zero_init: state and zip are added to what must be an address
\* (native), or must be long enough for them (Pinocchio, which rewrites them).
CanExtendNative(k, length) ==
  account[New(k)].data = "address" /\ length > account[New(k)].size
ReallocateNative(u, k, length) ==
  /\ CanExtendNative(k, length)
  /\ Extend(u, k, length)
ReallocatePinocchio(u, k) == Extend(u, k, ENHANCED_LEN)

\* reallocate_zero_init: nobody pays; what is too short of rent the runtime refuses.
ReallocateZeroInit(k, length) ==
  LET a == account[New(k)]
  IN  /\ a.owner = "program"
      /\ Exempt([a EXCEPT !.size = length])
      /\ Sized(New(k), a.lamports, length, "work")
      /\ UNCHANGED <<wallet, touched>>

ReallocNext ==
  \E k \in Keypairs :
    \/ /\ version = "anchor"
       /\ \E u \in Users, n \in Lengths : InitializeMessage(u, k, n) \/ UpdateMessage(u, k, n)
    \/ /\ version = "native"
       /\ \E n \in Lengths :
            \/ \E u \in Users : CreateAddressInfoNative(u, k, n) \/ ReallocateNative(u, k, n)
            \/ ReallocateZeroInit(k, n)
    \/ /\ version = "pinocchio"
       /\ \/ \E u \in Users : CreateAddressInfoPinocchio(u, k) \/ ReallocatePinocchio(u, k)
          \/ ReallocateZeroInit(k, WORK_LEN)

-----------------------------------------------------------------------------
(* pda-rent-payer and transfer-sol.                                           *)

\* init_rent_vault (Anchor): a transfer, as often as one likes.
InitRentVaultAnchor(u, fund) == Gift(u, Vault(CANONICAL), fund)
InitRentVault(u, bump, fund) ==
  CreateAccount(u, Vault(bump), minimum_balance(0) + fund, 0, "vault")

\* An account that pays, and is gone when nothing is left; one that is paid.
Debited(a, amount) ==
  IF a.lamports = amount THEN Absent ELSE [a EXCEPT !.lamports = @ - amount]
Credited(a, amount) == [a EXCEPT !.lamports = @ + amount]

CanMove(from, to, amount) ==
  /\ from # to
  /\ account[from].lamports >= amount
  /\ Exempt(Debited(account[from], amount)) /\ Exempt(Credited(account[to], amount))
MovedBetween(from, to, amount) ==
  /\ CanMove(from, to, amount)
  /\ account' = [account EXCEPT ![from] = Debited(@, amount), ![to] = Credited(@, amount)]
  /\ touched' = touched \cup {to}
  /\ UNCHANGED <<wallet, peak>>

\* create_new_account: Anchor's asks the system program, which wants a new address; the
\* others move lamports to any.
CreateNewAccountAnchor(k) ==
  /\ account[New(k)].lamports = 0
  /\ MovedBetween(Vault(CANONICAL), New(k), minimum_balance(0))
CreateNewAccount(bump, k) ==
  /\ account[Vault(bump)].owner = "program"
  /\ MovedBetween(Vault(bump), New(k), minimum_balance(0))

RentPayerNext ==
  \/ /\ version = "anchor"
     /\ \/ \E u \in Users, n \in Funds : InitRentVaultAnchor(u, n)
        \/ \E k \in Keypairs : CreateNewAccountAnchor(k)
  \/ /\ version # "anchor"
     /\ \E b \in IF version = "native" THEN {CANONICAL} ELSE Bumps :
          \/ \E u \in Users, n \in Funds : InitRentVault(u, b, n)
          \/ \E k \in Keypairs : CreateNewAccount(b, k)

\* An account of the program is made by its user, outside of it.
MakePayer(u, k) == CreateAccount(u, New(k), minimum_balance(0), 0, "payer")
TransferSolWithCpi(u, k, amount) == Gift(u, New(k), amount)
\* Runtime and version agree that the payer is the program's, and signs.
TransferSolWithProgram(from, to, amount) ==
  /\ account[New(from)].owner = "program"
  /\ MovedBetween(New(from), New(to), amount)

TransferSolNext ==
  \/ \E u \in Users, k \in Keypairs :
       MakePayer(u, k) \/ \E n \in Funds : TransferSolWithCpi(u, k, n)
  \/ \E from, to \in Keypairs, n \in Funds : TransferSolWithProgram(from, to, n)

-----------------------------------------------------------------------------

BasicNext ==
  /\ \/ program = "close-account" /\ CloseAccountNext
     \/ program = "favorites" /\ FavoritesNext
     \/ program = "account-data" /\ AccountDataNext
     \/ program = "realloc" /\ ReallocNext
     \/ program = "page-visits" /\ PageVisitsNext
     \/ program = "pda-rent-payer" /\ RentPayerNext
     \/ program = "transfer-sol" /\ TransferSolNext
     \/ \E u \in Users, place \in Reached, n \in Funds : Gift(u, place, n)
  /\ UNCHANGED <<program, version>>

BasicSpec == BasicInit /\ [][BasicNext]_basicVars

-----------------------------------------------------------------------------

\* Wallets, sizes and owners are what they can be.
BasicTypeOK ==
  /\ program \in Programs /\ version \in Versions
  /\ wallet \in [Users -> Nat] /\ touched \subseteq Addresses
  /\ \A p \in Addresses :
       /\ account[p].lamports \in Nat /\ account[p].size \in Nat
       /\ account[p].owner \in NewOwners /\ peak[p] \in Nat

Lamports == [p \in Addresses |-> account[p].lamports]

\* However accounts are created, resized and closed, no lamport is made or lost, no
\* account is short of its rent, and one that nobody sent lamports to holds just the
\* rent of its size (Anchor) or of the largest size it ever had (the others), unless its
\* lamports are there to be paid out (pda-rent-payer, transfer-sol).
RentsKept ==
  LET holders == {p \in Addresses : account[p].owner = "program"}
  IN  /\ BasicTypeOK
      /\ SumFunction(wallet) + SumFunction(Lamports) = SumFunction([u \in Users |-> Endowment])
      /\ \A p \in Addresses : Exempt(account[p])
      /\ program \notin {"pda-rent-payer", "transfer-sol"} =>
           \A p \in holders \ touched :
             account[p].lamports =
               minimum_balance(IF version = "anchor" THEN account[p].size ELSE peak[p])

\* The addresses at which the clients of the programs have u's accounts made.
Usual(u) ==
  IF program \in {"close-account", "favorites", "page-visits"} THEN {PDA(u, CANONICAL)}
  ELSE IF program \in {"account-data", "realloc"} THEN {New(k) : k \in Keypairs}
  ELSE {}

\* Somebody who has the lamports can create the account that it does not have yet at its
\* usual address, and a vault, always with Anchor and otherwise unless others sent
\* lamports there or it was closed before; what is at a user's canonical address can be
\* closed, whatever it was closed to before; a message can be extended, with native and
\* Pinocchio unless others sent lamports; a vault with two rents pays one; an account that
\* transfer-sol may debit can be emptied into any other.  Every check of the instruction
\* passes.  What was made elsewhere than at the canonical address is left out:
\* EveryUserCloses.
NeverStuck ==
  LET Affords(u, n) == wallet[u] >= minimum_balance(n)
      Waits(p) == account[p].owner = "system" /\ (version = "anchor" \/ p \notin touched)
  IN  /\ \A u \in Users : \A p \in Usual(u) :
           Waits(p) /\ Affords(u, LEN) =>
             IF version = "anchor" THEN CanInit(u, p, LEN)
             ELSE account[p].size = 0 /\ CanCreate(u, p, minimum_balance(LEN))
      /\ program = "close-account" => \A u \in Users :
           account[PDA(u, CANONICAL)].owner = "program" =>
             IF version = "anchor" THEN CanCloseAnchor(u) ELSE CanClose(u)
      /\ program = "realloc" => \A u \in Users, k \in Keypairs :
           account[New(k)].owner = "program" =>
             IF version = "anchor"
             THEN \A n \in Lengths : Affords(u, n) => CanUpdate(u, k, n)
             ELSE New(k) \notin touched /\ Affords(u, ENHANCED_LEN)
                    /\ (version = "native" => CanExtendNative(k, ENHANCED_LEN))
                    => CanExtend(u, k, ENHANCED_LEN)
      /\ program = "pda-rent-payer" => \A b \in Bumps, k \in Keypairs :
           /\ \A u \in Users, n \in Funds :
                version # "anchor" /\ Waits(Vault(b)) /\ wallet[u] >= minimum_balance(0) + n =>
                  CanCreate(u, Vault(b), minimum_balance(0) + n)
           /\ account[Vault(b)].lamports >= 2 * minimum_balance(0)
                /\ (version = "anchor" => b = CANONICAL /\ account[New(k)].lamports = 0)
                /\ (version # "anchor" => account[Vault(b)].owner = "program")
                => CanMove(Vault(b), New(k), minimum_balance(0))
      /\ program = "transfer-sol" => \A from, to \in Keypairs :
           account[New(from)].owner = "program" /\ from # to =>
             CanMove(New(from), New(to), account[New(from)].lamports)

\* Whatever create_user made some user can close.  Anchor's derives the address; the
\* others make an account at any address that signs, and close_user only looks at the
\* canonical one of its caller.
EveryUserCloses ==
  program = "close-account" =>
    \A p \in Addresses : account[p].owner = "program" => \E u \in Users : p = PDA(u, CANONICAL)

\* "Close an account and get the Lamports back" (README.md:67): closing leaves nothing
\* behind.  Anchor's does; close_user of the others keeps the rent of an empty account,
\* which nobody can move any more.
LamportsComeBack ==
  [][\A p \in Addresses : account[p].owner = "program" /\ account'[p].owner # "program"
       => account'[p].lamports = 0]_basicVars
=============================================================================
