----------------------------- MODULE TokenProofs -----------------------------
(***************************************************************************)
(* What holds of the five token programs for any wallets, pools, amounts,  *)
(* snapshots, fees and clocks: what each owes it holds, its terms are      *)
(* fair, a signature moves tokens once, and nobody is shut out.            *)
(***************************************************************************)
EXTENDS TokenPrograms, SumLemmas

(***************************************************************************)
(* The delegate: signatures and nonces.                                    *)
(***************************************************************************)

\* A signature that moved tokens is for a nonce that its account has passed, once, and
\* each account has had as many as its nonce counts.  An account that does not exist
\* has had none.
SignedInv ==
  /\ \A u \in UserAccounts : user[u].authority = NoAuthority => user[u].nonce = 0
  /\ IsFiniteSet(DOMAIN executed)
  /\ \A sig \in DOMAIN executed :
       executed[sig] = 1 /\ sig.digest.nonce < user[sig.digest.user].nonce
  /\ \A u \in UserAccounts : Cardinality(SignedFor(u)) = user[u].nonce

DelegateOK == DelegateTypeOK /\ SignedInv

\* The sum of ones is how many there are.
LEMMA SumOfOnes ==
  ASSUME NEW S, IsFiniteSet(S), NEW f \in [S -> Int], \A x \in S : f[x] = 1
  PROVE  SumFunction(f) = Cardinality(S)
<1> DEFINE one == 1
<1>1. one \in Int /\ \A x \in S : f[x] = one
  OBVIOUS
<1>2. Cardinality(S) \in Nat
  BY FS_CardinalityType
<1>3. one * Cardinality(S) = Cardinality(S)
  BY <1>2
<1>4. S \in SUBSET S
  OBVIOUS
<1> HIDE DEF one
<1>5. SumFunctionOnSet(f, S) = one * Cardinality(S)
  BY <1>1, <1>4, SumConstant
<1>6. SumFunction(f) = SumFunctionOnSet(f, S)
  BY SumOfFunction
<1> QED BY <1>3, <1>5, <1>6

LEMMA SignedSums == DelegateOK => SignedOnce
<1> SUFFICES ASSUME DelegateOK
             PROVE  SignedOnce
  OBVIOUS
<1>1. \A sig \in DOMAIN executed : executed[sig] <= 1
  BY DEF DelegateOK, SignedInv
<1>2. SUFFICES ASSUME NEW u \in UserAccounts
               PROVE  SumFunction([sig \in SignedFor(u) |-> executed[sig]]) = user[u].nonce
  BY <1>1 DEF SignedOnce
<1> DEFINE S == SignedFor(u)
           f == [sig \in S |-> executed[sig]]
<1>3. IsFiniteSet(S) /\ \A sig \in S : f[sig] = 1
  BY FS_Subset DEF DelegateOK, SignedInv, SignedFor
<1>4. f \in [S -> Int]
  BY <1>3
<1>5. Cardinality(S) = user[u].nonce
  BY DEF DelegateOK, SignedInv
<1> SUFFICES SumFunction(f) = user[u].nonce
  OBVIOUS
<1> HIDE DEF f, S
<1> QED BY <1>3, <1>4, <1>5, SumOfOnes

LEMMA DelegateStarts ==
  ASSUME DelegateInit
  PROVE  DelegateOK
<1>1. DelegateTypeOK
  BY DelegateAssumption DEF DelegateInit, DelegateTypeOK
<1>2. DOMAIN executed = {} /\ \A u \in UserAccounts : user[u].nonce = 0
  BY DEF DelegateInit
<1>3. IsFiniteSet(DOMAIN executed) /\ \A u \in UserAccounts : Cardinality(SignedFor(u)) = 0
  <2>1. \A u \in UserAccounts : SignedFor(u) = {}
    BY <1>2 DEF SignedFor
  <2> QED BY <1>2, <2>1, FS_EmptySet
<1> QED BY <1>1, <1>2, <1>3 DEF DelegateOK, SignedInv

LEMMA DelegateIdle ==
  ASSUME DelegateOK, UNCHANGED delegateVars
  PROVE  DelegateOK'
BY DEF DelegateOK, DelegateTypeOK, SignedInv, SignedFor, delegateVars

\* While nonces stay, so do the counts.
LEMMA NoncesStay ==
  ASSUME DelegateOK, executed' = executed, DelegateTypeOK',
         \A u \in UserAccounts :
           /\ user'[u].nonce = user[u].nonce
           /\ user'[u].authority = NoAuthority => user[u].authority = NoAuthority
  PROVE  DelegateOK'
<1>1. \A u \in UserAccounts : SignedFor(u)' = SignedFor(u)
  BY DEF SignedFor
<1>2. \A sig \in DOMAIN executed : sig.digest.user \in UserAccounts
  BY DelegateAssumption DEF DelegateOK, DelegateTypeOK, Digests
<1> QED BY <1>1, <1>2 DEF DelegateOK, SignedInv

LEMMA InitializeUserKeeps ==
  ASSUME DelegateOK, NEW a \in Authorities, NEW u \in UserAccounts, InitializeUser(a, u)
  PROVE  DelegateOK'
<1>1. user[u].nonce = 0
  BY DEF DelegateOK, SignedInv, InitializeUser
<1>2. DelegateTypeOK'
  BY DelegateAssumption DEF DelegateOK, DelegateTypeOK, InitializeUser
<1>3. \A v \in UserAccounts :
        /\ user'[v].nonce = user[v].nonce
        /\ user'[v].authority = NoAuthority => user[v].authority = NoAuthority
  BY <1>1 DEF DelegateOK, DelegateTypeOK, InitializeUser
<1> QED BY <1>2, <1>3, NoncesStay DEF InitializeUser

LEMMA SetEthereumAddressKeeps ==
  ASSUME DelegateOK, NEW a \in Authorities, NEW u \in UserAccounts, NEW key \in EthKeys,
         SetEthereumAddress(a, u, key)
  PROVE  DelegateOK'
<1>1. DelegateTypeOK'
  BY DelegateAssumption DEF DelegateOK, DelegateTypeOK, SetEthereumAddress, WithAddress
<1>2. \A v \in UserAccounts :
        /\ user'[v].nonce = user[v].nonce
        /\ user'[v].authority = NoAuthority => user[v].authority = NoAuthority
  BY DEF DelegateOK, DelegateTypeOK, SetEthereumAddress, WithAddress
<1> QED BY <1>1, <1>2, NoncesStay DEF SetEthereumAddress

LEMMA MovesTyped ==
  ASSUME DelegateTypeOK, NEW u, NEW from \in DelegateAccounts, NEW to \in DelegateAccounts,
         NEW n \in SignedAmounts, Moves(u, from, to, n)
  PROVE  held' \in [DelegateAccounts -> Nat]
<1>1. n \in Nat /\ held \in [DelegateAccounts -> Nat]
  BY DelegateAssumption DEF DelegateTypeOK
<1> DEFINE h == [held EXCEPT ![from] = @ - n]
<1>2. h \in [DelegateAccounts -> Nat]
  BY <1>1 DEF Moves
<1>3. held' = [h EXCEPT ![to] = @ + n]
  BY DEF Moves
<1> QED BY <1>1, <1>2, <1>3

\* The signature is new: those that were used are for nonces that have passed.
LEMMA TransferTokensKeeps ==
  ASSUME DelegateOK, NEW a \in Authorities, NEW u \in UserAccounts,
         NEW from \in DelegateAccounts, NEW to \in DelegateAccounts,
         NEW n \in SignedAmounts, NEW sig \in signatures,
         TransferTokens(a, u, from, to, n, sig)
  PROVE  DelegateOK'
<1>1. DelegateTypeOK /\ SignedInv /\ MaxNonce \in Nat
  BY DelegateAssumption DEF DelegateOK
<1>2. /\ user[u].authority = a /\ sig.digest.user = u /\ sig.digest.nonce = user[u].nonce
      /\ user[u].nonce \in Nat /\ user[u].nonce < MaxNonce /\ signatures' = signatures
      /\ user' = [user EXCEPT ![u].nonce = @ + 1]
  BY <1>1 DEF TransferTokens, Verifies, Digest, NextNonce, DelegateTypeOK
<1>3. sig \notin DOMAIN executed
  BY <1>1, <1>2 DEF SignedInv
<1>4. /\ DOMAIN executed' = DOMAIN executed \cup {sig}
      /\ \A s \in DOMAIN executed : executed'[s] = executed[s]
      /\ executed'[sig] = 1
  <2> DEFINE D == DOMAIN executed
  <2>1. executed' = [s \in D \cup {sig} |-> (IF s \in D THEN executed[s] ELSE 0)
                                              + (IF s = sig THEN 1 ELSE 0)]
    BY DEF TransferTokens
  <2>2. \A s \in D : executed[s] = 1 /\ s # sig
    BY <1>1, <1>3 DEF SignedInv
  <2>3. sig \notin D
    BY <1>3
  <2> HIDE DEF D
  <2>4. DOMAIN executed' = D \cup {sig}
    BY <2>1
  <2>5. \A s \in D : executed'[s] = executed[s]
    BY <2>1, <2>2
  <2>6. executed'[sig] = 1
    BY <2>1, <2>3
  <2> QED BY <2>4, <2>5, <2>6 DEF D
<1>5. \A v \in UserAccounts :
        /\ user'[v].authority = user[v].authority
        /\ v # u => user'[v].nonce = user[v].nonce
  BY <1>1, <1>2 DEF DelegateTypeOK
<1>6. user'[u].nonce = user[u].nonce + 1
  BY <1>1, <1>2 DEF DelegateTypeOK
<1>7. DelegateTypeOK'
  <2>1. user' \in [UserAccounts -> [authority: Authorities \cup {NoAuthority},
                                    ethereum_address: EthKeys \cup {NoKey},
                                    nonce: 0 .. MaxNonce]]
    BY <1>1, <1>2 DEF DelegateTypeOK
  <2>2. held' \in [DelegateAccounts -> Nat]
    BY <1>1, MovesTyped DEF TransferTokens
  <2>3. \A s \in DOMAIN executed' : executed'[s] \in Nat
    BY <1>1, <1>4 DEF DelegateTypeOK
  <2> QED BY <1>1, <1>2, <1>4, <2>1, <2>2, <2>3 DEF DelegateTypeOK
<1>8. \A s \in DOMAIN executed : s.digest.user \in UserAccounts /\ s.digest.nonce \in Nat
  BY <1>1, DelegateAssumption DEF DelegateTypeOK, Digests
<1>9. \A s \in DOMAIN executed' :
        executed'[s] = 1 /\ s.digest.nonce < user'[s.digest.user].nonce
  <2>1. user[u].nonce \in Nat /\ \A s \in DOMAIN executed : s.digest.user = u =>
          s.digest.nonce < user[u].nonce
    BY <1>1, <1>2 DEF SignedInv
  <2>2. \A s \in DOMAIN executed : s.digest.user = u => s.digest.nonce < user'[u].nonce
    BY <2>1, <1>6, <1>8
  <2>3. \A s \in DOMAIN executed : s.digest.nonce < user'[s.digest.user].nonce
    BY <1>1, <1>5, <1>8, <2>2 DEF SignedInv
  <2>4. sig.digest.nonce < user'[sig.digest.user].nonce
    BY <1>2, <1>6
  <2> QED BY <1>1, <1>4, <2>3, <2>4 DEF SignedInv
<1>10. \A v \in UserAccounts : Cardinality(SignedFor(v)') = user'[v].nonce
  <2> SUFFICES ASSUME NEW v \in UserAccounts
               PROVE  Cardinality(SignedFor(v)') = user'[v].nonce
    OBVIOUS
  <2>1. CASE v # u
    <3>1. SignedFor(v)' = SignedFor(v)
      BY <1>2, <1>4, <2>1 DEF SignedFor
    <3> QED BY <1>1, <1>5, <2>1, <3>1 DEF SignedInv
  <2>2. CASE v = u
    <3>1. SignedFor(v)' = SignedFor(v) \cup {sig} /\ sig \notin SignedFor(v)
      BY <1>2, <1>3, <1>4, <2>2 DEF SignedFor
    <3>2. IsFiniteSet(SignedFor(v))
      BY <1>1, FS_Subset DEF SignedInv, SignedFor
    <3>3. Cardinality(SignedFor(v)') = Cardinality(SignedFor(v)) + 1
      BY <3>1, <3>2, FS_AddElement
    <3> QED BY <1>1, <1>6, <2>2, <3>3 DEF SignedInv
  <2> QED BY <2>1, <2>2
<1>11. IsFiniteSet(DOMAIN executed')
  BY <1>1, <1>4, FS_AddElement DEF SignedInv
<1>12. \A v \in UserAccounts : user'[v].authority = NoAuthority => user'[v].nonce = 0
  BY <1>1, <1>2, <1>5, DelegateAssumption DEF SignedInv
<1> QED BY <1>7, <1>9, <1>10, <1>11, <1>12 DEF DelegateOK, SignedInv

LEMMA DelegateKeeps ==
  ASSUME DelegateOK, DelegateNext
  PROVE  DelegateOK'
<1>1. CASE \E a \in Authorities, u \in UserAccounts : InitializeUser(a, u)
  BY <1>1, InitializeUserKeeps
<1>2. CASE \E a \in Authorities, u \in UserAccounts, key \in EthKeys :
             SetEthereumAddress(a, u, key)
  BY <1>2, SetEthereumAddressKeeps
<1>3. CASE \E sig \in Signable : SignTransfer(sig)
  <2>1. DelegateTypeOK'
    BY <1>3 DEF SignTransfer, DelegateOK, DelegateTypeOK
  <2> QED BY <1>3, <2>1, NoncesStay DEF SignTransfer
<1>4. CASE \E a \in Authorities, u \in UserAccounts, from, to \in DelegateAccounts,
              n \in SignedAmounts, sig \in signatures : TransferTokens(a, u, from, to, n, sig)
  BY <1>4, TransferTokensKeeps
<1>5. CASE \E a \in Authorities, u \in UserAccounts, from, to \in DelegateAccounts,
              n \in SignedAmounts : AuthorityTransfer(a, u, from, to, n)
  <2>1. held' \in [DelegateAccounts -> Nat]
    BY <1>5, MovesTyped DEF AuthorityTransfer, DelegateOK
  <2>2. UNCHANGED <<user, signatures, executed>>
    BY <1>5 DEF AuthorityTransfer
  <2>3. DelegateTypeOK'
    BY <2>1, <2>2 DEF DelegateOK, DelegateTypeOK
  <2> QED BY <2>2, <2>3, NoncesStay
<1> QED BY <1>1, <1>2, <1>3, <1>4, <1>5 DEF DelegateNext

(***************************************************************************)
(* The mint with fees.                                                     *)
(***************************************************************************)

LEMMA QuotientBelow ==
  ASSUME NEW x \in Nat, NEW w \in Nat, w > 0, NEW n \in Nat, x < (n + 1) * w
  PROVE  x \div w \in 0 .. n
<1> DEFINE q == x \div w
<1>1. q \in Nat /\ w * q <= x
  OBVIOUS
<1> HIDE DEF q
<1>2. q <= n
  <2> SUFFICES ASSUME ~(q <= n) PROVE FALSE
    OBVIOUS
  <2>1. w * q >= w * (n + 1)
    BY <1>1
  <2> QED BY <1>1, <2>1
<1> QED BY <1>1, <1>2 DEF q

\* A fee is no more than what it is taken from.
LEMMA FeeWithin ==
  ASSUME NEW terms \in AllTerms, NEW amount \in Nat
  PROVE  FeeOf(terms, amount) \in 0 .. amount
<1> DEFINE p == amount * terms.rate
           x == p + FEE_WHOLE - 1
<1>1. /\ FEE_WHOLE \in Nat /\ FEE_WHOLE > 0 /\ terms.rate \in 0 .. FEE_WHOLE
      /\ terms.maximum \in Nat
  BY FeeAssumption DEF AllTerms
<1>2. p \in Nat /\ p <= amount * FEE_WHOLE
  BY <1>1
<1>3. x \in Nat /\ x < amount * FEE_WHOLE + FEE_WHOLE
  <2> HIDE DEF p
  <2> QED BY <1>1, <1>2
<1>4. amount * FEE_WHOLE + FEE_WHOLE = (amount + 1) * FEE_WHOLE
  BY <1>1
<1>5. x \div FEE_WHOLE \in 0 .. amount
  <2> HIDE DEF x
  <2> QED BY <1>1, <1>3, <1>4, QuotientBelow
<1>6. FeeOf(terms, amount) = IF x \div FEE_WHOLE <= terms.maximum THEN x \div FEE_WHOLE
                             ELSE terms.maximum
  BY DEF FeeOf
<1> HIDE DEF x
<1> QED BY <1>1, <1>5, <1>6

\* Both fees were announced in time: the newer one for when it comes into force, the
\* older one for now.  A mint that does not exist has nothing.
Known(terms, e) == \E n \in notices : n.terms = terms /\ n.since + NOTICE <= e
FeesAnnounced ==
  IF feeMint.authority = NoPayer
  THEN feeMint.withheld = 0 /\ feeMint.issued = 0
  ELSE Known(feeMint.newer, feeMint.since) /\ Known(feeMint.older, epoch)

FeeOK == FeeTypeOK /\ FeesKept /\ FeesAnnounced

LEMMA InForceKnown == FeeOK => FeeOnNotice
<1> SUFFICES ASSUME FeeOK, feeMint.authority # NoPayer
             PROVE  \E n \in notices : n.terms = InForce(feeMint) /\ n.since + NOTICE <= epoch
  BY DEF FeeOnNotice
<1>1. Known(feeMint.newer, feeMint.since) /\ Known(feeMint.older, epoch)
  BY DEF FeeOK, FeesAnnounced
<1>2. epoch \in Nat /\ feeMint.since \in Nat /\ \A n \in notices : n.since \in Int
  BY FeeAssumption DEF FeeOK, FeeTypeOK
<1>3. CASE epoch >= feeMint.since
  BY <1>1, <1>2, <1>3 DEF Known, InForce, NOTICE
<1>4. CASE ~(epoch >= feeMint.since)
  BY <1>1, <1>2, <1>4 DEF Known, InForce, NOTICE
<1> QED BY <1>3, <1>4

\* The holdings as a function, whose sum FeesKept is about.
Holdings0 == [w \in FeeHolders |-> Held(w)]

LEMMA HoldingsTyped ==
  FeeTypeOK => /\ Holdings0 \in [FeeHolders -> Int]
               /\ \A w \in FeeHolders : Holdings0[w] = Held(w) /\ Held(w) \in Nat
<1> SUFFICES ASSUME FeeTypeOK
             PROVE  \A w \in FeeHolders : Held(w) \in Nat
  BY DEF Holdings0
<1> QED BY DEF Held, FeeTypeOK, NoHolding

LEMMA FeeStarts ==
  ASSUME FeeInit
  PROVE  FeeOK
<1>1. FeeTypeOK
  <2>1. Terms(0, 0) \in AllTerms
    BY FeeAssumption DEF Terms, AllTerms
  <2> QED BY <2>1, FeeAssumption DEF FeeInit, FeeTypeOK, NewFeeMint
<1>2. FeesAnnounced
  BY DEF FeeInit, FeesAnnounced, NewFeeMint
<1>3. Holdings0 = [w \in FeeHolders |-> 0]
  BY DEF Holdings0, Held, FeeInit
<1>4. SumFunction(Holdings0) = 0
  BY <1>3, FeeAssumption, SumOfZeros
<1>5. FeesKept
  BY <1>4 DEF FeesKept, Holdings0, FeeInit, NewFeeMint
<1> QED BY <1>1, <1>2, <1>5 DEF FeeOK

LEMMA FeeIdle ==
  ASSUME FeeOK, UNCHANGED feeVars
  PROVE  FeeOK'
BY DEF FeeOK, FeeTypeOK, FeesKept, FeesAnnounced, Known, Held, feeVars

\* Fees change: the accounts do not, nor what the mint holds or issued.
LEMMA AnnouncedKeeps ==
  ASSUME FeeOK, NEW m, NEW terms \in AllTerms,
         m \in [authority: FeePayers \cup {NoPayer}, older: AllTerms, newer: AllTerms,
                since: Nat, withheld: Nat, issued: 0 .. MaxIssued]
  PROVE  /\ Announced(m, terms)
              \in [authority: FeePayers \cup {NoPayer}, older: AllTerms, newer: AllTerms,
                   since: Nat, withheld: Nat, issued: 0 .. MaxIssued]
         /\ Announced(m, terms).authority = m.authority
         /\ Announced(m, terms).withheld = m.withheld
         /\ Announced(m, terms).issued = m.issued
         /\ Announced(m, terms).newer = terms
         /\ Announced(m, terms).since = epoch + NOTICE
         /\ Announced(m, terms).older = IF m.since <= epoch THEN m.newer ELSE m.older
<1>1. epoch \in Nat
  BY FeeAssumption DEF FeeOK, FeeTypeOK
<1> DEFINE new == Announced(m, terms)
<1>2. new = [m EXCEPT !.older = IF m.since <= epoch THEN m.newer ELSE m.older,
                      !.newer = terms, !.since = epoch + 2]
  BY DEF Announced, NOTICE
<1>3. /\ new.authority = m.authority /\ new.withheld = m.withheld
      /\ new.issued = m.issued
  BY <1>2
<1>4. new.newer = terms /\ new.since = epoch + NOTICE
  BY <1>2 DEF NOTICE
<1>5. new.older = IF m.since <= epoch THEN m.newer ELSE m.older
  BY <1>2
<1>6. new \in [authority: FeePayers \cup {NoPayer}, older: AllTerms, newer: AllTerms,
               since: Nat, withheld: Nat, issued: 0 .. MaxIssued]
  <2>1. (IF m.since <= epoch THEN m.newer ELSE m.older) \in AllTerms /\ epoch + 2 \in Nat
    BY <1>1
  <2> QED BY <1>2, <2>1
<1> HIDE DEF new
<1> QED BY <1>3, <1>4, <1>5, <1>6 DEF new

LEMMA TermsChange ==
  ASSUME FeeOK, feeAccount' = feeAccount, FeeTypeOK', FeesAnnounced',
         feeMint'.withheld = feeMint.withheld, feeMint'.issued = feeMint.issued
  PROVE  FeeOK'
<1>1. \A w \in FeeHolders : Held(w)' = Held(w)
  BY DEF Held
<1>2. FeesKept'
  BY <1>1 DEF FeeOK, FeesKept
<1> QED BY <1>2 DEF FeeOK

FeeMints == [authority: FeePayers \cup {NoPayer}, older: AllTerms, newer: AllTerms,
             since: Nat, withheld: Nat, issued: 0 .. MaxIssued]

LEMMA FeeTypes ==
  FeeTypeOK <=> /\ epoch \in 0 .. MaxEpoch
                /\ feeMint \in FeeMints
                /\ feeAccount \in [FeeHolders -> [tokens: Nat, withheld: Nat] \cup {NoHolding}]
                /\ \A n \in notices : n \in [terms: AllTerms, since: Int]
BY DEF FeeTypeOK, FeeMints

LEMMA FeeTypesAfter ==
  FeeTypeOK' <=> /\ epoch' \in 0 .. MaxEpoch
                /\ feeMint' \in FeeMints
                /\ feeAccount' \in [FeeHolders -> [tokens: Nat, withheld: Nat] \cup {NoHolding}]
                /\ \A n \in notices' : n \in [terms: AllTerms, since: Int]
BY DEF FeeTypeOK, FeeMints

LEMMA NewMintTyped ==
  ASSUME FeeOK, NEW payer \in FeePayers, NEW terms \in AllTerms
  PROVE  /\ NewFeeMint(payer, terms) \in FeeMints
         /\ KnownFrom(terms, epoch) \in [terms: AllTerms, since: Int]
         /\ KnownFrom(terms, epoch - NOTICE) \in [terms: AllTerms, since: Int]
<1>1. epoch \in Nat /\ MaxIssued \in Nat
  BY FeeAssumption DEF FeeOK, FeeTypeOK
<1> QED BY <1>1 DEF NewFeeMint, KnownFrom, NOTICE, FeeMints

LEMMA InitializeFeeKeeps ==
  ASSUME FeeOK, NEW payer \in FeePayers, NEW r \in FeeRates, NEW n \in MaximumFees,
         InitializeFee(payer, Terms(r, n))
  PROVE  FeeOK'
<1> DEFINE terms == Terms(r, n)
<1>1. terms \in AllTerms
  BY FeeAssumption DEF InitializeFee, Terms, AllTerms
<1> HIDE DEF terms
<1>2. /\ feeMint' = NewFeeMint(payer, terms) /\ feeMint.authority = NoPayer
      /\ notices' = {KnownFrom(terms, epoch - NOTICE)}
      /\ epoch' = epoch /\ feeAccount' = feeAccount
  BY DEF InitializeFee, terms
<1>3. FeeTypeOK'
  BY <1>1, <1>2, NewMintTyped, FeeTypes, FeeTypesAfter DEF FeeOK
<1>4. epoch \in Int
  BY FeeAssumption DEF FeeOK, FeeTypeOK
<1>5. FeesAnnounced'
  BY <1>2, <1>4, FeeAssumption DEF FeesAnnounced, Known, KnownFrom, NewFeeMint, NOTICE
<1>6. feeMint'.withheld = feeMint.withheld /\ feeMint'.issued = feeMint.issued
  BY <1>2 DEF FeeOK, FeesAnnounced, NewFeeMint
<1> QED BY <1>2, <1>3, <1>5, <1>6, TermsChange

LEMMA CreateFeeMintKeeps ==
  ASSUME FeeOK, NEW payer \in FeePayers, NEW d \in FeeDecimals, CreateFeeMint(payer, d)
  PROVE  FeeOK'
<1> DEFINE ten == 10 ^ d
           first == Terms(INITIAL_FEE, 5 * ten)
           second == Terms(UPDATED_FEE, 5 * ten)
           m == NewFeeMint(payer, first)
<1>1. first \in AllTerms /\ second \in AllTerms
  <2>1. ten \in Nat
    BY FeeAssumption
  <2> HIDE DEF ten
  <2> QED BY <2>1, FeeAssumption DEF Terms, AllTerms
<1>2. /\ feeMint.authority = NoPayer
      /\ feeMint' = Announced(m, second)
      /\ notices' = {KnownFrom(first, epoch - NOTICE), KnownFrom(second, epoch)}
      /\ epoch' = epoch /\ feeAccount' = feeAccount
  BY DEF CreateFeeMint
<1> HIDE DEF first, second, ten
<1>3. m \in FeeMints /\ m.authority = payer /\ m.withheld = 0 /\ m.issued = 0
      /\ m.newer = first /\ m.since = epoch
  BY <1>1, NewMintTyped DEF NewFeeMint
<1>4. epoch \in Int
  BY FeeAssumption DEF FeeOK, FeeTypeOK
<1> HIDE DEF m
<1>5. /\ feeMint' \in FeeMints /\ feeMint'.authority = payer
      /\ feeMint'.withheld = 0 /\ feeMint'.issued = 0
      /\ feeMint'.newer = second /\ feeMint'.since = epoch + NOTICE
      /\ feeMint'.older = first
  BY <1>1, <1>2, <1>3, <1>4, AnnouncedKeeps DEF FeeMints
<1>6. FeeTypeOK'
  BY <1>1, <1>2, <1>5, NewMintTyped, FeeTypes, FeeTypesAfter DEF FeeOK
<1>7. FeesAnnounced'
  <2>1. KnownFrom(second, epoch) \in notices' /\ KnownFrom(first, epoch - NOTICE) \in notices'
    BY <1>2
  <2>2. epoch + NOTICE <= epoch + NOTICE /\ (epoch - NOTICE) + NOTICE <= epoch
    BY <1>4 DEF NOTICE
  <2>3. payer # NoPayer
    BY FeeAssumption
  <2> QED BY <1>2, <1>5, <2>1, <2>2, <2>3 DEF FeesAnnounced, Known, KnownFrom
<1>8. feeMint'.withheld = feeMint.withheld /\ feeMint'.issued = feeMint.issued
  BY <1>2, <1>5 DEF FeeOK, FeesAnnounced
<1> QED BY <1>2, <1>6, <1>7, <1>8, TermsChange

LEMMA UpdateFeeKeeps ==
  ASSUME FeeOK, NEW payer \in FeePayers, NEW r \in FeeRates, NEW n \in MaximumFees,
         UpdateFee(payer, Terms(r, n))
  PROVE  FeeOK'
<1> DEFINE terms == Terms(r, n)
<1>1. terms \in AllTerms
  BY FeeAssumption DEF UpdateFee, Terms, AllTerms
<1> HIDE DEF terms
<1>2. /\ feeMint.authority = payer
      /\ feeMint' = Announced(feeMint, terms)
      /\ notices' = notices \cup {KnownFrom(terms, epoch)}
      /\ epoch' = epoch /\ feeAccount' = feeAccount
  BY DEF UpdateFee, terms
<1>3. feeMint \in FeeMints /\ payer # NoPayer /\ epoch \in Int /\ feeMint.since \in Int
  BY FeeAssumption DEF FeeOK, FeeTypeOK, FeeMints
<1>4. /\ feeMint' \in FeeMints /\ feeMint'.authority = payer
      /\ feeMint'.withheld = feeMint.withheld /\ feeMint'.issued = feeMint.issued
      /\ feeMint'.newer = terms /\ feeMint'.since = epoch + NOTICE
      /\ feeMint'.older = IF feeMint.since <= epoch THEN feeMint.newer ELSE feeMint.older
  BY <1>1, <1>2, <1>3, AnnouncedKeeps DEF FeeMints
<1>5. FeeTypeOK'
  BY <1>1, <1>2, <1>4, NewMintTyped, FeeTypes, FeeTypesAfter DEF FeeOK
<1>6. FeesAnnounced'
  <2>1. KnownFrom(terms, epoch) \in notices' /\ epoch + NOTICE <= epoch + NOTICE
    BY <1>2, <1>3 DEF NOTICE
  <2>2. \E known \in notices' : known.terms = terms /\ known.since + NOTICE <= feeMint'.since
    BY <1>4, <2>1 DEF KnownFrom
  <2>3. \E known \in notices : known.terms = feeMint'.older /\ known.since + NOTICE <= epoch
    <3>1. Known(feeMint.newer, feeMint.since) /\ Known(feeMint.older, epoch)
      BY <1>2, <1>3 DEF FeeOK, FeesAnnounced
    <3>2. \A known \in notices : known.since \in Int
      BY DEF FeeOK, FeeTypeOK
    <3>3. CASE feeMint.since <= epoch
      BY <1>3, <1>4, <3>1, <3>2, <3>3 DEF Known, NOTICE
    <3>4. CASE ~(feeMint.since <= epoch)
      BY <1>3, <1>4, <3>1, <3>4 DEF Known
    <3> QED BY <3>3, <3>4
  <2> QED BY <1>2, <1>3, <1>4, <2>2, <2>3 DEF FeesAnnounced, Known
<1> QED BY <1>2, <1>4, <1>5, <1>6, TermsChange

FeeAccounts == [tokens: Nat, withheld: Nat] \cup {NoHolding}

\* One holding changes, and the sum by as much.
LEMMA HoldingChanges ==
  ASSUME FeeTypeOK, NEW w \in FeeHolders, NEW a \in FeeAccounts,
         feeAccount' = [feeAccount EXCEPT ![w] = a]
  PROVE  /\ feeAccount' \in [FeeHolders -> FeeAccounts]
         /\ Held(w) \in Nat /\ Held(w)' \in Nat
         /\ Held(w)' = IF a = NoHolding THEN 0 ELSE a.tokens + a.withheld
         /\ SumFunction(Holdings0) \in Int
         /\ SumFunction(Holdings0') = SumFunction(Holdings0) + Held(w)' - Held(w)
<1>1. /\ feeAccount' \in [FeeHolders -> FeeAccounts] /\ feeAccount'[w] = a
      /\ \A v \in FeeHolders \ {w} : feeAccount'[v] = feeAccount[v]
  BY DEF FeeTypeOK, FeeAccounts
<1>2. \A v \in FeeHolders : Held(v) \in Nat /\ Held(v)' \in Nat
  BY <1>1 DEF Held, FeeTypeOK, NoHolding, FeeAccounts
<1>3. Holdings0 \in [FeeHolders -> Int] /\ Holdings0' \in [FeeHolders -> Int]
  BY <1>2 DEF Holdings0
<1>4. /\ \A v \in FeeHolders \ {w} : Holdings0'[v] = Holdings0[v]
      /\ Holdings0[w] = Held(w) /\ Holdings0'[w] = Held(w)'
  BY <1>1 DEF Holdings0, Held
<1> DEFINE d == Held(w)' - Held(w)
           f == Holdings0
           g == Holdings0'
<1>5. /\ d \in Int /\ g[w] = f[w] + d /\ \A v \in FeeHolders \ {w} : g[v] = f[v]
      /\ f \in [FeeHolders -> Int] /\ g \in [FeeHolders -> Int] /\ IsFiniteSet(FeeHolders)
  BY <1>2, <1>3, <1>4, FeeAssumption
<1>6. SumFunction(f) \in Int /\ SumFunction(g) = SumFunction(f) + d
  <2> HIDE DEF f, g, d
  <2> QED BY <1>5, SumMoves
<1>7. Held(w)' = IF a = NoHolding THEN 0 ELSE a.tokens + a.withheld
  BY <1>1 DEF Held
<1>8. SumFunction(Holdings0') = SumFunction(Holdings0) + Held(w)' - Held(w)
  BY <1>2, <1>6
<1> QED BY <1>1, <1>2, <1>6, <1>7, <1>8

\* What the mint withholds and has issued is of no account to the fees announced.
LEMMA StillAnnounced ==
  ASSUME FeeOK, feeMint.authority # NoPayer, epoch' = epoch, notices' = notices,
         feeMint'.authority = feeMint.authority, feeMint'.newer = feeMint.newer,
         feeMint'.older = feeMint.older, feeMint'.since = feeMint.since
  PROVE  FeesAnnounced'
BY DEF FeeOK, FeesAnnounced, Known

LEMMA OpenedTyped ==
  ASSUME FeeTypeOK, NEW w \in FeeHolders
  PROVE  /\ Opened(w) \in [tokens: Nat, withheld: Nat]
         /\ Opened(w).tokens + Opened(w).withheld = Held(w)
BY DEF FeeTypeOK, Opened, Held

LEMMA Real == \A a \in [tokens: Nat, withheld: Nat] : a # NoHolding /\ a \in FeeAccounts
<1> SUFFICES ASSUME NEW a \in [tokens: Nat, withheld: Nat]
             PROVE  a # NoHolding /\ a \in FeeAccounts
  OBVIOUS
<1>1. a.tokens # NoHolding.tokens
  BY DEF NoHolding
<1> QED BY <1>1 DEF FeeAccounts

LEMMA IssueTokensKeeps ==
  ASSUME FeeOK, NEW to \in FeeHolders, NEW amount \in FeeAmounts, IssueTokens(to, amount)
  PROVE  FeeOK'
<1> DEFINE a == [Opened(to) EXCEPT !.tokens = @ + amount]
<1>1. /\ amount \in Nat /\ MaxIssued \in Nat /\ feeMint \in FeeMints /\ FeeTypeOK
  BY FeeAssumption DEF FeeOK, FeeTypeOK, FeeMints
<1>2. /\ feeAccount' = [feeAccount EXCEPT ![to] = a]
      /\ feeMint' = [feeMint EXCEPT !.issued = @ + amount]
      /\ feeMint.authority # NoPayer /\ feeMint.issued + amount <= MaxIssued
      /\ epoch' = epoch /\ notices' = notices
  BY DEF IssueTokens
<1>3. /\ a \in FeeAccounts /\ a # NoHolding
      /\ a.tokens + a.withheld = Held(to) + amount
  <2>1. Opened(to) \in [tokens: Nat, withheld: Nat]
        /\ Opened(to).tokens + Opened(to).withheld = Held(to)
    BY <1>1, OpenedTyped
  <2>2. a.tokens = Opened(to).tokens + amount /\ a.withheld = Opened(to).withheld
        /\ a \in [tokens: Nat, withheld: Nat]
    BY <1>1, <2>1
  <2> HIDE DEF a
  <2> QED BY <1>1, <2>1, <2>2, Real
<1> HIDE DEF a
<1>4. /\ feeMint' \in FeeMints /\ feeMint'.issued = feeMint.issued + amount
      /\ feeMint'.withheld = feeMint.withheld /\ feeMint'.authority = feeMint.authority
      /\ feeMint'.newer = feeMint.newer /\ feeMint'.older = feeMint.older
      /\ feeMint'.since = feeMint.since
  BY <1>1, <1>2 DEF FeeMints
<1>5. /\ feeAccount' \in [FeeHolders -> FeeAccounts] /\ Held(to) \in Nat
      /\ Held(to)' = Held(to) + amount /\ SumFunction(Holdings0) \in Int
      /\ SumFunction(Holdings0') = SumFunction(Holdings0) + Held(to)' - Held(to)
  BY <1>1, <1>2, <1>3, HoldingChanges
<1>6. FeeTypeOK'
  BY <1>1, <1>2, <1>4, <1>5, FeeTypes, FeeTypesAfter DEF FeeAccounts
<1>7. SumFunction(Holdings0') + feeMint'.withheld = feeMint'.issued
  <2>1. SumFunction(Holdings0) + feeMint.withheld = feeMint.issued
    BY DEF FeeOK, FeesKept, Holdings0
  <2>2. feeMint.withheld \in Int /\ feeMint.issued \in Int
    BY <1>1 DEF FeeMints
  <2> QED BY <1>1, <1>4, <1>5, <2>1, <2>2
<1>8. FeesAnnounced'
  BY <1>2, <1>4, StillAnnounced
<1> QED BY <1>6, <1>7, <1>8 DEF FeeOK, FeesKept, Holdings0

LEMMA WithdrawFeesKeeps ==
  ASSUME FeeOK, NEW authority \in FeePayers, NEW to \in FeeHolders,
         WithdrawFees(authority, to)
  PROVE  FeeOK'
<1> DEFINE n == feeMint.withheld
           a == [feeAccount[to] EXCEPT !.tokens = @ + n]
<1>1. /\ n \in Nat /\ feeMint \in FeeMints /\ authority # NoPayer
      /\ feeAccount[to] \in [tokens: Nat, withheld: Nat] /\ FeeTypeOK
  BY FeeAssumption DEF FeeOK, FeeTypeOK, FeeMints, FeeAccounts, WithdrawFees
<1>2. /\ feeAccount' = [feeAccount EXCEPT ![to] = a]
      /\ feeMint' = [feeMint EXCEPT !.withheld = 0] /\ feeMint.authority = authority
      /\ epoch' = epoch /\ notices' = notices /\ feeAccount[to] # NoHolding
  BY <1>1 DEF WithdrawFees, FeeTypeOK
<1>3. /\ a \in FeeAccounts /\ a # NoHolding /\ a.tokens + a.withheld = Held(to) + n
  <2>1. /\ a.tokens = feeAccount[to].tokens + n /\ a.withheld = feeAccount[to].withheld
        /\ a \in [tokens: Nat, withheld: Nat] /\ NoHolding.tokens = -1
    BY <1>1 DEF NoHolding
  <2> HIDE DEF a, n
  <2>2. a # NoHolding
    BY <2>1, <1>1
  <2> QED BY <1>1, <1>2, <2>1, <2>2 DEF Held, FeeAccounts
<1>4. /\ feeMint' \in FeeMints /\ feeMint'.issued = feeMint.issued
      /\ feeMint'.withheld = 0 /\ feeMint'.authority = feeMint.authority
      /\ feeMint'.newer = feeMint.newer /\ feeMint'.older = feeMint.older
      /\ feeMint'.since = feeMint.since
  BY <1>1, <1>2 DEF FeeMints
<1> HIDE DEF a
<1>5. /\ feeAccount' \in [FeeHolders -> FeeAccounts] /\ Held(to) \in Nat
      /\ Held(to)' = Held(to) + n /\ SumFunction(Holdings0) \in Int
      /\ SumFunction(Holdings0') = SumFunction(Holdings0) + Held(to)' - Held(to)
  BY <1>1, <1>2, <1>3, HoldingChanges
<1>6. FeeTypeOK'
  BY <1>1, <1>2, <1>4, <1>5, FeeTypes, FeeTypesAfter DEF FeeAccounts
<1>7. SumFunction(Holdings0') + feeMint'.withheld = feeMint'.issued
  <2>1. SumFunction(Holdings0) + n = feeMint.issued
    BY DEF FeeOK, FeesKept, Holdings0
  <2>2. feeMint.issued \in Int
    BY <1>1 DEF FeeMints
  <2> HIDE DEF n
  <2> QED BY <1>1, <1>4, <1>5, <2>1, <2>2
<1>8. FeesAnnounced'
  BY <1>1, <1>2, <1>4, StillAnnounced
<1> QED BY <1>6, <1>7, <1>8 DEF FeeOK, FeesKept, Holdings0

LEMMA CloseHoldingKeeps ==
  ASSUME FeeOK, NEW w \in FeeHolders, CloseHolding(w)
  PROVE  FeeOK'
<1>1. /\ FeeTypeOK /\ NoHolding \in FeeAccounts /\ Held(w) = 0
      /\ feeAccount' = [feeAccount EXCEPT ![w] = NoHolding]
      /\ epoch' = epoch /\ notices' = notices /\ feeMint' = feeMint
  BY DEF CloseHolding, FeeOK, FeeAccounts, Held
<1>2. /\ feeAccount' \in [FeeHolders -> FeeAccounts] /\ Held(w)' = 0
      /\ SumFunction(Holdings0) \in Int
      /\ SumFunction(Holdings0') = SumFunction(Holdings0) + Held(w)' - Held(w)
  BY <1>1, HoldingChanges
<1>3. FeeTypeOK'
  BY <1>1, <1>2, FeeTypes, FeeTypesAfter DEF FeeAccounts
<1>4. SumFunction(Holdings0') = SumFunction(Holdings0)
  BY <1>1, <1>2
<1>5. FeesKept' /\ FeesAnnounced'
  BY <1>1, <1>4 DEF FeeOK, FeesKept, Holdings0, FeesAnnounced, Known
<1> QED BY <1>3, <1>5 DEF FeeOK

LEMMA FeeTransferKeeps ==
  ASSUME FeeOK, NEW from \in FeeHolders, NEW to \in FeeHolders, NEW amount \in FeeAmounts,
         FeeTransfer(from, to, amount)
  PROVE  FeeOK'
<1> DEFINE fee == FeeOf(InForce(feeMint), amount)
           a == LessTokens(from, amount)
           b == Received(to, amount, fee)
<1>1. /\ amount \in Nat /\ amount > 0 /\ FeeTypeOK /\ from # to
      /\ feeMint.authority # NoPayer /\ feeAccount[from].tokens >= amount
      /\ epoch' = epoch /\ notices' = notices /\ feeMint' = feeMint
  BY FeeAssumption DEF FeeOK, FeeTransfer
<1>2. feeAccount' = [feeAccount EXCEPT ![from] = a, ![to] = b]
  BY DEF FeeTransfer
<1>3. fee \in 0 .. amount
  <2>1. InForce(feeMint) \in AllTerms
    BY <1>1 DEF InForce, FeeTypeOK
  <2> QED BY <1>1, <2>1, FeeWithin
<1> HIDE DEF fee
<1>4. feeAccount[from] \in [tokens: Nat, withheld: Nat]
  BY <1>1 DEF FeeTypeOK, NoHolding
<1>5. /\ a \in [tokens: Nat, withheld: Nat]
      /\ a.tokens + a.withheld = Held(from) - amount /\ Held(from) \in Nat
  <2>1. /\ a.tokens = feeAccount[from].tokens - amount
        /\ a.withheld = feeAccount[from].withheld
        /\ a \in [tokens: Nat, withheld: Nat]
    BY <1>1, <1>4 DEF LessTokens
  <2>2. Held(from) = feeAccount[from].tokens + feeAccount[from].withheld
    BY <1>4, Real DEF Held
  <2> HIDE DEF a
  <2> QED BY <1>1, <1>4, <2>1, <2>2
<1>6. /\ b \in [tokens: Nat, withheld: Nat]
      /\ b.tokens + b.withheld = Held(to) + amount /\ Held(to) \in Nat
  <2>1. /\ Opened(to) \in [tokens: Nat, withheld: Nat]
        /\ Opened(to).tokens + Opened(to).withheld = Held(to)
    BY <1>1, OpenedTyped
  <2>2. /\ b.tokens = Opened(to).tokens + (amount - fee) /\ b.withheld = Opened(to).withheld + fee
        /\ b \in [tokens: Nat, withheld: Nat]
    BY <1>1, <1>3, <2>1 DEF Received
  <2> HIDE DEF b
  <2> QED BY <1>1, <1>3, <2>1, <2>2
<1> HIDE DEF a, b
<1>7. /\ feeAccount' \in [FeeHolders -> FeeAccounts]
      /\ feeAccount'[from] = a /\ feeAccount'[to] = b
      /\ \A v \in FeeHolders \ {from, to} : feeAccount'[v] = feeAccount[v]
  <2>1. feeAccount \in [FeeHolders -> FeeAccounts] /\ a \in FeeAccounts /\ b \in FeeAccounts
    BY <1>1, <1>5, <1>6, Real DEF FeeTypeOK, FeeAccounts
  <2> QED BY <1>1, <1>2, <2>1
<1>8. /\ Held(from)' = Held(from) - amount /\ Held(to)' = Held(to) + amount
      /\ \A v \in FeeHolders \ {from, to} : Held(v)' = Held(v)
      /\ \A v \in FeeHolders : Held(v) \in Nat
  BY <1>1, <1>5, <1>6, <1>7, Real, HoldingsTyped DEF Held
<1> DEFINE f == Holdings0
           g == [w \in FeeHolders |-> IF w = from THEN Held(from) - amount ELSE Held(w)]
           h == Holdings0'
           less == 0 - amount
<1>9. /\ f \in [FeeHolders -> Int] /\ g \in [FeeHolders -> Int] /\ h \in [FeeHolders -> Int]
      /\ less \in Int /\ amount \in Int /\ IsFiniteSet(FeeHolders)
  BY <1>1, <1>8, FeeAssumption DEF Holdings0
<1>10. /\ g[from] = f[from] + less /\ \A v \in FeeHolders \ {from} : g[v] = f[v]
       /\ h[to] = g[to] + amount /\ \A v \in FeeHolders \ {to} : h[v] = g[v]
  BY <1>1, <1>8 DEF Holdings0
<1>11. less = 0 - amount
  OBVIOUS
<1>12. SumFunction(Holdings0') = SumFunction(Holdings0)
  <2> SUFFICES SumFunction(h) = SumFunction(f)
    OBVIOUS
  <2> HIDE DEF f, g, h, less
  <2>1. SumFunction(f) \in Int /\ SumFunction(g) = SumFunction(f) + less
    BY <1>9, <1>10, SumMoves
  <2>2. SumFunction(g) \in Int /\ SumFunction(h) = SumFunction(g) + amount
    BY <1>9, <1>10, SumMoves
  <2> QED BY <1>9, <1>11, <2>1, <2>2
<1>13. FeeTypeOK'
  BY <1>1, <1>7, FeeTypes, FeeTypesAfter DEF FeeAccounts
<1>14. FeesKept' /\ FeesAnnounced'
  BY <1>1, <1>12 DEF FeeOK, FeesKept, Holdings0, FeesAnnounced, Known
<1> QED BY <1>13, <1>14 DEF FeeOK

LEMMA HarvestKeeps ==
  ASSUME FeeOK, NEW sources \in SUBSET FeeHolders, Harvest(sources)
  PROVE  FeeOK'
<1> DEFINE f == Holdings0
           h == [w \in sources |-> feeAccount[w].withheld]
           g == Holdings0'
           n == SumFunction(h)
<1>1. /\ FeeTypeOK /\ feeMint.authority # NoPayer /\ feeMint \in FeeMints
      /\ epoch' = epoch /\ notices' = notices
      /\ feeAccount' = [w \in FeeHolders |->
                          IF w \in sources THEN [feeAccount[w] EXCEPT !.withheld = 0]
                          ELSE feeAccount[w]]
      /\ feeMint' = [feeMint EXCEPT !.withheld = @ + n]
  BY DEF FeeOK, Harvest, Harvested, FeeMints, FeeTypeOK
<1>2. \A w \in FeeHolders :
        /\ feeAccount[w].withheld \in Nat
        /\ feeAccount[w] = NoHolding
             => feeAccount'[w] = NoHolding /\ feeAccount[w].withheld = 0
        /\ feeAccount[w] # NoHolding =>
             /\ feeAccount'[w] \in [tokens: Nat, withheld: Nat]
             /\ feeAccount'[w].tokens = feeAccount[w].tokens
             /\ feeAccount'[w].withheld = IF w \in sources THEN 0 ELSE feeAccount[w].withheld
  <2> SUFFICES ASSUME NEW w \in FeeHolders
               PROVE  /\ feeAccount[w].withheld \in Nat
                      /\ feeAccount[w] = NoHolding
                           => feeAccount'[w] = NoHolding /\ feeAccount[w].withheld = 0
                      /\ feeAccount[w] # NoHolding =>
                           /\ feeAccount'[w] \in [tokens: Nat, withheld: Nat]
                           /\ feeAccount'[w].tokens = feeAccount[w].tokens
                           /\ feeAccount'[w].withheld
                                = IF w \in sources THEN 0 ELSE feeAccount[w].withheld
    OBVIOUS
  <2>1. feeAccount'[w] = IF w \in sources THEN [feeAccount[w] EXCEPT !.withheld = 0]
                         ELSE feeAccount[w]
    BY <1>1
  <2>2. CASE feeAccount[w] = NoHolding
    BY <2>1, <2>2 DEF NoHolding
  <2>3. CASE feeAccount[w] # NoHolding
    <3>1. feeAccount[w] \in [tokens: Nat, withheld: Nat]
      BY <1>1, <2>3 DEF FeeTypeOK
    <3> QED BY <2>1, <2>3, <3>1
  <2> QED BY <2>2, <2>3
<1>3. feeAccount' \in [FeeHolders -> FeeAccounts]
  BY <1>1, <1>2 DEF FeeAccounts
<1>4. \A w \in FeeHolders :
        /\ Held(w) \in Nat
        /\ Held(w)' = IF w \in sources THEN Held(w) - feeAccount[w].withheld ELSE Held(w)
  <2> SUFFICES ASSUME NEW w \in FeeHolders
               PROVE  /\ Held(w) \in Nat
                      /\ Held(w)' = IF w \in sources THEN Held(w) - feeAccount[w].withheld
                                    ELSE Held(w)
    OBVIOUS
  <2>1. Held(w) \in Nat
    BY <1>1, HoldingsTyped
  <2>2. CASE feeAccount[w] = NoHolding
    BY <1>2, <2>1, <2>2 DEF Held
  <2>3. CASE feeAccount[w] # NoHolding
    <3>1. feeAccount[w] \in [tokens: Nat, withheld: Nat] /\ feeAccount'[w] # NoHolding
      BY <1>1, <1>2, <2>3, Real DEF FeeTypeOK
    <3>2. Held(w)' = feeAccount'[w].tokens + feeAccount'[w].withheld
      BY <3>1 DEF Held
    <3>3. Held(w) = feeAccount[w].tokens + feeAccount[w].withheld
      BY <2>3 DEF Held
    <3> QED BY <1>2, <2>1, <2>3, <3>1, <3>2, <3>3
  <2> QED BY <2>2, <2>3
<1>5. /\ f \in [FeeHolders -> Int] /\ h \in [sources -> Int] /\ h \in [sources -> Nat]
      /\ IsFiniteSet(FeeHolders) /\ IsFiniteSet(sources)
      /\ g = [w \in FeeHolders |-> IF w \in sources THEN f[w] - h[w] ELSE f[w]]
  <2>1. \A w \in sources : h[w] = feeAccount[w].withheld /\ h[w] \in Nat
    BY <1>2
  <2>2. \A w \in FeeHolders : f[w] = Held(w)
    BY DEF Holdings0
  <2>3. g = [w \in FeeHolders |-> Held(w)']
    BY DEF Holdings0
  <2>4. IsFiniteSet(FeeHolders) /\ IsFiniteSet(sources)
    BY FeeAssumption, FS_Subset
  <2>5. f \in [FeeHolders -> Int]
    BY <1>4 DEF Holdings0
  <2>6. h \in [sources -> Nat] /\ h \in [sources -> Int]
    BY <1>2
  <2> HIDE DEF f, g, h
  <2>7. g = [w \in FeeHolders |-> IF w \in sources THEN f[w] - h[w] ELSE f[w]]
    BY <1>4, <2>1, <2>2, <2>3
  <2> QED BY <2>4, <2>5, <2>6, <2>7
<1>6. n \in Nat /\ SumFunction(Holdings0) \in Int
      /\ SumFunction(Holdings0') = SumFunction(Holdings0) - n
  <2> SUFFICES n \in Nat /\ SumFunction(f) \in Int /\ SumFunction(g) = SumFunction(f) - n
    OBVIOUS
  <2> HIDE DEF f, g, h
  <2>1. SumFunction(h) \in Int /\ SumFunction(f) \in Int
        /\ SumFunction(g) = SumFunction(f) - SumFunction(h)
    BY <1>5, SumTaken
  <2>2. \A w \in sources : h[w] <= h[w]
    BY <1>5
  <2>3. SumFunction(h) \in Nat
    BY <1>5, <2>2, SumMonotone
  <2> QED BY <2>1, <2>3
<1> HIDE DEF n, f, g, h
<1>7. /\ feeMint' \in FeeMints /\ feeMint'.issued = feeMint.issued
      /\ feeMint'.withheld = feeMint.withheld + n /\ feeMint'.authority = feeMint.authority
      /\ feeMint'.newer = feeMint.newer /\ feeMint'.older = feeMint.older
      /\ feeMint'.since = feeMint.since
  BY <1>1, <1>6 DEF FeeMints
<1>8. FeeTypeOK'
  BY <1>1, <1>3, <1>7, FeeTypes, FeeTypesAfter DEF FeeAccounts
<1>9. SumFunction(Holdings0') + feeMint'.withheld = feeMint'.issued
  <2>1. SumFunction(Holdings0) + feeMint.withheld = feeMint.issued
    BY DEF FeeOK, FeesKept, Holdings0
  <2>2. feeMint.issued \in Int /\ feeMint.withheld \in Int
    BY <1>1 DEF FeeMints
  <2> QED BY <1>6, <1>7, <2>1, <2>2
<1>10. FeesAnnounced'
  BY <1>1, <1>7, StillAnnounced
<1> QED BY <1>8, <1>9, <1>10 DEF FeeOK, FeesKept, Holdings0

LEMMA NextEpochKeeps ==
  ASSUME FeeOK, NextEpoch
  PROVE  FeeOK'
<1>1. /\ epoch \in 0 .. MaxEpoch /\ epoch' = epoch + 1 /\ epoch < MaxEpoch
      /\ UNCHANGED <<feeMint, feeAccount, notices>> /\ MaxEpoch \in Nat
      /\ \A known \in notices : known.since \in Int
  BY FeeAssumption DEF FeeOK, FeeTypeOK, NextEpoch
<1>2. FeeTypeOK'
  BY <1>1 DEF FeeOK, FeeTypeOK
<1>3. FeesKept'
  BY <1>1 DEF FeeOK, FeesKept, Held
<1>4. FeesAnnounced'
  <2>1. CASE feeMint.authority = NoPayer
    BY <1>1, <2>1 DEF FeeOK, FeesAnnounced
  <2>2. CASE feeMint.authority # NoPayer
    <3>1. Known(feeMint.newer, feeMint.since) /\ Known(feeMint.older, epoch)
      BY <2>2 DEF FeeOK, FeesAnnounced
    <3>2. \E known \in notices : known.terms = feeMint.older /\ known.since + NOTICE <= epoch + 1
      BY <1>1, <3>1 DEF Known, NOTICE
    <3> QED BY <1>1, <2>2, <3>1, <3>2 DEF FeesAnnounced, Known
  <2> QED BY <2>1, <2>2
<1> QED BY <1>2, <1>3, <1>4 DEF FeeOK

LEMMA FeeKeeps ==
  ASSUME FeeOK, FeeNext
  PROVE  FeeOK'
<1>1. CASE \E w \in FeePayers, r \in FeeRates, n \in MaximumFees :
             InitializeFee(w, Terms(r, n)) \/ UpdateFee(w, Terms(r, n))
  BY <1>1, InitializeFeeKeeps, UpdateFeeKeeps
<1>2. CASE \E w \in FeePayers, d \in FeeDecimals : CreateFeeMint(w, d)
  BY <1>2, CreateFeeMintKeeps
<1>3. CASE \E from, to \in FeeHolders, n \in FeeAmounts : FeeTransfer(from, to, n)
  BY <1>3, FeeTransferKeeps
<1>4. CASE \E sources \in SUBSET FeeHolders : Harvest(sources)
  BY <1>4, HarvestKeeps
<1>5. CASE \E w \in FeePayers, to \in FeeHolders : WithdrawFees(w, to)
  BY <1>5, WithdrawFeesKeeps
<1>6. CASE \E to \in FeeHolders, n \in FeeAmounts : IssueTokens(to, n)
  BY <1>6, IssueTokensKeeps
<1>7. CASE \E w \in FeeHolders : CloseHolding(w)
  BY <1>7, CloseHoldingKeeps
<1>8. CASE NextEpoch
  BY <1>8, NextEpochKeeps
<1> QED BY <1>1, <1>2, <1>3, <1>4, <1>5, <1>6, <1>7, <1>8 DEF FeeNext

(***************************************************************************)
(* The fundraiser.                                                         *)
(***************************************************************************)

\* Nobody has a record before there was a first vault, an open fundraiser has its
\* vault, and the first one has counted what its contributors gave and can take back.
FundCounted ==
  /\ (\A m \in RaisedMints : fundVault[m] = NoVault)
        => ~fund.open /\ \A c \in Contributors : record[c] = NoRecord
  /\ fund.open => fundVault[fund.mint] # NoVault
  /\ fund.open /\ IsFirst => \A c \in Contributors : AmountOf(c) = given[c]

FundOK == FundTypeOK /\ FundCounted /\ RefundsCovered

Recorded0 == [c \in Contributors |-> AmountOf(c)]

LEMMA FundTyped ==
  ASSUME FundTypeOK
  PROVE  /\ IsFiniteSet(Contributors)
         /\ Recorded0 \in [Contributors -> Nat] /\ Recorded0 \in [Contributors -> Int]
         /\ \A c \in Contributors : AmountOf(c) \in Nat /\ Recorded0[c] = AmountOf(c)
<1>1. \A c \in Contributors : AmountOf(c) \in Nat
  BY DEF FundTypeOK, AmountOf, NoRecord
<1> QED BY <1>1, FundAssumption DEF Recorded0

LEMMA FundStarts ==
  ASSUME FundInit
  PROVE  FundOK
<1>1. FundTypeOK
  <2>1. (CHOOSE m \in RaisedMints : TRUE) \in RaisedMints
    BY FundAssumption
  <2>2. fund \in [open: BOOLEAN, mint: RaisedMints, target: Nat, current: Nat,
                  started: Nat, duration: 0 .. U16 - 1]
    BY <2>1, FundAssumption DEF FundInit, NoFund
  <2>3. savings \in [Contributors -> [RaisedMints -> Nat]]
    BY FundAssumption DEF FundInit
  <2> QED BY <2>2, <2>3, FundAssumption DEF FundInit, FundTypeOK
<1>2. ~fund.open /\ \A c \in Contributors : record[c] = NoRecord
  BY DEF FundInit, NoFund
<1> QED BY <1>1, <1>2 DEF FundOK, FundCounted, RefundsCovered

LEMMA FundIdle ==
  ASSUME FundOK, UNCHANGED fundVars
  PROVE  FundOK'
BY DEF FundOK, FundTypeOK, FundCounted, RefundsCovered, AmountOf, IsFirst, fundVars

\* Each contributor can be given back what it gave, all from the vault.
LEMMA NobodyIsLocked == FundOK => NobodyLocked
<1> SUFFICES ASSUME FundOK, fund.open, IsFirst, Ended, ~TargetMet,
                    NEW c \in Contributors, given[c] > 0
             PROVE  record[c] = given[c] /\ CanRefund(c)
  BY DEF NobodyLocked
<1>1. FundTypeOK /\ AmountOf(c) = given[c] /\ given[c] \in Nat
  BY DEF FundOK, FundCounted, FundTypeOK
<1>2. record[c] = given[c] /\ record[c] # NoRecord
  BY <1>1 DEF AmountOf, NoRecord
<1>3. fundVault[fund.mint] >= fund.current /\ SumFunction(Recorded0) = fund.current
  BY DEF FundOK, RefundsCovered, Recorded0
<1>4. Recorded0[c] <= SumFunction(Recorded0)
  <2> DEFINE f == Recorded0
  <2>1. IsFiniteSet(Contributors) /\ f \in [Contributors -> Int]
        /\ \A x \in Contributors : f[x] \in Nat
    BY <1>1, FundTyped
  <2> SUFFICES f[c] <= SumFunction(f)
    OBVIOUS
  <2> HIDE DEF f
  <2>2. SumFunction(f) = SumFunctionOnSet(f, Contributors)
    BY <2>1, SumOfFunction
  <2>3. f[c] <= SumFunctionOnSet(f, Contributors)
    BY <2>1, SumBounds
  <2> QED BY <2>2, <2>3
<1>5. record[c] <= fund.current
  BY <1>1, <1>2, <1>3, <1>4, FundTyped
<1>6. fund.current \in Int /\ fundVault[fund.mint] \in Int /\ record[c] \in Int
  BY <1>1 DEF FundTypeOK, NoVault, NoRecord
<1> QED BY <1>2, <1>3, <1>5, <1>6 DEF CanRefund

LEMMA InitializeFundKeeps ==
  ASSUME FundOK, NEW m \in RaisedMints, NEW n \in Targets, NEW d \in Durations,
         InitializeFund(m, n, d)
  PROVE  FundOK'
<1>1. /\ FundTypeOK /\ n \in Nat /\ d \in 0 .. U16 - 1 /\ ~fund.open
      /\ fundVault[m] = NoVault /\ fundVault' = [fundVault EXCEPT ![m] = 0]
      /\ fund' = [open |-> TRUE, mint |-> m, target |-> n, current |-> 0,
                  started |-> seconds, duration |-> d]
      /\ given' = [c \in Contributors |-> 0]
      /\ record' = record /\ seconds' = seconds /\ savings' = savings
  BY FundAssumption DEF FundOK, InitializeFund
<1>2. FundTypeOK'
  BY <1>1 DEF FundTypeOK
<1>3. /\ fundVault'[m] = 0 /\ fund'.mint = m /\ fund'.current = 0 /\ 0 # NoVault
      /\ \A x \in RaisedMints \ {m} : fundVault'[x] = fundVault[x]
  BY <1>1 DEF FundTypeOK, NoVault
<1>4. ASSUME IsFirst'
      PROVE  \A c \in Contributors : record[c] = NoRecord
  <2>1. \A x \in RaisedMints : fundVault[x] = NoVault
    BY <1>1, <1>3, <1>4 DEF IsFirst
  <2> QED BY <2>1 DEF FundOK, FundCounted
<1>5. IsFirst' => \A c \in Contributors : AmountOf(c)' = 0
  BY <1>1, <1>4 DEF AmountOf
<1>6. FundCounted'
  BY <1>1, <1>3, <1>5 DEF FundCounted
<1>7. RefundsCovered'
  <2> SUFFICES ASSUME IsFirst'
               PROVE  SumFunction([c \in Contributors |-> AmountOf(c)])' = 0
    BY <1>3 DEF RefundsCovered
  <2>1. [c \in Contributors |-> AmountOf(c)]' = [c \in Contributors |-> 0]
    BY <1>5
  <2>2. SumFunction([c \in Contributors |-> 0]) = 0
    BY FundAssumption, SumOfZeros
  <2> QED BY <2>1, <2>2
<1> QED BY <1>2, <1>6, <1>7 DEF FundOK

\* Steps of an open fundraiser that leave it open, and its mint and vaults.
LEMMA RecordChanges ==
  ASSUME FundOK, FundTypeOK', fund.open, fund'.open, fund'.mint = fund.mint,
         \A m \in RaisedMints : fundVault'[m] = NoVault <=> fundVault[m] = NoVault,
         NEW c \in Contributors, NEW d \in Int,
         fund'.current = fund.current + d,
         fundVault'[fund.mint] = fundVault[fund.mint] + d,
         IsFirst => AmountOf(c)' = AmountOf(c) + d /\ AmountOf(c)' = given'[c],
         \A x \in Contributors \ {c} : record'[x] = record[x] /\ given'[x] = given[x]
  PROVE  FundOK'
<1>1. /\ FundTypeOK /\ fund.current \in Int /\ fund.mint \in RaisedMints
      /\ fundVault[fund.mint] # NoVault /\ fundVault[fund.mint] \in Int
  BY DEF FundOK, FundTypeOK, FundCounted, NoVault
<1>2. IsFirst' <=> IsFirst
  BY DEF IsFirst
<1>3. \A x \in Contributors \ {c} : AmountOf(x)' = AmountOf(x)
  BY DEF AmountOf
<1>4. FundCounted'
  BY <1>1, <1>2, <1>3 DEF FundOK, FundCounted
<1>5. ASSUME IsFirst
      PROVE  SumFunction(Recorded0') = SumFunction(Recorded0) + d
             /\ SumFunction(Recorded0) \in Int
  <2> DEFINE f == Recorded0
             g == Recorded0'
  <2>1. /\ IsFiniteSet(Contributors) /\ f \in [Contributors -> Int]
        /\ \A x \in Contributors : AmountOf(x) \in Nat /\ f[x] = AmountOf(x)
    BY <1>1, FundTyped
  <2>2. \A x \in Contributors : AmountOf(x)' \in Nat
    BY DEF FundTypeOK, AmountOf, NoRecord
  <2>3. g \in [Contributors -> Int] /\ \A x \in Contributors : g[x] = AmountOf(x)'
    BY <2>2 DEF Recorded0
  <2>4. g[c] = f[c] + d /\ \A x \in Contributors \ {c} : g[x] = f[x]
    BY <1>3, <1>5, <2>1, <2>3
  <2> SUFFICES SumFunction(g) = SumFunction(f) + d /\ SumFunction(f) \in Int
    OBVIOUS
  <2> HIDE DEF f, g
  <2> QED BY <2>1, <2>3, <2>4, SumMoves
<1>6. RefundsCovered'
  <2> SUFFICES ASSUME IsFirst
               PROVE  /\ fundVault'[fund.mint] >= fund'.current
                      /\ SumFunction(Recorded0') = fund'.current
    BY <1>2 DEF RefundsCovered, Recorded0
  <2>1. fundVault[fund.mint] >= fund.current /\ SumFunction(Recorded0) = fund.current
    BY DEF FundOK, RefundsCovered, Recorded0
  <2> QED BY <1>1, <1>5, <2>1
<1> QED BY <1>4, <1>6 DEF FundOK

LEMMA ContributeKeeps ==
  ASSUME FundOK, NEW c \in Contributors, NEW n \in Contributions, Contribute(c, n)
  PROVE  FundOK'
<1>1. /\ FundTypeOK /\ FundCounted /\ n \in Nat /\ fund.open /\ fund.mint \in RaisedMints
      /\ fundVault[fund.mint] \in Nat
  BY FundAssumption DEF FundOK, FundTypeOK, FundCounted, Contribute
<1>2. /\ n <= savings[c][fund.mint]
      /\ savings' = [savings EXCEPT ![c][fund.mint] = @ - n]
      /\ fundVault' = [fundVault EXCEPT ![fund.mint] = @ + n]
      /\ fund' = [fund EXCEPT !.current = @ + n]
      /\ record' = [record EXCEPT ![c] = AmountOf(c) + n]
      /\ given' = [given EXCEPT ![c] = @ + n]
      /\ seconds' = seconds
  BY DEF Contribute, Recorded
<1>3. AmountOf(c) \in Nat
  BY <1>1, FundTyped
<1>4. FundTypeOK'
  <2>1. savings' \in [Contributors -> [RaisedMints -> Nat]]
    BY <1>1, <1>2 DEF FundTypeOK
  <2>2. fund' \in [open: BOOLEAN, mint: RaisedMints, target: Nat, current: Nat,
                   started: Nat, duration: 0 .. U16 - 1]
    BY <1>1, <1>2 DEF FundTypeOK
  <2>3. fundVault' \in [RaisedMints -> Nat \cup {NoVault}]
    BY <1>1, <1>2 DEF FundTypeOK
  <2>4. record' \in [Contributors -> Nat \cup {NoRecord}]
    BY <1>1, <1>2, <1>3 DEF FundTypeOK
  <2>5. given' \in [Contributors -> Nat]
    BY <1>1, <1>2 DEF FundTypeOK
  <2> QED BY <1>1, <1>2, <2>1, <2>2, <2>3, <2>4, <2>5 DEF FundTypeOK
<1>5. /\ fund'.open /\ fund'.mint = fund.mint /\ fund'.current = fund.current + n
      /\ fundVault'[fund.mint] = fundVault[fund.mint] + n
      /\ \A m \in RaisedMints : fundVault'[m] = NoVault <=> fundVault[m] = NoVault
  BY <1>1, <1>2 DEF FundTypeOK, NoVault
<1>6. /\ AmountOf(c)' = AmountOf(c) + n
      /\ given'[c] = given[c] + n
      /\ \A x \in Contributors \ {c} : record'[x] = record[x] /\ given'[x] = given[x]
  BY <1>1, <1>2, <1>3 DEF FundTypeOK, AmountOf, NoRecord
<1>7. IsFirst => AmountOf(c) = given[c]
  BY <1>1 DEF FundCounted
<1> QED BY <1>1, <1>4, <1>5, <1>6, <1>7, RecordChanges

LEMMA RefundKeeps ==
  ASSUME FundOK, NEW c \in Contributors, RefundContribution(c)
  PROVE  FundOK'
<1> DEFINE n == record[c]
           d == 0 - n
<1>1. /\ FundTypeOK /\ FundCounted /\ n \in Nat /\ fund.open /\ fund.mint \in RaisedMints
      /\ fundVault[fund.mint] \in Nat /\ n <= fundVault[fund.mint] /\ n <= fund.current
      /\ fund.current \in Nat
  BY DEF FundOK, FundTypeOK, FundCounted, RefundContribution, CanRefund
<1>2. /\ savings' = [savings EXCEPT ![c][fund.mint] = @ + n]
      /\ fundVault' = [fundVault EXCEPT ![fund.mint] = @ - n]
      /\ fund' = [fund EXCEPT !.current = @ - n]
      /\ record' = [record EXCEPT ![c] = NoRecord]
      /\ given' = [given EXCEPT ![c] = 0]
      /\ seconds' = seconds
  BY DEF RefundContribution
<1>3. AmountOf(c) = n
  BY <1>1 DEF AmountOf, NoRecord
<1> HIDE DEF n
<1>4. FundTypeOK'
  <2>1. savings' \in [Contributors -> [RaisedMints -> Nat]]
    BY <1>1, <1>2 DEF FundTypeOK
  <2>2. fund' \in [open: BOOLEAN, mint: RaisedMints, target: Nat, current: Nat,
                   started: Nat, duration: 0 .. U16 - 1]
    BY <1>1, <1>2 DEF FundTypeOK
  <2>3. fundVault' \in [RaisedMints -> Nat \cup {NoVault}]
    BY <1>1, <1>2 DEF FundTypeOK
  <2>4. record' \in [Contributors -> Nat \cup {NoRecord}]
    BY <1>1, <1>2 DEF FundTypeOK
  <2>5. given' \in [Contributors -> Nat]
    BY <1>1, <1>2 DEF FundTypeOK
  <2> QED BY <1>1, <1>2, <2>1, <2>2, <2>3, <2>4, <2>5 DEF FundTypeOK
<1>5. /\ fund'.open /\ fund'.mint = fund.mint /\ fund'.current = fund.current + d
      /\ fundVault'[fund.mint] = fundVault[fund.mint] + d /\ d \in Int
      /\ \A m \in RaisedMints : fundVault'[m] = NoVault <=> fundVault[m] = NoVault
  BY <1>1, <1>2 DEF FundTypeOK, NoVault
<1>6. /\ AmountOf(c)' = AmountOf(c) + d /\ AmountOf(c)' = given'[c]
      /\ \A x \in Contributors \ {c} : record'[x] = record[x] /\ given'[x] = given[x]
  BY <1>1, <1>2, <1>3 DEF FundTypeOK, AmountOf, NoRecord
<1> HIDE DEF d
<1> QED BY <1>1, <1>4, <1>5, <1>6, RecordChanges

LEMMA SendToVaultKeeps ==
  ASSUME FundOK, NEW c \in Contributors, NEW m \in RaisedMints, SendToVault(c, m)
  PROVE  FundOK'
<1>1. /\ FundTypeOK /\ fundVault[m] \in Nat /\ savings[c][m] > 0
      /\ savings' = [savings EXCEPT ![c][m] = @ - 1]
      /\ fundVault' = [fundVault EXCEPT ![m] = @ + 1]
      /\ UNCHANGED <<seconds, fund, record, given>>
  BY DEF FundOK, FundTypeOK, SendToVault
<1>2. FundTypeOK'
  <2>1. savings' \in [Contributors -> [RaisedMints -> Nat]]
    BY <1>1 DEF FundTypeOK
  <2>2. fundVault' \in [RaisedMints -> Nat \cup {NoVault}]
    BY <1>1 DEF FundTypeOK
  <2> QED BY <1>1, <2>1, <2>2 DEF FundTypeOK
<1>3. /\ \A x \in RaisedMints : fundVault'[x] = NoVault <=> fundVault[x] = NoVault
      /\ \A x \in RaisedMints : fundVault[x] # NoVault => fundVault'[x] >= fundVault[x]
  BY <1>1 DEF FundTypeOK, NoVault
<1>4. (IsFirst' <=> IsFirst) /\ \A x \in Contributors : AmountOf(x)' = AmountOf(x)
  BY <1>1, <1>3 DEF IsFirst, AmountOf
<1>5. FundCounted'
  BY <1>1, <1>3, <1>4 DEF FundOK, FundCounted, FundTypeOK
<1>6. RefundsCovered'
  <2> SUFFICES ASSUME fund.open, IsFirst
               PROVE  /\ fundVault'[fund.mint] >= fund.current
                      /\ SumFunction([x \in Contributors |-> AmountOf(x)])' = fund.current
    BY <1>1, <1>4 DEF RefundsCovered
  <2>1. /\ fundVault[fund.mint] >= fund.current
        /\ SumFunction([x \in Contributors |-> AmountOf(x)]) = fund.current
    BY DEF FundOK, RefundsCovered
  <2>2. /\ fundVault'[fund.mint] >= fundVault[fund.mint]
        /\ fundVault[fund.mint] \in Int /\ fundVault'[fund.mint] \in Int
        /\ fund.current \in Int
    BY <1>1, <1>2, <1>3 DEF FundOK, FundCounted, FundTypeOK, NoVault
  <2> QED BY <1>4, <2>1, <2>2
<1> QED BY <1>2, <1>5, <1>6 DEF FundOK

LEMMA FundKeeps ==
  ASSUME FundOK, FundNext
  PROVE  FundOK'
<1>1. CASE \E m \in RaisedMints, n \in Targets, d \in Durations : InitializeFund(m, n, d)
  BY <1>1, InitializeFundKeeps
<1>2. CASE \E c \in Contributors, n \in Contributions : Contribute(c, n)
  BY <1>2, ContributeKeeps
<1>3. CASE CheckContributions
  <2>1. /\ FundTypeOK /\ fund.open /\ fund.mint \in RaisedMints
        /\ fundVault' = [fundVault EXCEPT ![fund.mint] = 0]
        /\ fund' = NoFund /\ UNCHANGED <<seconds, record, savings, given>>
    BY <1>3 DEF CheckContributions, FundOK, FundTypeOK
  <2>2. fund' \in [open: BOOLEAN, mint: RaisedMints, target: Nat, current: Nat,
                   started: Nat, duration: 0 .. U16 - 1] /\ ~fund'.open
    BY <2>1, FundAssumption DEF NoFund
  <2>3. FundTypeOK'
    BY <2>1, <2>2 DEF FundTypeOK
  <2>4. fundVault'[fund.mint] # NoVault
    BY <2>1 DEF FundTypeOK, NoVault
  <2> QED BY <2>1, <2>2, <2>3, <2>4 DEF FundOK, FundCounted, RefundsCovered
<1>4. CASE \E c \in Contributors : RefundContribution(c)
  BY <1>4, RefundKeeps
<1>5. CASE \E c \in Contributors, m \in RaisedMints : SendToVault(c, m)
  BY <1>5, SendToVaultKeeps
<1>6. CASE FundTick
  <2>1. UNCHANGED <<fund, fundVault, record, savings, given>> /\ seconds' \in Nat
    BY <1>6 DEF FundTick, FundOK, FundTypeOK
  <2> QED BY <2>1 DEF FundOK, FundTypeOK, FundCounted, RefundsCovered, AmountOf, IsFirst
<1> QED BY <1>1, <1>2, <1>3, <1>4, <1>5, <1>6 DEF FundNext

(***************************************************************************)
(* The market maker: its arithmetic.                                       *)
(***************************************************************************)

LEMMA SquareRoot ==
  ASSUME NEW n \in Nat
  PROVE  ISqrt(n) \in Nat /\ ISqrt(n) * ISqrt(n) <= n
<1> DEFINE IsRoot(r, k) == r * r <= k /\ k < (r + 1) * (r + 1)
           G == {k \in 0 .. n : \E r \in 0 .. k : IsRoot(r, k)}
<1>1. 0 \in G
  OBVIOUS
<1>2. ASSUME NEW k \in 0 .. n - 1, k \in G
      PROVE  k + 1 \in G
  <2>1. PICK r \in 0 .. k : IsRoot(r, k)
    BY <1>2
  <2>2. CASE k + 1 < (r + 1) * (r + 1)
    <3>1. r \in 0 .. k + 1 /\ IsRoot(r, k + 1)
      BY <2>1, <2>2
    <3> QED BY <3>1
  <2>3. CASE k + 1 >= (r + 1) * (r + 1)
    <3>1. k + 1 = (r + 1) * (r + 1)
      BY <2>1, <2>3
    <3>2. (r + 1) * (r + 1) < (r + 2) * (r + 2)
      BY <2>1
    <3>3. r + 1 \in 0 .. k + 1 /\ IsRoot(r + 1, k + 1)
      BY <2>1, <3>1, <3>2
    <3> HIDE DEF IsRoot
    <3> QED BY <1>2, <3>3
  <2> QED BY <2>1, <2>2, <2>3
<1> HIDE DEF G
<1>3. n \in G
  BY <1>1, <1>2, Stepwise
<1>4. \E r \in 0 .. n : IsRoot(r, n)
  BY <1>3 DEF G
<1>5. ISqrt(n) = CHOOSE r \in 0 .. n : IsRoot(r, n)
  BY DEF ISqrt
<1>6. ISqrt(n) \in 0 .. n /\ IsRoot(ISqrt(n), n)
  <2> HIDE DEF IsRoot
  <2> QED BY <1>4, <1>5
<1> QED BY <1>6

\* What a deposit puts in is within what was offered.
LEMMA PairedWithin ==
  ASSUME NEW r \in [a: Nat, b: Nat], NEW x \in Nat, NEW y \in Nat, Empty(r) \/ r.a # 0
  PROVE  Paired(r, x, y).a \in 0 .. x /\ Paired(r, x, y).b \in 0 .. y
<1>1. CASE Empty(r)
  BY <1>1 DEF Paired
<1>2. CASE ~Empty(r)
  <2> DEFINE ra == r.a
             rb == r.b
             q == (x * rb) \div ra
             z == (y * ra) \div rb
  <2>1. ra \in Nat /\ rb \in Nat /\ ra > 0 /\ x * rb \in Nat /\ y * ra \in Nat
    BY <1>2
  <2>2. q \in Nat /\ ra * q <= x * rb
    BY <2>1
  <2>3. Paired(r, x, y) = IF q <= y THEN [a |-> x, b |-> q] ELSE [a |-> z, b |-> y]
    BY <1>2 DEF Paired
  <2>4. CASE q <= y
    BY <2>2, <2>3, <2>4
  <2>5. CASE ~(q <= y)
    <3> HIDE DEF q
    <3>1. ra * q >= ra * (y + 1)
      BY <2>1, <2>2, <2>5
    <3>2. y * ra < x * rb /\ rb > 0
      BY <2>1, <2>2, <3>1
    <3>3. y * ra < (x + 1) * rb
      BY <2>1, <3>2
    <3> DEFINE t == y * ra
    <3>4. t \in Nat /\ t < (x + 1) * rb
      BY <2>1, <3>3
    <3> HIDE DEF t, ra, rb
    <3>5. t \div rb \in 0 .. x
      BY <2>1, <3>2, <3>4, QuotientBelow
    <3> QED BY <2>3, <2>5, <3>5 DEF t
  <2> QED BY <2>4, <2>5
<1> QED BY <1>1, <1>2

LEMMA MeanBelow ==
  ASSUME NEW p \in Nat, NEW u \in Nat, NEW v \in Nat, p * p <= u * v
  PROVE  2 * p <= u + v
<1>1. (u + v) * (u + v) >= 4 * (u * v)
  OBVIOUS
<1>2. (2 * p) * (2 * p) <= (u + v) * (u + v)
  BY <1>1
<1> QED BY <1>2

\* Shares that are the geometric mean of what was put in can be added up.
LEMMA DepositBacks ==
  ASSUME NEW s \in Nat, NEW m \in Nat, NEW ra \in Nat, NEW rb \in Nat,
         NEW xa \in Nat, NEW xb \in Nat, s * s <= ra * rb, m * m <= xa * xb
  PROVE  (s + m) * (s + m) <= (ra + xa) * (rb + xb)
<1> DEFINE p == s * m
           u == ra * xb
           v == rb * xa
<1>1. p \in Nat /\ u \in Nat /\ v \in Nat
  OBVIOUS
<1>2. p * p <= u * v
  <2>1. p * p = (s * s) * (m * m) /\ u * v = (ra * rb) * (xa * xb)
    OBVIOUS
  <2> DEFINE ss == s * s
             mm == m * m
             rr == ra * rb
             xx == xa * xb
  <2>2. ss \in Nat /\ mm \in Nat /\ rr \in Nat /\ xx \in Nat /\ ss <= rr /\ mm <= xx
    OBVIOUS
  <2>3. p * p = ss * mm /\ u * v = rr * xx
    BY <2>1
  <2> HIDE DEF ss, mm, rr, xx
  <2>4. ss * mm <= rr * xx
    <3>1. ss * mm <= rr * mm
      BY <2>2
    <3>2. rr * mm <= rr * xx
      BY <2>2
    <3> QED BY <2>2, <3>1, <3>2
  <2> QED BY <2>3, <2>4
<1>3. 2 * p <= u + v
  <2> HIDE DEF p, u, v
  <2> QED BY <1>1, <1>2, MeanBelow
<1>4. /\ (s + m) * (s + m) = s * s + 2 * p + m * m
      /\ (ra + xa) * (rb + xb) = ra * rb + (u + v) + xa * xb
  OBVIOUS
<1> QED BY <1>3, <1>4

\* What n of the shares s are given back, out of total: of either side no more than
\* in proportion, so that what is left backs the shares that are left.
LEMMA WithdrawalLeaves ==
  ASSUME NEW r \in Nat, NEW total \in Nat, total > 0, NEW n \in Nat, n <= total
  PROVE  /\ (n * r) \div total \in 0 .. r
         /\ (r - ((n * r) \div total)) * total >= r * (total - n)
<1> DEFINE x == n * r
           q == x \div total
<1>1. x \in Nat
  OBVIOUS
<1>2. q \in Nat /\ total * q <= x
  <2> HIDE DEF x
  <2> QED BY <1>1
<1>3. q \in 0 .. r
  <2>1. x < (r + 1) * total
    <3>1. x <= total * r
      OBVIOUS
    <3>2. (r + 1) * total = total * r + total
      OBVIOUS
    <3> QED BY <3>1, <3>2
  <2> HIDE DEF x
  <2> QED BY <1>1, <2>1, QuotientBelow
<1> HIDE DEF q
<1>4. (r - q) * total = r * total - total * q /\ r * (total - n) = r * total - x
  BY <1>3
<1>5. (r - q) * total >= r * (total - n)
  BY <1>1, <1>2, <1>3, <1>4
<1> QED BY <1>3, <1>5 DEF q

LEMMA WithdrawBacks ==
  ASSUME NEW s \in Nat, NEW total \in Nat, total > 0, s <= total,
         NEW n \in Nat, n <= s, NEW ra \in Nat, NEW rb \in Nat, s * s <= ra * rb,
         NEW a \in Nat, NEW b \in Nat,
         a * total >= ra * (total - n), b * total >= rb * (total - n)
  PROVE  (s - n) * (s - n) <= a * b
<1> DEFINE k == total - n
           l == s - n
<1>1. k \in Nat /\ l \in Nat /\ l * total <= s * k
  <2>1. (s - n) * total = s * total - n * total /\ s * (total - n) = s * total - n * s
    OBVIOUS
  <2>2. n * s <= n * total
    OBVIOUS
  <2> QED BY <2>1, <2>2
<1>2. a * total >= ra * k /\ b * total >= rb * k
  OBVIOUS
<1> HIDE DEF k, l
<1>3. (l * total) * (l * total) <= (s * k) * (s * k)
  <2> DEFINE u == l * total
             v == s * k
  <2>1. u \in Nat /\ v \in Nat /\ u <= v
    BY <1>1
  <2> HIDE DEF u, v
  <2>2. u * u <= v * v
    BY <2>1
  <2> QED BY <2>2 DEF u, v
<1>4. (s * k) * (s * k) <= (ra * k) * (rb * k)
  <2> DEFINE ss == s * s
             rr == ra * rb
             kk == k * k
  <2>1. ss \in Nat /\ rr \in Nat /\ kk \in Nat /\ ss <= rr
    BY <1>1
  <2>2. (s * k) * (s * k) = ss * kk /\ (ra * k) * (rb * k) = rr * kk
    BY <1>1
  <2> HIDE DEF ss, rr, kk
  <2>3. ss * kk <= rr * kk
    BY <2>1
  <2> QED BY <2>2, <2>3
<1>5. (ra * k) * (rb * k) <= (a * total) * (b * total)
  <2> DEFINE u == ra * k
             v == rb * k
             x == a * total
             y == b * total
  <2>1. u \in Nat /\ v \in Nat /\ x \in Nat /\ y \in Nat /\ u <= x /\ v <= y
    BY <1>1, <1>2
  <2> HIDE DEF u, v, x, y
  <2>2. u * v <= x * v
    BY <2>1
  <2>3. x * v <= x * y
    BY <2>1
  <2>4. u * v <= x * y
    BY <2>1, <2>2, <2>3
  <2> QED BY <2>4 DEF u, v, x, y
<1>6. (l * l) * (total * total) <= (a * b) * (total * total)
  <2>1. (l * total) * (l * total) = (l * l) * (total * total)
        /\ (a * total) * (b * total) = (a * b) * (total * total)
    BY <1>1
  <2> QED BY <1>1, <1>3, <1>4, <1>5, <2>1
<1>7. l * l <= a * b
  <2> DEFINE u == l * l
             v == a * b
             t == total * total
  <2>1. u \in Nat /\ v \in Nat /\ t \in Nat /\ t > 0 /\ u * t <= v * t
    BY <1>1, <1>6
  <2> HIDE DEF u, v, t
  <2>2. u <= v
    BY <2>1
  <2> QED BY <2>2 DEF u, v
<1> QED BY <1>7 DEF l

\* What a swap pays out leaves the product of the reserves where it was, or above.
LEMMA SwapKeepsProduct ==
  ASSUME NEW from \in Nat, NEW to \in Nat, NEW input \in Nat, NEW taxed \in 0 .. input,
         from + taxed # 0
  PROVE  /\ SwapOutput(taxed, from, to) \in 0 .. to
         /\ from * to <= (from + input) * (to - SwapOutput(taxed, from, to))
<1> DEFINE x == taxed * to
           w == from + taxed
           q == x \div w
<1>1. x \in Nat /\ w \in Nat /\ w > 0
  OBVIOUS
<1>2. q \in Nat /\ w * q <= x
  <2> HIDE DEF x, w
  <2> QED BY <1>1
<1>3. q \in 0 .. to
  <2>1. x < (to + 1) * w
    <3>1. (to + 1) * w = to * from + taxed * to + w
      OBVIOUS
    <3>2. to * from \in Nat
      OBVIOUS
    <3> QED BY <1>1, <3>1, <3>2
  <2> HIDE DEF x, w
  <2> QED BY <1>1, <2>1, QuotientBelow
<1>4. SwapOutput(taxed, from, to) = q
  BY DEF SwapOutput
<1> HIDE DEF q
<1>5. w * (to - q) = from * to + x - w * q
  BY <1>3
<1>6. from * to <= w * (to - q)
  BY <1>1, <1>2, <1>3, <1>5
<1>7. w * (to - q) <= (from + input) * (to - q)
  <2> DEFINE l == to - q
             f == from + input
  <2>1. l \in Nat /\ f \in Nat /\ w <= f
    BY <1>3
  <2> HIDE DEF l, f, w
  <2>2. w * l <= f * l
    BY <1>1, <2>1
  <2> QED BY <2>2 DEF l, f
<1>8. from * to \in Int /\ w * (to - q) \in Int /\ (from + input) * (to - q) \in Int
  BY <1>3
<1>9. from * to <= (from + input) * (to - q)
  <2> HIDE DEF w
  <2> QED BY <1>6, <1>7, <1>8
<1> QED BY <1>3, <1>4, <1>9

LEMMA TaxedWithin ==
  ASSUME NEW input \in Nat, NEW fee \in Nat, fee < BASIS_POINTS
  PROVE  Taxed(input, fee) \in 0 .. input
<1> DEFINE x == input * fee
           w == BASIS_POINTS
<1>1. x \in Nat /\ x < (input + 1) * w /\ w \in Nat /\ w > 0
  BY DEF BASIS_POINTS
<1>2. x \div w \in 0 .. input
  <2> HIDE DEF x, w
  <2> QED BY <1>1, QuotientBelow
<1>3. Taxed(input, fee) = input - (x \div w)
  BY DEF Taxed
<1> HIDE DEF x, w
<1> QED BY <1>2, <1>3

(***************************************************************************)
(* The market maker: its state.                                            *)
(***************************************************************************)

\* The shares that the reserves have to back: those that were locked up count once the
\* pool is founded.
Locked(p) == IF p \in founded THEN MINIMUM_LIQUIDITY ELSE 0
Backed(p) == (supply[p] + Locked(p)) * (supply[p] + Locked(p)) <= reserve[p].a * reserve[p].b
SharesAddUp(p) == SumFunction(share[p]) = supply[p]

SwapOK == SwapTypeOK /\ \A p \in Pools : Backed(p) /\ SharesAddUp(p)

LEMMA SwapConstants ==
  /\ MINIMUM_LIQUIDITY \in Nat /\ MINIMUM_LIQUIDITY > 0 /\ Holdings \in Nat
  /\ MaxReserve \in Nat /\ Amounts \subseteq Nat /\ MinOutputs \subseteq Nat
  /\ Fees \subseteq Nat /\ IsFiniteSet(Traders) /\ Givers \subseteq Traders
  /\ Pools \subseteq Amms
BY SwapAssumption

LEMMA PoolTyped ==
  ASSUME SwapTypeOK, NEW p \in Pools
  PROVE  /\ reserve[p] \in [a: Nat, b: Nat] /\ reserve[p].a \in Nat /\ reserve[p].b \in Nat
         /\ supply[p] \in Nat /\ share[p] \in [Traders -> Nat] /\ Locked(p) \in Nat
BY SwapConstants DEF SwapTypeOK, Locked

LEMMA SharesAreBacked == SwapOK => SharesBacked
<1> SUFFICES ASSUME SwapOK, NEW p \in founded
             PROVE  (supply[p] + MINIMUM_LIQUIDITY) * (supply[p] + MINIMUM_LIQUIDITY)
                      <= reserve[p].a * reserve[p].b
  BY DEF SharesBacked
<1>1. p \in Pools
  BY DEF SwapOK, SwapTypeOK
<1> QED BY <1>1 DEF SwapOK, Backed, Locked

LEMMA OfferKept == SwapOK => DepositsWithinOffer
<1> SUFFICES ASSUME SwapOK, NEW p \in Pools, NEW x \in Amounts, NEW y \in Amounts,
                    Empty(reserve[p]) \/ reserve[p].a # 0
             PROVE  Paired(reserve[p], x, y).a <= x /\ Paired(reserve[p], x, y).b <= y
  BY DEF DepositsWithinOffer
<1>1. reserve[p] \in [a: Nat, b: Nat] /\ x \in Nat /\ y \in Nat
  BY SwapConstants, PoolTyped DEF SwapOK
<1>2. Paired(reserve[p], x, y).a \in 0 .. x /\ Paired(reserve[p], x, y).b \in 0 .. y
  BY <1>1, PairedWithin
<1> QED BY <1>1, <1>2

LEMMA SwapStarts ==
  ASSUME SwapInit
  PROVE  SwapOK
<1>1. SwapTypeOK
  <2>1. /\ amms \in [Amms -> Nat \cup {NoFee}] /\ \A i \in Amms : amms[i] < BASIS_POINTS
    BY DEF SwapInit, NoFee, BASIS_POINTS
  <2>2. tokens \in [Traders -> [a: Nat, b: Nat]]
    BY SwapConstants DEF SwapInit
  <2>3. share \in [Pools -> [Traders -> Nat]] /\ supply \in [Pools -> Nat]
    BY DEF SwapInit
  <2>4. reserve \in [Pools -> [a: Nat, b: Nat]] /\ vaults \in [Pools -> SUBSET Sides]
    BY DEF SwapInit
  <2> QED BY <2>1, <2>2, <2>3, <2>4 DEF SwapInit, SwapTypeOK
<1>2. \A p \in Pools : Backed(p)
  BY DEF SwapInit, Backed, Locked
<1>3. \A p \in Pools : SharesAddUp(p)
  BY SumOfZeros, SwapConstants DEF SwapInit, SharesAddUp
<1> QED BY <1>1, <1>2, <1>3 DEF SwapOK

LEMMA SwapIdle ==
  ASSUME SwapOK, UNCHANGED swapVars
  PROVE  SwapOK'
BY DEF SwapOK, SwapTypeOK, Backed, Locked, SharesAddUp, swapVars

\* Steps that leave shares alone and no product of reserves below where it was.
LEMMA ProductsGrow ==
  ASSUME SwapOK, SwapTypeOK', supply' = supply, share' = share, founded' = founded,
         \A p \in Pools : reserve[p].a * reserve[p].b <= reserve'[p].a * reserve'[p].b
  PROVE  SwapOK'
<1>1. \A p \in Pools : SharesAddUp(p)'
  BY DEF SwapOK, SharesAddUp
<1>2. ASSUME NEW p \in Pools
      PROVE  Backed(p)'
  <2> DEFINE n == (supply[p] + Locked(p)) * (supply[p] + Locked(p))
             old == reserve[p].a * reserve[p].b
             new == reserve'[p].a * reserve'[p].b
  <2>1. reserve[p].a \in Nat /\ reserve[p].b \in Nat /\ supply[p] \in Nat /\ Locked(p) \in Nat
    BY PoolTyped DEF SwapOK
  <2>2. reserve'[p].a \in Nat /\ reserve'[p].b \in Nat
    BY DEF SwapTypeOK
  <2>3. n \in Int /\ old \in Int /\ new \in Int /\ old <= new
    BY <2>1, <2>2
  <2>4. n <= old
    BY DEF SwapOK, Backed
  <2>5. Locked(p)' = Locked(p)
    BY DEF Locked
  <2>6. Backed(p)' <=> n <= new
    BY <2>5 DEF Backed
  <2> HIDE DEF n, old, new
  <2> QED BY <2>3, <2>4, <2>6
<1> QED BY <1>1, <1>2 DEF SwapOK

LEMMA ReservesStay ==
  ASSUME SwapOK, SwapTypeOK', supply' = supply, share' = share, founded' = founded,
         reserve' = reserve
  PROVE  SwapOK'
<1>1. \A p \in Pools : reserve[p].a * reserve[p].b <= reserve'[p].a * reserve'[p].b
  <2> SUFFICES ASSUME NEW p \in Pools
               PROVE  reserve[p].a * reserve[p].b <= reserve[p].a * reserve[p].b
    OBVIOUS
  <2>1. reserve[p].a \in Nat /\ reserve[p].b \in Nat
    BY PoolTyped DEF SwapOK
  <2> QED BY <2>1
<1> QED BY <1>1, ProductsGrow

LEMMA CreateAmmKeeps ==
  ASSUME SwapOK, NEW i \in Amms, NEW fee \in Fees, CreateAmm(i, fee)
  PROVE  SwapOK'
<1>1. SwapTypeOK'
  <2>1. /\ amms' \in [Amms -> Nat \cup {NoFee}] /\ \A j \in Amms : amms'[j] < BASIS_POINTS
    BY SwapConstants DEF SwapOK, SwapTypeOK, CreateAmm
  <2>2. \A p \in pools : amms'[p] # NoFee
    BY SwapConstants DEF SwapOK, SwapTypeOK, CreateAmm, NoFee
  <2> QED BY <2>1, <2>2 DEF SwapOK, SwapTypeOK, CreateAmm
<1> QED BY <1>1, ReservesStay DEF CreateAmm

LEMMA CreatePoolKeeps ==
  ASSUME SwapOK, NEW p \in Pools, CreatePool(p)
  PROVE  SwapOK'
<1>1. SwapTypeOK'
  BY DEF SwapOK, SwapTypeOK, CreatePool
<1> QED BY <1>1, ReservesStay DEF CreatePool

LEMMA CreateVaultKeeps ==
  ASSUME SwapOK, NEW p \in Pools, NEW s \in Sides, CreateVault(p, s)
  PROVE  SwapOK'
<1>1. SwapTypeOK'
  BY DEF SwapOK, SwapTypeOK, CreateVault
<1> QED BY <1>1, ReservesStay DEF CreateVault

LEMMA SendToReserveKeeps ==
  ASSUME SwapOK, NEW w \in Givers, NEW p \in Pools, NEW s \in Sides, SendToReserve(w, p, s)
  PROVE  SwapOK'
<1>1. /\ SwapTypeOK /\ w \in Traders /\ s \in {"a", "b"}
      /\ reserve \in [Pools -> [a: Nat, b: Nat]] /\ tokens \in [Traders -> [a: Nat, b: Nat]]
      /\ tokens[w][s] > 0
      /\ tokens' = [tokens EXCEPT ![w][s] = @ - 1]
      /\ reserve' = [reserve EXCEPT ![p][s] = @ + 1]
      /\ UNCHANGED <<amms, pools, vaults, supply, share, founded>>
  BY SwapConstants DEF SwapOK, SwapTypeOK, SendToReserve, Sides
<1>2. /\ tokens' \in [Traders -> [a: Nat, b: Nat]]
      /\ reserve' \in [Pools -> [a: Nat, b: Nat]]
      /\ reserve'[p].a >= reserve[p].a /\ reserve'[p].b >= reserve[p].b
      /\ \A q \in Pools : q # p => reserve'[q] = reserve[q]
  <2>1. CASE s = "a"
    BY <1>1, <2>1
  <2>2. CASE s = "b"
    BY <1>1, <2>2
  <2> QED BY <1>1, <2>1, <2>2
<1>3. SwapTypeOK'
  BY <1>1, <1>2 DEF SwapTypeOK
<1>4. \A q \in Pools : reserve[q].a * reserve[q].b <= reserve'[q].a * reserve'[q].b
  <2> SUFFICES ASSUME NEW q \in Pools
               PROVE  reserve[q].a * reserve[q].b <= reserve'[q].a * reserve'[q].b
    OBVIOUS
  <2> DEFINE ra == reserve[q].a
             rb == reserve[q].b
             na == reserve'[q].a
             nb == reserve'[q].b
  <2>1. ra \in Nat /\ rb \in Nat /\ na \in Nat /\ nb \in Nat /\ ra <= na /\ rb <= nb
    BY <1>1, <1>2
  <2> HIDE DEF ra, rb, na, nb
  <2>2. ra * rb <= na * rb /\ na * rb <= na * nb
    BY <2>1
  <2>3. ra * rb <= na * nb
    BY <2>1, <2>2
  <2> QED BY <2>3 DEF ra, rb, na, nb
<1> QED BY <1>1, <1>3, <1>4, ProductsGrow

\* A swap of a pool at its fee: what it takes, what it pays, and what is left.
LEMMA SwapEffect ==
  ASSUME SwapOK, NEW w \in Traders, NEW p \in Pools, NEW i \in Amms, NEW s \in Sides,
         NEW n \in Amounts, NEW least \in Nat, CanSwap(w, p, i, s, n, least)
  PROVE  LET input == Input(w, s, n)
             after == AfterSwap(p, i, s, input)
             output == Output(p, i, s, input)
         IN  /\ input \in 0 .. tokens[w][s] /\ input <= n
             /\ output \in 0 .. reserve[p][Opposite(s)]
             /\ after \in [a: Nat, b: Nat]
             /\ InvariantHolds(p, after)
<1> DEFINE input == Input(w, s, n)
           after == AfterSwap(p, i, s, input)
           output == Output(p, i, s, input)
           o == Opposite(s)
           from == reserve[p][s]
           to == reserve[p][o]
           taxed == Taxed(input, amms[i])
<1>1. /\ SwapTypeOK /\ n \in Nat /\ p \in pools /\ i = p /\ from + taxed # 0
      /\ reserve[p] \in [a: Nat, b: Nat] /\ tokens[w] \in [a: Nat, b: Nat]
      /\ s \in {"a", "b"} /\ o \in {"a", "b"} /\ s # o
  BY SwapConstants DEF SwapOK, SwapTypeOK, CanSwap, Sides, Opposite
<1>2. amms[i] \in Nat /\ amms[i] < BASIS_POINTS
  BY <1>1 DEF SwapTypeOK
<1>3. from \in Nat /\ to \in Nat /\ tokens[w][s] \in Nat
  BY <1>1
<1>4. input \in Nat /\ input \in 0 .. tokens[w][s] /\ input <= n
  BY <1>1, <1>3 DEF Input, Min2
<1>5. taxed \in 0 .. input
  <2> HIDE DEF input
  <2> QED BY <1>2, <1>4, TaxedWithin
<1>6. output \in 0 .. to /\ from * to <= (from + input) * (to - output)
  <2>1. output = SwapOutput(taxed, from, to)
    BY DEF Output
  <2> HIDE DEF input, taxed, from, to, output
  <2> QED BY <1>1, <1>3, <1>4, <1>5, <2>1, SwapKeepsProduct
<1>7. /\ after \in [a: Nat, b: Nat]
      /\ after[s] = from + input /\ after[o] = to - output
  <2>1. after = [reserve[p] EXCEPT ![s] = @ + input, ![o] = @ - output]
    BY DEF AfterSwap
  <2> HIDE DEF input, output, after
  <2>2. CASE s = "a" /\ o = "b"
    BY <1>1, <1>4, <1>6, <2>1, <2>2
  <2>3. CASE s = "b" /\ o = "a"
    BY <1>1, <1>4, <1>6, <2>1, <2>3
  <2> QED BY <1>1, <2>2, <2>3
<1>8. InvariantHolds(p, after)
  <2> HIDE DEF input, output, after
  <2>1. CASE s = "a" /\ o = "b"
    BY <1>6, <1>7, <2>1 DEF InvariantHolds
  <2>2. CASE s = "b" /\ o = "a"
    <3>1. from = reserve[p].b /\ to = reserve[p].a /\ after.b = from + input
          /\ after.a = to - output
      BY <1>7, <2>2
    <3>2. from * to = to * from
          /\ (from + input) * (to - output) = (to - output) * (from + input)
      BY <1>3, <1>4, <1>6
    <3> QED BY <1>6, <3>1, <3>2 DEF InvariantHolds
  <2> QED BY <1>1, <2>1, <2>2
<1> HIDE DEF input, output, after
<1> QED BY <1>4, <1>6, <1>7, <1>8 DEF input, output, after

\* The check at the end of a swap fails none.
LEMMA NoneRejected == SwapOK => NoSwapIsRejected
<1> SUFFICES ASSUME SwapOK, NEW w \in Traders, NEW p \in Pools, NEW i \in Amms,
                    NEW s \in Sides, NEW n \in Amounts, CanSwap(w, p, i, s, n, 0)
             PROVE  InvariantHolds(p, AfterSwap(p, i, s, Input(w, s, n)))
  BY DEF NoSwapIsRejected
<1> DEFINE least == 0
<1>1. least \in Nat /\ CanSwap(w, p, i, s, n, least)
  OBVIOUS
<1> HIDE DEF least
<1> QED BY <1>1, SwapEffect

\* The shares of a pool move by what one trader's move.
LEMMA SharesMove ==
  ASSUME SwapOK, NEW p \in Pools, NEW w \in Traders, NEW d \in Int,
         share[p][w] + d \in Nat, supply[p] + d \in Nat,
         share' = [share EXCEPT ![p][w] = @ + d], supply' = [supply EXCEPT ![p] = @ + d]
  PROVE  /\ share' \in [Pools -> [Traders -> Nat]] /\ supply' \in [Pools -> Nat]
         /\ \A q \in Pools : SharesAddUp(q)'
         /\ supply'[p] = supply[p] + d
         /\ \A q \in Pools \ {p} : supply'[q] = supply[q]
<1>1. share \in [Pools -> [Traders -> Nat]] /\ supply \in [Pools -> Nat]
  BY DEF SwapOK, SwapTypeOK
<1>2. share' \in [Pools -> [Traders -> Nat]] /\ supply' \in [Pools -> Nat]
  BY <1>1
<1>3. SharesAddUp(p)'
  <2> DEFINE f == share[p]
             g == share'[p]
  <2>1. /\ f \in [Traders -> Int] /\ g \in [Traders -> Int] /\ IsFiniteSet(Traders)
        /\ g[w] = f[w] + d /\ \A v \in Traders \ {w} : g[v] = f[v]
    BY <1>1, <1>2, SwapConstants
  <2>2. SumFunction(f) = supply[p]
    BY DEF SwapOK, SharesAddUp
  <2> SUFFICES SumFunction(g) = supply'[p]
    BY DEF SharesAddUp
  <2> HIDE DEF f, g
  <2>3. SumFunction(f) \in Int /\ SumFunction(g) = SumFunction(f) + d
    BY <2>1, SumMoves
  <2> QED BY <1>1, <2>2, <2>3
<1>4. \A q \in Pools \ {p} : SharesAddUp(q)'
  BY <1>1 DEF SwapOK, SharesAddUp
<1> QED BY <1>1, <1>2, <1>3, <1>4

LEMMA DepositLiquidityKeeps ==
  ASSUME SwapOK, NEW w \in Traders, NEW p \in Pools, NEW x \in Amounts, NEW y \in Amounts,
         DepositLiquidity(w, p, x, y)
  PROVE  SwapOK'
<1> DEFINE r == reserve[p]
           xa == Min2(x, tokens[w].a)
           xb == Min2(y, tokens[w].b)
           in == Paired(r, xa, xb)
           root == ISqrt(in.a * in.b)
           d == root - (IF Empty(r) THEN MINIMUM_LIQUIDITY ELSE 0)
<1>1. /\ SwapTypeOK /\ p \in pools /\ (Empty(r) \/ r.a # 0) /\ d >= 0
      /\ tokens' = [tokens EXCEPT ![w] = [a |-> @.a - in.a, b |-> @.b - in.b]]
      /\ reserve' = [reserve EXCEPT ![p] = [a |-> @.a + in.a, b |-> @.b + in.b]]
      /\ supply' = [supply EXCEPT ![p] = @ + d]
      /\ share' = [share EXCEPT ![p][w] = @ + d]
      /\ founded' = IF Empty(r) THEN founded \cup {p} ELSE founded
      /\ UNCHANGED <<amms, pools, vaults>>
  BY DEF SwapOK, DepositLiquidity
<1>2. /\ r \in [a: Nat, b: Nat] /\ tokens[w] \in [a: Nat, b: Nat] /\ x \in Nat /\ y \in Nat
      /\ reserve \in [Pools -> [a: Nat, b: Nat]] /\ tokens \in [Traders -> [a: Nat, b: Nat]]
      /\ supply[p] \in Nat /\ share[p][w] \in Nat /\ Locked(p) \in Nat
  BY <1>1, PoolTyped, SwapConstants DEF SwapTypeOK
<1>3. xa \in 0 .. tokens[w].a /\ xb \in 0 .. tokens[w].b /\ xa \in Nat /\ xb \in Nat
  BY <1>2 DEF Min2
<1>4. in.a \in 0 .. xa /\ in.b \in 0 .. xb
  <2> HIDE DEF r, xa, xb
  <2> QED BY <1>1, <1>2, <1>3, PairedWithin
<1> HIDE DEF xa, xb, in
<1>5. in.a \in Nat /\ in.b \in Nat /\ in.a <= tokens[w].a /\ in.b <= tokens[w].b
  BY <1>2, <1>3, <1>4
<1>6. root \in Nat /\ root * root <= in.a * in.b
  <2> DEFINE n == in.a * in.b
  <2>1. n \in Nat
    BY <1>5
  <2> HIDE DEF n
  <2>2. ISqrt(n) \in Nat /\ ISqrt(n) * ISqrt(n) <= n
    BY <2>1, SquareRoot
  <2> QED BY <2>2 DEF n
<1> HIDE DEF root
<1>7. d \in Nat
  BY <1>1, <1>6, SwapConstants
<1>8. /\ share' \in [Pools -> [Traders -> Nat]] /\ supply' \in [Pools -> Nat]
      /\ \A q \in Pools : SharesAddUp(q)'
      /\ supply'[p] = supply[p] + d
      /\ \A q \in Pools \ {p} : supply'[q] = supply[q]
  <2> HIDE DEF d
  <2>1. d \in Int /\ share[p][w] + d \in Nat /\ supply[p] + d \in Nat
    BY <1>2, <1>7
  <2> QED BY <1>1, <2>1, SharesMove
<1>9. /\ reserve' \in [Pools -> [a: Nat, b: Nat]]
      /\ reserve'[p].a = r.a + in.a /\ reserve'[p].b = r.b + in.b
      /\ \A q \in Pools \ {p} : reserve'[q] = reserve[q]
  <2> DEFINE new == [a |-> r.a + in.a, b |-> r.b + in.b]
  <2>1. new \in [a: Nat, b: Nat] /\ new.a = r.a + in.a /\ new.b = r.b + in.b
    BY <1>2, <1>5
  <2>2. reserve' = [reserve EXCEPT ![p] = new]
    BY <1>1
  <2> HIDE DEF new
  <2> QED BY <1>2, <2>1, <2>2
<1>10. tokens' \in [Traders -> [a: Nat, b: Nat]]
  <2> DEFINE new == [a |-> tokens[w].a - in.a, b |-> tokens[w].b - in.b]
  <2>1. new \in [a: Nat, b: Nat]
    BY <1>2, <1>5
  <2>2. tokens' = [tokens EXCEPT ![w] = new]
    BY <1>1
  <2> HIDE DEF new
  <2> QED BY <1>2, <2>1, <2>2
<1>11. SwapTypeOK'
  <2> HIDE DEF d
  <2> QED BY <1>1, <1>8, <1>9, <1>10 DEF SwapTypeOK
<1>12. Backed(p)'
  <2>1. (supply[p] + Locked(p)) * (supply[p] + Locked(p)) <= r.a * r.b
    BY DEF SwapOK, Backed
  <2>2. CASE Empty(r)
    <3>1. r.a * r.b = 0 /\ r.a = 0 /\ r.b = 0
      BY <2>2 DEF Empty
    <3>2. supply[p] + Locked(p) = 0
      <4> DEFINE k == supply[p] + Locked(p)
      <4>1. k \in Nat /\ k * k <= 0
        BY <1>2, <2>1, <3>1
      <4> SUFFICES k = 0
        OBVIOUS
      <4> HIDE DEF k
      <4> QED BY <4>1
    <3>3. supply[p] = 0 /\ d = root - MINIMUM_LIQUIDITY
      BY <1>2, <2>2, <3>2
    <3>4. Locked(p)' = MINIMUM_LIQUIDITY
      BY <1>1, <2>2 DEF Locked
    <3>5. supply'[p] + Locked(p)' = root
      BY <1>6, <1>8, <3>3, <3>4, SwapConstants
    <3>6. reserve'[p].a = in.a /\ reserve'[p].b = in.b
      BY <1>5, <1>9, <3>1
    <3> QED BY <1>6, <3>5, <3>6 DEF Backed
  <2>3. CASE ~Empty(r)
    <3>1. d = root /\ Locked(p)' = Locked(p)
      BY <1>1, <1>6, <2>3 DEF Locked
    <3> DEFINE s == supply[p] + Locked(p)
               ra == r.a
               rb == r.b
               ia == in.a
               ib == in.b
    <3>2. s \in Nat /\ ra \in Nat /\ rb \in Nat /\ ia \in Nat /\ ib \in Nat
          /\ s * s <= ra * rb /\ root * root <= ia * ib
      BY <1>2, <1>5, <1>6, <2>1
    <3>3. supply'[p] + Locked(p)' = s + root
      BY <1>2, <1>6, <1>8, <3>1
    <3>4. reserve'[p].a = ra + ia /\ reserve'[p].b = rb + ib
      BY <1>9
    <3> HIDE DEF s, ra, rb, ia, ib
    <3>5. (s + root) * (s + root) <= (ra + ia) * (rb + ib)
      BY <1>6, <3>2, DepositBacks
    <3> QED BY <3>3, <3>4, <3>5 DEF Backed
  <2> QED BY <2>2, <2>3
<1>13. \A q \in Pools \ {p} : Backed(q)'
  BY <1>1, <1>8, <1>9 DEF SwapOK, Backed, Locked
<1> QED BY <1>8, <1>11, <1>12, <1>13 DEF SwapOK

LEMMA WithdrawLiquidityKeeps ==
  ASSUME SwapOK, NEW w \in Traders, NEW p \in Pools, NEW n \in Amounts,
         WithdrawLiquidity(w, p, n)
  PROVE  SwapOK'
<1> DEFINE r == reserve[p]
           out == [a |-> Owed(n, r.a, supply[p]), b |-> Owed(n, r.b, supply[p])]
           total == supply[p] + MINIMUM_LIQUIDITY
           d == -n
<1>1. /\ SwapTypeOK /\ p \in pools /\ n <= share[p][w]
      /\ reserve' = [reserve EXCEPT ![p] = [a |-> @.a - out.a, b |-> @.b - out.b]]
      /\ tokens' = [tokens EXCEPT ![w] = [a |-> @.a + out.a, b |-> @.b + out.b]]
      /\ supply' = [supply EXCEPT ![p] = @ - n]
      /\ share' = [share EXCEPT ![p][w] = @ - n]
      /\ UNCHANGED <<amms, pools, vaults, founded>>
  BY DEF SwapOK, WithdrawLiquidity
<1>2. /\ r \in [a: Nat, b: Nat] /\ r.a \in Nat /\ r.b \in Nat
      /\ tokens[w] \in [a: Nat, b: Nat] /\ n \in Nat
      /\ reserve \in [Pools -> [a: Nat, b: Nat]] /\ tokens \in [Traders -> [a: Nat, b: Nat]]
      /\ supply \in [Pools -> Nat] /\ share \in [Pools -> [Traders -> Nat]]
      /\ supply[p] \in Nat /\ share[p][w] \in Nat /\ Locked(p) \in Nat
      /\ Locked(p) <= MINIMUM_LIQUIDITY
  BY <1>1, PoolTyped, SwapConstants DEF SwapTypeOK, Locked
<1>3. share[p][w] <= supply[p]
  <2> DEFINE f == share[p]
  <2>1. f \in [Traders -> Int] /\ IsFiniteSet(Traders) /\ \A v \in Traders : f[v] \in Nat
    BY <1>2, SwapConstants
  <2>2. SumFunction(f) = supply[p]
    BY DEF SwapOK, SharesAddUp
  <2> SUFFICES f[w] <= supply[p]
    OBVIOUS
  <2> HIDE DEF f
  <2>3. SumFunction(f) = SumFunctionOnSet(f, Traders)
    BY <2>1, SumOfFunction
  <2> QED BY <2>1, <2>2, <2>3, SumBounds
<1>4. /\ total \in Nat /\ total > 0 /\ n <= supply[p] /\ n <= total
  BY <1>1, <1>2, <1>3, SwapConstants
<1>5. \A side \in Nat : /\ Owed(n, side, supply[p]) \in 0 .. side
                        /\ (side - Owed(n, side, supply[p])) * total >= side * (total - n)
  <2> SUFFICES ASSUME NEW side \in Nat
               PROVE  /\ Owed(n, side, supply[p]) \in 0 .. side
                      /\ (side - Owed(n, side, supply[p])) * total >= side * (total - n)
    OBVIOUS
  <2>1. Owed(n, side, supply[p]) = (n * side) \div total
    BY DEF Owed
  <2> HIDE DEF total
  <2> QED BY <1>2, <1>4, <2>1, WithdrawalLeaves
<1>6. /\ out.a \in 0 .. r.a /\ out.b \in 0 .. r.b
      /\ (r.a - out.a) * total >= r.a * (total - n)
      /\ (r.b - out.b) * total >= r.b * (total - n)
  <2>1. out.a = Owed(n, r.a, supply[p]) /\ out.b = Owed(n, r.b, supply[p])
    OBVIOUS
  <2> HIDE DEF out, total
  <2> QED BY <1>2, <1>5, <2>1
<1> HIDE DEF out
<1>7. /\ share' \in [Pools -> [Traders -> Nat]] /\ supply' \in [Pools -> Nat]
      /\ \A q \in Pools : SharesAddUp(q)'
      /\ supply'[p] = supply[p] - n
      /\ \A q \in Pools \ {p} : supply'[q] = supply[q]
  <2>1. /\ d \in Int /\ share[p][w] + d \in Nat /\ supply[p] + d \in Nat
        /\ supply[p] + d = supply[p] - n /\ share[p][w] + d = share[p][w] - n
    BY <1>1, <1>2, <1>4
  <2>2. share' = [share EXCEPT ![p][w] = @ + d] /\ supply' = [supply EXCEPT ![p] = @ + d]
    <3> HIDE DEF d
    <3> QED BY <1>1, <2>1
  <2> HIDE DEF d
  <2> QED BY <2>1, <2>2, SharesMove
<1>8. /\ reserve' \in [Pools -> [a: Nat, b: Nat]]
      /\ reserve'[p].a = r.a - out.a /\ reserve'[p].b = r.b - out.b
      /\ \A q \in Pools \ {p} : reserve'[q] = reserve[q]
  <2> DEFINE new == [a |-> r.a - out.a, b |-> r.b - out.b]
  <2>1. new \in [a: Nat, b: Nat] /\ new.a = r.a - out.a /\ new.b = r.b - out.b
    BY <1>2, <1>6
  <2>2. reserve' = [reserve EXCEPT ![p] = new]
    BY <1>1
  <2> HIDE DEF new
  <2> QED BY <1>2, <2>1, <2>2
<1>9. tokens' \in [Traders -> [a: Nat, b: Nat]]
  <2> DEFINE new == [a |-> tokens[w].a + out.a, b |-> tokens[w].b + out.b]
  <2>1. new \in [a: Nat, b: Nat]
    BY <1>2, <1>6
  <2>2. tokens' = [tokens EXCEPT ![w] = new]
    BY <1>1
  <2> HIDE DEF new
  <2> QED BY <1>2, <2>1, <2>2
<1>10. SwapTypeOK'
  BY <1>1, <1>7, <1>8, <1>9 DEF SwapTypeOK
<1>11. Backed(p)'
  <2> DEFINE s == supply[p] + Locked(p)
             ra == r.a
             rb == r.b
             na == ra - out.a
             nb == rb - out.b
  <2>1. /\ s \in Nat /\ s <= total /\ n <= s /\ ra \in Nat /\ rb \in Nat /\ na \in Nat
        /\ nb \in Nat
    BY <1>2, <1>4, <1>6, SwapConstants
  <2>2. s * s <= ra * rb
    BY DEF SwapOK, Backed
  <2>3. na * total >= ra * (total - n) /\ nb * total >= rb * (total - n)
    BY <1>6
  <2>4. supply'[p] + Locked(p)' = s - n
    BY <1>1, <1>2, <1>7 DEF Locked
  <2>5. reserve'[p].a = na /\ reserve'[p].b = nb
    BY <1>8
  <2> HIDE DEF s, ra, rb, na, nb, total
  <2>6. (s - n) * (s - n) <= na * nb
    BY <1>2, <1>4, <2>1, <2>2, <2>3, WithdrawBacks
  <2> QED BY <2>4, <2>5, <2>6 DEF Backed
<1>12. \A q \in Pools \ {p} : Backed(q)'
  BY <1>1, <1>7, <1>8 DEF SwapOK, Backed, Locked
<1> QED BY <1>7, <1>10, <1>11, <1>12 DEF SwapOK

LEMMA SwapTokensKeeps ==
  ASSUME SwapOK, NEW w \in Traders, NEW p \in Pools, NEW i \in Amms, NEW s \in Sides,
         NEW n \in Amounts, NEW least \in MinOutputs,
         SwapExactTokensForTokens(w, p, i, s, n, least)
  PROVE  SwapOK'
<1> DEFINE input == Input(w, s, n)
           output == Output(p, i, s, input)
           after == AfterSwap(p, i, s, input)
           o == Opposite(s)
<1>1. /\ SwapTypeOK /\ CanSwap(w, p, i, s, n, least) /\ least \in Nat
      /\ reserve' = [reserve EXCEPT ![p] = after]
      /\ tokens' = [tokens EXCEPT ![w] = Traded(@, s, input, output)]
      /\ UNCHANGED <<amms, pools, vaults, supply, share, founded>>
  BY SwapConstants DEF SwapOK, SwapExactTokensForTokens
<1>2. /\ input \in 0 .. tokens[w][s] /\ output \in 0 .. reserve[p][o]
      /\ after \in [a: Nat, b: Nat] /\ InvariantHolds(p, after)
  BY <1>1, SwapEffect
<1>3. /\ s \in {"a", "b"} /\ o \in {"a", "b"} /\ s # o /\ tokens[w] \in [a: Nat, b: Nat]
      /\ reserve[p] \in [a: Nat, b: Nat]
      /\ reserve \in [Pools -> [a: Nat, b: Nat]] /\ tokens \in [Traders -> [a: Nat, b: Nat]]
  BY <1>1 DEF SwapTypeOK, Sides, Opposite
<1> HIDE DEF input, output, after, o
<1>4. tokens' \in [Traders -> [a: Nat, b: Nat]]
  <2> DEFINE new == Traded(tokens[w], s, input, output)
  <2>0. new = [tokens[w] EXCEPT ![s] = @ - input, ![o] = @ + output]
    BY DEF Traded, o
  <2>1. new \in [a: Nat, b: Nat]
    <3> HIDE DEF new
    <3>1. CASE s = "a" /\ o = "b"
      BY <1>2, <1>3, <2>0, <3>1
    <3>2. CASE s = "b" /\ o = "a"
      BY <1>2, <1>3, <2>0, <3>2
    <3> QED BY <1>3, <3>1, <3>2
  <2>2. tokens' = [tokens EXCEPT ![w] = new]
    BY <1>1
  <2> HIDE DEF new
  <2> QED BY <1>3, <2>1, <2>2
<1>5. reserve' \in [Pools -> [a: Nat, b: Nat]] /\ reserve'[p] = after
      /\ \A q \in Pools \ {p} : reserve'[q] = reserve[q]
  BY <1>1, <1>2, <1>3
<1>6. SwapTypeOK'
  BY <1>1, <1>4, <1>5 DEF SwapTypeOK
<1>7. \A q \in Pools : reserve[q].a * reserve[q].b <= reserve'[q].a * reserve'[q].b
  <2> SUFFICES ASSUME NEW q \in Pools
               PROVE  reserve[q].a * reserve[q].b <= reserve'[q].a * reserve'[q].b
    OBVIOUS
  <2>1. CASE q = p
    BY <1>2, <1>5, <2>1 DEF InvariantHolds
  <2>2. CASE q # p
    <3>1. reserve[q].a \in Nat /\ reserve[q].b \in Nat /\ reserve'[q] = reserve[q]
      BY <1>5, <2>2, PoolTyped, <1>1
    <3> QED BY <3>1
  <2> QED BY <2>1, <2>2
<1> QED BY <1>1, <1>6, <1>7, ProductsGrow

LEMMA SwapKeeps ==
  ASSUME SwapOK, SwapNext
  PROVE  SwapOK'
<1>1. CASE \E i \in Amms, fee \in Fees : CreateAmm(i, fee)
  BY <1>1, CreateAmmKeeps
<1>2. CASE \E p \in Pools : CreatePool(p)
  BY <1>2, CreatePoolKeeps
<1>3. CASE \E w \in Traders, p \in Pools, x, y \in Amounts : DepositLiquidity(w, p, x, y)
  BY <1>3, DepositLiquidityKeeps
<1>4. CASE \E w \in Traders, p \in Pools, n \in Amounts : WithdrawLiquidity(w, p, n)
  BY <1>4, WithdrawLiquidityKeeps
<1>5. CASE \E w \in Traders, p \in Pools, i \in Amms, s \in Sides,
             n \in Amounts, least \in MinOutputs :
             SwapExactTokensForTokens(w, p, i, s, n, least)
  BY <1>5, SwapTokensKeeps
<1>6. CASE \E p \in Pools, s \in Sides : CreateVault(p, s)
  BY <1>6, CreateVaultKeeps
<1>7. CASE \E w \in Givers, p \in Pools, s \in Sides : SendToReserve(w, p, s)
  BY <1>7, SendToReserveKeeps
<1> QED BY <1>1, <1>2, <1>3, <1>4, <1>5, <1>6, <1>7 DEF SwapNext

(***************************************************************************)
(* The airdrop: lists, trees and proofs.                                   *)
(***************************************************************************)

LEMMA ClaimConstants ==
  /\ IsFiniteSet(Claimers) /\ NoClaimer \notin Claimers /\ AirdropAmounts \subseteq Nat
  /\ MaxIndex \in Nat
BY ClaimAssumption

\* A function on 1 .. n is a sequence of length n.
LEMMA ListLength ==
  ASSUME NEW n \in Nat, NEW f, f = [i \in 1 .. n |-> f[i]]
  PROVE  Len(f) = n /\ DOMAIN f = 1 .. n
<1> DEFINE S == {f[i] : i \in 1 .. n}
<1>1. f \in [1 .. n -> S]
  OBVIOUS
<1>2. f \in Seq(S)
  BY <1>1
<1>3. Len(f) \in Nat /\ DOMAIN f = 1 .. Len(f)
  <2> HIDE DEF S
  <2> QED BY <1>2
<1>4. DOMAIN f = 1 .. n
  BY <1>1
<1> QED BY <1>3, <1>4

\* What the tool keeps of a snapshot, after n entries.
KeptTo(g, snap, n) ==
  g = [i \in 0 .. n |->
         IF i = 0 THEN <<>>
         ELSE IF Parses(snap[i]) THEN Append(g[i - 1], snap[i]) ELSE g[i - 1]]

LEMMA KeptStep ==
  ASSUME NEW snap, NEW n \in Nat, NEW g, KeptTo(g, snap, n)
  PROVE  /\ g[0] = <<>>
         /\ \A i \in 1 .. n : g[i] = IF Parses(snap[i]) THEN Append(g[i - 1], snap[i])
                                     ELSE g[i - 1]
<1> DEFINE r == [i \in 0 .. n |->
         IF i = 0 THEN <<>>
         ELSE IF Parses(snap[i]) THEN Append(g[i - 1], snap[i]) ELSE g[i - 1]]
<1>1. g = r
  BY DEF KeptTo
<1>2. /\ r[0] = <<>>
      /\ \A i \in 1 .. n : r[i] = IF Parses(snap[i]) THEN Append(g[i - 1], snap[i])
                                  ELSE g[i - 1]
  OBVIOUS
<1> HIDE DEF r
<1> QED BY <1>1, <1>2

LEMMA KeptExists ==
  ASSUME NEW snap, NEW n \in Nat
  PROVE  \E g : KeptTo(g, snap, n)
<1> DEFINE G == {m \in 0 .. n : \E g : KeptTo(g, snap, m)}
<1>1. 0 \in G
  <2> DEFINE h == [i \in 0 .. 0 |-> <<>>]
  <2>1. KeptTo(h, snap, 0)
    BY DEF KeptTo
  <2> HIDE DEF h
  <2> QED BY <2>1
<1>2. ASSUME NEW m \in 0 .. n - 1, m \in G
      PROVE  m + 1 \in G
  <2>1. PICK g : KeptTo(g, snap, m)
    BY <1>2
  <2> DEFINE k == m + 1
             last == IF Parses(snap[k]) THEN Append(g[m], snap[k]) ELSE g[m]
             h == [i \in 0 .. k |-> IF i <= m THEN g[i] ELSE last]
  <2>2. m \in Nat /\ k \in Nat /\ k \in 0 .. n
    OBVIOUS
  <2>3. /\ g[0] = <<>>
        /\ \A i \in 1 .. m : g[i] = IF Parses(snap[i]) THEN Append(g[i - 1], snap[i])
                                    ELSE g[i - 1]
    BY <2>1, <2>2, KeptStep
  <2>4. \A i \in 0 .. k : h[i] = IF i <= m THEN g[i] ELSE last
    BY <2>2
  <2>5. h = [i \in 0 .. k |-> h[i]]
    OBVIOUS
  <2>6. last = IF Parses(snap[k]) THEN Append(g[k - 1], snap[k]) ELSE g[k - 1]
    BY <2>2
  <2> HIDE DEF h, last
  <2>7. \A i \in 0 .. k :
          h[i] = IF i = 0 THEN <<>>
                 ELSE IF Parses(snap[i]) THEN Append(h[i - 1], snap[i]) ELSE h[i - 1]
    <3> SUFFICES ASSUME NEW i \in 0 .. k
                 PROVE  h[i] = IF i = 0 THEN <<>>
                               ELSE IF Parses(snap[i]) THEN Append(h[i - 1], snap[i])
                               ELSE h[i - 1]
      OBVIOUS
    <3>1. CASE i = 0
      BY <2>2, <2>3, <2>4, <3>1
    <3>2. CASE i \in 1 .. m
      <4>1. h[i] = g[i] /\ h[i - 1] = g[i - 1]
        BY <2>2, <2>4, <3>2
      <4> QED BY <2>3, <3>2, <4>1
    <3>3. CASE i = k
      <4>1. h[i] = last /\ h[i - 1] = g[i - 1] /\ i # 0
        BY <2>2, <2>4, <3>3
      <4> QED BY <2>6, <3>3, <4>1
    <3> QED BY <2>2, <3>1, <3>2, <3>3
  <2>8. KeptTo(h, snap, k)
    BY <2>5, <2>7 DEF KeptTo
  <2> QED BY <2>2, <2>8
<1>3. \A i \in 0 .. n : i \in G
  <2> HIDE DEF G
  <2> QED BY <1>1, <1>2, Stepwise
<1> QED BY <1>3

\* The claims of a tree: some, no more than there are indices, of natural amounts.
IsTree(t) ==
  /\ Len(t) \in 1 .. MaxIndex + 1 /\ DOMAIN t = 1 .. Len(t)
  /\ \A i \in 1 .. Len(t) : t[i].amount \in Nat

LEMMA TreesTyped == \A t \in Trees : IsTree(t)
<1> SUFFICES ASSUME NEW snap \in Snapshots, Claims(snap) # <<>>
             PROVE  IsTree(Claims(snap))
  BY DEF Trees
<1> DEFINE n == Len(snap)
           S == {e \in Range(snap) : e.amount \in Nat}
           g == CHOOSE g : KeptTo(g, snap, n)
           G == {i \in 0 .. n : g[i] \in Seq(S) /\ Len(g[i]) <= i}
<1>1. /\ snap \in Seq(Range(snap)) /\ n \in Nat /\ n <= MaxIndex + 1 /\ MaxIndex \in Nat
      /\ \A i \in 1 .. n : snap[i].amount \in Nat \cup {NoNumber} /\ snap[i] \in Range(snap)
  <2>1. snap \in Seq(Range(snap)) /\ n <= MaxIndex + 1 /\ MaxIndex \in Nat
        /\ \A i \in DOMAIN snap : snap[i].amount \in Nat \cup {NoNumber}
    BY ClaimAssumption
  <2>2. n \in Nat /\ DOMAIN snap = 1 .. n
    BY <2>1
  <2> QED BY <2>1, <2>2 DEF Range
<1>2. KeptTo(g, snap, n) /\ Claims(snap) = g[n]
  <2>1. KeptTo(g, snap, n)
    BY <1>1, KeptExists
  <2> QED BY <2>1 DEF Claims, KeptTo
<1> HIDE DEF g
<1>3. /\ g[0] = <<>>
      /\ \A i \in 1 .. n : g[i] = IF Parses(snap[i]) THEN Append(g[i - 1], snap[i])
                                  ELSE g[i - 1]
  BY <1>1, <1>2, KeptStep
<1>4. 0 \in G
  <2> HIDE DEF S
  <2>1. <<>> \in Seq(S) /\ Len(<<>>) = 0
    OBVIOUS
  <2>2. 0 \in 0 .. n
    BY <1>1
  <2>3. g[0] \in Seq(S) /\ Len(g[0]) <= 0
    BY <1>3, <2>1
  <2> QED BY <2>2, <2>3
<1>5. ASSUME NEW i \in 0 .. n - 1, i \in G
      PROVE  i + 1 \in G
  <2> DEFINE k == i + 1
  <2>1. k \in 1 .. n /\ k - 1 = i
    BY <1>1
  <2>2. g[k] = IF Parses(snap[k]) THEN Append(g[i], snap[k]) ELSE g[i]
    BY <1>3, <2>1
  <2>3. Parses(snap[k]) => snap[k] \in S
    BY <1>1, <2>1 DEF Parses
  <2>4. g[i] \in Seq(S) /\ Len(g[i]) <= i
    BY <1>5
  <2> HIDE DEF S
  <2>5. g[k] \in Seq(S) /\ Len(g[k]) <= k
    <3>1. CASE Parses(snap[k])
      BY <1>1, <2>1, <2>2, <2>3, <2>4, <3>1
    <3>2. CASE ~Parses(snap[k])
      <4>1. Len(g[i]) \in Nat
        BY <2>4
      <4> QED BY <1>1, <2>1, <2>2, <2>4, <3>2, <4>1
    <3> QED BY <3>1, <3>2
  <2> QED BY <1>1, <2>1, <2>5
<1>6. \A i \in 0 .. n : i \in G
  <2> HIDE DEF G, n
  <2> QED BY <1>1, <1>4, <1>5, Stepwise
<1>7. Claims(snap) \in Seq(S) /\ Len(Claims(snap)) <= n
  BY <1>1, <1>2, <1>6
<1> DEFINE t == Claims(snap)
<1>8. Len(t) \in Nat /\ DOMAIN t = 1 .. Len(t) /\ Len(t) # 0
      /\ \A i \in 1 .. Len(t) : t[i] \in S
  <2> SUFFICES ASSUME t \in Seq(S), t # <<>>
               PROVE  Len(t) \in Nat /\ DOMAIN t = 1 .. Len(t) /\ Len(t) # 0
                      /\ \A i \in 1 .. Len(t) : t[i] \in S
    BY <1>7
  <2> HIDE DEF t, S
  <2> QED OBVIOUS
<1> HIDE DEF t
<1>9. Len(t) \in 1 .. MaxIndex + 1
  BY <1>1, <1>7, <1>8 DEF t
<1>10. \A i \in 1 .. Len(t) : t[i].amount \in Nat
  BY <1>8
<1> QED BY <1>8, <1>9, <1>10 DEF IsTree, t

\* The levels of a tree, up to one.
LevelsTo(g, t, n) ==
  g = [d \in 0 .. n |-> IF d = 0 THEN Leaves(t) ELSE Parent(g[d - 1])]

LEMMA LevelsStep ==
  ASSUME NEW t, NEW n \in Nat, NEW g, LevelsTo(g, t, n)
  PROVE  g[0] = Leaves(t) /\ \A d \in 1 .. n : g[d] = Parent(g[d - 1])
<1> DEFINE r == [d \in 0 .. n |-> IF d = 0 THEN Leaves(t) ELSE Parent(g[d - 1])]
<1>1. g = r
  BY DEF LevelsTo
<1>2. r[0] = Leaves(t) /\ \A d \in 1 .. n : r[d] = Parent(g[d - 1])
  OBVIOUS
<1> HIDE DEF r
<1> QED BY <1>1, <1>2

LEMMA LevelsExist ==
  ASSUME NEW t, NEW n \in Nat
  PROVE  \E g : LevelsTo(g, t, n)
<1> DEFINE G == {m \in 0 .. n : \E g : LevelsTo(g, t, m)}
<1>1. 0 \in G
  <2> DEFINE h == [d \in 0 .. 0 |-> Leaves(t)]
  <2>1. LevelsTo(h, t, 0)
    BY DEF LevelsTo
  <2> HIDE DEF h
  <2> QED BY <2>1
<1>2. ASSUME NEW m \in 0 .. n - 1, m \in G
      PROVE  m + 1 \in G
  <2>1. PICK g : LevelsTo(g, t, m)
    BY <1>2
  <2> DEFINE k == m + 1
             last == Parent(g[m])
             h == [d \in 0 .. k |-> IF d <= m THEN g[d] ELSE last]
  <2>2. m \in Nat /\ k \in Nat /\ k \in 0 .. n
    OBVIOUS
  <2>3. g[0] = Leaves(t) /\ \A d \in 1 .. m : g[d] = Parent(g[d - 1])
    BY <2>1, <2>2, LevelsStep
  <2>4. \A d \in 0 .. k : h[d] = IF d <= m THEN g[d] ELSE last
    BY <2>2
  <2>5. h = [d \in 0 .. k |-> h[d]]
    OBVIOUS
  <2>6. last = Parent(g[k - 1])
    BY <2>2
  <2> HIDE DEF h, last
  <2>7. \A d \in 0 .. k : h[d] = IF d = 0 THEN Leaves(t) ELSE Parent(h[d - 1])
    <3> SUFFICES ASSUME NEW d \in 0 .. k
                 PROVE  h[d] = IF d = 0 THEN Leaves(t) ELSE Parent(h[d - 1])
      OBVIOUS
    <3>1. CASE d = 0
      BY <2>2, <2>3, <2>4, <3>1
    <3>2. CASE d \in 1 .. m
      <4>1. h[d] = g[d] /\ h[d - 1] = g[d - 1]
        BY <2>2, <2>4, <3>2
      <4> QED BY <2>3, <3>2, <4>1
    <3>3. CASE d = k
      <4>1. h[d] = last /\ h[d - 1] = g[d - 1] /\ d # 0
        BY <2>2, <2>4, <3>3
      <4> QED BY <2>6, <3>3, <4>1
    <3> QED BY <2>2, <3>1, <3>2, <3>3
  <2>8. LevelsTo(h, t, k)
    BY <2>5, <2>7 DEF LevelsTo
  <2> QED BY <2>2, <2>8
<1>3. \A i \in 0 .. n : i \in G
  <2> HIDE DEF G
  <2> QED BY <1>1, <1>2, Stepwise
<1> QED BY <1>3

\* What is at an index of a level of each kind.
LEMMA LeavesAt ==
  ASSUME NEW t, IsTree(t)
  PROVE  /\ Len(Leaves(t)) = Len(t) /\ DOMAIN Leaves(t) = 1 .. Len(t)
         /\ \A i \in 0 .. Len(t) - 1 :
              At(Leaves(t), i) = HashLeaf(t[i + 1].wallet, t[i + 1].amount)
<1> DEFINE f == Leaves(t)
           n == Len(t)
<1>1. n \in Nat /\ DOMAIN t = 1 .. n
  BY DEF IsTree
<1>2. f = [i \in 1 .. n |-> HashLeaf(t[i].wallet, t[i].amount)]
  BY <1>1 DEF Leaves
<1> HIDE DEF f, n
<1>3. /\ f = [i \in 1 .. n |-> f[i]]
      /\ \A i \in 1 .. n : f[i] = HashLeaf(t[i].wallet, t[i].amount)
  BY <1>2
<1>4. Len(f) = n /\ DOMAIN f = 1 .. n
  BY <1>1, <1>3, ListLength
<1>5. \A i \in 0 .. n - 1 : At(f, i) = HashLeaf(t[i + 1].wallet, t[i + 1].amount)
  BY <1>1, <1>3, <1>4 DEF At
<1> QED BY <1>4, <1>5 DEF f, n

LEMMA ParentAt ==
  ASSUME NEW level, Len(level) \in Nat
  PROVE  /\ Len(Parent(level)) = (Len(level) + 1) \div 2
         /\ \A i \in 0 .. ((Len(level) + 1) \div 2) - 1 :
              At(Parent(level), i) = HashPair(At(level, 2 * i), At(level, 2 * i + 1))
<1> DEFINE f == Parent(level)
           n == (Len(level) + 1) \div 2
<1>1. n \in Nat
  OBVIOUS
<1>2. f = [j \in 1 .. n |-> HashPair(At(level, 2 * j - 2), At(level, 2 * j - 1))]
  BY DEF Parent
<1> HIDE DEF f, n
<1>3. /\ f = [j \in 1 .. n |-> f[j]]
      /\ \A j \in 1 .. n : f[j] = HashPair(At(level, 2 * j - 2), At(level, 2 * j - 1))
  BY <1>2
<1>4. Len(f) = n /\ DOMAIN f = 1 .. n
  BY <1>1, <1>3, ListLength
<1>5. ASSUME NEW i \in 0 .. n - 1
      PROVE  At(f, i) = HashPair(At(level, 2 * i), At(level, 2 * i + 1))
  <2>1. /\ i < n /\ i + 1 \in 1 .. n
        /\ 2 * (i + 1) - 2 = 2 * i /\ 2 * (i + 1) - 1 = 2 * i + 1
    BY <1>1
  <2>2. At(f, i) = f[i + 1]
    BY <1>4, <2>1 DEF At
  <2>3. f[i + 1] = HashPair(At(level, 2 * (i + 1) - 2), At(level, 2 * (i + 1) - 1))
    BY <1>3, <2>1
  <2> QED BY <2>1, <2>2, <2>3
<1> QED BY <1>4, <1>5 DEF f, n

\* The levels halve down to one node: the root is the whole of the last level.
Tree(t, L, n) ==
  /\ n \in Nat
  /\ L[0] = Leaves(t)
  /\ \A d \in 1 .. n : L[d] = Parent(L[d - 1])
  /\ \A d \in 0 .. n : Len(L[d]) \in Nat /\ Len(L[d]) > 0
  /\ Len(L[n]) = 1
  /\ Root(t) = L[n][1]

LEMMA RootOfTree ==
  ASSUME NEW t, IsTree(t)
  PROVE  Tree(t, Levels(t), Depth(t))
<1> DEFINE n == Len(t)
           L == Levels(t)
           Sized(d) == /\ Len(L[d]) \in Nat /\ Len(L[d]) > 0
                       /\ Len(L[d]) = 1 \/ Len(L[d]) <= n - d
           G == {d \in 0 .. n : Sized(d)}
<1>1. n \in Nat /\ n > 0
  BY ClaimConstants DEF IsTree
<1>2. LevelsTo(L, t, n)
  <2> DEFINE g == CHOOSE g : LevelsTo(g, t, n)
  <2>1. LevelsTo(g, t, n)
    BY <1>1, LevelsExist
  <2>2. L = g
    BY DEF Levels, LevelsTo
  <2> HIDE DEF g, L
  <2> QED BY <2>1, <2>2
<1> HIDE DEF L
<1>3. L[0] = Leaves(t) /\ \A d \in 1 .. n : L[d] = Parent(L[d - 1])
  BY <1>1, <1>2, LevelsStep
<1>4. 0 \in G
  <2>1. Len(L[0]) = n
    BY <1>3, LeavesAt
  <2> QED BY <1>1, <2>1
<1>5. ASSUME NEW d \in 0 .. n - 1, d \in G
      PROVE  d + 1 \in G
  <2>1. d + 1 \in 1 .. n /\ d + 1 \in 0 .. n /\ (d + 1) - 1 = d
    BY <1>1
  <2>2. Sized(d)
    BY <1>5
  <2>3. L[d + 1] = Parent(L[d])
    BY <1>3, <2>1
  <2>4. Len(L[d + 1]) = (Len(L[d]) + 1) \div 2
    BY <2>2, <2>3, ParentAt
  <2> DEFINE l == Len(L[d])
             k == Len(L[d + 1])
  <2>5. l \in Nat /\ l > 0 /\ (l = 1 \/ l <= n - d) /\ k = (l + 1) \div 2
    BY <2>2, <2>4
  <2>6. k \in Nat /\ k > 0 /\ (k = 1 \/ k <= n - (d + 1))
    <3> HIDE DEF l, k, n
    <3> QED BY <1>1, <2>5
  <2> QED BY <2>1, <2>6
<1>6. \A d \in 0 .. n : Sized(d)
  <2>1. \A d \in 0 .. n : d \in G
    <3> HIDE DEF G, n
    <3> QED BY <1>1, <1>4, <1>5, Stepwise
  <2> QED BY <2>1
<1> DEFINE One == {d \in 0 .. n : Len(L[d]) = 1}
<1>7. \E d \in One : \A e \in One : d <= e
  <2>1. n \in 0 .. n /\ Sized(n)
    BY <1>1, <1>6
  <2>2. n \in One
    BY <1>1, <2>1
  <2>3. IsFiniteSet(0 .. n) /\ One \subseteq 0 .. n
    BY <1>1, FS_Interval
  <2>4. One \subseteq Int /\ One # {}
    BY <2>2
  <2> HIDE DEF One
  <2>5. IsFiniteSet(One)
    BY <2>3, FS_Subset
  <2> QED BY <2>4, <2>5, LeastMember
<1>8. Depth(t) \in 0 .. n /\ Len(L[Depth(t)]) = 1
  <2> DEFINE First(d) == Len(L[d]) = 1 /\ \A e \in 0 .. d - 1 : Len(L[e]) # 1
  <2>1. PICK d \in One : \A e \in One : d <= e
    BY <1>7
  <2>2. d \in 0 .. n /\ First(d)
    BY <1>1, <2>1
  <2>3. Depth(t) = CHOOSE x \in 0 .. n : First(x)
    BY DEF Depth, L
  <2> HIDE DEF First
  <2>4. First(Depth(t)) /\ Depth(t) \in 0 .. n
    BY <2>2, <2>3
  <2> QED BY <2>4 DEF First
<1>9. Root(t) = L[Depth(t)][1]
  BY DEF Root, L
<1>10. /\ Depth(t) \in Nat
       /\ \A d \in 1 .. Depth(t) : L[d] = Parent(L[d - 1])
       /\ \A d \in 0 .. Depth(t) : Len(L[d]) \in Nat /\ Len(L[d]) > 0
  <2>1. \A d \in 0 .. Depth(t) : d \in 0 .. n
    BY <1>1, <1>8
  <2>2. \A d \in 1 .. Depth(t) : d \in 1 .. n
    BY <1>1, <1>8
  <2> QED BY <1>1, <1>3, <1>6, <1>8, <2>1, <2>2
<1> QED BY <1>3, <1>8, <1>9, <1>10 DEF Tree, L

\* Half of an index, and of the number of nodes of a level.
LEMMA Halves ==
  ASSUME NEW v \in Nat
  PROVE  /\ v \div 2 \in Nat
         /\ v % 2 = 0 => v = 2 * (v \div 2)
         /\ v % 2 # 0 => v = 2 * (v \div 2) + 1
OBVIOUS

LEMMA HalfOfLevel ==
  ASSUME NEW n \in Nat
  PROVE  \A i \in Nat : /\ i < (n + 1) \div 2 => 2 * i < n
                        /\ i < n => i \div 2 < (n + 1) \div 2
OBVIOUS

\* A node of a level above the leaves is the pair of the two below it, and the index of
\* a node halves on the way up.
Pairs(low, high) ==
  /\ Len(low) \in Nat /\ Len(high) \in Nat
  /\ \A i \in Nat : i < Len(high) =>
       2 * i < Len(low) /\ At(high, i) = HashPair(At(low, 2 * i), At(low, 2 * i + 1))
  /\ \A i \in Nat : i < Len(low) => i \div 2 < Len(high)

LEMMA NodeAt ==
  ASSUME NEW t, NEW L, NEW n, Tree(t, L, n)
  PROVE  \A d \in 0 .. n - 1 : Pairs(L[d], L[d + 1])
<1> SUFFICES ASSUME NEW d \in 0 .. n - 1 PROVE Pairs(L[d], L[d + 1])
  OBVIOUS
<1>1. /\ n \in Nat /\ d \in 0 .. n /\ d + 1 \in 0 .. n /\ d + 1 \in 1 .. n
      /\ (d + 1) - 1 = d
  BY DEF Tree
<1> DEFINE low == L[d]
           high == L[d + 1]
<1>2. high = Parent(low) /\ Len(low) \in Nat /\ Len(high) \in Nat
  BY <1>1 DEF Tree
<1> SUFFICES Pairs(low, high)
  OBVIOUS
<1> HIDE DEF low, high
<1>3. /\ Len(high) = (Len(low) + 1) \div 2
      /\ \A i \in 0 .. ((Len(low) + 1) \div 2) - 1 :
           At(high, i) = HashPair(At(low, 2 * i), At(low, 2 * i + 1))
  BY <1>2, ParentAt
<1> DEFINE n0 == Len(low)
           n1 == (Len(low) + 1) \div 2
<1>4. n0 \in Nat /\ n1 \in Nat /\ Len(high) = n1
  BY <1>2, <1>3
<1>5. \A i \in Nat : (i < n1 => 2 * i < n0) /\ (i < n0 => i \div 2 < n1)
  BY <1>4, HalfOfLevel
<1>6. \A i \in 0 .. n1 - 1 : At(high, i) = HashPair(At(low, 2 * i), At(low, 2 * i + 1))
  BY <1>3
<1> HIDE DEF n1
<1>7. \A i \in Nat : i < n1 => i \in 0 .. n1 - 1
  BY <1>4
<1> QED BY <1>4, <1>5, <1>6, <1>7 DEF Pairs

\* Hashes of leaves, of pairs and of nothing are told apart, and made up of one thing.
LEMMA HashesTold ==
  /\ \A w, n, x, y : HashLeaf(w, n) # HashPair(x, y) /\ HashLeaf(w, n) # ZERO_HASH
                     /\ HashPair(x, y) # ZERO_HASH
  /\ \A w, n, v, m : HashLeaf(w, n) = HashLeaf(v, m) => w = v /\ n = m
  /\ \A x, y, u, v : HashPair(x, y) = HashPair(u, v) => x = u /\ y = v
<1>1. \A w, n, x, y : HashLeaf(w, n)[1] = "leaf" /\ HashPair(x, y)[1] = "pair"
                     /\ ZERO_HASH[1] = "zero"
  BY DEF HashLeaf, HashPair, ZERO_HASH
<1>2. \A w, n, v, m : HashLeaf(w, n) = HashLeaf(v, m) => w = v /\ n = m
  BY DEF HashLeaf
<1>3. \A x, y, u, v : HashPair(x, y) = HashPair(u, v) => x = u /\ y = v
  BY DEF HashPair
<1>4. \A w, n, x, y : HashLeaf(w, n) # HashPair(x, y) /\ HashLeaf(w, n) # ZERO_HASH
                     /\ HashPair(x, y) # ZERO_HASH
  <2>1. "leaf" # "pair" /\ "leaf" # "zero" /\ "pair" # "zero"
    OBVIOUS
  <2> QED BY <1>1, <2>1
<1> QED BY <1>2, <1>3, <1>4

\* The climb of a proof from the leaf, after n of its hashes.
ClimbsTo(g, start, hashes, n) ==
  g = [i \in 0 .. n |-> IF i = 0 THEN start ELSE Up(g[i - 1], hashes[i])]

LEMMA ClimbsStep ==
  ASSUME NEW start, NEW hashes, NEW n \in Nat, NEW g, ClimbsTo(g, start, hashes, n)
  PROVE  g[0] = start /\ \A i \in 1 .. n : g[i] = Up(g[i - 1], hashes[i])
<1> DEFINE r == [i \in 0 .. n |-> IF i = 0 THEN start ELSE Up(g[i - 1], hashes[i])]
<1>1. g = r
  BY DEF ClimbsTo
<1>2. r[0] = start /\ \A i \in 1 .. n : r[i] = Up(g[i - 1], hashes[i])
  OBVIOUS
<1> HIDE DEF r
<1> QED BY <1>1, <1>2

LEMMA ClimbsExist ==
  ASSUME NEW start, NEW hashes, NEW n \in Nat
  PROVE  \E g : ClimbsTo(g, start, hashes, n)
<1> DEFINE G == {m \in 0 .. n : \E g : ClimbsTo(g, start, hashes, m)}
<1>1. 0 \in G
  <2> DEFINE h == [i \in 0 .. 0 |-> start]
  <2>1. ClimbsTo(h, start, hashes, 0)
    BY DEF ClimbsTo
  <2> HIDE DEF h
  <2> QED BY <2>1
<1>2. ASSUME NEW m \in 0 .. n - 1, m \in G
      PROVE  m + 1 \in G
  <2>1. PICK g : ClimbsTo(g, start, hashes, m)
    BY <1>2
  <2> DEFINE k == m + 1
             last == Up(g[m], hashes[k])
             h == [i \in 0 .. k |-> IF i <= m THEN g[i] ELSE last]
  <2>2. m \in Nat /\ k \in Nat /\ k \in 0 .. n
    OBVIOUS
  <2>3. g[0] = start /\ \A i \in 1 .. m : g[i] = Up(g[i - 1], hashes[i])
    BY <2>1, <2>2, ClimbsStep
  <2>4. \A i \in 0 .. k : h[i] = IF i <= m THEN g[i] ELSE last
    BY <2>2
  <2>5. h = [i \in 0 .. k |-> h[i]]
    OBVIOUS
  <2>6. last = Up(g[k - 1], hashes[k])
    BY <2>2
  <2> HIDE DEF h, last
  <2>7. \A i \in 0 .. k : h[i] = IF i = 0 THEN start ELSE Up(h[i - 1], hashes[i])
    <3> SUFFICES ASSUME NEW i \in 0 .. k
                 PROVE  h[i] = IF i = 0 THEN start ELSE Up(h[i - 1], hashes[i])
      OBVIOUS
    <3>1. CASE i = 0
      BY <2>2, <2>3, <2>4, <3>1
    <3>2. CASE i \in 1 .. m
      <4>1. h[i] = g[i] /\ h[i - 1] = g[i - 1]
        BY <2>2, <2>4, <3>2
      <4> QED BY <2>3, <3>2, <4>1
    <3>3. CASE i = k
      <4>1. h[i] = last /\ h[i - 1] = g[i - 1] /\ i # 0
        BY <2>2, <2>4, <3>3
      <4> QED BY <2>6, <3>3, <4>1
    <3> QED BY <2>2, <3>1, <3>2, <3>3
  <2>8. ClimbsTo(h, start, hashes, k)
    BY <2>5, <2>7 DEF ClimbsTo
  <2> QED BY <2>2, <2>8
<1>3. \A i \in 0 .. n : i \in G
  <2> HIDE DEF G
  <2> QED BY <1>1, <1>2, Stepwise
<1> QED BY <1>3

\* The index on the way up, at n levels.
Half(i) == i \div 2
HalvesTo(g, index, n) ==
  g = [i \in 0 .. n |-> IF i = 0 THEN index ELSE Half(g[i - 1])]

LEMMA HalvesStep ==
  ASSUME NEW index, NEW n \in Nat, NEW g, HalvesTo(g, index, n)
  PROVE  g[0] = index /\ \A i \in 1 .. n : g[i] = Half(g[i - 1])
<1> DEFINE r == [i \in 0 .. n |-> IF i = 0 THEN index ELSE Half(g[i - 1])]
<1>1. g = r
  BY DEF HalvesTo
<1>2. r[0] = index /\ \A i \in 1 .. n : r[i] = Half(g[i - 1])
  OBVIOUS
<1> HIDE DEF r
<1> QED BY <1>1, <1>2

LEMMA HalvesExist ==
  ASSUME NEW index, NEW n \in Nat
  PROVE  \E g : HalvesTo(g, index, n)
<1> DEFINE G == {m \in 0 .. n : \E g : HalvesTo(g, index, m)}
<1>1. 0 \in G
  <2> DEFINE h == [i \in 0 .. 0 |-> index]
  <2>1. HalvesTo(h, index, 0)
    BY DEF HalvesTo
  <2> HIDE DEF h
  <2> QED BY <2>1
<1>2. ASSUME NEW m \in 0 .. n - 1, m \in G
      PROVE  m + 1 \in G
  <2>1. PICK g : HalvesTo(g, index, m)
    BY <1>2
  <2> DEFINE k == m + 1
             last == Half(g[m])
             h == [i \in 0 .. k |-> IF i <= m THEN g[i] ELSE last]
  <2>2. m \in Nat /\ k \in Nat /\ k \in 0 .. n
    OBVIOUS
  <2>3. g[0] = index /\ \A i \in 1 .. m : g[i] = Half(g[i - 1])
    BY <2>1, <2>2, HalvesStep
  <2>4. \A i \in 0 .. k : h[i] = IF i <= m THEN g[i] ELSE last
    BY <2>2
  <2>5. h = [i \in 0 .. k |-> h[i]]
    OBVIOUS
  <2>6. last = Half(g[k - 1])
    BY <2>2
  <2> HIDE DEF h, last
  <2>7. \A i \in 0 .. k : h[i] = IF i = 0 THEN index ELSE Half(h[i - 1])
    <3> SUFFICES ASSUME NEW i \in 0 .. k
                 PROVE  h[i] = IF i = 0 THEN index ELSE Half(h[i - 1])
      OBVIOUS
    <3>1. CASE i = 0
      BY <2>2, <2>3, <2>4, <3>1
    <3>2. CASE i \in 1 .. m
      <4>1. h[i] = g[i] /\ h[i - 1] = g[i - 1]
        BY <2>2, <2>4, <3>2
      <4> QED BY <2>3, <3>2, <4>1
    <3>3. CASE i = k
      <4>1. h[i] = last /\ h[i - 1] = g[i - 1] /\ i # 0
        BY <2>2, <2>4, <3>3
      <4> QED BY <2>6, <3>3, <4>1
    <3> QED BY <2>2, <3>1, <3>2, <3>3
  <2>8. HalvesTo(h, index, k)
    BY <2>5, <2>7 DEF HalvesTo
  <2> QED BY <2>2, <2>8
<1>3. \A i \in 0 .. n : i \in G
  <2> HIDE DEF G
  <2> QED BY <1>1, <1>2, Stepwise
<1> QED BY <1>3

\* What compute_merkle_root climbs through, and where it ends.
Climb(A, leaf, hashes, index) ==
  /\ A[0].hash = leaf /\ A[0].index = index
  /\ \A k \in 0 .. Len(hashes) - 1 : A[k + 1] = Up(A[k], hashes[k + 1])
  /\ \A k \in 0 .. Len(hashes) : A[k].index \in Nat
  /\ ComputedRoot(leaf, hashes, index) = A[Len(hashes)]

LEMMA Climbed ==
  ASSUME NEW leaf, NEW hashes, NEW index \in Nat, Len(hashes) \in Nat
  PROVE  \E A : Climb(A, leaf, hashes, index)
<1> DEFINE n == Len(hashes)
           start == [hash |-> leaf, index |-> index]
           A == CHOOSE g : ClimbsTo(g, start, hashes, n)
           G == {k \in 0 .. n : A[k].index \in Nat}
<1>1. ClimbsTo(A, start, hashes, n)
  <2> HIDE DEF start
  <2> QED BY ClimbsExist
<1>2. ComputedRoot(leaf, hashes, index) = A[n]
  BY DEF ComputedRoot, ClimbsTo
<1>3. start.hash = leaf /\ start.index = index
  OBVIOUS
<1> HIDE DEF A, start
<1>4. A[0] = start /\ \A k \in 1 .. n : A[k] = Up(A[k - 1], hashes[k])
  BY <1>1, ClimbsStep
<1>5. \A k \in 0 .. n - 1 : A[k + 1] = Up(A[k], hashes[k + 1])
  <2> SUFFICES ASSUME NEW k \in 0 .. n - 1 PROVE A[k + 1] = Up(A[k], hashes[k + 1])
    OBVIOUS
  <2>1. k + 1 \in 1 .. n /\ (k + 1) - 1 = k
    OBVIOUS
  <2> QED BY <1>4, <2>1
<1>6. 0 \in G
  BY <1>3, <1>4
<1>7. ASSUME NEW k \in 0 .. n - 1, k \in G
      PROVE  k + 1 \in G
  <2>1. \A x, y : Up(x, y).index = x.index \div 2
    BY DEF Up
  <2>2. A[k + 1].index = A[k].index \div 2
    BY <1>5, <2>1
  <2> QED BY <1>7, <2>2
<1>8. \A k \in 0 .. n : k \in G
  <2> HIDE DEF G
  <2> QED BY <1>6, <1>7, Stepwise
<1>9. \A k \in 0 .. n : A[k].index \in Nat
  BY <1>8
<1> HIDE DEF G
<1>10. A[0].hash = leaf /\ A[0].index = index
  BY <1>3, <1>4
<1>11. Climb(A, leaf, hashes, index)
  BY <1>2, <1>5, <1>9, <1>10 DEF Climb
<1> QED BY <1>11

LEMMA UpIs ==
  \A x, y : /\ Up(x, y).index = x.index \div 2
            /\ Up(x, y).hash = IF x.index % 2 = 0 THEN HashPair(x.hash, y)
                               ELSE HashPair(y, x.hash)
BY DEF Up

\* A proof that ends at the root with no bit of its index left is of the entry at that
\* index: from the root down, each step is at a node of its level, and a hash of a
\* leaf, of a pair or of nothing stands for no other.
LEMMA OnlyWhatIsListed ==
  ASSUME NEW t, IsTree(t), NEW w, NEW a, NEW hashes, Len(hashes) \in Nat,
         NEW index \in Nat,
         ComputedRoot(HashLeaf(w, a), hashes, index).hash = Root(t),
         ComputedRoot(HashLeaf(w, a), hashes, index).index = 0
  PROVE  index < Len(t) /\ t[index + 1].wallet = w /\ t[index + 1].amount = a
<1> DEFINE K == Len(hashes)
           L == Levels(t)
           D == Depth(t)
<1>1. Tree(t, L, D) /\ D \in Nat /\ K \in Nat
  BY RootOfTree DEF Tree
<1>2. PICK A : /\ A[0].hash = HashLeaf(w, a) /\ A[0].index = index
               /\ \A k \in 0 .. K - 1 : A[k + 1] = Up(A[k], hashes[k + 1])
               /\ \A k \in 0 .. K : A[k].index \in Nat
               /\ ComputedRoot(HashLeaf(w, a), hashes, index) = A[K]
  <2>1. PICK A : Climb(A, HashLeaf(w, a), hashes, index)
    BY Climbed
  <2> QED BY <2>1 DEF Climb
<1> DEFINE m == IF K <= D THEN K ELSE D
           OnPath(j) == A[K - j].index < Len(L[D - j])
                        /\ A[K - j].hash = At(L[D - j], A[K - j].index)
           G == {j \in 0 .. m : OnPath(j)}
<1> HIDE DEF L, D, K
<1>3. m \in Nat /\ m <= K /\ m <= D
  BY <1>1
<1>4. 0 \in G
  <2>1. A[K].index = 0 /\ A[K].hash = L[D][1] /\ Len(L[D]) = 1
    BY <1>1, <1>2 DEF Tree
  <2>2. At(L[D], 0) = L[D][1]
    BY <2>1 DEF At
  <2>3. K - 0 = K /\ D - 0 = D /\ 0 \in 0 .. m
    BY <1>1, <1>3
  <2> HIDE DEF m
  <2> QED BY <2>1, <2>2, <2>3
<1>5. ASSUME NEW j \in 0 .. m - 1, j \in G
      PROVE  j + 1 \in G
  <2> DEFINE k == K - (j + 1)
             d == D - (j + 1)
             x == A[k]
             i == A[k + 1].index
  <2>1. /\ k \in 0 .. K - 1 /\ d \in 0 .. D - 1 /\ k + 1 = K - j /\ d + 1 = D - j
        /\ k \in 0 .. K /\ k + 1 \in 0 .. K /\ d \in 0 .. D /\ j + 1 \in 0 .. m
    BY <1>1, <1>3
  <2>2. OnPath(j)
    BY <1>5
  <2> HIDE DEF k, d, m
  <2>3. /\ i < Len(L[d + 1]) /\ A[k + 1].hash = At(L[d + 1], i) /\ i \in Nat
        /\ x.index \in Nat
    BY <1>2, <2>1, <2>2
  <2>4. A[k + 1] = Up(x, hashes[k + 1])
    BY <1>2, <2>1
  <2>5. Pairs(L[d], L[d + 1])
    BY <1>1, <2>1, NodeAt
  <2>6. /\ A[k + 1].hash = HashPair(At(L[d], 2 * i), At(L[d], 2 * i + 1))
        /\ 2 * i < Len(L[d]) /\ Len(L[d]) \in Nat
    <3> HIDE DEF i
    <3> QED BY <2>3, <2>5 DEF Pairs
  <2>7. i = x.index \div 2
        /\ A[k + 1].hash = IF x.index % 2 = 0 THEN HashPair(x.hash, hashes[k + 1])
                           ELSE HashPair(hashes[k + 1], x.hash)
    BY <2>4, UpIs
  <2> HIDE DEF x, i
  <2>8. CASE x.index % 2 = 0
    <3>1. x.hash = At(L[d], 2 * i)
      BY <2>6, <2>7, <2>8, HashesTold
    <3>2. x.index = 2 * i
      BY <2>3, <2>7, <2>8, Halves
    <3>4. x.index < Len(L[d]) /\ x.hash = At(L[d], x.index)
      BY <2>6, <3>1, <3>2
    <3> QED BY <2>1, <3>4 DEF x, k, d
  <2>9. CASE x.index % 2 # 0
    <3>1. x.hash = At(L[d], 2 * i + 1)
      BY <2>6, <2>7, <2>9, HashesTold
    <3>2. x.index = 2 * i + 1
      BY <2>3, <2>7, <2>9, Halves
    <3>3. x.hash # ZERO_HASH
      <4>1. CASE k = 0
        <5>1. x.hash = HashLeaf(w, a)
          BY <1>2, <4>1 DEF x
        <5> QED BY <5>1, HashesTold
      <4>2. CASE k # 0
        <5>1. k - 1 \in 0 .. K - 1 /\ (k - 1) + 1 = k
          BY <1>1, <2>1, <4>2
        <5>2. x = Up(A[k - 1], hashes[k])
          BY <1>2, <5>1 DEF x
        <5> QED BY <5>2, UpIs, HashesTold
      <4> QED BY <4>1, <4>2
    <3>4. x.index < Len(L[d])
      BY <3>1, <3>2, <3>3, <2>3, <2>6 DEF At
    <3>5. x.hash = At(L[d], x.index)
      BY <3>1, <3>2
    <3> QED BY <2>1, <3>4, <3>5 DEF x, k, d
  <2> QED BY <2>8, <2>9
<1>6. OnPath(m)
  <2>1. \A j \in 0 .. m : j \in G
    <3> HIDE DEF G, m
    <3> QED BY <1>3, <1>4, <1>5, Stepwise
  <2>2. m \in 0 .. m
    BY <1>3
  <2> HIDE DEF m
  <2> QED BY <2>1, <2>2
<1>7. CASE K = D
  <2>1. K - m = 0 /\ D - m = 0
    BY <1>1, <1>7
  <2>2. index < Len(L[0]) /\ HashLeaf(w, a) = At(L[0], index)
    BY <1>2, <1>6, <2>1
  <2>3. L[0] = Leaves(t)
    BY <1>1 DEF Tree
  <2>4. index < Len(t) /\ index \in 0 .. Len(t) - 1
    <3>1. Len(t) \in Nat
      BY DEF IsTree
    <3>2. index < Len(t)
      BY <2>2, <2>3, LeavesAt
    <3> QED BY <3>1, <3>2
  <2>5. HashLeaf(w, a) = HashLeaf(t[index + 1].wallet, t[index + 1].amount)
    BY <2>2, <2>3, <2>4, LeavesAt
  <2> QED BY <2>4, <2>5, HashesTold
<1>8. CASE K > D
  <2> DEFINE k == K - D
  <2>1. K - m = k /\ D - m = 0 /\ k \in 1 .. K /\ k - 1 \in 0 .. K - 1 /\ (k - 1) + 1 = k
    BY <1>1, <1>8
  <2> HIDE DEF k, m
  <2>2. A[k].index < Len(L[0]) /\ A[k].hash = At(L[0], A[k].index)
    BY <1>6, <2>1
  <2>3. L[0] = Leaves(t) /\ A[k].index \in Nat
    <3>1. k \in 0 .. K
      BY <1>1, <2>1
    <3> QED BY <1>1, <1>2, <3>1 DEF Tree
  <2>4. A[k].index \in 0 .. Len(t) - 1
    <3>1. Len(t) \in Nat
      BY DEF IsTree
    <3>2. A[k].index < Len(t)
      BY <2>2, <2>3, LeavesAt
    <3> QED BY <2>3, <3>1, <3>2
  <2>5. \E v, b : A[k].hash = HashLeaf(v, b)
    BY <2>2, <2>3, <2>4, LeavesAt
  <2>6. A[k] = Up(A[k - 1], hashes[k])
    BY <1>2, <2>1
  <2> QED BY <2>5, <2>6, UpIs, HashesTold
<1>9. CASE K < D
  <2> DEFINE d == D - K
  <2>1. K - m = 0 /\ D - m = d /\ d - 1 \in 0 .. D - 1 /\ (d - 1) + 1 = d
        /\ d \in 0 .. D
    BY <1>1, <1>9
  <2> HIDE DEF d, m
  <2>2. index < Len(L[d]) /\ HashLeaf(w, a) = At(L[d], index)
    BY <1>2, <1>6, <2>1
  <2>4. Pairs(L[d - 1], L[d])
    <3> DEFINE e == d - 1
    <3>1. e \in 0 .. D - 1 /\ e + 1 = d
      BY <2>1
    <3> SUFFICES Pairs(L[e], L[d])
      OBVIOUS
    <3> HIDE DEF e
    <3>2. Pairs(L[e], L[e + 1])
      BY <1>1, <3>1, NodeAt
    <3> QED BY <3>1, <3>2
  <2>5. At(L[d], index) = HashPair(At(L[d - 1], 2 * index), At(L[d - 1], 2 * index + 1))
    BY <2>2, <2>4 DEF Pairs
  <2> QED BY <2>2, <2>5, HashesTold
<1> QED BY <1>1, <1>7, <1>8, <1>9

\* A proof the tool makes has a sibling for each level below the root, each next to where
\* the index has got to.
LEMMA ProofMade ==
  ASSUME NEW t, IsTree(t), NEW index \in Nat
  PROVE  /\ Len(Proof(t, index)) = Depth(t)
         /\ \E h : /\ h[0] = index
                   /\ \A d \in 1 .. Depth(t) : h[d] = h[d - 1] \div 2
                   /\ \A d \in 1 .. Depth(t) :
                        Proof(t, index)[d] = At(Levels(t)[d - 1], Sibling(h[d - 1]))
<1> DEFINE D == Depth(t)
           h == CHOOSE g : HalvesTo(g, index, D)
           f == Proof(t, index)
<1>1. D \in Nat
  BY RootOfTree DEF Tree
<1>2. HalvesTo(h, index, D)
  BY <1>1, HalvesExist
<1>3. f = [d \in 1 .. D |-> At(Levels(t)[d - 1], Sibling(h[d - 1]))]
  BY DEF Proof, HalvesTo, Half
<1> HIDE DEF h, f, D
<1>4. h[0] = index /\ \A d \in 1 .. D : h[d] = h[d - 1] \div 2
  <2>1. h[0] = index /\ \A d \in 1 .. D : h[d] = Half(h[d - 1])
    BY <1>1, <1>2, HalvesStep
  <2> QED BY <2>1 DEF Half
<1>5. f = [d \in 1 .. D |-> f[d]]
      /\ \A d \in 1 .. D : f[d] = At(Levels(t)[d - 1], Sibling(h[d - 1]))
  BY <1>3
<1>6. Len(f) = D
  BY <1>1, <1>5, ListLength
<1> QED BY <1>4, <1>5, <1>6 DEF D, f

\* The tool's proof of an entry leads to the root.
LEMMA ListedClimbs ==
  ASSUME NEW t, IsTree(t), NEW i \in 1 .. Len(t)
  PROVE  LET leaf == HashLeaf(t[i].wallet, t[i].amount)
             climbed == ComputedRoot(leaf, Proof(t, i - 1), i - 1)
         IN  climbed.hash = Root(t) /\ climbed.index = 0
<1> DEFINE index == i - 1
           leaf == HashLeaf(t[i].wallet, t[i].amount)
           hashes == Proof(t, index)
           L == Levels(t)
           D == Depth(t)
<1>1. Tree(t, L, D) /\ D \in Nat /\ index \in Nat /\ Len(t) \in Nat
      /\ index < Len(t) /\ index + 1 = i
  <2>1. Tree(t, L, D) /\ D \in Nat
    BY RootOfTree DEF Tree
  <2>2. Len(t) \in Nat
    BY ClaimConstants DEF IsTree
  <2> QED BY <2>1, <2>2
<1>2. PICK h : /\ Len(hashes) = D
               /\ h[0] = index
               /\ \A d \in 1 .. D : h[d] = h[d - 1] \div 2
               /\ \A d \in 1 .. D : hashes[d] = At(L[d - 1], Sibling(h[d - 1]))
  <2> HIDE DEF index
  <2> QED BY <1>1, ProofMade
<1> HIDE DEF hashes, L, D
<1>3. PICK A : /\ A[0].hash = leaf /\ A[0].index = index
               /\ \A k \in 0 .. D - 1 : A[k + 1] = Up(A[k], hashes[k + 1])
               /\ ComputedRoot(leaf, hashes, index) = A[D]
  <2> HIDE DEF leaf, index
  <2>1. Len(hashes) \in Nat /\ index \in Nat /\ Len(hashes) = D
    BY <1>1, <1>2
  <2>2. PICK A : Climb(A, leaf, hashes, index)
    BY <2>1, Climbed
  <2> QED BY <2>1, <2>2 DEF Climb
<1> HIDE DEF leaf, index
<1> DEFINE OnPath(k) == /\ A[k].index = h[k] /\ h[k] \in Nat /\ h[k] < Len(L[k])
                        /\ A[k].hash = At(L[k], h[k])
           G == {k \in 0 .. D : OnPath(k)}
<1>4. 0 \in G
  <2>1. L[0] = Leaves(t) /\ 0 \in 0 .. D
    BY <1>1 DEF Tree
  <2>2. /\ Len(L[0]) = Len(t)
        /\ At(L[0], index) = HashLeaf(t[index + 1].wallet, t[index + 1].amount)
    <3>1. index \in 0 .. Len(t) - 1
      BY <1>1
    <3> QED BY <2>1, <3>1, LeavesAt
  <2> QED BY <1>1, <1>2, <1>3, <2>1, <2>2 DEF leaf
<1>5. ASSUME NEW k \in 0 .. D - 1, k \in G
      PROVE  k + 1 \in G
  <2> DEFINE m == k + 1
             x == A[k]
             v == h[k]
             q == v \div 2
  <2>1. m \in 0 .. D /\ m \in 1 .. D /\ m - 1 = k
    BY <1>1
  <2>2. x.index = v /\ v \in Nat /\ v < Len(L[k]) /\ x.hash = At(L[k], v)
    BY <1>5
  <2>3. A[m] = Up(x, hashes[m]) /\ h[m] = q /\ hashes[m] = At(L[k], Sibling(v))
    BY <1>2, <1>3, <2>1
  <2>4. Pairs(L[k], L[m])
    BY <1>1, NodeAt
  <2> HIDE DEF m, x, v
  <2>5. q \in Nat /\ (v % 2 = 0 => v = 2 * q) /\ (v % 2 # 0 => v = 2 * q + 1)
    BY <2>2, Halves
  <2>6. q < Len(L[m]) /\ Len(L[m]) \in Nat
    BY <2>2, <2>4 DEF Pairs
  <2> HIDE DEF q
  <2>7. At(L[m], q) = HashPair(At(L[k], 2 * q), At(L[k], 2 * q + 1))
    BY <2>4, <2>5, <2>6 DEF Pairs
  <2>8. A[m].index = q
    BY <2>2, <2>3, UpIs DEF q
  <2>9. A[m].hash = At(L[m], q)
    <3>1. CASE v % 2 = 0
      <4>1. Sibling(v) = 2 * q + 1 /\ v = 2 * q
        BY <2>5, <3>1 DEF Sibling
      <4>2. A[m].hash = HashPair(x.hash, hashes[m])
        BY <2>2, <2>3, <3>1, UpIs
      <4> QED BY <2>2, <2>3, <2>7, <4>1, <4>2
    <3>2. CASE v % 2 # 0
      <4>1. Sibling(v) = 2 * q /\ v = 2 * q + 1
        BY <2>5, <3>2 DEF Sibling
      <4>2. A[m].hash = HashPair(hashes[m], x.hash)
        BY <2>2, <2>3, <3>2, UpIs
      <4> QED BY <2>2, <2>3, <2>7, <4>1, <4>2
    <3> QED BY <3>1, <3>2
  <2> QED BY <2>1, <2>3, <2>5, <2>6, <2>8, <2>9 DEF m
<1>6. OnPath(D)
  <2>1. \A k \in 0 .. D : k \in G
    <3> HIDE DEF G
    <3> QED BY <1>1, <1>4, <1>5, Stepwise
  <2> QED BY <1>1, <2>1
<1>7. Len(L[D]) = 1 /\ Root(t) = L[D][1]
  BY <1>1 DEF Tree
<1>8. A[D].index = 0 /\ A[D].hash = Root(t)
  BY <1>6, <1>7 DEF At
<1> QED BY <1>3, <1>8 DEF leaf, hashes, index

(***************************************************************************)
(* The airdrop: its state.                                                 *)
(***************************************************************************)

\* What a list of claims l, with receipts r, has paid: of each claim, in all and to w.
PaidOut(l, r) == [i \in DOMAIN l |-> IF r[i - 1] # NoClaimer THEN l[i].amount ELSE 0]
PaidTo(w, l, r) == [i \in DOMAIN l |-> IF r[i - 1] = w THEN l[i].amount ELSE 0]

\* The root is that of the claims listed, a receipt is of a listed claim and of its
\* wallet, and what was paid, in all and to each, is what the claims with a receipt
\* add up to.
ReceiptsListed ==
  /\ IF airdrop.open THEN listed \in Trees /\ airdrop.merkle_root = Root(listed)
     ELSE listed = <<>>
  /\ \A i \in 0 .. MaxIndex : receipt[i] # NoClaimer =>
       i < Len(listed) /\ listed[i + 1].wallet = receipt[i] /\ listed[i + 1].amount > 0
PaymentsAddUp ==
  /\ claimVault = airdrop.airdrop_amount - airdrop.amount_claimed
  /\ SumFunction(received) = airdrop.amount_claimed
  /\ SumFunction(PaidOut(listed, receipt)) = airdrop.amount_claimed
  /\ \A w \in Claimers : SumFunction(PaidTo(w, listed, receipt)) = received[w]

ClaimOK == ClaimTypeOK /\ ReceiptsListed /\ PaymentsAddUp

\* A list of claims: none, or those of a tree.
IsList(l) ==
  /\ Len(l) \in 0 .. MaxIndex + 1 /\ DOMAIN l = 1 .. Len(l)
  /\ \A i \in 1 .. Len(l) : l[i].amount \in Nat

LEMMA ListsTyped == IsList(<<>>) /\ \A t \in Trees : IsList(t) /\ IsTree(t)
<1>1. IsList(<<>>)
  BY ClaimConstants DEF IsList
<1>2. \A t : IsTree(t) => IsList(t)
  BY ClaimConstants DEF IsTree, IsList
<1> QED BY <1>1, <1>2, TreesTyped

LEMMA ListedTyped ==
  ASSUME ClaimOK
  PROVE  IsList(listed) /\ Len(listed) \in Nat
<1>1. listed \in Trees \/ listed = <<>>
  BY DEF ClaimOK, ReceiptsListed
<1>2. IsList(listed)
  BY <1>1, ListsTyped
<1> QED BY <1>2, ClaimConstants DEF IsList

LEMMA PaymentsTyped ==
  ASSUME NEW l, IsList(l)
  PROVE  /\ IsFiniteSet(DOMAIN l)
         /\ \A r : /\ PaidOut(l, r) \in [DOMAIN l -> Nat]
                  /\ PaidOut(l, r) \in [DOMAIN l -> Int]
         /\ \A w, r : PaidTo(w, l, r) \in [DOMAIN l -> Nat]
                     /\ PaidTo(w, l, r) \in [DOMAIN l -> Int]
<1>1. Len(l) \in Nat /\ DOMAIN l = 1 .. Len(l) /\ \A i \in DOMAIN l : l[i].amount \in Nat
  BY ClaimConstants DEF IsList
<1>2. IsFiniteSet(DOMAIN l)
  BY <1>1, FS_Interval
<1> QED BY <1>1, <1>2 DEF PaidOut, PaidTo

\* Without receipts nothing was paid.
LEMMA NothingPaid ==
  ASSUME NEW l, IsList(l), NEW r, \A i \in DOMAIN l : r[i - 1] = NoClaimer
  PROVE  /\ SumFunction(PaidOut(l, r)) = 0
         /\ \A w \in Claimers : SumFunction(PaidTo(w, l, r)) = 0
<1> DEFINE S == DOMAIN l
<1>1. IsFiniteSet(S)
  BY PaymentsTyped
<1>2. PaidOut(l, r) = [i \in S |-> 0]
  BY DEF PaidOut
<1>3. \A w \in Claimers : PaidTo(w, l, r) = [i \in S |-> 0]
  BY ClaimConstants DEF PaidTo
<1> HIDE DEF S
<1> QED BY <1>1, <1>2, <1>3, SumOfZeros

\* A new receipt pays its claim, to its wallet.
Pays(l, r, r2, i, w) ==
  /\ SumFunction(PaidOut(l, r2)) = SumFunction(PaidOut(l, r)) + l[i + 1].amount
  /\ SumFunction(PaidTo(w, l, r2)) = SumFunction(PaidTo(w, l, r)) + l[i + 1].amount
  /\ \A v \in Claimers \ {w} : PaidTo(v, l, r2) = PaidTo(v, l, r)

LEMMA OnePaid ==
  ASSUME NEW l, IsList(l), NEW r \in [0 .. MaxIndex -> Claimers \cup {NoClaimer}],
         NEW i \in 0 .. MaxIndex, i < Len(l), r[i] = NoClaimer, NEW w \in Claimers,
         NEW r2, r2 = [r EXCEPT ![i] = w]
  PROVE  Pays(l, r, r2, i, w)
<1> DEFINE S == DOMAIN l
           x == i + 1
           d == l[x].amount
<1>1. /\ IsFiniteSet(S) /\ x \in S /\ x - 1 = i /\ d \in Int /\ MaxIndex \in Nat
      /\ S \subseteq 1 .. MaxIndex + 1
  BY PaymentsTyped, ClaimConstants DEF IsList
<1>2. w # NoClaimer
  BY ClaimConstants
<1>3. r2[i] = w /\ \A y \in S \ {x} : r2[y - 1] = r[y - 1]
  <2>1. \A y \in S \ {x} : y - 1 \in 0 .. MaxIndex /\ y - 1 # i
    BY <1>1
  <2> HIDE DEF S, x
  <2> QED BY <1>1, <2>1
<1>4. SumFunction(PaidOut(l, r2)) = SumFunction(PaidOut(l, r)) + d
  <2> DEFINE f == PaidOut(l, r)
             g == PaidOut(l, r2)
  <2>1. f \in [S -> Int] /\ g \in [S -> Int]
    BY PaymentsTyped
  <2>2. f[x] = 0 /\ g[x] = d /\ \A y \in S \ {x} : g[y] = f[y]
    BY <1>1, <1>2, <1>3 DEF PaidOut
  <2> SUFFICES SumFunction(g) = SumFunction(f) + d
    OBVIOUS
  <2> HIDE DEF f, g, S, x, d
  <2>3. g[x] = f[x] + d /\ \A y \in S \ {x} : g[y] = f[y]
    BY <1>1, <2>2
  <2>4. IsFiniteSet(S) /\ x \in S /\ d \in Int
    BY <1>1
  <2> QED BY <2>1, <2>3, <2>4, SumMoves
<1>5. SumFunction(PaidTo(w, l, r2)) = SumFunction(PaidTo(w, l, r)) + d
  <2> DEFINE f == PaidTo(w, l, r)
             g == PaidTo(w, l, r2)
  <2>1. f \in [S -> Int] /\ g \in [S -> Int]
    BY PaymentsTyped
  <2>2. f[x] = 0 /\ g[x] = d /\ \A y \in S \ {x} : g[y] = f[y]
    BY <1>1, <1>2, <1>3 DEF PaidTo
  <2> SUFFICES SumFunction(g) = SumFunction(f) + d
    OBVIOUS
  <2> HIDE DEF f, g, S, x, d
  <2>3. g[x] = f[x] + d /\ \A y \in S \ {x} : g[y] = f[y]
    BY <1>1, <2>2
  <2>4. IsFiniteSet(S) /\ x \in S /\ d \in Int
    BY <1>1
  <2> QED BY <2>1, <2>3, <2>4, SumMoves
<1>6. \A v \in Claimers \ {w} : PaidTo(v, l, r2) = PaidTo(v, l, r)
  <2> SUFFICES ASSUME NEW v \in Claimers \ {w} PROVE PaidTo(v, l, r2) = PaidTo(v, l, r)
    OBVIOUS
  <2>1. v # w /\ v # NoClaimer
    BY ClaimConstants
  <2>2. \A y \in S : r2[y - 1] = v <=> r[y - 1] = v
    BY <1>1, <1>3, <2>1
  <2> QED BY <2>2 DEF PaidTo
<1> QED BY <1>4, <1>5, <1>6 DEF Pays

LEMMA ClaimStarts ==
  ASSUME ClaimInit
  PROVE  ClaimOK
<1>1. ClaimTypeOK
  BY ClaimConstants DEF ClaimInit, ClaimTypeOK, NoAirdrop, Roots
<1>2. ReceiptsListed
  BY DEF ClaimInit, ReceiptsListed, NoAirdrop
<1>3. IsList(listed) /\ \A i \in DOMAIN listed : receipt[i - 1] = NoClaimer
  BY ListsTyped DEF ClaimInit
<1>4. /\ SumFunction(PaidOut(listed, receipt)) = 0
      /\ \A w \in Claimers : SumFunction(PaidTo(w, listed, receipt)) = 0
  BY <1>3, NothingPaid
<1>5. SumFunction(received) = 0
  BY SumOfZeros, ClaimConstants DEF ClaimInit
<1>6. /\ claimVault = 0 /\ airdrop.airdrop_amount = 0 /\ airdrop.amount_claimed = 0
      /\ \A w \in Claimers : received[w] = 0
  BY DEF ClaimInit, NoAirdrop
<1>7. PaymentsAddUp
  BY <1>4, <1>5, <1>6 DEF PaymentsAddUp
<1> QED BY <1>1, <1>2, <1>7 DEF ClaimOK

LEMMA ClaimIdle ==
  ASSUME ClaimOK, UNCHANGED claimVars
  PROVE  ClaimOK'
BY DEF ClaimOK, ClaimTypeOK, ReceiptsListed, PaymentsAddUp, claimVars

\* While nothing was claimed there are no receipts, and any tree can be listed.
LEMMA NoReceipts ==
  ASSUME ClaimOK, airdrop.amount_claimed = 0
  PROVE  \A i \in 0 .. MaxIndex : receipt[i] = NoClaimer
<1> SUFFICES ASSUME NEW i \in 0 .. MaxIndex, receipt[i] # NoClaimer PROVE FALSE
  OBVIOUS
<1> DEFINE x == i + 1
           f == PaidOut(listed, receipt)
           S == DOMAIN listed
<1>1. IsList(listed) /\ Len(listed) \in Nat
  BY ListedTyped
<1>2. i < Len(listed) /\ listed[x].amount > 0
  BY DEF ClaimOK, ReceiptsListed
<1>3. x \in S /\ x - 1 = i
  BY <1>1, <1>2 DEF IsList
<1>4. f[x] = listed[x].amount
  BY <1>3 DEF PaidOut
<1>5. SumFunction(f) = 0
  BY DEF ClaimOK, PaymentsAddUp
<1>6. f \in [S -> Nat] /\ f \in [S -> Int] /\ IsFiniteSet(S)
  BY <1>1, PaymentsTyped
<1> HIDE DEF x, f, S
<1>7. SumFunction(f) = SumFunctionOnSet(f, S)
  BY <1>6, SumOfFunction
<1>8. f[x] <= SumFunctionOnSet(f, S)
  <2>1. \A y \in S : f[y] \in Nat
    BY <1>6
  <2> QED BY <1>3, <1>6, <2>1, SumBounds
<1>9. f[x] \in Nat
  BY <1>3, <1>6
<1> QED BY <1>2, <1>4, <1>5, <1>7, <1>8, <1>9

LEMMA NewListKeeps ==
  ASSUME ClaimOK, ClaimTypeOK', NEW t \in Trees, listed' = t,
         \A i \in 0 .. MaxIndex : receipt[i] = NoClaimer,
         airdrop'.open, airdrop'.merkle_root = Root(t), airdrop'.amount_claimed = 0,
         claimVault' = airdrop'.airdrop_amount, receipt' = receipt, received' = received
  PROVE  ClaimOK'
<1>1. ReceiptsListed'
  BY DEF ReceiptsListed
<1>2. /\ IsList(listed) /\ IsList(t) /\ MaxIndex \in Nat
  BY ListedTyped, ListsTyped, ClaimConstants
<1>3. \A l : IsList(l) => \A i \in DOMAIN l : i - 1 \in 0 .. MaxIndex
  BY <1>2 DEF IsList
<1>4. \A i \in DOMAIN listed : receipt[i - 1] = NoClaimer
  BY <1>2, <1>3
<1>5. \A i \in DOMAIN t : receipt[i - 1] = NoClaimer
  BY <1>2, <1>3
<1>6. /\ SumFunction(PaidOut(listed, receipt)) = 0
      /\ \A w \in Claimers : SumFunction(PaidTo(w, listed, receipt)) = 0
  BY <1>2, <1>4, NothingPaid
<1>7. /\ SumFunction(PaidOut(t, receipt)) = 0
      /\ \A w \in Claimers : SumFunction(PaidTo(w, t, receipt)) = 0
  BY <1>2, <1>5, NothingPaid
<1>8. SumFunction(received) = 0 /\ \A w \in Claimers : received[w] = 0
  BY <1>6 DEF ClaimOK, PaymentsAddUp
<1>9. airdrop'.airdrop_amount \in Nat
  BY DEF ClaimTypeOK
<1>10. PaymentsAddUp'
  BY <1>7, <1>8, <1>9 DEF PaymentsAddUp
<1> QED BY <1>1, <1>10 DEF ClaimOK

LEMMA InitializeAirdropKeeps ==
  ASSUME ClaimOK, NEW t \in Trees, NEW n \in AirdropAmounts, InitializeAirdropData(t, n)
  PROVE  ClaimOK'
<1>1. /\ ~airdrop.open /\ n \in Nat
      /\ airdrop' = [open |-> TRUE, merkle_root |-> Root(t), airdrop_amount |-> n,
                     amount_claimed |-> 0]
      /\ claimVault' = n /\ listed' = t /\ receipt' = receipt /\ received' = received
  BY ClaimConstants DEF InitializeAirdropData
<1>2. ClaimTypeOK'
  BY <1>1 DEF ClaimOK, ClaimTypeOK, Roots
<1>3. \A i \in 0 .. MaxIndex : receipt[i] = NoClaimer
  <2>1. listed = <<>> /\ Len(<<>>) = 0
    BY <1>1 DEF ClaimOK, ReceiptsListed
  <2>2. \A i \in 0 .. MaxIndex : ~(i < 0)
    OBVIOUS
  <2> QED BY <2>1, <2>2 DEF ClaimOK, ReceiptsListed
<1> QED BY <1>1, <1>2, <1>3, NewListKeeps

LEMMA UpdateTreeKeeps ==
  ASSUME ClaimOK, NEW t \in Trees, UpdateTree(t)
  PROVE  ClaimOK'
<1>1. /\ ClaimTypeOK /\ airdrop.open /\ airdrop.amount_claimed = 0
      /\ airdrop' = [airdrop EXCEPT !.merkle_root = Root(t)]
      /\ listed' = t /\ claimVault' = claimVault /\ receipt' = receipt
      /\ received' = received
  BY DEF ClaimOK, UpdateTree, NoClaimsYet
<1>2. Root(t) \in Roots
  BY DEF Roots
<1>3. ClaimTypeOK'
  BY <1>1, <1>2 DEF ClaimTypeOK
<1>4. /\ airdrop'.open /\ airdrop'.merkle_root = Root(t) /\ airdrop'.amount_claimed = 0
      /\ airdrop'.airdrop_amount = airdrop.airdrop_amount /\ airdrop.airdrop_amount \in Nat
  BY <1>1 DEF ClaimTypeOK
<1>5. claimVault' = airdrop'.airdrop_amount
  BY <1>1, <1>4 DEF ClaimOK, PaymentsAddUp
<1>6. \A i \in 0 .. MaxIndex : receipt[i] = NoClaimer
  BY <1>1, NoReceipts
<1> QED BY <1>1, <1>3, <1>4, <1>5, <1>6, NewListKeeps

\* A claim is of an entry the tree lists, for the wallet that signs.
LEMMA ClaimsAreListed ==
  ASSUME ClaimOK, NEW w \in Claimers, NEW n, NEW hashes \in Proofs,
         NEW i \in 0 .. MaxIndex, CanClaim(w, n, hashes, i)
  PROVE  i < Len(listed) /\ listed[i + 1].wallet = w /\ listed[i + 1].amount = n
<1> DEFINE climbed == ComputedRoot(HashLeaf(w, n), hashes, i)
<1>1. /\ airdrop.open /\ climbed.index = 0 /\ climbed.hash = airdrop.merkle_root
  BY DEF CanClaim, Authentic
<1>2. listed \in Trees /\ airdrop.merkle_root = Root(listed)
  BY <1>1 DEF ClaimOK, ReceiptsListed
<1>3. IsTree(listed) /\ i \in Nat
  BY <1>2, TreesTyped
<1>4. Len(hashes) \in Nat
  <2>1. PICK t \in Trees : \E j \in 0 .. Len(t) - 1 : hashes = Proof(t, j)
    BY DEF Proofs
  <2>2. PICK j \in 0 .. Len(t) - 1 : hashes = Proof(t, j)
    BY <2>1
  <2>3. IsTree(t) /\ j \in Nat
    BY TreesTyped
  <2>4. Len(Proof(t, j)) = Depth(t) /\ Depth(t) \in Nat
    BY <2>3, ProofMade, RootOfTree DEF Tree
  <2> QED BY <2>2, <2>4
<1> QED BY <1>1, <1>2, <1>3, <1>4, OnlyWhatIsListed

LEMMA ClaimAirdropKeeps ==
  ASSUME ClaimOK, NEW w \in Claimers, NEW n \in ListedAmounts, NEW hashes \in Proofs,
         NEW i \in 0 .. MaxIndex, ClaimAirdrop(w, n, hashes, i)
  PROVE  ClaimOK'
<1>1. /\ ClaimTypeOK /\ ReceiptsListed /\ PaymentsAddUp
      /\ airdrop.open /\ n > 0 /\ receipt[i] = NoClaimer
      /\ airdrop.amount_claimed + n <= airdrop.airdrop_amount /\ n <= claimVault
      /\ claimVault' = claimVault - n
      /\ received' = [received EXCEPT ![w] = @ + n]
      /\ receipt' = [receipt EXCEPT ![i] = w]
      /\ airdrop' = [airdrop EXCEPT !.amount_claimed = @ + n]
      /\ listed' = listed
  BY DEF ClaimOK, ClaimAirdrop, CanClaim
<1>2. i < Len(listed) /\ listed[i + 1].wallet = w /\ listed[i + 1].amount = n
  <2>1. CanClaim(w, n, hashes, i)
    BY DEF ClaimAirdrop
  <2> QED BY <2>1, ClaimsAreListed
<1>3. IsList(listed) /\ n \in Nat
  <2>1. IsList(listed) /\ Len(listed) \in Nat
    BY ListedTyped
  <2>2. i + 1 \in 1 .. Len(listed)
    BY <1>2, <2>1
  <2> QED BY <1>2, <2>1, <2>2 DEF IsList
<1>4. /\ receipt \in [0 .. MaxIndex -> Claimers \cup {NoClaimer}]
      /\ received \in [Claimers -> Nat] /\ received \in [Claimers -> Int]
      /\ airdrop.amount_claimed \in Nat /\ airdrop.airdrop_amount \in Nat
      /\ claimVault \in Nat
  BY <1>1 DEF ClaimTypeOK
<1>5. /\ airdrop'.open = airdrop.open /\ airdrop'.merkle_root = airdrop.merkle_root
      /\ airdrop'.airdrop_amount = airdrop.airdrop_amount
      /\ airdrop'.amount_claimed = airdrop.amount_claimed + n
      /\ airdrop' \in [open: BOOLEAN, merkle_root: Roots, airdrop_amount: Nat,
                       amount_claimed: Nat]
  <2>1. airdrop \in [open: BOOLEAN, merkle_root: Roots, airdrop_amount: Nat,
                     amount_claimed: Nat]
    BY <1>1 DEF ClaimTypeOK
  <2> DEFINE m == airdrop.amount_claimed + n
  <2>2. airdrop' = [airdrop EXCEPT !.amount_claimed = m] /\ m \in Nat
    BY <1>1, <1>3, <1>4
  <2> HIDE DEF m
  <2>3. /\ airdrop' \in [open: BOOLEAN, merkle_root: Roots, airdrop_amount: Nat,
                         amount_claimed: Nat]
        /\ airdrop'.open = airdrop.open /\ airdrop'.merkle_root = airdrop.merkle_root
        /\ airdrop'.airdrop_amount = airdrop.airdrop_amount /\ airdrop'.amount_claimed = m
    BY <2>1, <2>2
  <2> QED BY <2>3 DEF m
<1>6. ClaimTypeOK'
  BY <1>1, <1>3, <1>4, <1>5 DEF ClaimTypeOK
<1>7. ReceiptsListed'
  <2>1. \A j \in 0 .. MaxIndex : receipt'[j] # NoClaimer =>
          /\ j < Len(listed) /\ listed[j + 1].wallet = receipt'[j]
          /\ listed[j + 1].amount > 0
    BY <1>1, <1>2, <1>4 DEF ReceiptsListed
  <2> QED BY <1>1, <1>5, <2>1 DEF ReceiptsListed
<1>8. /\ SumFunction(PaidOut(listed, receipt')) = SumFunction(PaidOut(listed, receipt)) + n
      /\ SumFunction(PaidTo(w, listed, receipt'))
           = SumFunction(PaidTo(w, listed, receipt)) + n
      /\ \A v \in Claimers \ {w} : PaidTo(v, listed, receipt') = PaidTo(v, listed, receipt)
  <2> DEFINE r2 == receipt'
             l == listed
  <2> SUFFICES /\ SumFunction(PaidOut(l, r2)) = SumFunction(PaidOut(l, receipt)) + n
               /\ SumFunction(PaidTo(w, l, r2)) = SumFunction(PaidTo(w, l, receipt)) + n
               /\ \A v \in Claimers \ {w} : PaidTo(v, l, r2) = PaidTo(v, l, receipt)
    OBVIOUS
  <2>1. /\ r2 = [receipt EXCEPT ![i] = w] /\ IsList(l) /\ i < Len(l)
        /\ receipt[i] = NoClaimer
    BY <1>1, <1>2, <1>3
  <2>2. l[i + 1].amount = n
    BY <1>2
  <2> HIDE DEF r2, l
  <2>3. Pays(l, receipt, r2, i, w)
    BY <1>4, <2>1, OnePaid
  <2> QED BY <2>2, <2>3 DEF Pays
<1>9. /\ SumFunction(received) \in Int /\ SumFunction(received') = SumFunction(received) + n
      /\ received'[w] = received[w] + n
      /\ \A v \in Claimers \ {w} : received'[v] = received[v]
  <2> DEFINE g == received'
  <2>1. /\ IsFiniteSet(Claimers) /\ g \in [Claimers -> Int] /\ n \in Int
        /\ g[w] = received[w] + n /\ \A v \in Claimers \ {w} : g[v] = received[v]
    BY <1>1, <1>3, <1>4, ClaimConstants
  <2> SUFFICES /\ SumFunction(received) \in Int
               /\ SumFunction(g) = SumFunction(received) + n
    BY <2>1
  <2> HIDE DEF g
  <2> QED BY <1>4, <2>1, SumMoves
<1>10. PaymentsAddUp'
  <2>1. claimVault' = airdrop'.airdrop_amount - airdrop'.amount_claimed
    <3>1. claimVault = airdrop.airdrop_amount - airdrop.amount_claimed
      BY <1>1 DEF PaymentsAddUp
    <3> QED BY <1>1, <1>3, <1>4, <1>5, <3>1
  <2>2. SumFunction(received') = airdrop'.amount_claimed
        /\ SumFunction(PaidOut(listed', receipt')) = airdrop'.amount_claimed
    BY <1>1, <1>5, <1>8, <1>9 DEF PaymentsAddUp
  <2>3. \A v \in Claimers : SumFunction(PaidTo(v, listed', receipt')) = received'[v]
    <3> SUFFICES ASSUME NEW v \in Claimers
                 PROVE  SumFunction(PaidTo(v, listed', receipt')) = received'[v]
      OBVIOUS
    <3>1. SumFunction(PaidTo(v, listed, receipt)) = received[v]
      BY <1>1 DEF PaymentsAddUp
    <3>2. CASE v = w
      BY <1>1, <1>8, <1>9, <3>1, <3>2
    <3>3. CASE v # w
      <4>1. PaidTo(v, listed, receipt') = PaidTo(v, listed, receipt)
            /\ received'[v] = received[v]
        BY <1>8, <1>9, <3>3
      <4> QED BY <1>1, <3>1, <4>1
    <3> QED BY <3>2, <3>3
  <2> QED BY <2>1, <2>2, <2>3 DEF PaymentsAddUp
<1> QED BY <1>6, <1>7, <1>10 DEF ClaimOK

LEMMA ClaimKeeps ==
  ASSUME ClaimOK, ClaimNext
  PROVE  ClaimOK'
<1>1. CASE \E t \in Trees, n \in AirdropAmounts : InitializeAirdropData(t, n)
  BY <1>1, InitializeAirdropKeeps
<1>2. CASE \E t \in Trees : UpdateTree(t)
  BY <1>2, UpdateTreeKeeps
<1>3. CASE \E w \in Claimers, n \in ListedAmounts, hashes \in Proofs, i \in 0 .. MaxIndex :
             ClaimAirdrop(w, n, hashes, i)
  BY <1>3, ClaimAirdropKeeps
<1> QED BY <1>1, <1>2, <1>3 DEF ClaimNext

(***************************************************************************)
(* The airdrop: what follows.                                              *)
(***************************************************************************)

\* A wallet has received what some of the entries that list it add up to.
LEMMA ClaimsPaidAsListed == ClaimOK => PaidAsListed
<1> SUFFICES ASSUME ClaimOK, NEW w \in Claimers PROVE received[w] <= ListedFor(w)
  BY DEF PaidAsListed
<1> DEFINE S == DOMAIN listed
           f == PaidTo(w, listed, receipt)
           g == [i \in S |-> IF listed[i].wallet = w THEN listed[i].amount ELSE 0]
<1>1. IsList(listed)
  BY ListedTyped
<1>2. /\ \A i \in S : listed[i].amount \in Nat
      /\ \A i \in S : i - 1 \in 0 .. MaxIndex /\ (i - 1) + 1 = i
  BY <1>1, ClaimConstants DEF IsList
<1>3. IsFiniteSet(S) /\ f \in [S -> Nat] /\ g \in [S -> Nat]
  <2>1. IsFiniteSet(S) /\ f \in [S -> Nat]
    BY <1>1, PaymentsTyped
  <2> QED BY <1>2, <2>1
<1>4. \A i \in S : f[i] <= g[i]
  <2> SUFFICES ASSUME NEW i \in S PROVE f[i] <= g[i]
    OBVIOUS
  <2>1. CASE receipt[i - 1] = w
    <3>1. receipt[i - 1] # NoClaimer
      BY <2>1, ClaimConstants
    <3>2. listed[i].wallet = w
      BY <1>2, <2>1, <3>1 DEF ClaimOK, ReceiptsListed
    <3> QED BY <1>2, <2>1, <3>2 DEF PaidTo
  <2>2. CASE receipt[i - 1] # w
    BY <1>2, <2>2 DEF PaidTo
  <2> QED BY <2>1, <2>2
<1>5. SumFunction(f) = received[w]
  BY DEF ClaimOK, PaymentsAddUp
<1>6. SumFunction(g) = ListedFor(w)
  BY DEF ListedFor
<1> HIDE DEF f, g, S
<1>7. SumFunction(f) <= SumFunction(g)
  BY <1>3, <1>4, SumMonotone
<1> QED BY <1>5, <1>6, <1>7

\* The vault holds what the airdrop has not paid.
LEMMA ClaimsAreCovered == ClaimOK => ClaimsCovered
<1> SUFFICES ASSUME ClaimOK PROVE ClaimsCovered
  OBVIOUS
<1>1. claimVault \in Nat
  BY DEF ClaimOK, ClaimTypeOK
<1> QED BY <1>1 DEF ClaimOK, PaymentsAddUp, ClaimsCovered

\* An entry without a receipt can still be claimed: its proof leads to the root, and the
\* entries already paid leave its amount.
LEMMA ListedStillClaim == ClaimOK => ListedCanClaim
<1> SUFFICES ASSUME ClaimOK, airdrop.open, TotalAmount(listed) <= airdrop.airdrop_amount,
                    NEW x \in DOMAIN listed, listed[x].amount > 0,
                    receipt[x - 1] = NoClaimer
             PROVE  CanClaim(listed[x].wallet, listed[x].amount, Proof(listed, x - 1),
                             x - 1)
  BY DEF ListedCanClaim
<1> DEFINE S == DOMAIN listed
           n == listed[x].amount
           f == PaidOut(listed, receipt)
           g == [i \in S |-> IF i = x THEN n ELSE f[i]]
           h == [i \in S |-> listed[i].amount]
<1>1. IsList(listed) /\ IsTree(listed) /\ airdrop.merkle_root = Root(listed)
  BY ListsTyped DEF ClaimOK, ReceiptsListed
<1>2. /\ \A i \in S : listed[i].amount \in Nat
      /\ x \in 1 .. Len(listed) /\ n \in Nat
  BY <1>1 DEF IsTree
<1>3. /\ IsFiniteSet(S) /\ f \in [S -> Nat] /\ f \in [S -> Int] /\ x \in S
      /\ f[x] = 0 /\ n \in Int
  <2>1. f[x] = 0
    BY DEF PaidOut
  <2> QED BY <1>1, <1>2, <2>1, PaymentsTyped
<1>4. g \in [S -> Nat] /\ g \in [S -> Int] /\ h \in [S -> Nat]
      /\ g[x] = n /\ \A i \in S \ {x} : g[i] = f[i]
  <2> HIDE DEF f
  <2> QED BY <1>2, <1>3
<1>5. \A i \in S : g[i] <= h[i]
  BY <1>2 DEF PaidOut
<1>6. SumFunction(f) = airdrop.amount_claimed
  BY DEF ClaimOK, PaymentsAddUp
<1>7. SumFunction(h) = TotalAmount(listed)
  BY DEF TotalAmount
<1>8. airdrop.amount_claimed + n <= airdrop.airdrop_amount
  <2> HIDE DEF S, n, f, g, h
  <2>1. g[x] = f[x] + n
    BY <1>3, <1>4
  <2>2. SumFunction(f) \in Int /\ SumFunction(g) = SumFunction(f) + n
    BY <1>3, <1>4, <2>1, SumMoves
  <2>3. SumFunction(g) <= SumFunction(h) /\ SumFunction(h) \in Nat
    BY <1>3, <1>4, <1>5, SumMonotone
  <2>4. airdrop.airdrop_amount \in Nat
    BY DEF ClaimOK, ClaimTypeOK
  <2> QED BY <1>3, <1>6, <1>7, <2>2, <2>3, <2>4
<1>9. n <= claimVault
  <2>1. claimVault = airdrop.airdrop_amount - airdrop.amount_claimed
        /\ airdrop.airdrop_amount \in Nat /\ airdrop.amount_claimed \in Nat
    BY DEF ClaimOK, ClaimTypeOK, PaymentsAddUp
  <2> HIDE DEF n
  <2> QED BY <1>3, <1>8, <2>1
<1>10. LET leaf == HashLeaf(listed[x].wallet, n)
           climbed == ComputedRoot(leaf, Proof(listed, x - 1), x - 1)
       IN  climbed.hash = Root(listed) /\ climbed.index = 0
  BY <1>1, <1>2, ListedClimbs
<1> QED BY <1>1, <1>8, <1>9, <1>10 DEF CanClaim, Authentic

(***************************************************************************)
(* The five together.                                                      *)
(***************************************************************************)

TokensOK == SwapOK /\ FundOK /\ ClaimOK /\ DelegateOK /\ FeeOK

LEMMA TokensStart == Init => TokensOK
BY SwapStarts, FundStarts, ClaimStarts, DelegateStarts, FeeStarts DEF Init, TokensOK

LEMMA TokensKeep == TokensOK /\ [Next]_programVars => TokensOK'
<1> SUFFICES ASSUME TokensOK, [Next]_programVars PROVE TokensOK'
  OBVIOUS
<1>0. SwapOK /\ FundOK /\ ClaimOK /\ DelegateOK /\ FeeOK
  BY DEF TokensOK
<1>1. UNCHANGED swapVars => SwapOK'
  BY <1>0, SwapIdle
<1>2. UNCHANGED fundVars => FundOK'
  BY <1>0, FundIdle
<1>3. UNCHANGED claimVars => ClaimOK'
  BY <1>0, ClaimIdle
<1>4. UNCHANGED delegateVars => DelegateOK'
  BY <1>0, DelegateIdle
<1>5. UNCHANGED feeVars => FeeOK'
  BY <1>0, FeeIdle
<1>6. CASE UNCHANGED programVars
  <2>1. /\ UNCHANGED swapVars /\ UNCHANGED fundVars /\ UNCHANGED claimVars
        /\ UNCHANGED delegateVars /\ UNCHANGED feeVars
    BY <1>6 DEF programVars
  <2> QED BY <1>1, <1>2, <1>3, <1>4, <1>5, <2>1 DEF TokensOK
<1>7. CASE SwapNext /\ UNCHANGED <<fundVars, claimVars, delegateVars, feeVars>>
  <2>1. SwapOK'
    BY <1>0, <1>7, SwapKeeps
  <2> QED BY <1>2, <1>3, <1>4, <1>5, <1>7, <2>1 DEF TokensOK
<1>8. CASE FundNext /\ UNCHANGED <<swapVars, claimVars, delegateVars, feeVars>>
  <2>1. FundOK'
    BY <1>0, <1>8, FundKeeps
  <2> QED BY <1>1, <1>3, <1>4, <1>5, <1>8, <2>1 DEF TokensOK
<1>9. CASE ClaimNext /\ UNCHANGED <<swapVars, fundVars, delegateVars, feeVars>>
  <2>1. ClaimOK'
    BY <1>0, <1>9, ClaimKeeps
  <2> QED BY <1>1, <1>2, <1>4, <1>5, <1>9, <2>1 DEF TokensOK
<1>10. CASE DelegateNext /\ UNCHANGED <<swapVars, fundVars, claimVars, feeVars>>
  <2>1. DelegateOK'
    BY <1>0, <1>10, DelegateKeeps
  <2> QED BY <1>1, <1>2, <1>3, <1>5, <1>10, <2>1 DEF TokensOK
<1>11. CASE FeeNext /\ UNCHANGED <<swapVars, fundVars, claimVars, delegateVars>>
  <2>1. FeeOK'
    BY <1>0, <1>11, FeeKeeps
  <2> QED BY <1>1, <1>2, <1>3, <1>4, <1>11, <2>1 DEF TokensOK
<1> QED BY <1>6, <1>7, <1>8, <1>9, <1>10, <1>11 DEF Next

LEMMA TokensHold == Spec => []TokensOK
BY TokensStart, TokensKeep, PTL DEF Spec

\* What a program owes it holds, for any wallets, pools, amounts and snapshots: shares
\* stay backed by the geometric mean through every rounded deposit, withdrawal and swap;
\* a first fundraiser can pay all refunds; an airdrop has what is left to claim, and no
\* wallet gets more than the tree lists for it, whatever proofs and indices are passed;
\* and tokens and withheld fees add up to what was issued.
THEOREM TokensSolvent == Spec => []Solvent
<1>1. TokensOK => Solvent
  <2> SUFFICES ASSUME TokensOK PROVE Solvent
    OBVIOUS
  <2>1. SwapOK /\ FundOK /\ ClaimOK /\ DelegateOK /\ FeeOK
    BY DEF TokensOK
  <2>2. TypeOK
    BY <2>1 DEF TypeOK, SwapOK, FundOK, ClaimOK, DelegateOK, FeeOK
  <2>3. SharesBacked /\ PaidAsListed /\ ClaimsCovered
    BY <2>1, SharesAreBacked, ClaimsPaidAsListed, ClaimsAreCovered
  <2>4. RefundsCovered /\ FeesKept
    BY <2>1 DEF FundOK, FeeOK
  <2> QED BY <2>2, <2>3, <2>4 DEF Solvent
<1> QED BY <1>1, TokensHold, PTL

\* The check that ends a swap refuses none that the earlier ones let through, at any fee
\* and in any pool; a deposit takes no more of a side than it was offered; and the fee in
\* force was announced two epochs before, or with the mint.
THEOREM TermsAreFair == Spec => []FairTerms
<1>1. TokensOK => FairTerms
  BY NoneRejected, OfferKept, InForceKnown DEF TokensOK, FairTerms
<1> QED BY <1>1, TokensHold, PTL

\* A signature moves tokens of a user account at most once, however often the key on
\* record changes, and an account's nonce is the number of signed transfers it made.
THEOREM SignedOnlyOnce == Spec => []SignedOnce
<1>1. TokensOK => SignedOnce
  BY SignedSums DEF TokensOK
<1> QED BY <1>1, TokensHold, PTL

\* Every contributor of a failed first fundraiser can take back what it gave, and every
\* entry of the tree that is not yet claimed can be, with the proof the tool made for it,
\* in a tree of any size.
THEOREM NobodyIsShutOut == Spec => []NobodyShutOut
<1>1. TokensOK => NobodyShutOut
  BY NobodyIsLocked, ListedStillClaim DEF TokensOK, NobodyShutOut
<1> QED BY <1>1, TokensHold, PTL
=============================================================================
