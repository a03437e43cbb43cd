----------------------------- MODULE HookProofs -----------------------------
(***************************************************************************)
(* Proofs about the transfer hooks: what a mint's metadata decodes to,     *)
(* that records kept twice agree, and that tokens move only as permitted.  *)
(***************************************************************************)
EXTENDS TransferHooks, SumLemmas

-----------------------------------------------------------------------------
(* The decoder as a sequence of steps.                                        *)

Start == [mode |-> "Allow", threshold |-> 0, returned |-> FALSE]
Accs == [mode: Modes, threshold: Nat, returned: BOOLEAN]

\* g is the function on sets of positions that the fold of decode_metadata recurses
\* through.
DecodesTo(g, fields) ==
  g = [s \in SUBSET DOMAIN fields |->
         IF s = {} THEN Start ELSE DecodeStep(g[s \ {Max(s)}], fields[Max(s)])]

LEMMA DecodeStepType ==
  ASSUME NEW acc \in Accs, NEW field \in Fields
  PROVE  DecodeStep(acc, field) \in Accs
<1> USE DEF DecodeStep, Accs
<1>1. CASE acc.returned
  BY <1>1
<1>2. CASE ~ acc.returned /\ field.key = "AB"
  <2>1. field.value \in Modes
    BY <1>2 DEF Fields
  <2>2. (field.value # "Mixed" \/ acc.threshold > 0) \in BOOLEAN
    OBVIOUS
  <2> QED BY <1>2, <2>1, <2>2
<1>3. CASE ~ acc.returned /\ field.key # "AB"
  <2>1. field.value \in Nat
    BY <1>3 DEF Fields
  <2>2. (field.value > 0) \in BOOLEAN
    OBVIOUS
  <2>3. (IF field.value > 0 THEN "Mixed" ELSE acc.mode) \in Modes
    BY DEF Modes
  <2> QED BY <1>3, <2>1, <2>2, <2>3
<1> QED BY <1>1, <1>2, <1>3

LEMMA MaxIn ==
  ASSUME NEW n \in Nat, NEW s \in SUBSET (1 .. n), s # {}
  PROVE  Max(s) \in s /\ \A i \in s : i <= Max(s)
<1> DEFINE R == {n - i : i \in s}
<1>1. IsFiniteSet(R) /\ R # {} /\ R \subseteq Int
  <2>1. IsFiniteSet(0 .. n)
    BY FS_Interval
  <2>2. R \subseteq 0 .. n /\ R # {}
    <3>1. \A i \in s : n - i \in 0 .. n
      OBVIOUS
    <3>2. PICK i \in s : TRUE
      OBVIOUS
    <3>3. n - i \in R
      OBVIOUS
    <3> QED BY <3>1, <3>3
  <2>3. IsFiniteSet(R)
    <3> HIDE DEF R
    <3> QED BY <2>1, <2>2, FS_Subset
  <2> QED BY <2>2, <2>3
<1>2. PICK x \in R : \A y \in R : x <= y
  <2> HIDE DEF R
  <2> QED BY <1>1, LeastMember
<1>3. PICK m \in s : x = n - m
  BY <1>2
<1>4. \A i \in s : m >= i
  <2> SUFFICES ASSUME NEW i \in s PROVE m >= i
    OBVIOUS
  <2>1. n - i \in R
    OBVIOUS
  <2>2. n - m <= n - i
    BY <1>2, <1>3, <2>1
  <2>3. n \in Int /\ m \in Int /\ i \in Int
    OBVIOUS
  <2> HIDE DEF R
  <2> QED BY <2>2, <2>3
<1>5. \A i \in s : Max(s) >= i
  BY <1>4 DEF Max
<1>6. Max(s) \in s
  BY <1>4 DEF Max
<1> QED BY <1>5, <1>6

LEMMA DecodesExist ==
  ASSUME NEW fields \in Seq(Fields)
  PROVE  \E g : DecodesTo(g, fields)
<1> DEFINE D == DOMAIN fields
           n == Len(fields)
           F == [p \in D \X Accs |-> DecodeStep(p[2], fields[p[1]])]
           M == [s \in SUBSET D |-> Max(s)]
<1>1. n \in Nat /\ D = 1 .. n
  OBVIOUS
<1>2. IsFiniteSet(D)
  BY <1>1, FS_Interval
<1>3. \A s \in SUBSET D : s # {} => M[s] \in s
  <2> SUFFICES ASSUME NEW s \in SUBSET D, s # {} PROVE M[s] \in s
    OBVIOUS
  <2>1. s \in SUBSET (1 .. n)
    BY <1>1
  <2>2. Max(s) \in s
    <3> HIDE DEF n
    <3> QED BY <1>1, <2>1, MaxIn
  <2> QED BY <2>2
<1>4. PICK g : RecursTo(g, Start, F, M, D)
  <2> HIDE DEF F, M, D
  <2> QED BY <1>2, <1>3, RecursExists
<1> DEFINE G == {s \in SUBSET D : g[s] \in Accs}
<1>5. ASSUME NEW s \in SUBSET D, s # {}, s \ {M[s]} \in G
      PROVE  g[s] = DecodeStep(g[s \ {Max(s)}], fields[Max(s)]) /\ g[s] \in Accs
  <2> DEFINE x == M[s]
             r == g[s \ {M[s]}]
  <2>1. g[s] = F[<<x, r>>]
    <3> HIDE DEF F, M, D
    <3> QED BY <1>4, <1>5, RecursStep
  <2>2. x \in D /\ r \in Accs /\ x = Max(s)
    BY <1>3, <1>5
  <2>3. F[<<x, r>>] = DecodeStep(r, fields[x])
    <3> HIDE DEF x, r
    <3> QED BY <2>2
  <2>4. fields[x] \in Fields
    <3> HIDE DEF x
    <3> QED BY <2>2
  <2>5. DecodeStep(r, fields[x]) \in Accs
    <3> HIDE DEF x, r
    <3> QED BY <2>2, <2>4, DecodeStepType
  <2> QED BY <2>1, <2>2, <2>3, <2>5
<1>6. \A s \in SUBSET D : s \in G
  <2>1. ASSUME NEW s \in SUBSET D, \A u \in SUBSET s : u # s => u \in G
        PROVE  s \in G
    <3>1. CASE s = {}
      <4>1. g[{}] = Start
        <5> HIDE DEF F, M, D
        <5> QED BY <1>4, RecursBase
      <4>2. Start \in Accs
        BY DEF Start, Accs, Modes
      <4> QED BY <3>1, <4>1, <4>2
    <3>2. CASE s # {}
      <4>1. M[s] \in s
        BY <1>3, <3>2
      <4>2. s \ {M[s]} \in G
        <5> HIDE DEF G, M
        <5> QED BY <2>1, <4>1
      <4>3. g[s] \in Accs
        <5> HIDE DEF G, M
        <5> QED BY <1>5, <3>2, <4>2
      <4> QED BY <4>3
    <3> QED BY <3>1, <3>2
  <2> HIDE DEF G, D
  <2> QED BY <1>2, <2>1, SubsetInduction
<1> DEFINE B(s) == IF s = {} THEN Start
                   ELSE DecodeStep(g[s \ {Max(s)}], fields[Max(s)])
<1>7. \A s \in SUBSET D : g[s] = B(s)
  <2> SUFFICES ASSUME NEW s \in SUBSET D PROVE g[s] = B(s)
    OBVIOUS
  <2>1. CASE s = {}
    <3>1. g[{}] = Start
      <4> HIDE DEF F, M, D
      <4> QED BY <1>4, RecursBase
    <3> QED BY <2>1, <3>1
  <2>2. CASE s # {}
    <3>1. s \ {M[s]} \in G
      <4>1. s \ {M[s]} \in SUBSET D
        OBVIOUS
      <4> HIDE DEF G, M
      <4> QED BY <1>6, <4>1
    <3>2. g[s] = DecodeStep(g[s \ {Max(s)}], fields[Max(s)])
      <4> HIDE DEF G, M
      <4> QED BY <1>5, <2>2, <3>1
    <3> QED BY <2>2, <3>2
  <2> QED BY <2>1, <2>2
<1>8. g = [s \in SUBSET D |-> g[s]]
  BY <1>4 DEF RecursTo
<1>9. g = [s \in SUBSET D |-> B(s)]
  <2> HIDE DEF B, D
  <2> QED BY <1>7, <1>8
<1> QED BY <1>9 DEF DecodesTo

\* decode_metadata ends where its steps end, one field after another.
LEMMA DecodeRuns ==
  ASSUME NEW fields \in Seq(Fields)
  PROVE  \E acc : /\ acc[0] = Start
                  /\ \A i \in 1 .. Len(fields) : acc[i] = DecodeStep(acc[i - 1], fields[i])
                  /\ FoldLeft(DecodeStep, Start, fields) = acc[Len(fields)]
<1> DEFINE g == CHOOSE h : DecodesTo(h, fields)
           n == Len(fields)
           acc == [i \in 0 .. n |-> g[1 .. i]]
<1>1. DecodesTo(g, fields)
  BY DecodesExist
<1>2. FoldLeft(DecodeStep, Start, fields) = g[DOMAIN fields]
  BY DEF FoldLeft, MapThenFoldSet, DecodesTo
<1>3. n \in Nat /\ DOMAIN fields = 1 .. n
  OBVIOUS
<1> HIDE DEF g
<1> DEFINE r == [s \in SUBSET DOMAIN fields |->
                   IF s = {} THEN Start
                   ELSE DecodeStep(g[s \ {Max(s)}], fields[Max(s)])]
<1>4. g = r
  BY <1>1 DEF DecodesTo
<1>5. acc[0] = Start
  <2>1. 1 .. 0 = {} /\ {} \in SUBSET DOMAIN fields
    OBVIOUS
  <2>2. r[{}] = Start
    OBVIOUS
  <2>3. acc[0] = g[1 .. 0]
    BY <1>3
  <2> QED BY <1>4, <2>1, <2>2, <2>3
<1>6. ASSUME NEW i \in 1 .. n PROVE acc[i] = DecodeStep(acc[i - 1], fields[i])
  <2> DEFINE s == 1 .. i
  <2>0. i \in s /\ s \in SUBSET (1 .. n) /\ i - 1 \in 0 .. n /\ i \in 0 .. n
    BY <1>3
  <2>1. Max(s) \in s /\ i <= Max(s)
    <3> HIDE DEF s, n
    <3> QED BY <1>3, <2>0, MaxIn
  <2>2. Max(s) = i
    BY <2>1
  <2>3. s \ {i} = 1 .. i - 1
    BY <1>3
  <2>4. r[s] = DecodeStep(g[s \ {Max(s)}], fields[Max(s)])
    <3> HIDE DEF s
    <3> QED BY <1>3, <2>0
  <2>5. g[s] = DecodeStep(g[1 .. i - 1], fields[i])
    BY <1>4, <2>2, <2>3, <2>4
  <2>6. acc[i] = g[1 .. i] /\ acc[i - 1] = g[1 .. i - 1]
    BY <2>0
  <2> QED BY <2>5, <2>6
<1>7. acc[n] = g[1 .. n]
  BY <1>3
<1>8. acc[n] = g[DOMAIN fields]
  BY <1>3, <1>7
<1> HIDE DEF acc, n
<1>9. /\ acc[0] = Start
      /\ \A i \in 1 .. n : acc[i] = DecodeStep(acc[i - 1], fields[i])
      /\ FoldLeft(DecodeStep, Start, fields) = acc[n]
  BY <1>2, <1>5, <1>6, <1>8
<1> QED BY <1>9 DEF n

-----------------------------------------------------------------------------
(* What a rewritten mint's metadata says, and what that decodes to.           *)

Keyed(fields, key) == \E i \in DOMAIN fields : fields[i].key = key
Says(fields, key, value) ==
  \A i \in DOMAIN fields : fields[i].key = key => fields[i].value = value

\* Fields that ask for this mode and threshold, in any order.
Written(fields, mode, threshold) ==
  /\ Keyed(fields, "AB") /\ Says(fields, "AB", mode) /\ Says(fields, "threshold", threshold)
  /\ IF mode = "Mixed" THEN Keyed(fields, "threshold") ELSE threshold = 0

\* Which keys are among the first i fields.
Seen(fields, key, i) == \E j \in 1 .. i : fields[j].key = key

\* Where the decoder is after i fields.
AtField(acc, fields, mode, threshold, i) ==
  /\ acc \in Accs
  /\ threshold = 0 =>
       /\ acc.threshold = 0
       /\ acc.mode = IF Seen(fields, "AB", i) THEN mode ELSE "Allow"
       /\ acc.returned => Seen(fields, "AB", i)
  /\ threshold > 0 =>
       /\ acc.threshold = IF Seen(fields, "threshold", i) THEN threshold ELSE 0
       /\ acc.mode = IF Seen(fields, "AB", i) \/ Seen(fields, "threshold", i)
                     THEN "Mixed" ELSE "Allow"
       /\ acc.returned => Seen(fields, "threshold", i)

LEMMA SeenNext ==
  ASSUME NEW n \in Nat, NEW i \in 1 .. n, NEW fields, NEW key
  PROVE  Seen(fields, key, i) <=> Seen(fields, key, i - 1) \/ fields[i].key = key
<1>1. 1 .. i = (1 .. i - 1) \cup {i}
  OBVIOUS
<1> QED BY <1>1 DEF Seen

LEMMA FieldKey ==
  ASSUME NEW field \in Fields
  PROVE  \/ field.key = "AB" /\ field.value \in Modes
         \/ field.key = "threshold" /\ field.value \in Nat
BY DEF Fields

LEMMA AtNextField ==
  ASSUME NEW fields \in Seq(Fields), NEW mode \in Modes, NEW threshold \in Nat,
         Written(fields, mode, threshold),
         NEW i \in 1 .. Len(fields), NEW acc, AtField(acc, fields, mode, threshold, i - 1)
  PROVE  AtField(DecodeStep(acc, fields[i]), fields, mode, threshold, i)
<1> DEFINE field == fields[i]
           after == DecodeStep(acc, field)
           n == Len(fields)
<1> SUFFICES AtField(after, fields, mode, threshold, i)
  OBVIOUS
<1>1. n \in Nat /\ i \in 1 .. n /\ i \in DOMAIN fields /\ field \in Fields
  OBVIOUS
<1>2. acc \in Accs /\ after \in Accs
  <2>1. acc \in Accs
    BY DEF AtField
  <2> QED BY <1>1, <2>1, DecodeStepType
<1>3. \A key : Seen(fields, key, i) <=> Seen(fields, key, i - 1) \/ field.key = key
  <2> HIDE DEF n
  <2> QED BY <1>1, SeenNext
<1>4. CASE field.key = "AB"
  <2>1. field.value = mode
    BY <1>1, <1>4 DEF Written, Says
  <2>2. /\ Seen(fields, "AB", i)
        /\ Seen(fields, "threshold", i) <=> Seen(fields, "threshold", i - 1)
    BY <1>3, <1>4
  <2>3. CASE acc.returned
    <3>1. after = acc
      BY <2>3 DEF DecodeStep
    <3> HIDE DEF after
    <3> QED BY <1>1, <1>2, <2>2, <2>3, <3>1 DEF AtField
  <2>4. CASE ~ acc.returned
    <3>1. after = [acc EXCEPT !.mode = mode,
                              !.returned = mode # "Mixed" \/ acc.threshold > 0]
      BY <1>4, <2>1, <2>4 DEF DecodeStep
    <3>2. /\ after.mode = mode /\ after.threshold = acc.threshold
          /\ after.returned <=> mode # "Mixed" \/ acc.threshold > 0
      <4> HIDE DEF after
      <4> QED BY <1>2, <3>1 DEF Accs
    <3>3. threshold > 0 => mode = "Mixed"
      BY DEF Written
    <3> HIDE DEF after
    <3>4. CASE threshold = 0
      BY <1>2, <2>2, <3>2, <3>4 DEF AtField
    <3>5. CASE threshold > 0
      <4>1. acc.threshold = IF Seen(fields, "threshold", i - 1) THEN threshold ELSE 0
        BY <3>5 DEF AtField
      <4> QED BY <1>2, <2>2, <3>2, <3>3, <3>5, <4>1 DEF AtField
    <3> QED BY <3>4, <3>5
  <2> QED BY <2>3, <2>4
<1>5. CASE field.key = "threshold"
  <2>1. field.value = threshold
    BY <1>1, <1>5 DEF Written, Says
  <2>2. /\ Seen(fields, "threshold", i)
        /\ Seen(fields, "AB", i) <=> Seen(fields, "AB", i - 1)
    BY <1>3, <1>5
  <2>3. CASE acc.returned
    <3>1. after = acc
      BY <2>3 DEF DecodeStep
    <3> HIDE DEF after
    <3> QED BY <1>1, <1>2, <2>2, <2>3, <3>1 DEF AtField
  <2>4. CASE ~ acc.returned
    <3>1. after = [acc EXCEPT !.threshold = threshold,
                              !.mode = IF threshold > 0 THEN "Mixed" ELSE @,
                              !.returned = threshold > 0]
      BY <1>5, <2>1, <2>4 DEF DecodeStep
    <3>2. /\ after.mode = IF threshold > 0 THEN "Mixed" ELSE acc.mode
          /\ after.threshold = threshold
          /\ after.returned <=> threshold > 0
      <4> HIDE DEF after
      <4> QED BY <1>2, <3>1 DEF Accs
    <3> HIDE DEF after
    <3>3. CASE threshold = 0
      BY <1>2, <2>2, <3>2, <3>3 DEF AtField
    <3>4. CASE threshold > 0
      BY <1>2, <2>2, <3>2, <3>4 DEF AtField
    <3> QED BY <3>3, <3>4
  <2> QED BY <2>3, <2>4
<1> QED BY <1>1, <1>4, <1>5, FieldKey

\* Whichever key was written first, the hook reads what was written.
LEMMA WrittenDecodes ==
  ASSUME NEW fields \in Seq(Fields), NEW mode \in Modes, NEW threshold \in Nat,
         Written(fields, mode, threshold)
  PROVE  DecodeMetadata(fields)
           = Decoded(IF mode = "Mixed" THEN "Threshold" ELSE mode, threshold)
<1> DEFINE n == Len(fields)
<1>1. n \in Nat /\ DOMAIN fields = 1 .. n
  OBVIOUS
<1>2. PICK acc : /\ acc[0] = Start
                 /\ \A i \in 1 .. n : acc[i] = DecodeStep(acc[i - 1], fields[i])
                 /\ FoldLeft(DecodeStep, Start, fields) = acc[n]
  BY DecodeRuns
<1> DEFINE G == {i \in 0 .. n : AtField(acc[i], fields, mode, threshold, i)}
<1>3. 0 \in G
  <2>1. \A key : ~ Seen(fields, key, 0)
    BY DEF Seen
  <2>2. Start \in Accs /\ Start.threshold = 0 /\ Start.mode = "Allow" /\ ~ Start.returned
    BY DEF Start, Accs, Modes
  <2>3. AtField(Start, fields, mode, threshold, 0)
    BY <2>1, <2>2 DEF AtField
  <2> QED BY <1>1, <1>2, <2>3
<1>4. ASSUME NEW i \in 0 .. n - 1, i \in G PROVE i + 1 \in G
  <2> DEFINE k == i + 1
  <2>1. k \in 1 .. n /\ k - 1 = i /\ k \in 0 .. n
    BY <1>1
  <2>2. AtField(acc[k - 1], fields, mode, threshold, k - 1)
    BY <1>4, <2>1
  <2>3. acc[k] = DecodeStep(acc[k - 1], fields[k])
    BY <1>2, <2>1
  <2>4. AtField(acc[k], fields, mode, threshold, k)
    <3> HIDE DEF k, G
    <3> QED BY <2>1, <2>2, <2>3, AtNextField
  <2> QED BY <2>1, <2>4
<1>5. n \in G
  <2>1. \A i \in 0 .. n : i \in G
    <3> HIDE DEF G, n
    <3> QED BY <1>1, <1>3, <1>4, Stepwise
  <2> QED BY <1>1, <2>1
<1>6. AtField(acc[n], fields, mode, threshold, n)
  BY <1>5
<1>7. \A key : Seen(fields, key, n) <=> Keyed(fields, key)
  BY <1>1 DEF Seen, Keyed
<1>8. DecodeMetadata(fields) = IF acc[n].mode = "Mixed"
                               THEN Decoded("Threshold", acc[n].threshold)
                               ELSE Decoded(acc[n].mode, 0)
  <2>1. FoldLeft(DecodeStep, [mode |-> "Allow", threshold |-> 0, returned |-> FALSE], fields)
          = acc[n]
    BY <1>2 DEF Start
  <2> QED BY <2>1 DEF DecodeMetadata
<1> HIDE DEF n, G
<1>9. CASE threshold = 0
  <2>1. acc[n].mode = mode /\ acc[n].threshold = 0
    BY <1>6, <1>7, <1>9 DEF AtField, Written
  <2> QED BY <1>8, <1>9, <2>1
<1>10. CASE threshold > 0
  <2>1. mode = "Mixed" /\ Keyed(fields, "threshold")
    BY <1>10 DEF Written
  <2>2. acc[n].mode = "Mixed" /\ acc[n].threshold = threshold
    BY <1>6, <1>7, <1>10, <2>1 DEF AtField
  <2> QED BY <1>8, <2>1, <2>2
<1> QED BY <1>9, <1>10

\* Updating a field writes every field under the key, adds one if there was none, and
\* touches no other.
LEMMA UpdatedIs ==
  ASSUME NEW fields \in Seq(Fields), NEW key, NEW value, Field(key, value) \in Fields,
         NEW after, after = Updated(fields, key, value)
  PROVE  /\ after \in Seq(Fields)
         /\ Keyed(after, key) /\ Says(after, key, value)
         /\ \A other, v : other # key =>
              /\ Says(fields, other, v) => Says(after, other, v)
              /\ Keyed(fields, other) <=> Keyed(after, other)
<1> DEFINE new == Field(key, value)
           n == Len(fields)
<1>0. n \in Nat /\ DOMAIN fields = 1 .. n /\ \A i \in 1 .. n : fields[i] \in Fields
  OBVIOUS
<1>1. new \in Fields /\ new.key = key /\ new.value = value
  BY DEF Field
<1>2. CASE Keyed(fields, key)
  <2>1. after = [i \in DOMAIN fields |-> IF fields[i].key = key THEN new ELSE fields[i]]
    BY <1>2 DEF Updated, Keyed
  <2> HIDE DEF new, n
  <2>2. DOMAIN after = 1 .. n
    BY <1>0, <2>1
  <2>3. \A i \in 1 .. n : after[i] = IF fields[i].key = key THEN new ELSE fields[i]
    BY <1>0, <2>1
  <2>4. after \in Seq(Fields)
    <3>1. \A i \in 1 .. n : after[i] \in Fields
      BY <1>0, <1>1, <2>3
    <3>2. after \in [1 .. n -> Fields]
      BY <1>0, <2>1, <3>1
    <3> QED BY <1>0, <3>2
  <2>5. Keyed(after, key) /\ Says(after, key, value)
    BY <1>0, <1>1, <1>2, <2>2, <2>3 DEF Keyed, Says
  <2>6. ASSUME NEW other, NEW v, other # key
        PROVE  /\ Says(fields, other, v) => Says(after, other, v)
               /\ Keyed(fields, other) <=> Keyed(after, other)
    <3>1. \A i \in 1 .. n : fields[i].key = other <=> after[i].key = other
      BY <1>1, <2>3, <2>6
    <3>2. \A i \in 1 .. n : fields[i].key = other => after[i] = fields[i]
      BY <2>3, <2>6
    <3> QED BY <1>0, <2>2, <3>1, <3>2 DEF Keyed, Says
  <2> QED BY <2>4, <2>5, <2>6
<1>3. CASE ~ Keyed(fields, key)
  <2>1. after = Append(fields, new)
    BY <1>3 DEF Updated, Keyed
  <2>2. after \in Seq(Fields) /\ DOMAIN after = 1 .. n + 1
    <3> HIDE DEF new
    <3> QED BY <1>0, <1>1, <2>1
  <2>3. \A i \in 1 .. n : after[i] = fields[i]
    <3> HIDE DEF new
    <3> QED BY <1>0, <1>1, <2>1
  <2>4. after[n + 1] = new
    <3> HIDE DEF new
    <3> QED BY <1>0, <1>1, <2>1
  <2> HIDE DEF new, n
  <2>5. 1 .. n + 1 = (1 .. n) \cup {n + 1}
    BY <1>0
  <2>6. Keyed(after, key) /\ Says(after, key, value)
    BY <1>0, <1>1, <1>3, <2>2, <2>3, <2>4, <2>5 DEF Keyed, Says
  <2>7. ASSUME NEW other, NEW v, other # key
        PROVE  /\ Says(fields, other, v) => Says(after, other, v)
               /\ Keyed(fields, other) <=> Keyed(after, other)
    <3>1. after[n + 1].key # other
      BY <1>1, <2>4, <2>7
    <3> QED BY <1>0, <2>2, <2>3, <2>5, <3>1 DEF Keyed, Says
  <2> QED BY <2>2, <2>6, <2>7
<1> QED BY <1>2, <1>3

\* change_mode writes what it was asked for, whatever was there.
LEMMA RewrittenIs ==
  ASSUME NEW fields \in Seq(Fields), NEW mode \in Modes, NEW threshold \in Nat
  PROVE  /\ Rewritten(fields, mode, threshold) \in Seq(Fields)
         /\ Written(Rewritten(fields, mode, threshold), mode,
                    IF mode = "Mixed" THEN threshold ELSE 0)
<1> DEFINE first == Updated(fields, "AB", mode)
           T(t) == Updated(first, "threshold", t)
<1>0. Field("AB", mode) \in Fields /\ \A t \in Nat : Field("threshold", t) \in Fields
  BY DEF Field, Fields
<1>1. first \in Seq(Fields) /\ Keyed(first, "AB") /\ Says(first, "AB", mode)
  BY <1>0, UpdatedIs
<1> HIDE DEF first
<1>2. ASSUME NEW t \in Nat
      PROVE  /\ T(t) \in Seq(Fields)
             /\ Keyed(T(t), "AB") /\ Says(T(t), "AB", mode)
             /\ Keyed(T(t), "threshold") /\ Says(T(t), "threshold", t)
  BY <1>0, <1>1, UpdatedIs
<1>3. CASE mode = "Mixed"
  <2>1. Rewritten(fields, mode, threshold) = T(threshold)
    BY <1>3 DEF Rewritten, first
  <2> HIDE DEF T
  <2> QED BY <1>2, <1>3, <2>1 DEF Written
<1>4. CASE mode # "Mixed" /\ Keyed(first, "threshold")
  <2>1. Rewritten(fields, mode, threshold) = T(0)
    BY <1>4 DEF Rewritten, first, Keyed
  <2> HIDE DEF T
  <2> QED BY <1>2, <1>4, <2>1 DEF Written
<1>5. CASE mode # "Mixed" /\ ~ Keyed(first, "threshold")
  <2>1. Rewritten(fields, mode, threshold) = first
    BY <1>5 DEF Rewritten, first, Keyed
  <2>2. Says(first, "threshold", 0)
    BY <1>5 DEF Says, Keyed
  <2> QED BY <1>1, <1>5, <2>1, <2>2 DEF Written
<1> QED BY <1>3, <1>4, <1>5

\* init_mint starts from no fields.
LEMMA FirstWritten ==
  ASSUME NEW mode \in Modes, NEW threshold \in Nat, NEW fields,
         fields = IF mode = "Mixed"
                  THEN Updated(Updated(<< >>, "AB", mode), "threshold", threshold)
                  ELSE Updated(<< >>, "AB", mode)
  PROVE  /\ fields \in Seq(Fields)
         /\ Written(fields, mode, IF mode = "Mixed" THEN threshold ELSE 0)
<1> DEFINE first == Updated(<< >>, "AB", mode)
<1>0. << >> \in Seq(Fields)
  OBVIOUS
<1>1. ~ Keyed(<< >>, "threshold")
  BY DEF Keyed
<1>2. Field("AB", mode) \in Fields
  BY DEF Field, Fields
<1>3. ~ Keyed(first, "threshold")
  BY <1>0, <1>1, <1>2, UpdatedIs
<1>4. fields = Rewritten(<< >>, mode, threshold)
  BY <1>3 DEF Rewritten, Keyed
<1> QED BY <1>0, <1>4, RewrittenIs

-----------------------------------------------------------------------------
(* The mint: what a transfer and an owner change.                             *)

HookedOK == HookedTypeOK /\ TokensTotal = TokensIssued

Tokens == [a \in TokenAccounts |-> account[a].tokens]
TokenAccount == [owner: Wallets, delegate: Wallets \cup {Nobody}, tokens: Nat]

LEMMA HookedStarts == HookedInit => HookedOK
<1> SUFFICES ASSUME HookedInit PROVE HookedOK
  OBVIOUS
<1>1. HookedTypeOK
  BY HookedAssumption DEF HookedInit, HookedTypeOK
<1>2. [a \in TokenAccounts |-> account[a].tokens] = [a \in TokenAccounts |-> InitialTokens[a]]
  BY DEF HookedInit
<1>3. InitialTokens = [a \in TokenAccounts |-> InitialTokens[a]]
  BY HookedAssumption
<1>4. TokensTotal = TokensIssued
  BY <1>2, <1>3 DEF TokensTotal, TokensIssued
<1> QED BY <1>1, <1>4 DEF HookedOK

LEMMA TransferIs ==
  ASSUME HookedTypeOK, NEW from \in TokenAccounts, NEW to \in TokenAccounts,
         NEW by \in Wallets, NEW n \in TransferAmounts, Transfer(from, to, by, n)
  PROVE  /\ HookedTypeOK'
         /\ from # to /\ n \in Nat /\ MayMove(from, by) /\ permanent' = permanent
         /\ account'[from].tokens = account[from].tokens - n
         /\ account'[to].tokens = account[to].tokens + n
         /\ \A a \in TokenAccounts \ {from, to} : account'[a].tokens = account[a].tokens
         /\ \A a \in TokenAccounts : account'[a].owner = account[a].owner
<1>1. n \in Nat /\ n <= account[from].tokens /\ from # to /\ MayMove(from, by)
  BY HookedAssumption DEF Transfer
<1> DEFINE mid == [account EXCEPT ![from].tokens = @ - n]
<1>2. account' = [mid EXCEPT ![to].tokens = @ + n] /\ permanent' = permanent
  BY DEF Transfer, Moved
<1>3. account \in [TokenAccounts -> TokenAccount]
  BY DEF HookedTypeOK, TokenAccount
<1>4. account[from] \in TokenAccount /\ account[from].tokens - n \in Nat
  <2>1. account[from] \in TokenAccount
    BY <1>3
  <2> QED BY <1>1, <2>1 DEF TokenAccount
<1>5. /\ mid \in [TokenAccounts -> TokenAccount]
      /\ mid[from].tokens = account[from].tokens - n
      /\ mid[from].owner = account[from].owner
      /\ \A a \in TokenAccounts \ {from} : mid[a] = account[a]
  BY <1>3, <1>4 DEF TokenAccount
<1> HIDE DEF mid
<1>6. mid[to] \in TokenAccount /\ mid[to].tokens + n \in Nat
  <2>1. mid[to] \in TokenAccount
    BY <1>5
  <2> QED BY <1>1, <2>1 DEF TokenAccount
<1>7. /\ account' \in [TokenAccounts -> TokenAccount]
      /\ account'[to].tokens = mid[to].tokens + n
      /\ account'[to].owner = mid[to].owner
      /\ \A a \in TokenAccounts \ {to} : account'[a] = mid[a]
  BY <1>2, <1>5, <1>6 DEF TokenAccount
<1>8. HookedTypeOK'
  BY <1>2, <1>7 DEF HookedTypeOK, TokenAccount
<1> QED BY <1>1, <1>2, <1>5, <1>7, <1>8

LEMMA TransferKeeps ==
  ASSUME HookedOK, NEW from \in TokenAccounts, NEW to \in TokenAccounts,
         NEW by \in Wallets, NEW n \in TransferAmounts, Transfer(from, to, by, n)
  PROVE  HookedOK'
<1>1. /\ HookedTypeOK' /\ from # to /\ n \in Nat
      /\ account'[from].tokens = account[from].tokens - n
      /\ account'[to].tokens = account[to].tokens + n
      /\ \A a \in TokenAccounts \ {from, to} : account'[a].tokens = account[a].tokens
  BY TransferIs DEF HookedOK
<1> DEFINE f == Tokens
           g == Tokens'
           m == [a \in TokenAccounts |-> IF a = from THEN account[a].tokens - n
                                          ELSE account[a].tokens]
<1>2. \A a \in TokenAccounts : account[a].tokens \in Nat /\ account'[a].tokens \in Nat
  BY <1>1 DEF HookedOK, HookedTypeOK
<1>3. f \in [TokenAccounts -> Int] /\ g \in [TokenAccounts -> Int]
  BY <1>2 DEF Tokens
<1>4. m \in [TokenAccounts -> Int]
  BY <1>1, <1>2
<1>5. m[from] = f[from] + (0 - n) /\ \A a \in TokenAccounts \ {from} : m[a] = f[a]
  BY <1>1, <1>2 DEF Tokens
<1>6. g[to] = m[to] + n /\ \A a \in TokenAccounts \ {to} : g[a] = m[a]
  BY <1>1, <1>2 DEF Tokens
<1>7. 0 - n \in Int /\ n \in Int /\ IsFiniteSet(TokenAccounts)
  BY <1>1, HookedAssumption
<1> HIDE DEF f, g, m
<1>8. SumFunction(f) \in Int /\ SumFunction(m) = SumFunction(f) + (0 - n)
  BY <1>3, <1>4, <1>5, <1>7, SumMoves
<1>9. SumFunction(g) = SumFunction(m) + n
  BY <1>3, <1>4, <1>6, <1>7, SumMoves
<1>10. SumFunction(g) = SumFunction(f)
  BY <1>7, <1>8, <1>9
<1>11. TokensTotal' = TokensTotal
  BY <1>10 DEF TokensTotal, Tokens, f, g
<1> QED BY <1>1, <1>11 DEF HookedOK, TokensIssued

\* Owners move nothing, and an account with an immutable owner keeps it.
LEMMA OwnersKeep ==
  ASSUME HookedOK, OwnerNext
  PROVE  /\ HookedOK' /\ permanent' = permanent
         /\ \A a \in TokenAccounts : account'[a].tokens = account[a].tokens
         /\ \A a \in ImmutableOwner : account'[a].owner = account[a].owner
<1>1. account \in [TokenAccounts -> TokenAccount]
  BY DEF HookedOK, HookedTypeOK, TokenAccount
<1>2. ImmutableOwner \subseteq TokenAccounts
  BY HookedAssumption
<1>3. /\ account' \in [TokenAccounts -> TokenAccount] /\ permanent' = permanent
      /\ \A a \in TokenAccounts : account'[a].tokens = account[a].tokens
      /\ \A a \in ImmutableOwner : account'[a].owner = account[a].owner
  <2>1. CASE \E p \in Approvals, revoke \in BOOLEAN :
               Approve(p[1], IF revoke THEN Nobody ELSE p[2])
    <3>1. PICK p \in Approvals, revoke \in BOOLEAN :
                 Approve(p[1], IF revoke THEN Nobody ELSE p[2])
      BY <2>1
    <3> DEFINE w == IF revoke THEN Nobody ELSE p[2]
    <3>2. p[1] \in TokenAccounts /\ w \in Wallets \cup {Nobody}
      BY HookedAssumption
    <3>3. account' = [account EXCEPT ![p[1]].delegate = w] /\ permanent' = permanent
      BY <3>1 DEF Approve
    <3> HIDE DEF w
    <3>4. account[p[1]] \in TokenAccount
      BY <1>1, <3>2
    <3> QED BY <1>1, <1>2, <3>2, <3>3, <3>4 DEF TokenAccount
  <2>2. CASE \E p \in NewOwners : ChangeOwner(p[1], p[2])
    <3>1. PICK p \in NewOwners : ChangeOwner(p[1], p[2])
      BY <2>2
    <3> DEFINE a == p[1]
               w == p[2]
    <3>2. a \in TokenAccounts /\ w \in Wallets
      BY HookedAssumption
    <3>3. /\ account' = [account EXCEPT ![a].owner = w, ![a].delegate = Nobody]
          /\ permanent' = permanent /\ a \notin ImmutableOwner
      BY <3>1 DEF ChangeOwner
    <3> HIDE DEF a, w
    <3>4. account[a] \in TokenAccount
      BY <1>1, <3>2
    <3> QED BY <1>1, <1>2, <3>2, <3>3, <3>4 DEF TokenAccount
  <2> QED BY <2>1, <2>2 DEF OwnerNext
<1>4. Tokens' = Tokens
  BY <1>3 DEF Tokens
<1>5. TokensTotal' = TokensTotal
  BY <1>4 DEF TokensTotal, Tokens
<1>6. HookedTypeOK'
  BY <1>3 DEF HookedOK, HookedTypeOK, TokenAccount
<1> QED BY <1>3, <1>5, <1>6 DEF HookedOK, TokensIssued

LEMMA MintStays == HookedOK /\ UNCHANGED hookedVars => HookedOK'
BY DEF HookedOK, HookedTypeOK, TokensTotal, TokensIssued, hookedVars

-----------------------------------------------------------------------------
(* block-list.                                                                *)

\* Frozen tokens are of a wallet that is blocked while a check was asked for, and which
\* still owns them if their account has an immutable owner.
FrozenOwned ==
  \A p \in frozen :
    /\ asked # {} /\ p[2] \in wallet_block
    /\ p[1] \in ImmutableOwner => account[p[1]].owner = p[2]

\* The layout resolves the blocks of the sides that were asked for.
MetasAsAsked ==
  /\ extra_metas.layout \in Enforcing <=> asked # {}
  /\ extra_metas.layout = "BOTH_DEPENDENCIES" <=> "destination" \in asked

\* Where there is no config nothing is counted.
Unmade ==
  \A c \in ConfigAddresses : config[c].authority = Nobody => config[c].blocked_wallets_count = 0

CountsSum == SumFunction(Counts) = Cardinality(wallet_block)

ListOK ==
  /\ BlockListTypeOK /\ CountsSum /\ BlockListRents
  /\ FrozenOwned /\ MetasAsAsked /\ Unmade

LEMMA ListAddresses ==
  /\ IsFiniteSet(ConfigAddresses) /\ IsFiniteSet(BlockAddresses)
  /\ ConfigRent \in Nat /\ WalletBlockRent \in Nat /\ Purse \in Int
<1>1. IsFiniteSet(Keypairs) /\ IsFiniteSet(Wallets) /\ IsFiniteSet({ConfigPda})
  BY HookedAssumption, BlockListAssumption, FS_Singleton
<1>2. IsFiniteSet(ConfigAddresses) /\ IsFiniteSet(BlockAddresses)
  BY <1>1, FS_Union DEF ConfigAddresses, BlockAddresses
<1> QED BY <1>2, BlockListAssumption

LEMMA ListStarts == HookedInit /\ BlockListInit => ListOK
<1> SUFFICES ASSUME HookedInit, BlockListInit PROVE ListOK
  OBVIOUS
<1>1. BlockListTypeOK
  BY BlockListAssumption DEF BlockListInit, BlockListTypeOK, NoConfig
<1>2. CountsSum
  <2>1. Counts = [c \in ConfigAddresses |-> 0]
    BY DEF Counts, BlockListInit, NoConfig
  <2> DEFINE f == Counts
  <2>2. f = [c \in ConfigAddresses |-> 0] /\ IsFiniteSet(ConfigAddresses)
    BY <2>1, ListAddresses
  <2> HIDE DEF f
  <2>3. SumFunction(f) = 0
    BY <2>2, SumOfZeros
  <2>4. Cardinality(wallet_block) = 0
    BY FS_EmptySet DEF BlockListInit
  <2> QED BY <2>3, <2>4 DEF CountsSum, f
<1>3. SumFunction(purse) = Purse * Cardinality(Wallets)
  <2>1. IsFiniteSet(Wallets) /\ Purse \in Int /\ purse \in [Wallets -> Int]
        /\ \A w \in Wallets : purse[w] = Purse
    BY HookedAssumption, BlockListAssumption DEF BlockListInit
  <2>2. SumFunctionOnSet(purse, Wallets) = Purse * Cardinality(Wallets)
    BY <2>1, SumConstant
  <2> QED BY <2>1, <2>2, SumOfFunction
<1>4. BlockListRents
  <2>1. Cardinality(wallet_block) = 0 /\ extra_metas.lamports = 0
    BY FS_EmptySet DEF BlockListInit
  <2>2. MinimumBalance(extra_metas.layout) = 0
    BY DEF BlockListInit, MinimumBalance, NoMetas
  <2>3. Configs = {}
    BY DEF Configs, BlockListInit, NoConfig
  <2>4. Cardinality(Configs) = 0
    BY <2>3, FS_EmptySet
  <2>5. /\ Purse * Cardinality(Wallets) \in Int
        /\ WalletBlockRent * 0 = 0 /\ ConfigRent * 0 = 0
    BY HookedAssumption, ListAddresses, FS_CardinalityType
  <2> QED BY <1>3, <2>1, <2>2, <2>4, <2>5 DEF BlockListRents
<1>5. FrozenOwned /\ Unmade
  BY DEF BlockListInit, FrozenOwned, Unmade, NoConfig
<1>6. MetasAsAsked
  BY DEF BlockListInit, MetasAsAsked, Enforcing, NoMetas
<1> QED BY <1>1, <1>2, <1>4, <1>5, <1>6 DEF ListOK

\* However the rest of a step goes.
LEMMA FrozenFollows ==
  ASSUME ListOK, FrozenNext,
         \A a \in ImmutableOwner : account'[a].owner = account[a].owner
  PROVE  FrozenOwned' /\ frozen' \subseteq TokenAccounts \X Wallets
<1>1. frozen \subseteq TokenAccounts \X Wallets
  BY DEF ListOK, BlockListTypeOK
<1>2. CASE asked' = {}
  <2>1. frozen' = {}
    BY <1>2 DEF FrozenNext
  <2> QED BY <2>1 DEF FrozenOwned
<1>3. CASE asked' # {}
  <2> DEFINE Here == wallet_block' \cap Wallets
  <2>1. frozen' = {p \in frozen : p[2] \in wallet_block'} \cup
                  {p \in TokenAccounts \X Here : account'[p[1]].owner = p[2]}
    BY <1>3 DEF FrozenNext
  <2>2. ASSUME NEW p \in frozen'
        PROVE  /\ p \in TokenAccounts \X Wallets
               /\ p[2] \in wallet_block'
               /\ p[1] \in ImmutableOwner => account'[p[1]].owner = p[2]
    <3>1. CASE p \in frozen /\ p[2] \in wallet_block'
      BY <1>1, <3>1 DEF ListOK, FrozenOwned
    <3>2. CASE p \in TokenAccounts \X Here /\ account'[p[1]].owner = p[2]
      BY <3>2
    <3> QED BY <2>1, <2>2, <3>1, <3>2
  <2> QED BY <1>3, <2>2 DEF FrozenOwned
<1> QED BY <1>2, <1>3

\* A step that changes neither the list nor the rents.
LEMMA ListUntouched ==
  ASSUME ListOK, FrozenNext, UNCHANGED <<config, wallet_block, extra_metas, purse, asked>>,
         \A a \in ImmutableOwner : account'[a].owner = account[a].owner
  PROVE  ListOK'
<1>1. FrozenOwned' /\ frozen' \subseteq TokenAccounts \X Wallets
  BY FrozenFollows
<1>2. BlockListTypeOK'
  BY <1>1 DEF ListOK, BlockListTypeOK
<1>3. CountsSum' /\ BlockListRents' /\ MetasAsAsked' /\ Unmade'
  BY DEF ListOK, CountsSum, Counts, BlockListRents, Configs, MetasAsAsked, Unmade
<1> QED BY <1>1, <1>2, <1>3 DEF ListOK

\* What the wallets have when one of them pays or is paid.
LEMMA PurseMoves ==
  ASSUME BlockListTypeOK, NEW a \in Wallets, NEW d \in Int, purse[a] + d \in Nat,
         purse' = [purse EXCEPT ![a] = @ + d]
  PROVE  /\ purse' \in [Wallets -> Nat] /\ SumFunction(purse) \in Int
         /\ SumFunction(purse') = SumFunction(purse) + d
<1>1. purse \in [Wallets -> Nat] /\ purse' \in [Wallets -> Nat]
  BY DEF BlockListTypeOK
<1> DEFINE f == purse
           g == purse'
<1>2. /\ f \in [Wallets -> Int] /\ g \in [Wallets -> Int] /\ g[a] = f[a] + d
      /\ \A w \in Wallets \ {a} : g[w] = f[w]
  BY <1>1
<1>3. IsFiniteSet(Wallets)
  BY HookedAssumption
<1> HIDE DEF f, g
<1>4. SumFunction(f) \in Int /\ SumFunction(g) = SumFunction(f) + d
  BY <1>2, <1>3, SumMoves
<1> QED BY <1>1, <1>4 DEF f, g

\* A config that counts more or less.
LEMMA CountMoves ==
  ASSUME ListOK, NEW c \in ConfigAddresses, NEW d \in Int, config[c].authority # Nobody,
         config[c].blocked_wallets_count + d \in Nat,
         config' = [config EXCEPT ![c].blocked_wallets_count = config[c].blocked_wallets_count + d]
  PROVE  /\ config' \in [ConfigAddresses -> [authority: ListAuthorities \cup {Nobody},
                                             blocked_wallets_count: Nat]]
         /\ SumFunction(Counts) \in Int /\ SumFunction(Counts)' = SumFunction(Counts) + d
         /\ Configs' = Configs /\ Unmade'
<1> DEFINE n == config[c].blocked_wallets_count + d
           new == [authority |-> config[c].authority, blocked_wallets_count |-> n]
<1>1. config \in [ConfigAddresses -> [authority: ListAuthorities \cup {Nobody},
                                      blocked_wallets_count: Nat]]
  BY DEF ListOK, BlockListTypeOK
<1>2. config' = [config EXCEPT ![c] = new]
  <2>1. config[c] = [authority |-> config[c].authority,
                     blocked_wallets_count |-> config[c].blocked_wallets_count]
    BY <1>1
  <2>2. config' = [config EXCEPT ![c].blocked_wallets_count = n]
    OBVIOUS
  <2> HIDE DEF n
  <2> QED BY <1>1, <2>1, <2>2
<1>3. n \in Nat /\ new \in [authority: ListAuthorities \cup {Nobody}, blocked_wallets_count: Nat]
      /\ new.authority = config[c].authority /\ new.blocked_wallets_count = n
  BY <1>1
<1> HIDE DEF new, n
<1>4. /\ config'[c] = new
      /\ \A e \in ConfigAddresses \ {c} : config'[e] = config[e]
      /\ config' \in [ConfigAddresses -> [authority: ListAuthorities \cup {Nobody},
                                          blocked_wallets_count: Nat]]
  BY <1>1, <1>2, <1>3
<1>5. Configs' = Configs
  <2>1. \A e \in ConfigAddresses : config'[e].authority = config[e].authority
    BY <1>3, <1>4
  <2> QED BY <2>1 DEF Configs
<1>6. Unmade'
  BY <1>3, <1>4 DEF ListOK, Unmade
<1>7. SumFunction(Counts) \in Int /\ SumFunction(Counts)' = SumFunction(Counts) + d
  <2> DEFINE f == Counts
             g == Counts'
  <2>1. f \in [ConfigAddresses -> Int]
    BY <1>1 DEF Counts
  <2>2. g \in [ConfigAddresses -> Int]
    BY <1>4 DEF Counts
  <2>3. g[c] = f[c] + d /\ \A e \in ConfigAddresses \ {c} : g[e] = f[e]
    BY <1>3, <1>4 DEF Counts, n
  <2> HIDE DEF f, g
  <2>4. SumFunction(f) \in Int /\ SumFunction(g) = SumFunction(f) + d
    BY <2>1, <2>2, <2>3, ListAddresses, SumMoves
  <2> QED BY <2>4 DEF f, g
<1> QED BY <1>4, <1>5, <1>6, <1>7

\* Rents when configs, blocks and metas change as what was paid says.
LEMMA RentsFollow ==
  ASSUME BlockListRents, NEW spent \in Int, NEW made \in Int, NEW more \in Int,
         SumFunction(purse) \in Int, extra_metas.lamports \in Int,
         extra_metas'.lamports \in Int,
         Cardinality(Configs) \in Int, Cardinality(wallet_block) \in Int,
         Cardinality(Configs)' = Cardinality(Configs) + made,
         Cardinality(wallet_block)' = Cardinality(wallet_block) + more,
         SumFunction(purse') = SumFunction(purse) - spent,
         spent = ConfigRent * made + WalletBlockRent * more
                   + (extra_metas'.lamports - extra_metas.lamports),
         extra_metas'.lamports = MinimumBalance(extra_metas'.layout)
  PROVE  BlockListRents'
<1> DEFINE b == Cardinality(Configs)
           c == Cardinality(wallet_block)
           q == ConfigRent
           r == WalletBlockRent
<1>1. q \in Int /\ r \in Int /\ b \in Int /\ c \in Int
  BY ListAddresses
<1>2. SumFunction(purse) + q * b + r * c + extra_metas.lamports = Purse * Cardinality(Wallets)
  BY DEF BlockListRents
<1>3. spent = q * made + r * more + (extra_metas'.lamports - extra_metas.lamports)
  OBVIOUS
<1> HIDE DEF b, c, q, r
<1>4. /\ q * (b + made) = q * b + q * made /\ q * b \in Int /\ q * made \in Int
      /\ r * (c + more) = r * c + r * more /\ r * c \in Int /\ r * more \in Int
  BY <1>1
<1> DEFINE qx == q * (b + made)
           qb == q * b
           qm == q * made
           rx == r * (c + more)
           rc == r * c
           rm == r * more
<1>5. /\ qx = qb + qm /\ rx = rc + rm
      /\ qb \in Int /\ qm \in Int /\ rc \in Int /\ rm \in Int
  BY <1>4
<1>6. /\ SumFunction(purse) + qb + rc + extra_metas.lamports = Purse * Cardinality(Wallets)
      /\ spent = qm + rm + (extra_metas'.lamports - extra_metas.lamports)
  BY <1>2, <1>3
<1> HIDE DEF qx, qb, qm, rx, rc, rm
<1>7. SumFunction(purse') + qx + rx + extra_metas'.lamports = Purse * Cardinality(Wallets)
  BY <1>5, <1>6
<1>8. SumFunction(purse') + ConfigRent * Cardinality(Configs)'
        + WalletBlockRent * Cardinality(wallet_block)' + extra_metas'.lamports
      = Purse * Cardinality(Wallets)
  BY <1>7 DEF qx, rx, q, r, b, c
<1> QED BY <1>8 DEF BlockListRents

LEMMA BlocksCounted ==
  ASSUME BlockListTypeOK
  PROVE  /\ Cardinality(wallet_block) \in Nat /\ Cardinality(Configs) \in Nat
         /\ IsFiniteSet(Configs)
         /\ \A p \in BlockAddresses \ wallet_block :
              Cardinality(wallet_block \cup {p}) = Cardinality(wallet_block) + 1
         /\ \A p \in wallet_block :
              Cardinality(wallet_block \ {p}) = Cardinality(wallet_block) - 1
<1>1. IsFiniteSet(wallet_block) /\ IsFiniteSet(Configs)
  BY ListAddresses, FS_Subset DEF BlockListTypeOK, Configs
<1>2. Cardinality(wallet_block) \in Nat /\ Cardinality(Configs) \in Nat
  BY <1>1, FS_CardinalityType
<1>3. \A p \in BlockAddresses \ wallet_block :
        Cardinality(wallet_block \cup {p}) = Cardinality(wallet_block) + 1
  BY <1>1, FS_AddElement
<1>4. \A p \in wallet_block : Cardinality(wallet_block \ {p}) = Cardinality(wallet_block) - 1
  BY <1>1, FS_RemoveElement
<1> QED BY <1>1, <1>2, <1>3, <1>4


LEMMA ConfigKeeps ==
  ASSUME ListOK, NEW w \in ListAuthorities, NEW c \in ConfigAddresses, InitConfig(w, c)
  PROVE  ListOK'
<1> DEFINE q == ConfigRent
           new == [authority |-> w, blocked_wallets_count |-> 0]
<1>1. /\ config[c].authority = Nobody /\ purse[w] >= q
      /\ purse' = [purse EXCEPT ![w] = @ - q]
      /\ config' = [config EXCEPT ![c] = new]
      /\ UNCHANGED <<account, wallet_block, extra_metas, asked>> /\ FrozenNext
  BY DEF InitConfig, Free, hookedVars
<1>2. BlockListTypeOK /\ CountsSum /\ BlockListRents /\ Unmade /\ MetasAsAsked
  BY DEF ListOK
<1>3. q \in Nat /\ w \in Wallets /\ w # Nobody
  BY HookedAssumption, BlockListAssumption
<1>4. /\ purse' \in [Wallets -> Nat] /\ SumFunction(purse) \in Int
      /\ SumFunction(purse') = SumFunction(purse) + (0 - q)
  <2> DEFINE e == 0 - q
             p == purse[w] - q
  <2>1. purse[w] \in Nat
    BY <1>2, <1>3 DEF BlockListTypeOK
  <2>2. p = purse[w] + e /\ p \in Nat /\ e \in Int /\ purse' = [purse EXCEPT ![w] = p]
    BY <1>1, <1>3, <2>1
  <2> HIDE DEF p, e
  <2>3. purse[w] + e \in Nat /\ purse' = [purse EXCEPT ![w] = @ + e]
    BY <2>2
  <2>4. /\ purse' \in [Wallets -> Nat] /\ SumFunction(purse) \in Int
        /\ SumFunction(purse') = SumFunction(purse) + e
    BY <1>2, <1>3, <2>2, <2>3, PurseMoves
  <2> QED BY <2>4 DEF e
<1>5. FrozenOwned' /\ frozen' \subseteq TokenAccounts \X Wallets
  BY <1>1, FrozenFollows
<1>6. new \in [authority: ListAuthorities \cup {Nobody}, blocked_wallets_count: Nat]
      /\ new.authority = w /\ new.blocked_wallets_count = 0
  OBVIOUS
<1> HIDE DEF new
<1>7. /\ config'[c] = new /\ \A e \in ConfigAddresses \ {c} : config'[e] = config[e]
      /\ config' \in [ConfigAddresses -> [authority: ListAuthorities \cup {Nobody},
                                          blocked_wallets_count: Nat]]
  BY <1>1, <1>2, <1>6 DEF BlockListTypeOK
<1>8. CountsSum' /\ Unmade'
  <2>1. \A e \in ConfigAddresses : config'[e].blocked_wallets_count = config[e].blocked_wallets_count
    BY <1>1, <1>2, <1>6, <1>7 DEF Unmade
  <2>2. Counts' = Counts
    BY <2>1 DEF Counts
  <2> QED BY <1>1, <1>2, <1>3, <1>6, <1>7, <2>2 DEF CountsSum, Unmade
<1>9. Cardinality(Configs)' = Cardinality(Configs) + 1
  <2>1. Configs' = Configs \cup {c} /\ c \notin Configs
    BY <1>1, <1>3, <1>6, <1>7 DEF Configs
  <2>2. IsFiniteSet(Configs)
    BY <1>2, BlocksCounted
  <2> QED BY <2>1, <2>2, FS_AddElement
<1>10. BlockListTypeOK' /\ MetasAsAsked'
  BY <1>1, <1>2, <1>4, <1>5, <1>7 DEF BlockListTypeOK, MetasAsAsked
<1>11. BlockListRents'
  <2>1. /\ extra_metas.lamports \in Int /\ extra_metas' = extra_metas
        /\ extra_metas.lamports = MinimumBalance(extra_metas.layout)
        /\ Cardinality(Configs) \in Int /\ Cardinality(wallet_block) \in Int
        /\ Cardinality(wallet_block)' = Cardinality(wallet_block)
    BY <1>1, <1>2, BlocksCounted DEF BlockListTypeOK, BlockListRents
  <2> DEFINE made == 1
             more == 0
  <2>2. /\ made \in Int /\ more \in Int
        /\ Cardinality(Configs)' = Cardinality(Configs) + made
        /\ Cardinality(wallet_block)' = Cardinality(wallet_block) + more
    BY <1>9, <2>1
  <2>3. q = ConfigRent * made + WalletBlockRent * more
              + (extra_metas'.lamports - extra_metas.lamports)
    BY <1>3, <2>1, ListAddresses
  <2> HIDE DEF made, more
  <2>4. SumFunction(purse') = SumFunction(purse) - q /\ q \in Int
    BY <1>3, <1>4
  <2> QED BY <1>2, <1>4, <2>1, <2>2, <2>3, <2>4, RentsFollow
<1> QED BY <1>5, <1>8, <1>10, <1>11 DEF ListOK

\* block_wallet and unblock_wallet: one block and one in the count, and its rent.
LEMMA BlocksMove ==
  ASSUME ListOK, NEW a \in ListAuthorities, NEW c \in ConfigAddresses, config[c].authority = a,
         NEW d \in Int, Cardinality(wallet_block)' = Cardinality(wallet_block) + d,
         wallet_block' \subseteq BlockAddresses,
         config[c].blocked_wallets_count + d \in Nat,
         config' = [config EXCEPT ![c].blocked_wallets_count = config[c].blocked_wallets_count + d],
         purse[a] - WalletBlockRent * d \in Nat,
         purse' = [purse EXCEPT ![a] = purse[a] - WalletBlockRent * d],
         UNCHANGED <<account, extra_metas, asked>>, FrozenNext
  PROVE  ListOK'
<1> DEFINE s == WalletBlockRent * d
           e == 0 - s
<1>1. BlockListTypeOK /\ CountsSum /\ BlockListRents /\ MetasAsAsked
  BY DEF ListOK
<1>2. a \in Wallets /\ a # Nobody /\ s \in Int /\ e \in Int /\ purse[a] \in Int
  BY <1>1, HookedAssumption, BlockListAssumption DEF BlockListTypeOK
<1>3. /\ purse' \in [Wallets -> Nat] /\ SumFunction(purse) \in Int
      /\ SumFunction(purse') = SumFunction(purse) + e
  <2>1. purse[a] - s \in Nat /\ purse' = [purse EXCEPT ![a] = purse[a] - s]
    OBVIOUS
  <2> HIDE DEF s
  <2> DEFINE p == purse[a] - s
  <2>2. p = purse[a] + e
    BY <1>2
  <2>3. p \in Nat /\ purse' = [purse EXCEPT ![a] = p]
    BY <2>1
  <2> HIDE DEF p
  <2>4. purse[a] + e \in Nat /\ purse' = [purse EXCEPT ![a] = @ + e]
    BY <2>2, <2>3
  <2> HIDE DEF e
  <2> QED BY <1>1, <1>2, <2>4, PurseMoves
<1>4. FrozenOwned' /\ frozen' \subseteq TokenAccounts \X Wallets
  BY FrozenFollows
<1>5. /\ config' \in [ConfigAddresses -> [authority: ListAuthorities \cup {Nobody},
                                          blocked_wallets_count: Nat]]
      /\ SumFunction(Counts) \in Int /\ SumFunction(Counts)' = SumFunction(Counts) + d
      /\ Configs' = Configs /\ Unmade'
  BY <1>2, CountMoves
<1>6. CountsSum'
  BY <1>1, <1>5 DEF CountsSum
<1>7. BlockListTypeOK' /\ MetasAsAsked'
  BY <1>1, <1>3, <1>4, <1>5 DEF BlockListTypeOK, MetasAsAsked
<1>8. BlockListRents'
  <2>1. /\ extra_metas.lamports \in Int /\ extra_metas' = extra_metas
        /\ extra_metas.lamports = MinimumBalance(extra_metas.layout)
        /\ Cardinality(Configs) \in Int /\ Cardinality(wallet_block) \in Int
    BY <1>1, BlocksCounted DEF BlockListTypeOK, BlockListRents
  <2> DEFINE made == 0
  <2>2. made \in Int /\ Cardinality(Configs)' = Cardinality(Configs) + made
        /\ ConfigRent * made = 0
    BY <1>5, <2>1, ListAddresses
  <2> HIDE DEF made
  <2>3. s = ConfigRent * made + WalletBlockRent * d
              + (extra_metas'.lamports - extra_metas.lamports)
    BY <1>2, <2>1, <2>2
  <2>4. SumFunction(purse') = SumFunction(purse) - s
    <3> HIDE DEF s
    <3> QED BY <1>2, <1>3
  <2> HIDE DEF s
  <2> QED BY <1>1, <1>2, <1>3, <2>1, <2>2, <2>3, <2>4, RentsFollow
<1> QED BY <1>4, <1>5, <1>6, <1>7, <1>8 DEF ListOK

LEMMA BlockKeeps ==
  ASSUME ListOK, NEW a \in ListAuthorities, NEW c \in ConfigAddresses,
         NEW place \in BlockAddresses, BlockWallet(a, c, place)
  PROVE  ListOK'
<1> DEFINE r == WalletBlockRent
           n == config[c].blocked_wallets_count
<1>1. /\ config[c].authority = a /\ place \notin wallet_block /\ purse[a] >= r
      /\ purse' = [purse EXCEPT ![a] = purse[a] - r]
      /\ wallet_block' = wallet_block \cup {place}
      /\ config' = [config EXCEPT ![c].blocked_wallets_count = n + 1]
      /\ UNCHANGED <<account, extra_metas, asked>> /\ FrozenNext
  BY DEF BlockWallet, Free, hookedVars
<1>2. BlockListTypeOK
  BY DEF ListOK
<1>3. r \in Nat /\ n \in Nat /\ purse[a] \in Nat
  BY <1>2, HookedAssumption, BlockListAssumption DEF BlockListTypeOK
<1>4. Cardinality(wallet_block)' = Cardinality(wallet_block) + 1
      /\ wallet_block' \subseteq BlockAddresses
  BY <1>1, <1>2, BlocksCounted DEF BlockListTypeOK
<1> DEFINE d == 1
<1>5. r * d = r /\ d \in Int
  BY <1>3
<1>6. /\ purse[a] - r = purse[a] - r * d /\ purse[a] - r \in Nat
      /\ n + d \in Nat /\ Cardinality(wallet_block)' = Cardinality(wallet_block) + d
  BY <1>1, <1>3, <1>4, <1>5
<1>7. /\ purse[a] - r * d \in Nat /\ purse' = [purse EXCEPT ![a] = purse[a] - r * d]
      /\ config' = [config EXCEPT ![c].blocked_wallets_count = n + d]
  <2> DEFINE p == purse[a] - r
  <2>1. /\ purse' = [purse EXCEPT ![a] = p]
        /\ config' = [config EXCEPT ![c].blocked_wallets_count = n + d]
    BY <1>1
  <2>2. p = purse[a] - r * d /\ p \in Nat
    BY <1>6
  <2> HIDE DEF p, n, r, d
  <2> QED BY <2>1, <2>2
<1> HIDE DEF d
<1> QED BY <1>1, <1>4, <1>5, <1>6, <1>7, BlocksMove

LEMMA UnblockKeeps ==
  ASSUME ListOK, NEW a \in ListAuthorities, NEW c \in ConfigAddresses,
         NEW place \in BlockAddresses, UnblockWallet(a, c, place)
  PROVE  ListOK'
<1> DEFINE r == WalletBlockRent
           n == config[c].blocked_wallets_count
<1>1. /\ config[c].authority = a /\ place \in wallet_block /\ n >= 1
      /\ purse' = [purse EXCEPT ![a] = purse[a] + r]
      /\ wallet_block' = wallet_block \ {place}
      /\ config' = [config EXCEPT ![c].blocked_wallets_count = n - 1]
      /\ UNCHANGED <<account, extra_metas, asked>> /\ FrozenNext
  BY DEF UnblockWallet, CanUnblock, CountAfterUnblock, hookedVars
<1>2. BlockListTypeOK
  BY DEF ListOK
<1>3. r \in Nat /\ n \in Nat /\ purse[a] \in Nat
  BY <1>2, HookedAssumption, BlockListAssumption DEF BlockListTypeOK
<1>4. Cardinality(wallet_block)' = Cardinality(wallet_block) - 1
      /\ Cardinality(wallet_block) \in Nat /\ wallet_block' \subseteq BlockAddresses
  BY <1>1, <1>2, BlocksCounted DEF BlockListTypeOK
<1> DEFINE d == 0 - 1
<1>5. r * d = 0 - r /\ d \in Int
  BY <1>3
<1>6. /\ purse[a] + r = purse[a] - r * d /\ purse[a] + r \in Nat
      /\ n - 1 = n + d /\ n - 1 \in Nat
      /\ Cardinality(wallet_block)' = Cardinality(wallet_block) + d
  BY <1>1, <1>3, <1>4, <1>5
<1>7. /\ purse[a] - r * d \in Nat /\ purse' = [purse EXCEPT ![a] = purse[a] - r * d]
      /\ n + d \in Nat /\ config' = [config EXCEPT ![c].blocked_wallets_count = n + d]
  <2> DEFINE p == purse[a] + r
             m == n - 1
  <2>1. /\ purse' = [purse EXCEPT ![a] = p]
        /\ config' = [config EXCEPT ![c].blocked_wallets_count = m]
    BY <1>1
  <2>2. p = purse[a] - r * d /\ m = n + d /\ p \in Nat /\ m \in Nat
    BY <1>6
  <2> HIDE DEF p, m, n, r, d
  <2> QED BY <2>1, <2>2
<1> HIDE DEF d
<1> QED BY <1>1, <1>4, <1>5, <1>6, <1>7, BlocksMove

LEMMA SetupKeeps ==
  ASSUME ListOK, NEW a \in Wallets, NEW count \in CountsRead, NEW both \in BOOLEAN,
         SetupExtraMetas(a, count, both)
  PROVE  ListOK'
<1> DEFINE layout == LayoutFor(count, both)
           new == LamportsFor(layout)
           old == extra_metas.lamports
<1>1. /\ purse[a] + old >= new
      /\ purse' = [purse EXCEPT ![a] = @ + old - new]
      /\ extra_metas' = [layout |-> layout, lamports |-> new]
      /\ asked' = IF count = 0 THEN {}
                  ELSE {"source"} \cup {side \in {"destination"} : both}
      /\ UNCHANGED <<account, config, wallet_block>> /\ FrozenNext
  BY DEF SetupExtraMetas, hookedVars
<1>2. BlockListTypeOK /\ BlockListRents /\ CountsSum /\ Unmade
  BY DEF ListOK
<1>3. layout \in Layouts
  BY DEF LayoutFor, Layouts
<1>4. new = MinimumBalance(layout) /\ new \in Nat
  <2>1. new = MinimumBalance(layout)
    BY DEF LamportsFor
  <2>2. \A l \in Layouts : MinimumBalance(l) \in Nat
    BY BlockListAssumption DEF MinimumBalance, Layouts
  <2> HIDE DEF layout
  <2> QED BY <1>3, <2>1, <2>2
<1>5. old \in Nat /\ purse[a] \in Nat
  BY <1>2 DEF BlockListTypeOK
<1>6. MetasAsAsked'
  <2> HIDE DEF new, old
  <2>1. extra_metas'.layout = LayoutFor(count, both)
    BY <1>1
  <2>2. CASE count = 0
    BY <1>1, <2>1, <2>2 DEF LayoutFor, MetasAsAsked, Enforcing
  <2>3. CASE count # 0 /\ both
    BY <1>1, <2>1, <2>3 DEF LayoutFor, MetasAsAsked, Enforcing
  <2>4. CASE count # 0 /\ ~both
    BY <1>1, <2>1, <2>4 DEF LayoutFor, MetasAsAsked, Enforcing
  <2> QED BY <2>2, <2>3, <2>4
<1> HIDE DEF layout, new
<1>7. /\ extra_metas' \in [layout: Layouts \cup {NoMetas}, lamports: Nat]
      /\ extra_metas'.lamports = new /\ extra_metas'.layout = layout
  BY <1>1, <1>3, <1>4
<1>8. purse[a] + (old - new) \in Nat /\ old - new \in Int
  BY <1>1, <1>4, <1>5
<1>9. /\ purse' \in [Wallets -> Nat] /\ SumFunction(purse) \in Int
      /\ SumFunction(purse') = SumFunction(purse) + (old - new)
  <2>1. purse' = [purse EXCEPT ![a] = @ + (old - new)]
    BY <1>1, <1>4, <1>5
  <2> QED BY <1>2, <1>8, <2>1, PurseMoves
<1>10. FrozenOwned' /\ frozen' \subseteq TokenAccounts \X Wallets
  BY <1>1, FrozenFollows
<1>11. BlockListTypeOK'
  BY <1>1, <1>2, <1>7, <1>9, <1>10 DEF BlockListTypeOK
<1>12. CountsSum' /\ Unmade' /\ Configs' = Configs
  BY <1>1, <1>2 DEF CountsSum, Counts, Unmade, Configs
<1>13. BlockListRents'
  <2> DEFINE none == 0
             spent == new - old
  <2>1. /\ none \in Int /\ spent \in Int /\ Cardinality(Configs) \in Int
        /\ Cardinality(wallet_block) \in Int
        /\ Cardinality(wallet_block)' = Cardinality(wallet_block) + none
        /\ Cardinality(Configs)' = Cardinality(Configs) + none
        /\ ConfigRent * none = 0 /\ WalletBlockRent * none = 0
    BY <1>1, <1>2, <1>4, <1>5, <1>12, BlocksCounted, ListAddresses
  <2>2. SumFunction(purse') = SumFunction(purse) - spent
    BY <1>4, <1>5, <1>9
  <2>3. spent = ConfigRent * none + WalletBlockRent * none
                  + (extra_metas'.lamports - extra_metas.lamports)
    BY <1>4, <1>5, <1>7, <2>1
  <2>4. /\ extra_metas.lamports \in Int /\ extra_metas'.lamports \in Int
        /\ extra_metas'.lamports = MinimumBalance(extra_metas'.layout)
    BY <1>4, <1>5, <1>7
  <2> HIDE DEF none, spent
  <2> QED BY <1>2, <1>9, <2>1, <2>2, <2>3, <2>4, RentsFollow
<1> QED BY <1>6, <1>10, <1>11, <1>12, <1>13 DEF ListOK

\* If a block is left, some count is not zero.
LEMMA SomebodyUnblocks == ListOK => CountsAreBlocks
<1> SUFFICES ASSUME ListOK PROVE CountsAreBlocks
  OBVIOUS
<1>1. BlockListTypeOK /\ CountsSum /\ Unmade
  BY DEF ListOK
<1>2. ASSUME NEW place \in wallet_block
      PROVE  \E c \in Configs : CanUnblock(config[c].authority, c, place)
  <2> DEFINE f == Counts
  <2>1. f \in [ConfigAddresses -> Nat] /\ f \in [ConfigAddresses -> Int]
        /\ \A c \in ConfigAddresses : f[c] = config[c].blocked_wallets_count
    BY <1>1 DEF BlockListTypeOK, Counts
  <2>2. Cardinality(wallet_block) # 0
    <3>1. IsFiniteSet(wallet_block) /\ wallet_block # {}
      BY <1>1, <1>2, ListAddresses, FS_Subset DEF BlockListTypeOK
    <3> QED BY <3>1, FS_EmptySet
  <2>3. SumFunction(f) # 0
    BY <1>1, <2>2 DEF CountsSum
  <2> HIDE DEF f
  <2>4. ~ \A c \in ConfigAddresses : f[c] = 0
    <3> SUFFICES ASSUME \A c \in ConfigAddresses : f[c] = 0 PROVE FALSE
      OBVIOUS
    <3>1. SumFunctionOnSet(f, ConfigAddresses) = 0
      BY ListAddresses, SumZeros
    <3>2. SumFunction(f) = SumFunctionOnSet(f, ConfigAddresses)
      BY <2>1, ListAddresses, SumOfFunction
    <3> QED BY <2>3, <3>1, <3>2
  <2>5. PICK c \in ConfigAddresses : f[c] # 0
    BY <2>4
  <2>6. config[c].blocked_wallets_count \in Nat /\ config[c].blocked_wallets_count # 0
    BY <2>1, <2>5
  <2>7. c \in Configs
    BY <1>1, <2>6 DEF Unmade, Configs
  <2>8. config[c].blocked_wallets_count >= 1
    BY <2>6
  <2> QED BY <1>2, <2>7, <2>8 DEF CanUnblock
<1> QED BY <1>1, <1>2 DEF CountsAreBlocks, CountsSum

\* A step that moves no tokens takes none that are frozen.
LEMMA NothingTaken ==
  ASSUME HookedTypeOK, frozen \subseteq TokenAccounts \X Wallets,
         \A a \in TokenAccounts : account'[a].tokens = account[a].tokens
  PROVE  FrozenStays
<1>1. \A a \in TokenAccounts : account[a].tokens \in Nat
  BY DEF HookedTypeOK
<1>2. ASSUME NEW p \in frozen
      PROVE  /\ ~ (account'[p[1]].tokens < account[p[1]].tokens)
             /\ account'[p[1]].tokens <= account[p[1]].tokens
  <2>1. p[1] \in TokenAccounts
    BY <1>2
  <2> QED BY <1>1, <2>1
<1> QED BY <1>2 DEF FrozenStays

\* A transfer takes frozen tokens only by the permanent delegate: the account's owner
\* could not change, so the hook is shown the block of who owned it then; and it brings
\* none where the hook is shown the block of the destination too.
LEMMA FrozenMoves ==
  ASSUME HookedOK, ListOK, NEW from \in TokenAccounts, NEW to \in TokenAccounts,
         NEW by \in Wallets, NEW n \in TransferAmounts, BlockListTransfer(from, to, by, n)
  PROVE  FrozenStays
<1>1. Transfer(from, to, by, n) /\ TxHook(from, to, by)
  BY DEF BlockListTransfer
<1>2. /\ from # to /\ n \in Nat /\ MayMove(from, by)
      /\ account'[from].tokens = account[from].tokens - n
      /\ account'[to].tokens = account[to].tokens + n
      /\ \A a \in TokenAccounts \ {from, to} : account'[a].tokens = account[a].tokens
  BY <1>1, TransferIs DEF HookedOK
<1>3. \A a \in TokenAccounts : account[a].tokens \in Nat
  BY DEF HookedOK, HookedTypeOK
<1>4. MetasAsAsked
  BY DEF ListOK
<1>5. ASSUME NEW p \in frozen
      PROVE  /\ p[1] \in TokenAccounts /\ asked # {} /\ p[2] \in wallet_block
             /\ p[1] \in ImmutableOwner => account[p[1]].owner = p[2]
  BY <1>5 DEF ListOK, BlockListTypeOK, FrozenOwned
<1>6. ASSUME NEW p \in frozen, account'[p[1]].tokens < account[p[1]].tokens
      PROVE  /\ permanent # Nobody
             /\ \E t \in TokenAccounts, m \in TransferAmounts :
                  BlockListTransfer(p[1], t, permanent, m)
  <2>1. p[1] = from
    BY <1>2, <1>3, <1>5, <1>6
  <2>2. extra_metas.layout \in Enforcing
    BY <1>4, <1>5, <1>6 DEF MetasAsAsked
  <2>3. SourcePasses(from, by)
    BY <1>1, <2>2 DEF TxHook
  <2>4. by = permanent /\ permanent # Nobody
    BY <1>2, <1>5, <1>6, <2>1, <2>3 DEF SourcePasses, MayMove
  <2> QED BY <2>1, <2>4
<1>7. ASSUME NEW p \in frozen, "destination" \in asked
      PROVE  account'[p[1]].tokens <= account[p[1]].tokens
  <2>1. DestinationPasses(to)
    BY <1>1, <1>4, <1>7 DEF TxHook, MetasAsAsked
  <2>2. p[1] # to
    BY <1>5, <1>7, <2>1 DEF DestinationPasses
  <2> QED BY <1>2, <1>3, <1>5, <1>7, <2>2
<1> QED BY <1>6, <1>7 DEF FrozenStays

LEMMA ListKeeps ==
  ASSUME HookedOK, ListOK, BlockListNext
  PROVE  HookedOK' /\ ListOK' /\ FrozenStays
<1> DEFINE Still == \A a \in TokenAccounts : account'[a].tokens = account[a].tokens
<1>0. ImmutableOwner \subseteq TokenAccounts
  BY HookedAssumption
<1>1. ASSUME Still PROVE FrozenStays
  <2>1. HookedTypeOK /\ frozen \subseteq TokenAccounts \X Wallets
    BY DEF HookedOK, ListOK, BlockListTypeOK
  <2> QED BY <1>1, <2>1, NothingTaken
<1>2. ASSUME UNCHANGED hookedVars PROVE HookedOK' /\ Still
  BY <1>2, MintStays DEF hookedVars
<1>3. CASE \E w \in ListAuthorities, c \in ConfigAddresses : InitConfig(w, c)
  <2>1. PICK w \in ListAuthorities, c \in ConfigAddresses : InitConfig(w, c)
    BY <1>3
  <2>2. UNCHANGED hookedVars
    BY <2>1 DEF InitConfig
  <2>3. ListOK'
    BY <2>1, ConfigKeeps
  <2> QED BY <1>1, <1>2, <2>2, <2>3
<1>4. CASE \E a \in ListAuthorities, c \in ConfigAddresses, place \in BlockAddresses :
             BlockWallet(a, c, place) \/ UnblockWallet(a, c, place)
  <2>1. PICK a \in ListAuthorities, c \in ConfigAddresses, place \in BlockAddresses :
               BlockWallet(a, c, place) \/ UnblockWallet(a, c, place)
    BY <1>4
  <2>2. UNCHANGED hookedVars
    BY <2>1 DEF BlockWallet, UnblockWallet
  <2>3. ListOK'
    BY <2>1, BlockKeeps, UnblockKeeps
  <2> QED BY <1>1, <1>2, <2>2, <2>3
<1>6. CASE \E a \in Wallets, count \in CountsRead, both \in BOOLEAN :
             SetupExtraMetas(a, count, both)
  <2>1. PICK a \in Wallets, count \in CountsRead, both \in BOOLEAN :
               SetupExtraMetas(a, count, both)
    BY <1>6
  <2>2. UNCHANGED hookedVars
    BY <2>1 DEF SetupExtraMetas
  <2>3. ListOK'
    BY <2>1, SetupKeeps
  <2> QED BY <1>1, <1>2, <2>2, <2>3
<1>7. CASE \E from, to \in TokenAccounts, by \in Wallets, n \in TransferAmounts :
             BlockListTransfer(from, to, by, n)
  <2>1. PICK from \in TokenAccounts, to \in TokenAccounts, by \in Wallets,
             n \in TransferAmounts : BlockListTransfer(from, to, by, n)
    BY <1>7
  <2>2. /\ Transfer(from, to, by, n) /\ FrozenNext
        /\ UNCHANGED <<config, wallet_block, extra_metas, purse, asked>>
    BY <2>1 DEF BlockListTransfer
  <2>3. \A a \in TokenAccounts : account'[a].owner = account[a].owner
    BY <2>2, TransferIs DEF HookedOK
  <2>4. ListOK'
    BY <1>0, <2>2, <2>3, ListUntouched
  <2>5. HookedOK'
    BY <2>2, TransferKeeps
  <2> QED BY <2>1, <2>4, <2>5, FrozenMoves
<1>8. CASE /\ OwnerNext /\ UNCHANGED <<config, wallet_block, extra_metas, purse, asked>>
           /\ FrozenNext
  <2>1. /\ HookedOK' /\ Still
        /\ \A a \in ImmutableOwner : account'[a].owner = account[a].owner
    BY <1>8, OwnersKeep
  <2>2. ListOK'
    BY <1>8, <2>1, ListUntouched
  <2> QED BY <1>1, <2>1, <2>2
<1> QED BY <1>3, <1>4, <1>6, <1>7, <1>8 DEF BlockListNext

\* Where another program is the hook there is nothing on the list.
LEMMA ListIdle ==
  ASSUME ListOK, frozen = {}, UNCHANGED listVars
  PROVE  ListOK' /\ FrozenStays /\ frozen' = {}
BY DEF ListOK, BlockListTypeOK, CountsSum, Counts, Configs, BlockListRents, FrozenOwned,
       MetasAsAsked, Unmade, FrozenStays, listVars

-----------------------------------------------------------------------------
(* allow-block-list-token.                                                    *)

\* What the fields say, unless someone else wrote them, is what was last asked for.
AsAsked ==
  ~ meddled => /\ configured.mode \in Modes
               /\ Written(metadata, configured.mode, configured.threshold)

AllowBlockOK == AllowBlockTypeOK /\ HookedHasList /\ AsAsked

LEMMA AllowBlockStarts == AllowBlockInit => AllowBlockOK
<1> SUFFICES ASSUME AllowBlockInit PROVE AllowBlockOK
  OBVIOUS
<1>1. metadata \in Seq(Fields)
  <2>1. << >> \in Seq(Fields)
    OBVIOUS
  <2> QED BY <2>1, AllowBlockAssumption DEF AllowBlockInit
<1>2. AllowBlockTypeOK
  <2>1. configured \in [mode: Modes \cup {NoMode}, threshold: Nat]
    BY DEF AllowBlockInit, Decoded
  <2> QED BY <1>1, <2>1 DEF AllowBlockInit, AllowBlockTypeOK, NoList
<1>3. HookedHasList /\ AsAsked
  BY DEF AllowBlockInit, HookedHasList, AsAsked, NoList
<1> QED BY <1>2, <1>3 DEF AllowBlockOK

\* What the issuer last asked for is what the hook reads.
LEMMA ReadsAsAsked == AllowBlockOK => DecodesAsConfigured
<1> SUFFICES ASSUME AllowBlockOK, ~ meddled
             PROVE  DecodeMetadata(metadata)
                      = Decoded(IF configured.mode = "Mixed" THEN "Threshold"
                                ELSE configured.mode, configured.threshold)
  BY DEF DecodesAsConfigured
<1> DEFINE m == configured.mode
           t == configured.threshold
<1>1. metadata \in Seq(Fields) /\ m \in Modes /\ t \in Nat /\ Written(metadata, m, t)
  BY DEF AllowBlockOK, AllowBlockTypeOK, AsAsked
<1> HIDE DEF m, t
<1>2. DecodeMetadata(metadata) = Decoded(IF m = "Mixed" THEN "Threshold" ELSE m, t)
  BY <1>1, WrittenDecodes
<1> QED BY <1>2 DEF m, t

\* Asked for a mode, and for a threshold with Mixed.
LEMMA AskedFor ==
  ASSUME NEW mode \in Modes, NEW threshold \in Thresholds,
         configured' = Decoded(mode, IF mode = "Mixed" THEN threshold ELSE 0),
         metadata' \in Seq(Fields),
         Written(metadata', mode, IF mode = "Mixed" THEN threshold ELSE 0)
  PROVE  /\ configured' \in [mode: Modes \cup {NoMode}, threshold: Nat]
         /\ configured'.mode \in Modes
         /\ Written(metadata', configured'.mode, configured'.threshold)
<1> DEFINE t == IF mode = "Mixed" THEN threshold ELSE 0
<1>1. t \in Nat
  BY AllowBlockAssumption
<1>2. configured' = [mode |-> mode, threshold |-> t]
  BY DEF Decoded
<1>3. Written(metadata', mode, t)
  OBVIOUS
<1> HIDE DEF t
<1> QED BY <1>1, <1>2, <1>3

LEMMA AllowBlockIdle ==
  ASSUME AllowBlockOK, UNCHANGED abVars
  PROVE  AllowBlockOK'
BY DEF AllowBlockOK, AllowBlockTypeOK, HookedHasList, AsAsked, abVars

\* A step that moves no tokens moves none against the mode.
LEMMA NothingMoves ==
  ASSUME HookedTypeOK,
         \A a \in TokenAccounts : account'[a].tokens = account[a].tokens
  PROVE  MovesAsConfigured
<1>1. \A a \in TokenAccounts : account[a].tokens \in Nat
  BY DEF HookedTypeOK
<1>2. \A a \in TokenAccounts : ~ (account'[a].tokens > account[a].tokens)
  BY <1>1
<1> QED BY <1>2 DEF MovesAsConfigured

\* A transfer through the hook is one that the mode asked for permits.
LEMMA ConfiguredMoves ==
  ASSUME HookedOK, AllowBlockOK, NEW from \in TokenAccounts, NEW to \in TokenAccounts,
         NEW by \in Wallets, NEW n \in TransferAmounts, AllowBlockTransfer(from, to, by, n)
  PROVE  MovesAsConfigured
<1>1. /\ Transfer(from, to, by, n)
      /\ mint = "hooked" => HookAccepts(from, to, n)
  BY DEF AllowBlockTransfer
<1>2. /\ from # to /\ n \in Nat
      /\ account'[from].tokens = account[from].tokens - n
      /\ account'[to].tokens = account[to].tokens + n
      /\ \A a \in TokenAccounts \ {from, to} : account'[a].tokens = account[a].tokens
  BY <1>1, TransferIs DEF HookedOK
<1>3. \A a \in TokenAccounts : account[a].tokens \in Nat
  BY DEF HookedOK, HookedTypeOK
<1> SUFFICES ASSUME mint = "hooked", ~ meddled,
                    NEW f \in TokenAccounts, NEW t \in TokenAccounts,
                    account[f].tokens - account'[f].tokens > 0,
                    account'[t].tokens > account[t].tokens
             PROVE  /\ ab_wallet[account[f].owner] # "Block"
                    /\ ab_wallet[account[t].owner] # "Block"
                    /\ configured.mode = "Allow" => ab_wallet[account[t].owner] = "Allow"
                    /\ configured.mode = "Mixed" =>
                         \/ ab_wallet[account[t].owner] = "Allow"
                         \/ account[f].tokens - account'[f].tokens < configured.threshold
  BY DEF MovesAsConfigured
<1>4. f = from /\ t = to /\ account[f].tokens - account'[f].tokens = n
  BY <1>2, <1>3
<1> DEFINE d == DecodeMetadata(metadata)
<1>5. Decided(d, ab_wallet[account[f].owner], ab_wallet[account[t].owner], n)
  BY <1>1, <1>4 DEF HookAccepts
<1>6. d = Decoded(IF configured.mode = "Mixed" THEN "Threshold" ELSE configured.mode,
                  configured.threshold)
  BY ReadsAsAsked DEF DecodesAsConfigured
<1> HIDE DEF d
<1>7. /\ configured.mode = "Allow" => d.mode = "Allow"
      /\ configured.mode = "Mixed" => d.mode = "Threshold"
      /\ d.threshold = configured.threshold
  BY <1>6 DEF Decoded
<1> QED BY <1>4, <1>5, <1>7 DEF Decided

LEMMA AllowBlockKeeps ==
  ASSUME HookedOK, AllowBlockOK, AllowBlockNext
  PROVE  HookedOK' /\ AllowBlockOK' /\ MovesAsConfigured
<1> DEFINE Still == \A a \in TokenAccounts : account'[a].tokens = account[a].tokens
<1>1. ASSUME Still PROVE MovesAsConfigured
  BY <1>1, NothingMoves DEF HookedOK
<1>2. ASSUME UNCHANGED hookedVars PROVE HookedOK' /\ MovesAsConfigured
  BY <1>1, <1>2, MintStays DEF hookedVars
<1>3. AllowBlockTypeOK /\ HookedHasList /\ AsAsked
  BY DEF AllowBlockOK
<1>4. CASE \E mode \in Modes, t \in Thresholds : InitMint(mode, t)
  <2>1. PICK mode \in Modes, t \in Thresholds : InitMint(mode, t)
    BY <1>4
  <2>2. t \in Nat
    BY AllowBlockAssumption
  <2>3. /\ UNCHANGED hookedVars /\ UNCHANGED <<list_authority, ab_wallet>>
        /\ mint' = "hooked" /\ meta_list' = 2 /\ meddled' = FALSE
        /\ configured' = Decoded(mode, IF mode = "Mixed" THEN t ELSE 0)
        /\ metadata' = IF mode = "Mixed"
                       THEN Updated(Updated(<< >>, "AB", mode), "threshold", t)
                       ELSE Updated(<< >>, "AB", mode)
    BY <2>1 DEF InitMint, ListMade, NUM_EXTRA_ACCOUNTS
  <2>4. metadata' \in Seq(Fields) /\ Written(metadata', mode, IF mode = "Mixed" THEN t ELSE 0)
    BY <2>2, <2>3, FirstWritten
  <2>5. /\ configured' \in [mode: Modes \cup {NoMode}, threshold: Nat]
        /\ configured'.mode \in Modes
        /\ Written(metadata', configured'.mode, configured'.threshold)
    BY <2>3, <2>4, AskedFor
  <2>6. AllowBlockOK'
    <3>1. UNCHANGED <<list_authority, ab_wallet>> /\ mint' = "hooked"
          /\ meta_list' = 2 /\ meddled' = FALSE
      BY <2>3
    <3>2. AllowBlockTypeOK'
      BY <1>3, <2>4, <2>5, <3>1 DEF AllowBlockTypeOK, NoList, NUM_EXTRA_ACCOUNTS
    <3>3. HookedHasList' /\ AsAsked'
      BY <2>5, <3>1 DEF HookedHasList, AsAsked, NoList
    <3> QED BY <3>2, <3>3 DEF AllowBlockOK
  <2> QED BY <1>2, <2>3, <2>6
<1>5. CASE \E a \in Wallets : AttachToMint(a)
  <2>1. PICK a \in Wallets : AttachToMint(a)
    BY <1>5
  <2>2. /\ UNCHANGED hookedVars /\ mint' = "hooked" /\ meta_list' = 2
        /\ UNCHANGED <<list_authority, ab_wallet, metadata, configured, meddled>>
    BY <2>1 DEF AttachToMint, ListMade, NUM_EXTRA_ACCOUNTS
  <2>3. AllowBlockOK'
    BY <1>3, <2>2
       DEF AllowBlockOK, AllowBlockTypeOK, HookedHasList, AsAsked, NoList, NUM_EXTRA_ACCOUNTS
  <2> QED BY <1>2, <2>2, <2>3
<1>6. CASE \E a \in Wallets, mode \in Modes, t \in Thresholds : ChangeMode(a, mode, t)
  <2>1. PICK a \in Wallets, mode \in Modes, t \in Thresholds : ChangeMode(a, mode, t)
    BY <1>6
  <2>2. t \in Nat
    BY AllowBlockAssumption
  <2>3. /\ UNCHANGED hookedVars /\ UNCHANGED <<list_authority, ab_wallet, mint, meta_list>>
        /\ meddled' = FALSE
        /\ configured' = Decoded(mode, IF mode = "Mixed" THEN t ELSE 0)
        /\ metadata' = Rewritten(metadata, mode, t)
    BY <2>1 DEF ChangeMode
  <2>4. metadata' \in Seq(Fields) /\ Written(metadata', mode, IF mode = "Mixed" THEN t ELSE 0)
    <3>1. metadata \in Seq(Fields)
      BY <1>3 DEF AllowBlockTypeOK
    <3> QED BY <2>2, <2>3, <3>1, RewrittenIs
  <2>5. /\ configured' \in [mode: Modes \cup {NoMode}, threshold: Nat]
        /\ configured'.mode \in Modes
        /\ Written(metadata', configured'.mode, configured'.threshold)
    BY <2>3, <2>4, AskedFor
  <2>6. AllowBlockOK'
    BY <1>3, <2>3, <2>4, <2>5
       DEF AllowBlockOK, AllowBlockTypeOK, HookedHasList, AsAsked
  <2> QED BY <1>2, <2>3, <2>6
<1>7. CASE ResizeMetaList
  <2>1. /\ UNCHANGED hookedVars /\ meta_list' = 2
        /\ UNCHANGED <<list_authority, ab_wallet, metadata, mint, configured, meddled>>
    BY <1>7 DEF ResizeMetaList, NUM_EXTRA_ACCOUNTS
  <2>2. AllowBlockOK'
    BY <1>3, <2>1
       DEF AllowBlockOK, AllowBlockTypeOK, HookedHasList, AsAsked, NoList, NUM_EXTRA_ACCOUNTS
  <2> QED BY <1>2, <2>1, <2>2
<1>8. CASE \E a \in ConfigPayers : InitListConfig(a)
  <2>1. PICK a \in ConfigPayers : InitListConfig(a)
    BY <1>8
  <2>2. /\ UNCHANGED hookedVars /\ list_authority' = a
        /\ UNCHANGED <<ab_wallet, metadata, mint, meta_list, configured, meddled>>
    BY <2>1 DEF InitListConfig
  <2>3. AllowBlockOK'
    BY <1>3, <2>2 DEF AllowBlockOK, AllowBlockTypeOK, HookedHasList, AsAsked
  <2> QED BY <1>2, <2>2, <2>3
<1>9. CASE \/ \E a \in ConfigPayers, w \in Marked, allowed \in BOOLEAN : InitWallet(a, w, allowed)
           \/ \E a \in ConfigPayers, w \in Marked : RemoveWallet(a, w)
  <2>1. PICK w \in Marked, mark \in {None, "Allow", "Block"} :
          /\ ab_wallet' = [ab_wallet EXCEPT ![w] = mark]
          /\ UNCHANGED hookedVars
          /\ UNCHANGED <<list_authority, metadata, mint, meta_list, configured, meddled>>
    <3>1. CASE \E a \in ConfigPayers, w \in Marked, allowed \in BOOLEAN : InitWallet(a, w, allowed)
      <4>1. PICK a \in ConfigPayers, w \in Marked, allowed \in BOOLEAN : InitWallet(a, w, allowed)
        BY <3>1
      <4> DEFINE mark == IF allowed THEN "Allow" ELSE "Block"
      <4>2. mark \in {None, "Allow", "Block"}
        OBVIOUS
      <4> QED BY <4>1, <4>2 DEF InitWallet
    <3>2. CASE \E a \in ConfigPayers, w \in Marked : RemoveWallet(a, w)
      BY <3>2 DEF RemoveWallet
    <3> QED BY <1>9, <3>1, <3>2
  <2>2. ab_wallet' \in [Wallets -> {None, "Allow", "Block"}]
    BY <1>3, <2>1 DEF AllowBlockTypeOK
  <2>3. AllowBlockOK'
    BY <1>3, <2>1, <2>2 DEF AllowBlockOK, AllowBlockTypeOK, HookedHasList, AsAsked
  <2> QED BY <1>2, <2>1, <2>3
<1>10. CASE \/ \E mode \in Modes : UpdateField("AB", mode)
            \/ \E t \in Thresholds : UpdateField("threshold", t)
  <2>1. PICK key, value :
          /\ Field(key, value) \in Fields /\ metadata' = Updated(metadata, key, value)
          /\ UNCHANGED hookedVars /\ meddled' = TRUE
          /\ UNCHANGED <<list_authority, ab_wallet, mint, meta_list, configured>>
    <3>1. CASE \E mode \in Modes : UpdateField("AB", mode)
      <4>1. PICK mode \in Modes : UpdateField("AB", mode)
        BY <3>1
      <4>2. Field("AB", mode) \in Fields
        BY DEF Field, Fields
      <4> QED BY <4>1, <4>2 DEF UpdateField
    <3>2. CASE \E t \in Thresholds : UpdateField("threshold", t)
      <4>1. PICK t \in Thresholds : UpdateField("threshold", t)
        BY <3>2
      <4>2. Field("threshold", t) \in Fields
        BY AllowBlockAssumption DEF Field, Fields
      <4> QED BY <4>1, <4>2 DEF UpdateField
    <3> QED BY <1>10, <3>1, <3>2
  <2>2. metadata' \in Seq(Fields)
    <3>1. metadata \in Seq(Fields)
      BY <1>3 DEF AllowBlockTypeOK
    <3> QED BY <2>1, <3>1, UpdatedIs
  <2>3. AllowBlockOK'
    BY <1>3, <2>1, <2>2 DEF AllowBlockOK, AllowBlockTypeOK, HookedHasList, AsAsked
  <2> QED BY <1>2, <2>1, <2>3
<1>11. CASE \E from, to \in TokenAccounts, by \in Wallets, n \in TransferAmounts :
              AllowBlockTransfer(from, to, by, n)
  <2>1. PICK from \in TokenAccounts, to \in TokenAccounts, by \in Wallets,
             n \in TransferAmounts : AllowBlockTransfer(from, to, by, n)
    BY <1>11
  <2>2. Transfer(from, to, by, n) /\ UNCHANGED abVars
    BY <2>1 DEF AllowBlockTransfer
  <2>3. HookedOK' /\ AllowBlockOK'
    BY <2>2, TransferKeeps, AllowBlockIdle
  <2> QED BY <2>1, <2>3, ConfiguredMoves
<1>12. CASE OwnerNext /\ UNCHANGED abVars
  BY <1>1, <1>12, OwnersKeep, AllowBlockIdle
<1> QED BY <1>4, <1>5, <1>6, <1>7, <1>8, <1>9, <1>10, <1>11, <1>12 DEF AllowBlockNext

-----------------------------------------------------------------------------
(* transfer-switch.                                                           *)

LEMMA SwitchStarts ==
  ASSUME SwitchInit
  PROVE  SwitchTypeOK
<1>1. admin_config \in [is_initialised: BOOLEAN, admin: Wallets \cup {Nobody}]
  BY DEF SwitchInit
<1>2. wallet_switch \in [Wallets -> {NoSwitch, "on", "off"}]
  BY DEF SwitchInit
<1>3. switch_list \in BOOLEAN
  BY DEF SwitchInit
<1> QED BY <1>1, <1>2, <1>3 DEF SwitchTypeOK

LEMMA SwitchIdle == SwitchTypeOK /\ UNCHANGED switchVars => SwitchTypeOK'
BY DEF SwitchTypeOK, switchVars

\* A step that moves no tokens needs no switch; but there must be a wallet to speak of.
LEMMA SwitchKeeps ==
  ASSUME HookedOK, SwitchTypeOK, SwitchNext
  PROVE  HookedOK' /\ SwitchTypeOK' /\ SwitchedMove
<1> DEFINE Still == \A a \in TokenAccounts : account'[a].tokens = account[a].tokens
<1>0. \A a \in TokenAccounts : account[a].tokens \in Nat
  BY DEF HookedOK, HookedTypeOK
<1>1. ASSUME Still PROVE SwitchedMove
  BY <1>0, <1>1 DEF SwitchedMove
<1>2. ASSUME UNCHANGED hookedVars PROVE HookedOK' /\ SwitchedMove
  BY <1>1, <1>2, MintStays DEF hookedVars
<1>3. CASE \E a, new \in Wallets : ConfigureAdmin(a, new)
  <2>1. PICK a \in Wallets, new \in Wallets : ConfigureAdmin(a, new)
    BY <1>3
  <2>2. SwitchTypeOK' /\ UNCHANGED hookedVars
    BY <2>1 DEF ConfigureAdmin, SwitchTypeOK
  <2> QED BY <1>2, <2>2
<1>4. CASE InitialiseExtraAccountMetasList
  <2>1. SwitchTypeOK' /\ UNCHANGED hookedVars
    BY <1>4 DEF InitialiseExtraAccountMetasList, SwitchTypeOK
  <2> QED BY <1>2, <2>1
<1>5. CASE \E a, w \in Wallets, on \in BOOLEAN : Switch(a, w, on)
  <2>1. PICK a \in Wallets, w \in Wallets, on \in BOOLEAN : Switch(a, w, on)
    BY <1>5
  <2> DEFINE v == IF on THEN "on" ELSE "off"
  <2>2. /\ wallet_switch' = [wallet_switch EXCEPT ![w] = v]
        /\ UNCHANGED hookedVars /\ UNCHANGED <<admin_config, switch_list>>
    BY <2>1 DEF Switch
  <2>3. v \in {NoSwitch, "on", "off"}
    OBVIOUS
  <2> HIDE DEF v
  <2>4. SwitchTypeOK'
    BY <2>2, <2>3 DEF SwitchTypeOK
  <2> QED BY <1>2, <2>2, <2>4
<1>6. CASE \E from, to \in TokenAccounts, by \in Wallets, n \in TransferAmounts :
             SwitchTransfer(from, to, by, n)
  <2>1. PICK from \in TokenAccounts, to \in TokenAccounts, by \in Wallets,
             n \in TransferAmounts : SwitchTransfer(from, to, by, n)
    BY <1>6
  <2>2. Transfer(from, to, by, n) /\ wallet_switch[by] = "on" /\ UNCHANGED switchVars
    BY <2>1 DEF SwitchTransfer, AssertSwitchIsOn
  <2>3. HookedOK' /\ SwitchTypeOK'
    BY <2>2, TransferKeeps, SwitchIdle
  <2>4. /\ MayMove(from, by) /\ n \in Nat
        /\ account'[to].tokens = account[to].tokens + n
        /\ \A a \in TokenAccounts \ {from, to} : account'[a].tokens = account[a].tokens
    BY <2>2, TransferIs DEF HookedOK
  <2>5. \A a \in TokenAccounts : account'[a].tokens < account[a].tokens => a = from
    BY <1>0, <2>4
  <2>6. SwitchedMove
    BY <2>2, <2>4, <2>5 DEF SwitchedMove
  <2> QED BY <2>3, <2>6
<1>7. CASE OwnerNext /\ UNCHANGED switchVars
  BY <1>1, <1>7, OwnersKeep, SwitchIdle
<1> QED BY <1>3, <1>4, <1>5, <1>6, <1>7 DEF SwitchNext

-----------------------------------------------------------------------------
(* The four small hooks.                                                      *)

Made(s) == IsFiniteSet(s) /\ Cardinality(s) \in Nat

ExamplesOK ==
  /\ ExamplesTypeOK /\ FeesMatchTransfers /\ ListsHaveCounters
  /\ Made(hook_lists) /\ Made(DOMAIN counter_account)

LEMMA ExamplesStart == ExamplesInit => ExamplesOK
<1> SUFFICES ASSUME ExamplesInit PROVE ExamplesOK
  OBVIOUS
<1>1. IsFiniteSet({}) /\ Cardinality({}) = 0
  BY FS_EmptySet
<1>2. hook_lists = {} /\ DOMAIN counter_account = {}
  BY DEF ExamplesInit
<1>3. ListsHaveCounters /\ Made(hook_lists) /\ Made(DOMAIN counter_account)
  BY <1>1, <1>2 DEF ListsHaveCounters, Made
<1>4. ExamplesTypeOK
  BY ExamplesAssumption DEF ExamplesInit, ExamplesTypeOK
<1>5. FeesMatchTransfers
  <2>1. [w \in Wallets |-> wsol[w].amount] = [w \in Wallets |-> WrappedSol[w]]
    BY DEF ExamplesInit
  <2>2. WrappedSol = [w \in Wallets |-> WrappedSol[w]] /\ WrappedSol \in [Wallets -> Int]
    BY ExamplesAssumption
  <2>3. SumFunction(WrappedSol) \in Int
    BY <2>2, HookedAssumption, SumOfFunction
  <2>4. SumFunction([w \in Wallets |-> wsol[w].amount]) = SumFunction(WrappedSol)
    BY <2>1, <2>2
  <2> QED BY <2>3, <2>4 DEF FeesMatchTransfers, ExamplesInit
<1> QED BY <1>3, <1>4, <1>5 DEF ExamplesOK

LEMMA ExamplesIdle ==
  ASSUME ExamplesOK, UNCHANGED exampleVars
  PROVE  ExamplesOK'
BY DEF ExamplesOK, ExamplesTypeOK, FeesMatchTransfers, ListsHaveCounters, Made, exampleVars

\* A list and the counter that comes with it are each one more.
LEMMA ListMakes ==
  ASSUME ExamplesOK, NEW payer \in ListPayers, NEW m \in ListMints,
         InitializeExtraAccountMetaList(payer, m)
  PROVE  ExamplesOK'
<1> DEFINE L == hook_lists
           C == DOMAIN counter_account
           made == CounterMade(payer)
<1>1. /\ m \notin L /\ made \cap C = {} /\ hook_lists' = L \cup {m}
      /\ counter_account' = [seed \in C \cup made |->
                               IF seed \in C THEN counter_account[seed] ELSE 0]
      /\ UNCHANGED <<example, wsol, delegate_wsol, transferred>>
  BY DEF InitializeExtraAccountMetaList
<1>2. DOMAIN counter_account' = C \cup made
  BY <1>1
<1>3. Made(L) /\ Made(C) /\ ExamplesTypeOK /\ FeesMatchTransfers /\ ListsHaveCounters
  BY DEF ExamplesOK
<1>4. Made(L \cup {m}) /\ Cardinality(L \cup {m}) = Cardinality(L) + 1
  <2> HIDE DEF L
  <2>1. IsFiniteSet(L) /\ m \notin L
    BY <1>1, <1>3 DEF Made
  <2>2. IsFiniteSet(L \cup {m}) /\ Cardinality(L \cup {m}) = Cardinality(L) + 1
    BY <2>1, FS_AddElement
  <2> QED BY <2>2, <1>3 DEF Made
<1>5. \/ example = "hello-world" /\ made = {}
      \/ made = {Shared}
      \/ made = {payer}
  <2>1. example \in Examples
    BY <1>3 DEF ExamplesTypeOK
  <2> QED BY <2>1 DEF CounterMade, Examples
<1>6. made \subseteq ListPayers \cup {Shared}
  BY <1>5
<1> HIDE DEF made
<1>7. /\ Made(C \cup made)
      /\ example # "hello-world" => Cardinality(C \cup made) = Cardinality(C) + 1
  <2>1. ASSUME NEW seed, made = {seed}
        PROVE  Made(C \cup {seed}) /\ Cardinality(C \cup {seed}) = Cardinality(C) + 1
    <3>1. seed \notin C
      BY <1>1, <2>1
    <3> HIDE DEF C
    <3> QED BY <1>3, <3>1, FS_AddElement DEF Made
  <2>2. CASE made = {}
    <3>1. C \cup made = C
      BY <2>2
    <3> QED BY <1>3, <1>5, <2>2, <3>1
  <2>3. CASE made # {}
    BY <1>5, <2>1, <2>3
  <2> QED BY <2>2, <2>3
<1>8. ExamplesTypeOK'
  <2>1. hook_lists' \subseteq ListMints /\ DOMAIN counter_account' \subseteq ListPayers \cup {Shared}
    BY <1>1, <1>2, <1>3, <1>6 DEF ExamplesTypeOK
  <2>2. \A seed \in DOMAIN counter_account' : counter_account'[seed] \in Nat
    BY <1>1, <1>2, <1>3 DEF ExamplesTypeOK
  <2> QED BY <1>1, <1>3, <2>1, <2>2 DEF ExamplesTypeOK
<1>9. FeesMatchTransfers'
  BY <1>1, <1>3 DEF FeesMatchTransfers
<1>10. ListsHaveCounters' /\ Made(hook_lists)' /\ Made(DOMAIN counter_account)'
  <2>1. example' = example
    BY <1>1
  <2>2. Made(hook_lists') /\ Made(DOMAIN counter_account')
    BY <1>1, <1>2, <1>4, <1>7
  <2>3. ListsHaveCounters'
    <3> HIDE DEF L, C
    <3>1. example # "hello-world" => Cardinality(L) = Cardinality(C)
      BY <1>3 DEF ListsHaveCounters, L, C
    <3>2. example # "hello-world" => Cardinality(L \cup {m}) = Cardinality(C \cup made)
      BY <1>4, <1>7, <3>1
    <3> QED BY <1>1, <1>2, <2>1, <3>2 DEF ListsHaveCounters
  <2> QED BY <2>2, <2>3 DEF Made
<1> QED BY <1>8, <1>9, <1>10 DEF ExamplesOK

\* The owner pays what the program gets, and both are what was transferred.
LEMMA FeeTaken ==
  ASSUME ExamplesOK, NEW w \in Wallets, NEW n \in Nat, TakeFee(w, n),
         transferred' = [tokens |-> transferred.tokens + n, times |-> transferred.times + 1],
         UNCHANGED <<example, hook_lists, counter_account>>
  PROVE  ExamplesOK'
<1> DEFINE f == [x \in Wallets |-> wsol[x].amount]
           g == [x \in Wallets |-> wsol'[x].amount]
           row == [amount |-> wsol[w].amount - n, allowance |-> wsol[w].allowance - n]
<1>1. /\ wsol[w].amount >= n /\ wsol[w].allowance >= n
      /\ wsol' = [wsol EXCEPT ![w] = row]
      /\ delegate_wsol' = delegate_wsol + n
  BY DEF TakeFee, Fee
<1>2. ExamplesTypeOK /\ FeesMatchTransfers
  BY DEF ExamplesOK
<1>3. wsol \in [Wallets -> [amount: Nat, allowance: Nat]]
  BY <1>2 DEF ExamplesTypeOK
<1>4. row \in [amount: Nat, allowance: Nat] /\ row.amount = wsol[w].amount - n
  BY <1>1, <1>3
<1> HIDE DEF row
<1>5. /\ wsol' \in [Wallets -> [amount: Nat, allowance: Nat]]
      /\ wsol'[w].amount = wsol[w].amount - n
      /\ \A x \in Wallets \ {w} : wsol'[x] = wsol[x]
  BY <1>1, <1>3, <1>4
<1>6. /\ f \in [Wallets -> Int] /\ g \in [Wallets -> Int]
      /\ g[w] = f[w] + (0 - n) /\ \A x \in Wallets \ {w} : g[x] = f[x]
  BY <1>3, <1>5
<1>7. 0 - n \in Int /\ IsFiniteSet(Wallets)
  BY HookedAssumption
<1> HIDE DEF f, g
<1>8. SumFunction(f) \in Int /\ SumFunction(g) = SumFunction(f) + (0 - n)
  BY <1>6, <1>7, SumMoves
<1>9. delegate_wsol \in Nat /\ transferred.tokens \in Nat /\ transferred.times \in Nat
  BY <1>2 DEF ExamplesTypeOK
<1>10. SumFunction(f) + delegate_wsol = SumFunction(WrappedSol)
       /\ delegate_wsol = transferred.tokens
  BY <1>2 DEF FeesMatchTransfers, f
<1>11. /\ SumFunction(g) + delegate_wsol' = SumFunction(WrappedSol)
       /\ delegate_wsol' = transferred'.tokens
  BY <1>1, <1>8, <1>9, <1>10
<1>12. FeesMatchTransfers'
  BY <1>11 DEF FeesMatchTransfers, g
<1>13. ExamplesTypeOK'
  BY <1>1, <1>2, <1>5, <1>9 DEF ExamplesTypeOK
<1> QED BY <1>12, <1>13 DEF ExamplesOK, ListsHaveCounters, Made

LEMMA ExamplesKeep ==
  ASSUME HookedOK, ExamplesOK, ExamplesNext
  PROVE  HookedOK' /\ ExamplesOK'
<1>1. CASE \E w \in ListPayers, m \in ListMints : InitializeExtraAccountMetaList(w, m)
  <2>1. PICK w \in ListPayers, m \in ListMints : InitializeExtraAccountMetaList(w, m)
    BY <1>1
  <2>2. UNCHANGED hookedVars
    BY <2>1 DEF InitializeExtraAccountMetaList
  <2> QED BY <2>1, <2>2, MintStays, ListMakes
<1>2. CASE \E w \in Wallets, n \in Allowances : ApproveFee(w, n)
  <2>1. PICK w \in Wallets, n \in Allowances : ApproveFee(w, n)
    BY <1>2
  <2>2. /\ UNCHANGED hookedVars /\ wsol' = [wsol EXCEPT ![w].allowance = n] /\ n \in Nat
        /\ UNCHANGED <<example, hook_lists, counter_account, delegate_wsol, transferred>>
    BY <2>1, ExamplesAssumption DEF ApproveFee
  <2>3. ExamplesTypeOK /\ FeesMatchTransfers
    BY DEF ExamplesOK
  <2>4. /\ wsol' \in [Wallets -> [amount: Nat, allowance: Nat]]
        /\ \A x \in Wallets : wsol'[x].amount = wsol[x].amount
    <3>1. wsol \in [Wallets -> [amount: Nat, allowance: Nat]]
      BY <2>3 DEF ExamplesTypeOK
    <3>2. wsol[w] \in [amount: Nat, allowance: Nat]
      BY <3>1
    <3> QED BY <2>2, <3>1, <3>2
  <2>5. [x \in Wallets |-> wsol'[x].amount] = [x \in Wallets |-> wsol[x].amount]
    BY <2>4
  <2>6. FeesMatchTransfers'
    BY <2>2, <2>3, <2>5 DEF FeesMatchTransfers
  <2>7. ExamplesOK'
    BY <2>2, <2>3, <2>4, <2>6 DEF ExamplesOK, ExamplesTypeOK, ListsHaveCounters, Made
  <2> QED BY <2>2, <2>7, MintStays
<1>3. CASE \E from, to \in TokenAccounts, by \in Wallets, n \in TransferAmounts :
             ExamplesTransfer(from, to, by, n)
  <2>1. PICK from \in TokenAccounts, to \in TokenAccounts, by \in Wallets,
             n \in TransferAmounts : ExamplesTransfer(from, to, by, n)
    BY <1>3
  <2>2. /\ Transfer(from, to, by, n) /\ TransferHook(from, by, n, TRUE)
        /\ UNCHANGED <<example, hook_lists, counter_account>>
    BY <2>1 DEF ExamplesTransfer, TransferHook
  <2>3. HookedOK' /\ n \in Nat
    BY <2>2, TransferKeeps, HookedAssumption
  <2>4. CASE example = "transfer-cost"
    <3>1. /\ TakeFee(by, n)
          /\ transferred' = [tokens |-> transferred.tokens + n,
                             times |-> transferred.times + 1]
      BY <2>1, <2>2, <2>4 DEF ExamplesTransfer, TransferHook
    <3> QED BY <2>2, <2>3, <3>1, FeeTaken
  <2>5. CASE example # "transfer-cost"
    <3>1. /\ UNCHANGED <<wsol, delegate_wsol>>
          /\ transferred' = [transferred EXCEPT !.times = IF @ = 2 THEN @ ELSE @ + 1]
      BY <2>1, <2>2, <2>5 DEF ExamplesTransfer, TransferHook
    <3>2. ExamplesTypeOK /\ FeesMatchTransfers
      BY DEF ExamplesOK
    <3>3. transferred' \in [tokens: Nat, times: Nat] /\ transferred'.tokens = transferred.tokens
      <4>1. transferred \in [tokens: Nat, times: Nat]
        BY <3>2 DEF ExamplesTypeOK
      <4> QED BY <3>1, <4>1
    <3>4. ExamplesTypeOK' /\ FeesMatchTransfers'
      BY <2>2, <3>1, <3>2, <3>3 DEF ExamplesTypeOK, FeesMatchTransfers
    <3>5. ExamplesOK'
      BY <2>2, <3>4 DEF ExamplesOK, ListsHaveCounters, Made
    <3> QED BY <2>3, <3>5
  <2> QED BY <2>4, <2>5
<1>4. CASE \E from \in TokenAccounts, by \in Wallets, n \in TransferAmounts :
             HookAlone(from, by, n)
  <2>1. UNCHANGED exampleVars /\ UNCHANGED hookedVars
    BY <1>4 DEF HookAlone, CheckIsTransferring, exampleVars
  <2> QED BY <2>1, MintStays, ExamplesIdle
<1>5. CASE OwnerNext /\ UNCHANGED exampleVars
  BY <1>5, OwnersKeep, ExamplesIdle
<1> QED BY <1>1, <1>2, <1>3, <1>4, <1>5 DEF ExamplesNext

-----------------------------------------------------------------------------
(* The mint and its program.                                                  *)

HookInv ==
  /\ HookedOK /\ ListOK /\ AllowBlockOK /\ SwitchTypeOK /\ ExamplesOK
  /\ hook # "block-list" => frozen = {}
  /\ hook # "abl-token" => mint = "absent"

LEMMA HookStarts == Init => HookInv
<1> SUFFICES ASSUME Init PROVE HookInv
  OBVIOUS
<1>1. HookedOK /\ ListOK /\ AllowBlockOK /\ SwitchTypeOK /\ ExamplesOK
  BY HookedStarts, ListStarts, AllowBlockStarts, SwitchStarts, ExamplesStart DEF Init
<1> QED BY <1>1 DEF Init, HookInv, BlockListInit

\* A step of any program keeps the invariant and moves tokens as permitted.
LEMMA HookKeeps ==
  ASSUME HookInv, Next
  PROVE  /\ HookInv' /\ FrozenStays /\ MovesAsConfigured
         /\ hook = "transfer-switch" => SwitchedMove
<1>1. ASSUME mint = "absent" PROVE MovesAsConfigured
  BY <1>1 DEF MovesAsConfigured
<1>2. CASE /\ hook = "block-list" /\ BlockListNext
           /\ UNCHANGED <<abVars, switchVars, exampleVars, hook>>
  <2>1. HookedOK' /\ ListOK' /\ FrozenStays
    BY <1>2, ListKeeps DEF HookInv
  <2>2. AllowBlockOK' /\ SwitchTypeOK' /\ ExamplesOK' /\ mint' = mint /\ hook' = hook
    BY <1>2, AllowBlockIdle, SwitchIdle, ExamplesIdle DEF HookInv, abVars
  <2>3. hook # "abl-token" /\ hook # "transfer-switch"
    BY <1>2
  <2> QED BY <1>1, <1>2, <2>1, <2>2, <2>3 DEF HookInv
<1>3. CASE /\ hook = "abl-token" /\ AllowBlockNext
           /\ UNCHANGED <<listVars, switchVars, exampleVars, hook>>
  <2>1. HookedOK' /\ AllowBlockOK' /\ MovesAsConfigured
    BY <1>3, AllowBlockKeeps DEF HookInv
  <2>2. /\ ListOK' /\ FrozenStays /\ frozen' = {}
        /\ SwitchTypeOK' /\ ExamplesOK' /\ hook' = hook
    BY <1>3, ListIdle, SwitchIdle, ExamplesIdle DEF HookInv
  <2> QED BY <1>3, <2>1, <2>2 DEF HookInv
<1>4. CASE /\ hook = "transfer-switch" /\ SwitchNext
           /\ UNCHANGED <<listVars, abVars, exampleVars, hook>>
  <2>1. HookedOK' /\ SwitchTypeOK' /\ SwitchedMove
    BY <1>4, SwitchKeeps DEF HookInv
  <2>2. /\ ListOK' /\ FrozenStays /\ frozen' = {}
        /\ AllowBlockOK' /\ mint' = mint /\ ExamplesOK' /\ hook' = hook
    BY <1>4, ListIdle, AllowBlockIdle, ExamplesIdle DEF HookInv, abVars
  <2> QED BY <1>1, <1>4, <2>1, <2>2 DEF HookInv
<1>5. CASE /\ hook = "example" /\ ExamplesNext
           /\ UNCHANGED <<listVars, abVars, switchVars, hook>>
  <2>1. HookedOK' /\ ExamplesOK'
    BY <1>5, ExamplesKeep DEF HookInv
  <2>2. /\ ListOK' /\ FrozenStays /\ frozen' = {}
        /\ AllowBlockOK' /\ mint' = mint /\ SwitchTypeOK' /\ hook' = hook
    BY <1>5, ListIdle, AllowBlockIdle, SwitchIdle DEF HookInv, abVars
  <2> QED BY <1>1, <1>5, <2>1, <2>2 DEF HookInv
<1> QED BY <1>2, <1>3, <1>4, <1>5 DEF Next

LEMMA HookStutters == HookInv /\ UNCHANGED hookVars => HookInv'
<1> SUFFICES ASSUME HookInv, UNCHANGED hookVars PROVE HookInv'
  OBVIOUS
<1>1. /\ UNCHANGED hookedVars /\ UNCHANGED abVars /\ UNCHANGED switchVars
      /\ UNCHANGED exampleVars /\ UNCHANGED listVars /\ hook' = hook
  BY DEF hookVars
<1>2. HookedOK' /\ AllowBlockOK' /\ SwitchTypeOK' /\ ExamplesOK'
  BY <1>1, MintStays, AllowBlockIdle, SwitchIdle, ExamplesIdle DEF HookInv
<1>3. ListOK' /\ frozen' = frozen /\ mint' = mint
  BY <1>1 DEF HookInv, ListOK, BlockListTypeOK, CountsSum, Counts, Configs, BlockListRents,
              FrozenOwned, MetasAsAsked, Unmade, listVars, hookedVars, abVars
<1> QED BY <1>1, <1>2, <1>3 DEF HookInv

LEMMA HookInvariant == Spec => []HookInv
<1>1. HookInv /\ [Next]_hookVars => HookInv'
  BY HookKeeps, HookStutters
<1> QED BY <1>1, HookStarts, PTL DEF Spec

\* The records that the hooks' programs keep twice agree, for any wallets, accounts,
\* mints and rents: the counts of all configs of block-list, whoever made them, with the
\* block accounts, so that some authority can unblock whoever is blocked (init,
\* block_wallet, unblock_wallet), lamports with the accounts they paid for (setup_extra_metas), lists
\* with counters, wrapped SOL with the tokens that were transferred (transfer_hook), and
\* no hook makes or loses a token.
THEOREM RecordsAlwaysAgree == Spec => []RecordsAgree
<1>1. HookInv => RecordsAgree
  BY SomebodyUnblocks DEF HookInv, RecordsAgree, TypeOK, HookedOK, ListOK, AllowBlockOK,
                          ExamplesOK
<1> QED BY <1>1, HookInvariant, PTL

\* decode_metadata reads what change_mode or init_mint wrote last, whatever fields the
\* mint had before, in whatever order, and whatever modes came in between.
THEOREM AlwaysDecodesAsConfigured == Spec => []DecodesAsConfigured
<1>1. HookInv => DecodesAsConfigured
  BY ReadsAsAsked DEF HookInv
<1> QED BY <1>1, HookInvariant, PTL

\* Tokens move only as the hook has it: those of a wallet that is blocked by whichever
\* config, when the issuer's last setup read a list that is not empty, by the permanent
\* delegate alone (tx_hook of block-list), with marks as the mode asks for (decide), by a
\* wallet that is switched on (assert_switch_is_on).
THEOREM TokensMoveAsPermitted == Spec => MovesPermitted
<1> DEFINE A == /\ FrozenStays /\ MovesAsConfigured
                /\ hook = "transfer-switch" => SwitchedMove
<1>1. HookInv /\ [Next]_hookVars => [A]_hookVars
  BY HookKeeps
<1> QED BY <1>1, HookInvariant, PTL DEF Spec, MovesPermitted
=============================================================================
