--------------------------- MODULE CaptureProofs ---------------------------
(***************************************************************************)
(* Proofs about what is made of an answer, by the integration and by the   *)
(* capture tool, for entries of any number and kind, miscounted or cut off *)
(* anywhere, and about a capture of any length: every message that is in   *)
(* it whole is printed.  The parsers are recursive functions, and what     *)
(* they return is shown by induction on how many entries are left to read. *)
(***************************************************************************)
EXTENDS CaptureProperties, SequenceTheorems, WellFoundedInduction, TLAPS

-----------------------------------------------------------------------------
(* Induction over the naturals.  The predicate is a set: provers cannot    *)
(* instantiate one that is an operator, as it is in NatInduction.          *)

LEMMA LeastNatural ==
    ASSUME NEW T, T \subseteq Nat, T # {}
    PROVE  \E m \in T : \A k \in T : m <= k
<1> DEFINE R == OpToRel(<, Nat)
<1>1. IsWellFoundedOn(R, Nat)
  BY NatLessThanWellFounded
<1>2. \A a, b \in Nat : a < b => <<a, b>> \in R
  BY DEF OpToRel
<1> HIDE DEF R
<1>3. PICK m \in T : \A k \in T : <<k, m>> \notin R
  BY <1>1, WFMin
<1>4. \A k \in T : ~(k < m)
  BY <1>2, <1>3
<1> QED
  BY <1>4

\* A set that holds 0 and with each natural the next one holds them all.
LEMMA Induction ==
    ASSUME NEW P, 0 \in P, \A k \in Nat : k \in P => k + 1 \in P
    PROVE  \A k \in Nat : k \in P
<1> DEFINE T == {k \in Nat : k \notin P}
<1> SUFFICES ASSUME T # {} PROVE FALSE
  OBVIOUS
<1>1. PICK m \in T : \A k \in T : m <= k
  BY LeastNatural
<1>2. m \in Nat \ {0} /\ m \notin P
  BY <1>1
<1>3. m - 1 \in Nat /\ m - 1 \notin T
  BY <1>1, <1>2
<1>4. m - 1 \in P /\ (m - 1) + 1 = m
  BY <1>2, <1>3
<1> QED
  BY <1>2, <1>3, <1>4

-----------------------------------------------------------------------------
(* Numbers of two bytes.                                                   *)

LEBody(bytes, g, s) == IF s = {} THEN 0
                       ELSE bytes[Min(s)] + 256 * g[s \ {Min(s)}]

LEMMA UnfoldLE ==
    ASSUME NEW bytes
    PROVE  FromLE(bytes) = (CHOOSE g : g = [s \in SUBSET DOMAIN bytes |->
                                              LEBody(bytes, g, s)])[DOMAIN bytes]
BY DEF FromLE, FoldRight, MapThenFoldSet, LEBody

LEMMA TwoBytes ==
    ASSUME NEW a \in Nat, NEW b \in Nat, NEW bytes, bytes = <<a, b>>
    PROVE  FromLE(bytes) = a + 256 * b
<1>1. /\ DOMAIN bytes = {1, 2} /\ bytes[1] = a /\ bytes[2] = b
  OBVIOUS
<1>2. Min({1}) = 1 /\ Min({2}) = 2 /\ Min({1, 2}) = 1
  BY DEF Min
<1>3. PICK g : g = [s \in SUBSET {1, 2} |->
                      IF s = {} THEN 0 ELSE IF s = {1} THEN a
                      ELSE IF s = {2} THEN b ELSE a + 256 * b]
  OBVIOUS
<1>4. \A s \in SUBSET {1, 2} : s = {} \/ s = {1} \/ s = {2} \/ s = {1, 2}
  OBVIOUS
<1>5. /\ g[{}] = 0 /\ g[{1}] = a /\ g[{2}] = b /\ g[{1, 2}] = a + 256 * b
  BY <1>3
<1>6. {1} \ {1} = {} /\ {2} \ {2} = {} /\ {1, 2} \ {1} = {2}
  OBVIOUS
<1>7. ASSUME NEW s \in SUBSET {1, 2}
      PROVE  g[s] = LEBody(bytes, g, s)
  <2>1. CASE s = {}
    BY <1>5, <2>1 DEF LEBody
  <2>2. CASE s = {1}
    BY <1>1, <1>2, <1>5, <1>6, <2>2 DEF LEBody
  <2>3. CASE s = {2}
    BY <1>1, <1>2, <1>5, <1>6, <2>3 DEF LEBody
  <2>4. CASE s = {1, 2}
    BY <1>1, <1>2, <1>5, <1>6, <2>4 DEF LEBody
  <2> QED
    BY <1>4, <2>1, <2>2, <2>3, <2>4, ZenonT(40)
<1>8. g = [s \in SUBSET {1, 2} |-> LEBody(bytes, g, s)]
  BY <1>3, <1>7, ZenonT(40)
<1>9. PICK f : /\ f = [s \in SUBSET {1, 2} |-> LEBody(bytes, f, s)]
               /\ FromLE(bytes) = f[{1, 2}]
  BY <1>1, <1>8, UnfoldLE
<1>10. /\ f[{1, 2}] = LEBody(bytes, f, {1, 2})
       /\ f[{2}] = LEBody(bytes, f, {2}) /\ f[{}] = LEBody(bytes, f, {})
  BY <1>9
<1>11. f[{}] = 0
  BY <1>10 DEF LEBody
<1>12. f[{2}] = b
  BY <1>1, <1>2, <1>6, <1>10, <1>11 DEF LEBody
<1> QED
  BY <1>1, <1>2, <1>6, <1>9, <1>10, <1>12 DEF LEBody

LEMMA Below ==
    ASSUME NEW m \in Nat, NEW n \in 0..m - 1
    PROVE  n \in Nat /\ n < m
OBVIOUS

LEMMA Halves ==
    ASSUME NEW n \in Words
    PROVE  /\ n \in Nat /\ n \div 256 \in Bytes /\ n % 256 \in Bytes
           /\ n = (n % 256) + 256 * (n \div 256)
           /\ n \div 1 = n
<1>1. n \in Nat /\ n < 256 * 256
  <2>1. PICK m : m = 256 * 256
    OBVIOUS
  <2>2. m \in Nat
    BY <2>1
  <2>3. n \in 0..m - 1
    BY <2>1, Zenon DEF Words
  <2>4. n \in Nat /\ n < m
    BY <2>2, <2>3, Below, Zenon
  <2> QED
    BY <2>1, <2>4, Zenon
<1>2. /\ n \div 256 \in Nat /\ n % 256 \in 0..255
      /\ n = (n % 256) + 256 * (n \div 256)
  BY <1>1, SMTT(30)
<1>3. n \div 256 < 256
  BY <1>1, <1>2, SMTT(30)
<1>4. n \div 1 = n
  BY <1>1, SMTT(30)
<1> QED
  BY <1>1, <1>2, <1>3, <1>4, SMTT(30) DEF Bytes

LEMMA PlaceValues ==
    /\ 1 \in 1..2 /\ 2 \in 1..2 /\ 1 - 1 = 0 /\ 2 - 1 = 1
    /\ 256^0 = 1 /\ 256^1 = 256
    /\ \A q \in Bytes : q % 256 = q
BY SMTT(30) DEF Bytes

LEMMA DigitsExist ==
    \A n : \E digit : digit = [i \in 1..2 |-> (n \div 256^(i - 1)) % 256]
OBVIOUS

LEMMA Digits ==
    ASSUME NEW n \in Words
    PROVE  ToLE(n, 2) = <<n % 256, n \div 256>>
<1>1. PICK digit : digit = [i \in 1..2 |-> (n \div 256^(i - 1)) % 256]
  BY DigitsExist
<1>2. /\ digit[1] = (n \div 256^(1 - 1)) % 256
      /\ digit[2] = (n \div 256^(2 - 1)) % 256
  BY <1>1, PlaceValues, Zenon
<1>3. digit[1] = (n \div 1) % 256 /\ digit[2] = (n \div 256) % 256
  <2>1. PICK p, q : p = 256^(1 - 1) /\ q = 256^(2 - 1)
    OBVIOUS
  <2>2. p = 256^0 /\ q = 256^1
    BY <2>1, PlaceValues, Zenon
  <2>3. p = 1 /\ q = 256
    BY <2>2, PlaceValues, Zenon
  <2>4. digit[1] = (n \div p) % 256 /\ digit[2] = (n \div q) % 256
    BY <1>2, <2>1, Zenon
  <2> QED
    BY <2>3, <2>4, Zenon
<1>4. digit[1] = n % 256 /\ digit[2] = n \div 256
  BY <1>3, Halves, PlaceValues, SMTT(30)
<1>5. digit = <<n % 256, n \div 256>>
  BY <1>1, <1>4, SMTT(30)
<1> QED
  BY <1>1, <1>5, SMTT(30) DEF ToLE

LEMMA PairOfBytes ==
    ASSUME NEW a \in Bytes, NEW b \in Bytes
    PROVE  <<a, b>> \in Seq(Bytes) /\ Len(<<a, b>>) = 2
OBVIOUS

\* What ToLE writes, FromLE reads.
LEMMA LittleEndian ==
    ASSUME NEW n \in Words
    PROVE  /\ ToLE(n, 2) \in Seq(Bytes) /\ Len(ToLE(n, 2)) = 2
           /\ FromLE(ToLE(n, 2)) = n
<1>1. PICK a \in Bytes, b \in Bytes : /\ ToLE(n, 2) = <<a, b>>
                                      /\ n = a + 256 * b
  BY Digits, Halves, SMTT(30)
<1>2. FromLE(<<a, b>>) = a + 256 * b
  BY TwoBytes, SMTT(30) DEF Bytes
<1> QED
  BY <1>1, <1>2, PairOfBytes, ZenonT(40)

-----------------------------------------------------------------------------
(* FlattenSeq, step by step.                                               *)

FlattenBody(seqs, f, i) == IF i = 1 THEN seqs[i] ELSE f[i - 1] \o seqs[i]

LEMMA UnfoldFlatten ==
    ASSUME NEW seqs, Len(seqs) # 0
    PROVE  FlattenSeq(seqs) =
             (CHOOSE f : f = [i \in 1..Len(seqs) |-> FlattenBody(seqs, f, i)])
                [Len(seqs)]
BY DEF FlattenSeq, FlattenBody

LEMMA FlattenNothing ==
    ASSUME NEW seqs, Len(seqs) = 0
    PROVE  FlattenSeq(seqs) = seqs
BY DEF FlattenSeq

LEMMA FlattenDefined ==
    ASSUME NEW seqs, NEW n \in Nat
    PROVE  \E f : f = [i \in 1..n |-> FlattenBody(seqs, f, i)]
<1> DEFINE P == {k \in Nat : \E f : f = [i \in 1..k |-> FlattenBody(seqs, f, i)]}
<1>1. 0 \in P
  <2>1. PICK f : f = [i \in 1..0 |-> 0]
    OBVIOUS
  <2>2. f = [i \in 1..0 |-> FlattenBody(seqs, f, i)]
    BY <2>1
  <2> QED
    BY <2>2
<1>2. ASSUME NEW k \in Nat, k \in P
      PROVE  k + 1 \in P
  <2>1. PICK f : f = [i \in 1..k |-> FlattenBody(seqs, f, i)]
    BY <1>2
  <2>2. PICK h : h = [i \in 1..k + 1 |-> IF i = k + 1 THEN FlattenBody(seqs, f, i)
                                         ELSE f[i]]
    OBVIOUS
  <2>3. ASSUME NEW i \in 1..k + 1
        PROVE  h[i] = FlattenBody(seqs, h, i)
    <3>1. i # 1 => i - 1 \in 1..k /\ i - 1 \in 1..k + 1 /\ i - 1 # k + 1
      OBVIOUS
    <3>2. i # 1 => h[i - 1] = f[i - 1]
      BY <2>2, <3>1
    <3>3. FlattenBody(seqs, h, i) = FlattenBody(seqs, f, i)
      BY <3>2 DEF FlattenBody
    <3>4. i # k + 1 => i \in 1..k
      OBVIOUS
    <3>5. i # k + 1 => f[i] = FlattenBody(seqs, f, i)
      BY <2>1, <3>4
    <3> QED
      BY <2>2, <3>3, <3>5
  <2>4. h = [i \in 1..k + 1 |-> FlattenBody(seqs, h, i)]
    BY <2>2, <2>3
  <2> QED
    BY <2>4
<1> HIDE DEF P
<1>3. n \in P
  BY <1>1, <1>2, Induction
<1> QED
  BY <1>3 DEF P

\* The sequences put together, one after another.
Joins(seqs, n, F, S) ==
    /\ F \in [0..n -> Seq(S)] /\ F[0] = <<>>
    /\ \A i \in 1..n : F[i] = F[i - 1] \o seqs[i]

LEMMA FlattenJoins ==
    ASSUME NEW S, NEW seqs \in Seq(Seq(S)), NEW n, n = Len(seqs)
    PROVE  \E F : Joins(seqs, n, F, S) /\ F[n] = FlattenSeq(seqs)
<1>1. n \in Nat /\ \A i \in 1..n : seqs[i] \in Seq(S)
  OBVIOUS
<1>2. CASE n = 0
  <2>1. seqs = <<>> /\ FlattenSeq(seqs) = <<>>
    BY <1>2, FlattenNothing, EmptySeq
  <2>2. PICK F : F = [i \in 0..0 |-> <<>>]
    OBVIOUS
  <2>3. <<>> \in Seq(S)
    OBVIOUS
  <2>4. Joins(seqs, n, F, S)
    BY <1>2, <2>2, <2>3 DEF Joins
  <2> QED
    BY <1>2, <2>1, <2>2, <2>4
<1>3. CASE n # 0
  <2>1. PICK f : /\ f = [i \in 1..n |-> FlattenBody(seqs, f, i)]
                 /\ f[n] = FlattenSeq(seqs)
    BY <1>1, <1>3, FlattenDefined, UnfoldFlatten
  <2>2. PICK F : F = [i \in 0..n |-> IF i = 0 THEN <<>> ELSE f[i]]
    OBVIOUS
  <2>3. \A i \in 1..n : f[i] = FlattenBody(seqs, f, i)
    BY <2>1
  <2> DEFINE P == {k \in Nat : k <= n => F[k] \in Seq(S)}
  <2>4. 0 \in P
    BY <2>2
  <2>5. ASSUME NEW k \in Nat, k \in P, k + 1 <= n
        PROVE  F[k + 1] = F[k] \o seqs[k + 1] /\ F[k + 1] \in Seq(S)
    <3>1. k + 1 \in 1..n /\ k \in 0..n /\ k + 1 \in 0..n /\ (k + 1) - 1 = k
      BY <2>5
    <3>2. F[k + 1] = FlattenBody(seqs, f, k + 1)
      BY <2>2, <2>3, <3>1
    <3>3. F[k] \in Seq(S) /\ seqs[k + 1] \in Seq(S)
      BY <1>1, <2>5, <3>1
    <3>4. F[k + 1] = F[k] \o seqs[k + 1]
      <4>1. CASE k = 0
        <5>1. F[k] = <<>> /\ F[k + 1] = seqs[k + 1]
          BY <2>2, <3>1, <3>2, <4>1 DEF FlattenBody
        <5> QED
          BY <3>3, <5>1, ConcatEmptySeq
      <4>2. CASE k # 0
        <5>1. F[k] = f[k] /\ k + 1 # 1
          BY <2>2, <3>1, <4>2
        <5>2. F[k + 1] = f[(k + 1) - 1] \o seqs[k + 1]
          BY <3>2, <5>1 DEF FlattenBody
        <5> QED
          BY <3>1, <5>1, <5>2
      <4> QED
        BY <4>1, <4>2
    <3> QED
      BY <3>3, <3>4, ConcatProperties
  <2>6. \A k \in Nat : k \in P
    <3>1. ASSUME NEW k \in Nat, k \in P
          PROVE  k + 1 \in P
      <4>1. k + 1 <= n => F[k + 1] \in Seq(S)
        BY <2>5, <3>1
      <4> QED
        BY <4>1
    <3> HIDE DEF P
    <3> QED
      BY <2>4, <3>1, Induction
  <2>7. F \in [0..n -> Seq(S)]
    BY <1>1, <2>2, <2>6
  <2>8. ASSUME NEW i \in 1..n
        PROVE  F[i] = F[i - 1] \o seqs[i]
    <3>1. i - 1 \in Nat /\ (i - 1) + 1 = i /\ i <= n
      BY <1>1
    <3> HIDE DEF P
    <3> QED
      BY <2>5, <2>6, <3>1
  <2>9. Joins(seqs, n, F, S)
    <3>1. F[0] = <<>>
      BY <1>1, <2>2
    <3> QED
      BY <2>7, <2>8, <3>1 DEF Joins
  <2>10. F[n] = FlattenSeq(seqs)
    <3>1. n \in 0..n
      BY <1>1
    <3> QED
      BY <1>3, <2>1, <2>2, <3>1
  <2> QED
    BY <2>9, <2>10
<1> QED
  BY <1>2, <1>3

\* One sequence begins with another.
Begins(s, t) == Len(s) <= Len(t) /\ \A j \in 1..Len(s) : t[j] = s[j]

LEMMA Longer ==
    ASSUME NEW a \in Nat, NEW b \in Nat
    PROVE  /\ \A j \in 1..a : j \in 1..a + b /\ j <= a
           /\ \A j \in 1..b : a + j \in 1..a + b /\ ~(a + j <= a) /\ (a + j) - a = j
OBVIOUS

LEMMA ConcatParts ==
    ASSUME NEW S, NEW s \in Seq(S), NEW t \in Seq(S)
    PROVE  /\ Len(s) \in Nat /\ Len(t) \in Nat /\ s \o t \in Seq(S)
           /\ Len(s \o t) = Len(s) + Len(t)
           /\ Begins(s, s \o t)
           /\ \A j \in 1..Len(t) : (s \o t)[Len(s) + j] = t[j]
<1>1. Len(s) \in Nat /\ Len(t) \in Nat
  BY LenProperties
<1>2. /\ s \o t \in Seq(S) /\ Len(s \o t) = Len(s) + Len(t)
      /\ \A i \in 1..Len(s) + Len(t) :
            (s \o t)[i] = IF i <= Len(s) THEN s[i] ELSE t[i - Len(s)]
  BY ConcatProperties
<1>3. /\ \A j \in 1..Len(s) : j \in 1..Len(s) + Len(t) /\ j <= Len(s)
      /\ \A j \in 1..Len(t) : /\ Len(s) + j \in 1..Len(s) + Len(t)
                              /\ ~(Len(s) + j <= Len(s))
                              /\ (Len(s) + j) - Len(s) = j
  BY <1>1, Longer
<1>4. \A j \in 1..Len(s) : (s \o t)[j] = s[j]
  BY <1>2, <1>3
<1>5. \A j \in 1..Len(t) : (s \o t)[Len(s) + j] = t[j]
  BY <1>2, <1>3
<1>6. Len(s) <= Len(s) + Len(t)
  BY <1>1
<1> QED
  BY <1>1, <1>2, <1>4, <1>5, <1>6 DEF Begins

LEMMA BeginsTrans ==
    ASSUME NEW s, NEW t, NEW u, Begins(s, t), Begins(t, u),
           Len(s) \in Nat, Len(t) \in Nat, Len(u) \in Nat
    PROVE  Begins(s, u)
<1>1. \A j \in 1..Len(s) : j \in 1..Len(t)
  BY DEF Begins
<1> QED
  BY <1>1 DEF Begins

\* What is put together later leaves in place what is there.
LEMMA JoinsGrow ==
    ASSUME NEW S, NEW n \in Nat, NEW seqs, NEW F, Joins(seqs, n, F, S),
           \A i \in 1..n : seqs[i] \in Seq(S), NEW i \in 0..n
    PROVE  \A k \in i..n : Begins(F[i], F[k])
<1> DEFINE P == {d \in Nat : i + d <= n => Begins(F[i], F[i + d])}
<1>0. \A k \in 0..n : F[k] \in Seq(S) /\ Len(F[k]) \in Nat
  BY DEF Joins
<1>1. 0 \in P
  <2>1. Begins(F[i], F[i]) /\ i + 0 = i
    BY <1>0 DEF Begins
  <2> QED
    BY <2>1
<1>2. ASSUME NEW d \in Nat, d \in P
      PROVE  d + 1 \in P
  <2>1. ASSUME i + (d + 1) <= n
        PROVE  Begins(F[i], F[i + (d + 1)])
    <3>1. PICK k : k = i + d
      OBVIOUS
    <3>2. k \in 0..n /\ k + 1 \in 1..n /\ k + 1 \in 0..n /\ (k + 1) - 1 = k
          /\ k + 1 = i + (d + 1) /\ i + d <= n
      BY <2>1, <3>1
    <3>3. Begins(F[i], F[k])
      BY <1>2, <3>1, <3>2
    <3>4. F[k + 1] = F[k] \o seqs[k + 1] /\ seqs[k + 1] \in Seq(S)
      BY <3>2 DEF Joins
    <3> HIDE DEF P
    <3>5. Begins(F[k], F[k + 1])
      BY <1>0, <3>2, <3>4, ConcatParts
    <3>6. Len(F[i]) \in Nat /\ Len(F[k]) \in Nat /\ Len(F[k + 1]) \in Nat
      BY <1>0, <3>2
    <3> QED
      BY <3>2, <3>3, <3>5, <3>6, BeginsTrans
  <2> QED
    BY <2>1
<1>3. \A d \in Nat : d \in P
  <2> HIDE DEF P
  <2> QED
    BY <1>1, <1>2, Induction
<1>4. ASSUME NEW k \in i..n
      PROVE  Begins(F[i], F[k])
  <2>1. k - i \in Nat /\ i + (k - i) = k /\ k <= n
    OBVIOUS
  <2>2. k - i \in P
    BY <1>3, <2>1
  <2> QED
    BY <2>1, <2>2
<1> QED
  BY <1>4

-----------------------------------------------------------------------------
(* The bytes of an answer, entry by entry.                                 *)

HasStatus(op) == op \in RESPONSES \cup {SET_RESPONSE}
Prefix(op) == IF HasStatus(op) THEN 5 ELSE 3
Size(op, e) == Prefix(op) + IF op = SET_RESPONSE THEN 0 ELSE 2 + Len(e.raw)

\* The entry is written in b after the first `at' bytes.
Shows(b, at, op, e) ==
    /\ b[at + 1] = e.siid
    /\ b[at + 2] = ToLE(e.piid, 2)[1] /\ b[at + 3] = ToLE(e.piid, 2)[2]
    /\ HasStatus(op) => /\ b[at + 4] = ToLE(e.status, 2)[1]
                        /\ b[at + 5] = ToLE(e.status, 2)[2]
    /\ op # SET_RESPONSE =>
          /\ b[at + Prefix(op) + 1] = e.type /\ b[at + Prefix(op) + 2] = e.marker
          /\ \A j \in 1..Len(e.raw) : b[at + Prefix(op) + 2 + j] = e.raw[j]

LEMMA EntryTypes ==
    ASSUME NEW e \in EntrySet
    PROVE  /\ e.siid \in Bytes /\ e.piid \in Words /\ e.status \in Words
           /\ e.type \in Bytes /\ e.marker \in Bytes /\ e.raw \in Seq(Bytes)
           /\ e.type \in DOMAIN Width => Len(e.raw) = Width[e.type]
BY DEF EntrySet

LEMMA Concatenated ==
    ASSUME NEW s \in Seq(Bytes), NEW t \in Seq(Bytes)
    PROVE  /\ s \o t \in Seq(Bytes) /\ Len(s \o t) = Len(s) + Len(t)
           /\ \A j \in 1..Len(s) : (s \o t)[j] = s[j]
           /\ \A j \in 1..Len(t) : (s \o t)[Len(s) + j] = t[j]
<1>1. /\ s \o t \in Seq(Bytes) /\ Len(s \o t) = Len(s) + Len(t)
      /\ Begins(s, s \o t)
      /\ \A j \in 1..Len(t) : (s \o t)[Len(s) + j] = t[j]
  BY ConcatParts, Zenon
<1> QED
  BY <1>1 DEF Begins

LEMMA Singles ==
    ASSUME NEW S, NEW a \in S
    PROVE  <<a>> \in Seq(S) /\ Len(<<a>>) = 1 /\ <<a>>[1] = a
OBVIOUS

LEMMA Pairs ==
    ASSUME NEW S, NEW a \in S, NEW b \in S
    PROVE  <<a, b>> \in Seq(S) /\ Len(<<a, b>>) = 2
           /\ <<a, b>>[1] = a /\ <<a, b>>[2] = b
OBVIOUS

LEMMA EntryForm ==
    ASSUME NEW op, NEW e \in EntrySet
    PROVE  /\ EntryBytes(op, e) \in Seq(Bytes)
           /\ Len(EntryBytes(op, e)) = Size(op, e) /\ Size(op, e) \in Nat
           /\ Shows(EntryBytes(op, e), 0, op, e)
<1>1. /\ e.siid \in Bytes /\ e.piid \in Words /\ e.status \in Words
      /\ e.type \in Bytes /\ e.marker \in Bytes /\ e.raw \in Seq(Bytes)
      /\ Len(e.raw) \in Nat
  BY EntryTypes, LenProperties
<1>2. PICK id : id = ToLE(e.piid, 2) /\ id \in Seq(Bytes) /\ Len(id) = 2
  BY <1>1, LittleEndian
<1>3. PICK st : st = ToLE(e.status, 2) /\ st \in Seq(Bytes) /\ Len(st) = 2
  BY <1>1, LittleEndian
<1>4. PICK x : x = <<e.siid>> \o id
  OBVIOUS
<1>41. /\ x \in Seq(Bytes) /\ Len(x) = 3
       /\ x[1] = e.siid /\ x[2] = id[1] /\ x[3] = id[2]
  <2>1. PICK h : h = <<e.siid>>
    OBVIOUS
  <2>2. h \in Seq(Bytes) /\ Len(h) = 1 /\ h[1] = e.siid
    BY <1>1, <2>1, Singles
  <2>3. x = h \o id
    BY <1>4, <2>1
  <2>4. /\ x \in Seq(Bytes) /\ Len(x) = 1 + Len(id)
        /\ \A j \in 1..1 : x[j] = h[j]
        /\ \A j \in 1..Len(id) : x[1 + j] = id[j]
    <3>1. /\ x \in Seq(Bytes) /\ Len(x) = Len(h) + Len(id)
          /\ \A j \in 1..Len(h) : x[j] = h[j]
          /\ \A j \in 1..Len(id) : x[Len(h) + j] = id[j]
      <4>1. /\ h \o id \in Seq(Bytes) /\ Len(h \o id) = Len(h) + Len(id)
            /\ \A j \in 1..Len(h) : (h \o id)[j] = h[j]
            /\ \A j \in 1..Len(id) : (h \o id)[Len(h) + j] = id[j]
        BY <1>2, <2>2, Concatenated
      <4> QED
        BY <2>3, <4>1, Zenon
    <3> QED
      BY <2>2, <3>1
  <2>5. x[1] = h[1] /\ x[1 + 1] = id[1] /\ x[1 + 2] = id[2]
    BY <1>2, <2>4
  <2> QED
    BY <1>2, <2>2, <2>4, <2>5
<1>5. PICK v : v = <<e.type, e.marker>> \o e.raw
  OBVIOUS
<1>51. /\ v \in Seq(Bytes) /\ Len(v) = 2 + Len(e.raw)
       /\ v[1] = e.type /\ v[2] = e.marker
       /\ \A j \in 1..Len(e.raw) : v[2 + j] = e.raw[j]
  <2>1. PICK h : h = <<e.type, e.marker>>
    OBVIOUS
  <2>2. /\ h \in Seq(Bytes) /\ Len(h) = 2 /\ h[1] = e.type /\ h[2] = e.marker
    BY <1>1, <2>1, Pairs
  <2>3. v = h \o e.raw
    BY <1>5, <2>1
  <2>4. /\ v \in Seq(Bytes) /\ Len(v) = 2 + Len(e.raw)
        /\ \A j \in 1..2 : v[j] = h[j]
        /\ \A j \in 1..Len(e.raw) : v[2 + j] = e.raw[j]
    <3>1. /\ v \in Seq(Bytes) /\ Len(v) = Len(h) + Len(e.raw)
          /\ \A j \in 1..Len(h) : v[j] = h[j]
          /\ \A j \in 1..Len(e.raw) : v[Len(h) + j] = e.raw[j]
      <4>1. PICK raw : raw = e.raw /\ raw \in Seq(Bytes)
        BY <1>1
      <4>2. /\ h \o raw \in Seq(Bytes) /\ Len(h \o raw) = Len(h) + Len(raw)
            /\ \A j \in 1..Len(h) : (h \o raw)[j] = h[j]
            /\ \A j \in 1..Len(raw) : (h \o raw)[Len(h) + j] = raw[j]
        BY <2>2, <4>1, Concatenated
      <4> QED
        BY <2>3, <4>1, <4>2, Zenon
    <3> QED
      BY <2>2, <3>1
  <2> QED
    BY <2>2, <2>4
<1>6. PICK y : y = IF HasStatus(op) THEN x \o st ELSE x
  OBVIOUS
<1>61. /\ y \in Seq(Bytes) /\ Len(y) = Prefix(op)
       /\ y[1] = x[1] /\ y[2] = x[2] /\ y[3] = x[3]
       /\ HasStatus(op) => y[4] = st[1] /\ y[5] = st[2]
  <2>1. CASE HasStatus(op)
    <3>1. y = x \o st
      BY <1>6, <2>1
    <3>2. /\ y \in Seq(Bytes) /\ Len(y) = 3 + Len(st)
          /\ \A j \in 1..3 : y[j] = x[j]
          /\ \A j \in 1..Len(st) : y[3 + j] = st[j]
      <4>1. /\ y \in Seq(Bytes) /\ Len(y) = Len(x) + Len(st)
            /\ \A j \in 1..Len(x) : y[j] = x[j]
            /\ \A j \in 1..Len(st) : y[Len(x) + j] = st[j]
        <5>1. /\ x \o st \in Seq(Bytes) /\ Len(x \o st) = Len(x) + Len(st)
              /\ \A j \in 1..Len(x) : (x \o st)[j] = x[j]
              /\ \A j \in 1..Len(st) : (x \o st)[Len(x) + j] = st[j]
          BY <1>3, <1>41, Concatenated
        <5> QED
          BY <3>1, <5>1, Zenon
      <4> QED
        BY <1>41, <4>1
    <3>3. /\ y[1] = x[1] /\ y[2] = x[2] /\ y[3] = x[3]
          /\ y[3 + 1] = st[1] /\ y[3 + 2] = st[2]
      BY <1>3, <3>2
    <3>4. Prefix(op) = 5
      BY <2>1 DEF Prefix
    <3> QED
      BY <1>3, <3>2, <3>3, <3>4
  <2>2. CASE ~HasStatus(op)
    BY <1>41, <1>6, <2>2 DEF Prefix
  <2> QED
    BY <2>1, <2>2
<1>62. y = x \o (IF HasStatus(op) THEN st ELSE <<>>)
  BY <1>41, <1>6, ConcatEmptySeq
<1>7. PICK z : z = y \o (IF op = SET_RESPONSE THEN <<>> ELSE v)
  OBVIOUS
<1>8. EntryBytes(op, e) = z
  BY <1>2, <1>3, <1>4, <1>5, <1>62, <1>7 DEF EntryBytes, HasStatus
<1>9. CASE op = SET_RESPONSE
  <2>1. z = y
    BY <1>61, <1>7, <1>9, ConcatEmptySeq
  <2>2. HasStatus(op)
    BY <1>9 DEF HasStatus
  <2>3. Size(op, e) = 5
    BY <1>9, <2>2 DEF Size, Prefix
  <2>4. Shows(z, 0, op, e)
    <3>1. z[1] = e.siid /\ z[2] = id[1] /\ z[3] = id[2]
          /\ z[4] = st[1] /\ z[5] = st[2]
      BY <1>41, <1>61, <2>1, <2>2
    <3> QED
      BY <1>2, <1>3, <1>9, <3>1 DEF Shows
  <2> QED
    BY <1>61, <1>8, <2>1, <2>2, <2>3, <2>4 DEF Prefix
<1>10. CASE op # SET_RESPONSE
  <2>1. z = y \o v
    BY <1>7, <1>10
  <2>2. PICK p \in {3, 5} : p = Prefix(op) /\ (HasStatus(op) => p = 5)
    BY DEF Prefix
  <2>3. /\ z \in Seq(Bytes) /\ Len(z) = p + Len(v)
        /\ \A j \in 1..p : z[j] = y[j]
        /\ \A j \in 1..Len(v) : z[p + j] = v[j]
    <3>1. Len(y) = p /\ y \in Seq(Bytes) /\ v \in Seq(Bytes)
      BY <1>51, <1>61, <2>2
    <3> QED
      BY <2>1, <3>1, ConcatParts, SMTT(40) DEF Begins
  <2>4. Size(op, e) = p + Len(v) /\ Size(op, e) \in Nat
    BY <1>1, <1>51, <1>10, <2>2 DEF Size
  <2>5. z[1] = x[1] /\ z[2] = x[2] /\ z[3] = x[3]
    <3>1. 1 \in 1..p /\ 2 \in 1..p /\ 3 \in 1..p
      BY <2>2
    <3> QED
      BY <1>61, <2>3, <3>1
  <2>6. HasStatus(op) => z[4] = st[1] /\ z[5] = st[2]
    <3>1. HasStatus(op) => 4 \in 1..p /\ 5 \in 1..p
      BY <2>2
    <3> QED
      BY <1>61, <2>3, <3>1
  <2>7. z[p + 1] = e.type /\ z[p + 2] = e.marker
    BY <1>1, <1>51, <2>3
  <2>8. \A j \in 1..Len(e.raw) : z[p + 2 + j] = e.raw[j]
    <3>1. ASSUME NEW j \in 1..Len(e.raw) PROVE z[p + 2 + j] = e.raw[j]
      <4>1. 2 + j \in 1..Len(v) /\ p + (2 + j) = p + 2 + j
        BY <1>1, <1>51, <2>2
      <4>2. z[p + (2 + j)] = v[2 + j]
        BY <2>3, <4>1
      <4> QED
        BY <1>51, <4>1, <4>2
    <3> QED
      BY <3>1
  <2>9. Shows(z, 0, op, e)
    BY <1>2, <1>3, <1>41, <2>2, <2>5, <2>6, <2>7, <2>8, SMTT(40) DEF Shows
  <2> QED
    BY <1>8, <2>3, <2>4, <2>9
<1> QED
  BY <1>9, <1>10

-----------------------------------------------------------------------------
(* Where the entries of an answer are.                                     *)

Written(op, entries) == [i \in DOMAIN entries |-> EntryBytes(op, entries[i])]

LEMMA WrittenType ==
    ASSUME NEW op, NEW entries \in Seq(EntrySet)
    PROVE  /\ Written(op, entries) \in Seq(Seq(Bytes))
           /\ Len(Written(op, entries)) = Len(entries) /\ Len(entries) \in Nat
           /\ \A i \in 1..Len(entries) :
                 /\ entries[i] \in EntrySet
                 /\ Written(op, entries)[i] = EntryBytes(op, entries[i])
                 /\ Written(op, entries)[i] \in Seq(Bytes)
                 /\ Len(Written(op, entries)[i]) = Size(op, entries[i])
                 /\ Size(op, entries[i]) \in Nat
                 /\ Shows(Written(op, entries)[i], 0, op, entries[i])
<1>1. /\ DOMAIN entries = 1..Len(entries) /\ Len(entries) \in Nat
      /\ \A i \in 1..Len(entries) : entries[i] \in EntrySet
  BY LenProperties, ElementOfSeq
<1>2. PICK w : w = Written(op, entries)
  OBVIOUS
<1>3. w = [i \in 1..Len(entries) |-> EntryBytes(op, entries[i])]
  BY <1>1, <1>2 DEF Written
<1>4. \A i \in 1..Len(entries) : w[i] = EntryBytes(op, entries[i])
  BY <1>3
<1>5. ASSUME NEW i \in 1..Len(entries)
      PROVE  /\ w[i] \in Seq(Bytes)
             /\ Len(w[i]) = Size(op, entries[i]) /\ Size(op, entries[i]) \in Nat
             /\ Shows(w[i], 0, op, entries[i])
  <2>1. w[i] = EntryBytes(op, entries[i]) /\ entries[i] \in EntrySet
    BY <1>1, <1>4
  <2> QED
    BY <2>1, EntryForm
<1>6. w \in Seq(Seq(Bytes)) /\ Len(w) = Len(entries)
  <2>1. w \in [1..Len(entries) -> Seq(Bytes)]
    BY <1>3, <1>4, <1>5
  <2> QED
    BY <1>1, <2>1
<1> QED
  BY <1>1, <1>2, <1>4, <1>5, <1>6, Zenon

LEMMA Flat ==
    ASSUME NEW op, NEW entries \in Seq(EntrySet)
    PROVE  \E F : /\ Joins(Written(op, entries), Len(entries), F, Bytes)
                  /\ F[Len(entries)] = FlattenSeq(Written(op, entries))
BY WrittenType, FlattenJoins

\* What is written at the head of b is written behind a.
LEMMA Moved ==
    ASSUME NEW op, NEW e \in EntrySet, NEW w, NEW b, NEW at \in Nat,
           Shows(w, 0, op, e), Size(op, e) \in Nat,
           \A j \in 1..Size(op, e) : b[at + j] = w[j]
    PROVE  Shows(b, at, op, e)
<1>1. PICK p \in {3, 5} : p = Prefix(op) /\ (HasStatus(op) => p = 5)
  BY DEF Prefix
<1>2. PICK len \in Nat : len = Len(e.raw)
  BY EntryTypes, LenProperties
<1>3. PICK size \in Nat : size = Size(op, e)
  OBVIOUS
<1>4. size = p + IF op = SET_RESPONSE THEN 0 ELSE 2 + len
  BY <1>1, <1>2, <1>3 DEF Size
<1>5. /\ w[1] = e.siid /\ w[2] = ToLE(e.piid, 2)[1] /\ w[3] = ToLE(e.piid, 2)[2]
      /\ HasStatus(op) => /\ w[4] = ToLE(e.status, 2)[1]
                          /\ w[5] = ToLE(e.status, 2)[2]
      /\ op # SET_RESPONSE =>
            /\ w[p + 1] = e.type /\ w[p + 2] = e.marker
            /\ \A j \in 1..len : w[p + 2 + j] = e.raw[j]
  BY <1>1, <1>2, SMTT(40) DEF Shows
<1>6. /\ 1 \in 1..size /\ 2 \in 1..size /\ 3 \in 1..size
      /\ HasStatus(op) => 4 \in 1..size /\ 5 \in 1..size
      /\ op # SET_RESPONSE =>
            /\ p + 1 \in 1..size /\ p + 2 \in 1..size
            /\ \A j \in 1..len : p + 2 + j \in 1..size
  <2>1. size >= p
    BY <1>4
  <2>2. op # SET_RESPONSE => size = p + (2 + len)
    BY <1>4
  <2>3. p = 3 \/ p = 5
    OBVIOUS
  <2>4. 1 \in 1..size /\ 2 \in 1..size /\ 3 \in 1..size
    BY <2>1, <2>3
  <2>5. HasStatus(op) => 4 \in 1..size /\ 5 \in 1..size
    BY <1>1, <2>1
  <2>6. ASSUME size = p + (2 + len)
        PROVE  /\ p + 1 \in 1..size /\ p + 2 \in 1..size
               /\ \A j \in 1..len : p + 2 + j \in 1..size
    BY <2>3, <2>6
  <2> QED
    BY <2>2, <2>4, <2>5, <2>6
<1>7. \A j \in 1..size : b[at + j] = w[j]
  BY <1>3
<1>8. /\ b[at + 1] = w[1] /\ b[at + 2] = w[2] /\ b[at + 3] = w[3]
      /\ HasStatus(op) => b[at + 4] = w[4] /\ b[at + 5] = w[5]
  BY <1>6, <1>7
<1>9. ASSUME op # SET_RESPONSE
      PROVE  /\ b[at + p + 1] = e.type /\ b[at + p + 2] = e.marker
             /\ \A j \in 1..len : b[at + p + 2 + j] = e.raw[j]
  <2>1. /\ at + p + 1 = at + (p + 1) /\ at + p + 2 = at + (p + 2)
        /\ \A j \in 1..len : at + p + 2 + j = at + (p + 2 + j)
    <3>1. p \in Nat
      OBVIOUS
    <3> QED
      BY <3>1, SMTT(30)
  <2>2. /\ b[at + (p + 1)] = w[p + 1] /\ b[at + (p + 2)] = w[p + 2]
        /\ \A j \in 1..len : b[at + (p + 2 + j)] = w[p + 2 + j]
    BY <1>6, <1>7, <1>9
  <2> QED
    BY <1>5, <1>9, <2>1, <2>2
<1> QED
  BY <1>1, <1>2, <1>5, <1>8, <1>9 DEF Shows

LEMMA AnswerTypes ==
    ASSUME NEW m \in AnswerSet
    PROVE  /\ m.is = "answer" /\ m.op \in Bytes /\ m.flag \in Bytes
           /\ m.count \in Bytes /\ m.entries \in Seq(EntrySet) /\ m.cut \in Nat
BY DEF AnswerSet

\* at[i] is the place behind the i-th entry of b.
Layout(b, op, entries, at) ==
    LET n == Len(entries)
    IN /\ at \in [0..n -> Nat] /\ at[0] = HEADER /\ at[n] = Len(b)
       /\ \A i \in 1..n : /\ at[i] = at[i - 1] + Size(op, entries[i])
                          /\ Shows(b, at[i - 1], op, entries[i])
       /\ \A i, k \in 0..n : i <= k => at[i] <= at[k]

LEMMA AnswerPlaces ==
    ASSUME NEW m \in AnswerSet, NEW b, b = Whole(m), NEW n, n = Len(m.entries),
           NEW F, Joins(Written(m.op, m.entries), n, F, Bytes),
           F[n] = FlattenSeq(Written(m.op, m.entries)),
           NEW at, at = [i \in 0..n |-> HEADER + Len(F[i])]
    PROVE  /\ b \in Seq(Bytes)
           /\ b[1] = m.op /\ b[2] = MIOT /\ b[5] = m.flag /\ b[6] = m.count
           /\ Layout(b, m.op, m.entries, at)
<1>1. PICK op, entries, w : /\ op = m.op /\ entries = m.entries
                            /\ w = Written(op, entries)
  OBVIOUS
<1>2. /\ op \in Bytes /\ entries \in Seq(EntrySet) /\ n \in Nat
      /\ n = Len(entries)
  BY <1>1, AnswerTypes, LenProperties
<1>3. /\ \A i \in 1..n : entries[i] \in EntrySet /\ w[i] \in Seq(Bytes)
      /\ \A i \in 1..n : Len(w[i]) = Size(op, entries[i])
      /\ \A i \in 1..n : Size(op, entries[i]) \in Nat
      /\ \A i \in 1..n : Shows(w[i], 0, op, entries[i])
  BY <1>1, <1>2, WrittenType
<1>4. PICK h : h = Header(op, m.flag, m.count)
  OBVIOUS
<1>5. /\ h \in Seq(Bytes) /\ Len(h) = 6 /\ HEADER = 6
      /\ h[1] = op /\ h[2] = MIOT /\ h[5] = m.flag /\ h[6] = m.count
  <2>1. PICK flag \in Bytes, count \in Bytes : flag = m.flag /\ count = m.count
    BY AnswerTypes
  <2>2. h = Header(op, flag, count)
    BY <1>4, <2>1
  <2>3. /\ h \in Seq(Bytes) /\ Len(h) = HEADER /\ HEADER = 6
        /\ h[1] = op /\ h[2] = MIOT /\ h[5] = flag /\ h[6] = count
    <3>1. /\ Header(op, flag, count) \in Seq(Bytes)
          /\ Len(Header(op, flag, count)) = HEADER /\ HEADER = 6
          /\ Header(op, flag, count)[1] = op /\ Header(op, flag, count)[2] = MIOT
          /\ Header(op, flag, count)[5] = flag /\ Header(op, flag, count)[6] = count
      BY <1>2 DEF Header, HEADER, MIOT, Bytes
    <3> QED
      BY <2>2, <3>1, Zenon
  <2> QED
    BY <2>1, <2>3
<1>6. /\ \A i \in 0..n : F[i] \in Seq(Bytes) /\ Len(F[i]) \in Nat
      /\ F[0] = <<>>
      /\ \A i \in 1..n : F[i] = F[i - 1] \o w[i]
  BY <1>1, <1>2, LenProperties DEF Joins
<1>7. b = h \o F[n]
  BY <1>1, <1>4 DEF Whole, Written
<1>8. /\ b \in Seq(Bytes) /\ Len(b) = 6 + Len(F[n])
      /\ \A j \in 1..6 : b[j] = h[j]
      /\ \A j \in 1..Len(F[n]) : b[6 + j] = F[n][j]
  <2>1. n \in 0..n
    BY <1>2
  <2>2. PICK f : f = F[n] /\ f \in Seq(Bytes) /\ Len(f) \in Nat
    BY <1>6, <2>1
  <2>3. /\ h \o f \in Seq(Bytes) /\ Len(h \o f) = Len(h) + Len(f)
        /\ \A j \in 1..Len(h) : (h \o f)[j] = h[j]
        /\ \A j \in 1..Len(f) : (h \o f)[Len(h) + j] = f[j]
    BY <1>5, <2>2, Concatenated
  <2> QED
    BY <1>5, <1>7, <2>2, <2>3
<1>9. b[1] = op /\ b[2] = MIOT /\ b[5] = m.flag /\ b[6] = m.count
  BY <1>5, <1>8
<1>10. at \in [0..n -> Nat] /\ at[0] = HEADER /\ at[n] = Len(b)
  BY <1>2, <1>5, <1>6, <1>8, SMTT(40)
<1>11. \A i \in 0..n : \A k \in i..n : Begins(F[i], F[k])
  BY <1>1, <1>2, <1>3, JoinsGrow
<1>12. \A i, k \in 0..n : i <= k => at[i] <= at[k]
  <2>1. ASSUME NEW i \in 0..n, NEW k \in 0..n, i <= k
        PROVE  at[i] <= at[k]
    <3>1. k \in i..n
      BY <1>2, <2>1
    <3>2. Len(F[i]) <= Len(F[k]) /\ Len(F[i]) \in Nat /\ Len(F[k]) \in Nat
      BY <1>6, <1>11, <3>1 DEF Begins
    <3> QED
      BY <1>5, <3>2
  <2> QED
    BY <2>1
<1>13. ASSUME NEW i \in 1..n
       PROVE  at[i] = at[i - 1] + Size(op, entries[i])
              /\ Shows(b, at[i - 1], op, entries[i])
  <2>1. i - 1 \in 0..n /\ i \in 0..n /\ n \in i..n
    BY <1>2
  <2>2. PICK f, g, x, e : f = F[i - 1] /\ g = F[i] /\ x = w[i] /\ e = entries[i]
    OBVIOUS
  <2>3. /\ f \in Seq(Bytes) /\ g = f \o x /\ x \in Seq(Bytes)
        /\ Len(f) \in Nat /\ Len(g) \in Nat
    BY <1>3, <1>6, <2>1, <2>2
  <2>4. /\ Len(x) = Size(op, e) /\ Size(op, e) \in Nat /\ e \in EntrySet
        /\ Shows(x, 0, op, e)
    BY <1>3, <2>2
  <2>5. /\ Len(g) = Len(f) + Len(x)
        /\ \A j \in 1..Len(x) : g[Len(f) + j] = x[j]
    BY <2>3, Concatenated
  <2>51. PICK size \in Nat, lf \in Nat, lg \in Nat, a \in Nat :
            /\ size = Size(op, e) /\ lf = Len(f) /\ lg = Len(g) /\ a = at[i - 1]
            /\ size = Len(x)
    BY <1>10, <2>1, <2>3, <2>4
  <2>52. lg = lf + size
    BY <2>5, <2>51
  <2>6. Len(g) <= Len(F[n]) /\ \A j \in 1..Len(g) : F[n][j] = g[j]
    BY <1>11, <2>1, <2>2 DEF Begins
  <2>7. at[i - 1] = 6 + Len(f) /\ at[i] = 6 + Len(g)
    BY <1>5, <2>1, <2>2
  <2>8. ASSUME NEW j \in 1..Size(op, e)
        PROVE  b[at[i - 1] + j] = x[j]
    <3>0. j \in 1..size /\ a = 6 + lf
      BY <2>7, <2>51
    <3>00. lf + j \in 1..lg /\ a + j = 6 + (lf + j)
      BY <2>52, <3>0
    <3>1. /\ Len(f) + j \in 1..Len(g) /\ at[i - 1] + j = 6 + (Len(f) + j)
          /\ j \in 1..Len(x)
      BY <2>51, <3>0, <3>00
    <3>2. Len(F[n]) \in Nat
      BY <1>2, <1>6
    <3>3. Len(f) + j \in 1..Len(F[n])
      BY <2>3, <2>6, <3>1, <3>2
    <3>4. b[6 + (Len(f) + j)] = g[Len(f) + j]
      BY <1>8, <2>6, <3>1, <3>3
    <3> QED
      BY <2>5, <3>1, <3>4
  <2>9. at[i - 1] \in Nat
    BY <2>3, <2>7, SMTT(40)
  <2>10. Shows(b, at[i - 1], op, e)
    <3>1. \A j \in 1..Size(op, e) : b[a + j] = x[j]
      BY <2>8, <2>51
    <3>2. Shows(b, a, op, e)
      BY <2>4, <3>1, Moved
    <3> QED
      BY <2>51, <3>2
  <2>11. at[i] = at[i - 1] + Size(op, e)
    <3>1. 6 + lg = (6 + lf) + size
      BY <2>52
    <3> QED
      BY <2>7, <2>51, <3>1
  <2> QED
    BY <2>2, <2>10, <2>11
<1> QED
  BY <1>1, <1>2, <1>8, <1>9, <1>10, <1>12, <1>13, Zenon DEF Layout

-----------------------------------------------------------------------------
(* What is left of an answer that was cut off, and what is read from it.   *)

LEMMA CutOff ==
    ASSUME NEW b \in Seq(Bytes), NEW cut \in Nat
    PROVE  /\ SubSeq(b, 1, Len(b) - cut) \in Seq(Bytes)
           /\ Len(SubSeq(b, 1, Len(b) - cut)) \in Nat
           /\ Begins(SubSeq(b, 1, Len(b) - cut), b)
<1>1. PICK n : n = Len(b) /\ n \in Nat
  BY LenProperties
<1>2. PICK k : k = n - cut /\ k \in Int /\ k <= n
  BY <1>1
<1>3. CASE k >= 1
  <2>1. SubSeq(b, 1, k) \in Seq(Bytes) /\ Len(SubSeq(b, 1, k)) = k
    BY <1>1, <1>2, <1>3
  <2>2. \A j \in 1..k : SubSeq(b, 1, k)[j] = b[j]
    BY <1>1, <1>2, <1>3
  <2> QED
    BY <1>1, <1>2, <1>3, <2>1, <2>2 DEF Begins
<1>4. CASE k < 1
  <2>1. SubSeq(b, 1, k) = <<>>
    BY <1>1, <1>2, <1>4
  <2> QED
    BY <1>1, <1>2, <2>1 DEF Begins
<1> QED
  BY <1>2, <1>3, <1>4

\* A slice that is there is what was written there.
LEMMA Sliced ==
    ASSUME NEW pt \in Seq(Bytes), NEW from \in Nat, NEW to \in Nat,
           NEW raw \in Seq(Bytes), to = from + Len(raw), to <= Len(pt),
           \A j \in 1..Len(raw) : pt[from + j] = raw[j]
    PROVE  Slice(pt, from, to) = raw
<1>1. PICK n \in Nat, k \in Nat : n = Len(pt) /\ k = Len(raw)
  BY LenProperties
<1>2. Slice(pt, from, to) = SubSeq(pt, from + 1, to)
  BY <1>1 DEF Slice
<1>3. PICK s : s = SubSeq(pt, from + 1, to)
  OBVIOUS
<1>4. CASE k = 0
  <2>1. s = <<>>
    BY <1>1, <1>3, <1>4
  <2>2. raw = <<>>
    BY <1>1, <1>4, EmptySeq
  <2> QED
    BY <1>2, <1>3, <2>1, <2>2
<1>5. CASE k # 0
  <2>1. s \in Seq(Bytes) /\ Len(s) = k
    BY <1>1, <1>3, <1>5
  <2>2. \A j \in 1..k : s[j] = pt[from + j]
    BY <1>1, <1>3, <1>5
  <2>3. \A j \in 1..k : s[j] = raw[j]
    BY <1>1, <2>2
  <2> QED
    BY <1>1, <1>2, <1>3, <2>1, <2>3, SeqEqual
<1> QED
  BY <1>4, <1>5

LEMMA ReadNumber ==
    ASSUME NEW pt \in Seq(Bytes), NEW at \in Nat, NEW n \in Words,
           at + 2 <= Len(pt),
           pt[at + 1] = ToLE(n, 2)[1], pt[at + 2] = ToLE(n, 2)[2]
    PROVE  FromLE(Slice(pt, at, at + 2)) = n
<1>1. PICK raw : raw = ToLE(n, 2) /\ raw \in Seq(Bytes) /\ Len(raw) = 2
  BY LittleEndian
<1>2. \A j \in 1..Len(raw) : pt[at + j] = raw[j]
  BY <1>1
<1>3. at + 2 = at + Len(raw) /\ at + 2 \in Nat
  <2>1. Len(raw) = 2
    BY <1>1
  <2>2. at + 2 \in Nat
    OBVIOUS
  <2> QED
    BY <2>1, <2>2, Zenon
<1>4. Slice(pt, at, at + 2) = raw
  BY <1>1, <1>2, <1>3, Sliced
<1> QED
  BY <1>1, <1>4, LittleEndian

LEMMA ReadHead ==
    ASSUME NEW b, NEW pt \in Seq(Bytes), Begins(pt, b), NEW at \in Nat, NEW op,
           NEW e \in EntrySet, Shows(b, at, op, e), at + Prefix(op) <= Len(pt)
    PROVE  /\ \A status, shown, n : EntryAt(pt, at, status, shown, n)
                                    = Entry(e.siid, e.piid, status, shown, n)
           /\ HasStatus(op) => StatusAt(pt, at) = e.status
<1>1. PICK len \in Nat : len = Len(pt)
  BY LenProperties
<1>2. PICK p \in {3, 5} : p = Prefix(op) /\ (HasStatus(op) => p = 5)
  BY DEF Prefix
<1>3. at + 3 <= len /\ (HasStatus(op) => at + 5 <= len)
  BY <1>1, <1>2
<1>4. \A j \in 1..len : pt[j] = b[j]
  BY <1>1 DEF Begins
<1>5. /\ at + 1 \in 1..len /\ at + 2 \in 1..len /\ at + 3 \in 1..len
      /\ HasStatus(op) => at + 4 \in 1..len /\ at + 5 \in 1..len
  BY <1>1, <1>3
<1>6. /\ pt[at + 1] = e.siid
      /\ pt[at + 2] = ToLE(e.piid, 2)[1] /\ pt[at + 3] = ToLE(e.piid, 2)[2]
      /\ HasStatus(op) => /\ pt[at + 4] = ToLE(e.status, 2)[1]
                          /\ pt[at + 5] = ToLE(e.status, 2)[2]
  BY <1>4, <1>5 DEF Shows
<1>7. FromLE(Slice(pt, at + 1, at + 3)) = e.piid
  <2>1. PICK a \in Nat, piid \in Words : a = at + 1 /\ piid = e.piid
    BY EntryTypes
  <2>2. a + 2 = at + 3 /\ a + 1 = at + 2
    BY <2>1
  <2>3. /\ a + 2 <= Len(pt) /\ pt[a + 1] = ToLE(piid, 2)[1]
        /\ pt[a + 2] = ToLE(piid, 2)[2]
    BY <1>1, <1>3, <1>6, <2>1, <2>2
  <2>4. FromLE(Slice(pt, a, a + 2)) = piid
    BY <2>3, ReadNumber
  <2> QED
    BY <2>1, <2>2, <2>4
<1>8. ASSUME HasStatus(op)
      PROVE  StatusAt(pt, at) = e.status
  <2>1. PICK a \in Nat, status \in Words : a = at + 3 /\ status = e.status
    BY EntryTypes
  <2>2. a + 2 = at + 5 /\ a + 1 = at + 4
    BY <2>1
  <2>3. /\ a + 2 <= Len(pt) /\ pt[a + 1] = ToLE(status, 2)[1]
        /\ pt[a + 2] = ToLE(status, 2)[2]
    BY <1>1, <1>3, <1>6, <1>8, <2>1, <2>2
  <2>4. FromLE(Slice(pt, a, a + 2)) = status
    BY <2>3, ReadNumber
  <2> QED
    BY <2>1, <2>2, <2>4 DEF StatusAt
<1> QED
  BY <1>6, <1>7, <1>8 DEF EntryAt

LEMMA ReadType ==
    ASSUME NEW b, NEW pt \in Seq(Bytes), Begins(pt, b), NEW at \in Nat, NEW op,
           op # SET_RESPONSE, NEW e \in EntrySet, Shows(b, at, op, e),
           at + (Prefix(op) + 2) <= Len(pt)
    PROVE  pt[at + (Prefix(op) + 2) - 1] = e.type /\ pt[at + (Prefix(op) + 2)] = e.marker
<1>1. PICK len \in Nat : len = Len(pt)
  BY LenProperties
<1>2. PICK p \in {3, 5} : p = Prefix(op)
  BY DEF Prefix
<1>3. /\ at + p + 1 \in 1..len /\ at + p + 2 \in 1..len
      /\ at + (p + 2) - 1 = at + p + 1 /\ at + (p + 2) = at + p + 2
  BY <1>1, <1>2
<1>4. \A j \in 1..len : pt[j] = b[j]
  BY <1>1 DEF Begins
<1>5. b[at + p + 1] = e.type /\ b[at + p + 2] = e.marker
  BY <1>2 DEF Shows
<1> QED
  BY <1>2, <1>3, <1>4, <1>5

LEMMA ReadRaw ==
    ASSUME NEW b, NEW pt \in Seq(Bytes), Begins(pt, b), NEW at \in Nat, NEW op,
           op # SET_RESPONSE, NEW e \in EntrySet, Shows(b, at, op, e),
           NEW from, from = at + (Prefix(op) + 2),
           NEW to, to = from + Len(e.raw), to <= Len(pt)
    PROVE  Slice(pt, from, to) = e.raw
<1>1. PICK len \in Nat, k \in Nat : len = Len(pt) /\ k = Len(e.raw)
  BY EntryTypes, LenProperties
<1>2. PICK p \in {3, 5} : p = Prefix(op)
  BY DEF Prefix
<1>3. from \in Nat /\ to \in Nat /\ from = at + (p + 2) /\ to = from + k
  <2>1. from = at + (p + 2)
    BY <1>2, Zenon
  <2>2. to = from + k
    BY <1>1, Zenon
  <2>3. from \in Nat
    BY <2>1
  <2>4. to \in Nat
    BY <2>2, <2>3
  <2> QED
    BY <2>1, <2>2, <2>3, <2>4
<1>4. \A j \in 1..len : pt[j] = b[j]
  BY <1>1 DEF Begins
<1>5. ASSUME NEW j \in 1..k
      PROVE  pt[from + j] = e.raw[j]
  <2>0. to <= len
    BY <1>1
  <2>1. at + p + 2 + j = from + j /\ from + j \in 1..len
    <3>1. at + p + 2 + j = (at + (p + 2)) + j
      OBVIOUS
    <3>2. from + j \in 1..from + k
      BY <1>3
    <3>3. from + j \in 1..to
      BY <1>3, <3>2, Zenon
    <3>4. from + j \in 1..len
      BY <1>3, <2>0, <3>3
    <3> QED
      BY <1>3, <3>1, <3>4, Zenon
  <2>2. b[at + p + 2 + j] = e.raw[j]
    BY <1>1, <1>2 DEF Shows
  <2> QED
    BY <1>4, <2>1, <2>2
<1>6. PICK raw \in Seq(Bytes) : raw = e.raw
  BY EntryTypes
<1>7. /\ to = from + Len(raw) /\ to <= Len(pt)
      /\ \A j \in 1..Len(raw) : pt[from + j] = raw[j]
  BY <1>1, <1>3, <1>5, <1>6
<1> QED
  BY <1>3, <1>6, <1>7, Sliced

-----------------------------------------------------------------------------
(* The entries, one by one.                                                *)

PrefixOf(includesStatus) == IF includesStatus THEN 7 ELSE 5
Start(at, incl) == at + PrefixOf(incl)
TypeAt(pt, at, incl) == pt[at + PrefixOf(incl) - 1]
End(pt, at, incl) == Start(at, incl) + Width[TypeAt(pt, at, incl)]
RawAt(pt, at, incl) == Slice(pt, Start(at, incl), End(pt, at, incl))
IsBoolAt(pt, at, incl) == TypeAt(pt, at, incl) = BYTE /\ pt[Start(at, incl)] = 0
ReadAt(pt, at, incl) ==
    EntryAt(pt, at, IF incl THEN StatusAt(pt, at) ELSE 0,
            IF IsBoolAt(pt, at, incl) THEN "bool" ELSE "int",
            IF IsBoolAt(pt, at, incl) THEN Truth(RawAt(pt, at, incl))
            ELSE FromLE(RawAt(pt, at, incl)))
EntryStep(pt, incl, rest, at) ==
    IF TypeAt(pt, at, incl) \notin DOMAIN Width
       \/ ~ValueFits(pt, End(pt, at, incl)) \/ ~rest.ok
    THEN Refused
    ELSE Accepted(<<ReadAt(pt, at, incl)>> \o rest.list)
EntriesBody(pt, incl, f, k) ==
    [at \in Nat |->
        IF k = 0 THEN Accepted(<<>>)
        ELSE IF ~Fits(pt, at + PrefixOf(incl)) THEN Refused
        ELSE EntryStep(pt, incl, f[k - 1][End(pt, at, incl)], at)]

LEMMA UnfoldEntries ==
    ASSUME NEW pt, NEW count, NEW incl
    PROVE  _parse_property_entries(pt, count, incl) =
             (CHOOSE f : f = [k \in 0..count |-> EntriesBody(pt, incl, f, k)])
                [count][HEADER]
BY DEF _parse_property_entries, EntriesBody, EntryStep, ReadAt, IsBoolAt, RawAt,
       End, TypeAt, Start, PrefixOf

LEMMA EntriesDefined ==
    ASSUME NEW pt, NEW count \in Nat, NEW incl
    PROVE  \E f : f = [k \in 0..count |-> EntriesBody(pt, incl, f, k)]
<1> DEFINE P == {n \in Nat : \E f : f = [k \in 0..n |-> EntriesBody(pt, incl, f, k)]}
<1>1. 0 \in P
  <2>1. PICK f : f = [k \in 0..0 |-> EntriesBody(pt, incl, <<>>, k)]
    OBVIOUS
  <2>2. \A k \in 0..0 : EntriesBody(pt, incl, f, k) = EntriesBody(pt, incl, <<>>, k)
    BY DEF EntriesBody
  <2>3. f = [k \in 0..0 |-> EntriesBody(pt, incl, f, k)]
    BY <2>1, <2>2
  <2> QED
    BY <2>3
<1>2. ASSUME NEW n \in Nat, n \in P
      PROVE  n + 1 \in P
  <2>1. PICK f : f = [k \in 0..n |-> EntriesBody(pt, incl, f, k)]
    BY <1>2
  <2>2. PICK h : h = [k \in 0..n + 1 |-> IF k = n + 1 THEN EntriesBody(pt, incl, f, k)
                                         ELSE f[k]]
    OBVIOUS
  <2>3. ASSUME NEW k \in 0..n + 1
        PROVE  h[k] = EntriesBody(pt, incl, h, k)
    <3>1. k # 0 => k - 1 \in 0..n /\ k - 1 \in 0..n + 1 /\ k - 1 # n + 1
      OBVIOUS
    <3>2. k # 0 => h[k - 1] = f[k - 1]
      BY <2>2, <3>1
    <3>3. EntriesBody(pt, incl, h, k) = EntriesBody(pt, incl, f, k)
      BY <3>2 DEF EntriesBody
    <3>4. k # n + 1 => k \in 0..n
      OBVIOUS
    <3>5. k # n + 1 => f[k] = EntriesBody(pt, incl, f, k)
      BY <2>1, <3>4
    <3> QED
      BY <2>2, <3>3, <3>5
  <2>4. h = [k \in 0..n + 1 |-> EntriesBody(pt, incl, h, k)]
    BY <2>2, <2>3
  <2> QED
    BY <2>4
<1> HIDE DEF P
<1>3. count \in P
  BY <1>1, <1>2, Induction
<1> QED
  BY <1>3 DEF P

LEMMA Entries ==
    ASSUME NEW pt, NEW count \in Nat, NEW incl
    PROVE  \E f : /\ _parse_property_entries(pt, count, incl) = f[count][HEADER]
                  /\ \A k \in 0..count, at \in Nat :
                        f[k][at] = IF k = 0 THEN Accepted(<<>>)
                                   ELSE IF ~Fits(pt, at + PrefixOf(incl)) THEN Refused
                                   ELSE EntryStep(pt, incl,
                                                  f[k - 1][End(pt, at, incl)], at)
<1>1. PICK f : /\ f = [k \in 0..count |-> EntriesBody(pt, incl, f, k)]
               /\ _parse_property_entries(pt, count, incl) = f[count][HEADER]
  <2>1. \E f : f = [k \in 0..count |-> EntriesBody(pt, incl, f, k)]
    BY EntriesDefined
  <2>2. PICK g : g = CHOOSE f : f = [k \in 0..count |-> EntriesBody(pt, incl, f, k)]
    OBVIOUS
  <2>3. g = [k \in 0..count |-> EntriesBody(pt, incl, g, k)]
    BY <2>1, <2>2, Zenon
  <2>4. _parse_property_entries(pt, count, incl) = g[count][HEADER]
    BY <2>2, UnfoldEntries, Zenon
  <2> QED
    BY <2>3, <2>4
<1>2. \A k \in 0..count : f[k] = EntriesBody(pt, incl, f, k)
  BY <1>1
<1>3. \A k \in 0..count, at \in Nat :
        f[k][at] = IF k = 0 THEN Accepted(<<>>)
                   ELSE IF ~Fits(pt, at + PrefixOf(incl)) THEN Refused
                   ELSE EntryStep(pt, incl, f[k - 1][End(pt, at, incl)], at)
  BY <1>2 DEF EntriesBody
<1> QED
  BY <1>1, <1>3

LEMMA Outcomes ==
    /\ ~Refused.ok
    /\ \A list : Accepted(list).ok /\ Accepted(list).list = list
BY DEF Refused, Accepted

\* One entry is read as it is meant if it is there.
LEMMA StepReads ==
    ASSUME NEW b, NEW pt \in Seq(Bytes), Begins(pt, b), NEW at \in Nat, NEW op,
           op # SET_RESPONSE, NEW incl \in BOOLEAN, incl <=> HasStatus(op),
           NEW e \in EntrySet, Shows(b, at, op, e),
           at + PrefixOf(incl) <= Len(pt), NEW rest
    PROVE  /\ e.type \in DOMAIN Width => End(pt, at, incl) = at + Size(op, e)
           /\ EntryStep(pt, incl, rest, at) =
                IF /\ e.type \in DOMAIN Width /\ at + Size(op, e) <= Len(pt)
                   /\ rest.ok
                THEN Accepted(<<Meaning(op, e)>> \o rest.list) ELSE Refused
<1>1. PICK p \in {3, 5} : p = Prefix(op) /\ p + 2 = PrefixOf(incl)
  BY DEF Prefix, PrefixOf
<1>2. PICK len \in Nat, k \in Nat : len = Len(pt) /\ k = Len(e.raw)
  BY EntryTypes, LenProperties
<1>3. PICK from \in Nat, to \in Nat : /\ from = at + (p + 2) /\ to = from + k
                                      /\ from = Start(at, incl)
                                      /\ to = at + Size(op, e)
  <2>1. Size(op, e) = p + (2 + k)
    BY <1>1, <1>2 DEF Size
  <2>2. PICK from \in Nat : from = at + (p + 2)
    OBVIOUS
  <2>3. PICK to \in Nat : to = from + k
    OBVIOUS
  <2>4. to = at + (p + (2 + k))
    BY <2>2, <2>3
  <2> QED
    BY <1>1, <2>1, <2>2, <2>3, <2>4 DEF Start
<1>4. from <= len
  BY <1>1, <1>2, <1>3
<1>5. TypeAt(pt, at, incl) = e.type /\ pt[Start(at, incl)] = e.marker
  <2>1. at + (Prefix(op) + 2) <= Len(pt)
    BY <1>1, <1>2, <1>3, <1>4
  <2>2. /\ pt[at + (Prefix(op) + 2) - 1] = e.type
        /\ pt[at + (Prefix(op) + 2)] = e.marker
    BY <2>1, ReadType
  <2> QED
    BY <1>1, <2>2 DEF TypeAt, Start
<1>6. ASSUME e.type \in DOMAIN Width
      PROVE  End(pt, at, incl) = to
  BY <1>2, <1>3, <1>5, <1>6, EntryTypes DEF End
<1>7. ASSUME e.type \in DOMAIN Width, to <= len
      PROVE  ReadAt(pt, at, incl) = Meaning(op, e)
  <2>1. RawAt(pt, at, incl) = e.raw
    <3>1. from = at + (Prefix(op) + 2) /\ to = from + Len(e.raw) /\ to <= Len(pt)
      BY <1>1, <1>2, <1>3, <1>7
    <3>2. Slice(pt, from, to) = e.raw
      BY <3>1, ReadRaw
    <3> QED
      BY <1>3, <1>6, <1>7, <3>2 DEF RawAt
  <2>2. at + Prefix(op) <= Len(pt)
    BY <1>1, <1>2, <1>3, <1>4
  <2>3. /\ \A status, shown, n : EntryAt(pt, at, status, shown, n)
                                 = Entry(e.siid, e.piid, status, shown, n)
        /\ HasStatus(op) => StatusAt(pt, at) = e.status
    BY <2>2, ReadHead
  <2>4. HasStatus(op) <=> op \in RESPONSES
    BY DEF HasStatus
  <2>5. (IF incl THEN StatusAt(pt, at) ELSE 0)
        = (IF op \in RESPONSES THEN e.status ELSE 0)
    BY <2>3, <2>4
  <2>6. IsBoolAt(pt, at, incl) <=> (e.type = BYTE /\ e.marker = 0)
    BY <1>5 DEF IsBoolAt
  <2> QED
    BY <2>1, <2>3, <2>5, <2>6 DEF ReadAt, Meaning
<1>8. EntryStep(pt, incl, rest, at) =
        IF e.type \in DOMAIN Width /\ to <= len /\ rest.ok
        THEN Accepted(<<Meaning(op, e)>> \o rest.list) ELSE Refused
  <2>1. CASE e.type \notin DOMAIN Width
    BY <1>5, <2>1 DEF EntryStep
  <2>2. CASE e.type \in DOMAIN Width /\ ~(to <= len)
    <3>1. ~ValueFits(pt, End(pt, at, incl))
      BY <1>2, <1>6, <2>2 DEF ValueFits, Fits
    <3> QED
      BY <2>2, <3>1 DEF EntryStep
  <2>3. CASE e.type \in DOMAIN Width /\ to <= len
    <3>1. ValueFits(pt, End(pt, at, incl))
      BY <1>2, <1>6, <2>3 DEF ValueFits, Fits
    <3>2. TypeAt(pt, at, incl) \in DOMAIN Width
      BY <1>5, <2>3
    <3> QED
      BY <1>7, <2>3, <3>1, <3>2 DEF EntryStep
  <2> QED
    BY <2>1, <2>2, <2>3
<1> QED
  BY <1>2, <1>3, <1>6, <1>8

LEMMA PutBefore ==
    ASSUME NEW S, NEW x \in S, NEW d \in Nat, NEW t \in [1..d -> S],
           NEW u \in [1..d + 1 -> S], u[1] = x, \A q \in 1..d : u[q + 1] = t[q]
    PROVE  <<x>> \o t = u
<1>1. t \in Seq(S) /\ Len(t) = d /\ u \in Seq(S) /\ Len(u) = d + 1
  OBVIOUS
<1>2. PICK s : s = <<x>> /\ s \in Seq(S) /\ Len(s) = 1 /\ s[1] = x
  <2>1. <<x>> \in Seq(S) /\ Len(<<x>>) = 1 /\ <<x>>[1] = x
    BY Singles
  <2> QED
    BY <2>1
<1>3. /\ s \o t \in Seq(S) /\ Len(s \o t) = 1 + d
      /\ \A i \in 1..1 + d : (s \o t)[i] = IF i <= 1 THEN s[i] ELSE t[i - 1]
  BY <1>1, <1>2, ConcatProperties
<1>4. ASSUME NEW i \in 1..1 + d
      PROVE  (s \o t)[i] = u[i]
  <2>1. CASE i = 1
    BY <1>2, <1>3, <2>1
  <2>2. CASE i # 1
    <3>1. i - 1 \in 1..d /\ (i - 1) + 1 = i /\ ~(i <= 1)
      BY <2>2
    <3>2. u[(i - 1) + 1] = t[i - 1]
      BY <3>1
    <3> QED
      BY <1>3, <3>1, <3>2
  <2> QED
    BY <2>1, <2>2
<1>5. 1 + d = d + 1
  OBVIOUS
<1> QED
  BY <1>1, <1>2, <1>3, <1>4, <1>5, SeqEqual

-----------------------------------------------------------------------------
(* All the entries an answer counts.                                       *)

Readable(pt, entries, at, j) ==
    j <= Len(entries) /\ entries[j].type \in DOMAIN Width /\ at[j] <= Len(pt)

\* The meaning of d entries behind the i-th.
Told(op, entries, i, d) == [q \in 1..d |-> Meaning(op, entries[i + q])]

LEMMA ToldOn ==
    ASSUME NEW op, NEW entries, NEW i \in Nat, NEW d \in Nat
    PROVE  <<Meaning(op, entries[i + 1])>> \o Told(op, entries, i + 1, d)
           = Told(op, entries, i, d + 1)
<1> DEFINE S == {Meaning(op, entries[j]) : j \in Nat}
<1>1. PICK t : t = Told(op, entries, i + 1, d)
  OBVIOUS
<1>2. PICK u : u = Told(op, entries, i, d + 1)
  OBVIOUS
<1>3. PICK x : x = Meaning(op, entries[i + 1])
  OBVIOUS
<1>4. x \in S /\ \A j \in Nat : Meaning(op, entries[j]) \in S
  BY <1>3
<1> HIDE DEF S
<1>5. t = [q \in 1..d |-> Meaning(op, entries[(i + 1) + q])]
  BY <1>1 DEF Told
<1>6. u = [q \in 1..d + 1 |-> Meaning(op, entries[i + q])]
  BY <1>2 DEF Told
<1>7. t \in [1..d -> S]
  <2>1. \A q \in 1..d : (i + 1) + q \in Nat
    OBVIOUS
  <2> QED
    BY <1>4, <1>5, <2>1
<1>8. u \in [1..d + 1 -> S]
  <2>1. \A q \in 1..d + 1 : i + q \in Nat
    OBVIOUS
  <2> QED
    BY <1>4, <1>6, <2>1
<1>9. u[1] = x
  <2>1. 1 \in 1..d + 1
    OBVIOUS
  <2> QED
    BY <1>3, <1>6, <2>1
<1>10. ASSUME NEW q \in 1..d
       PROVE  u[q + 1] = t[q]
  <2>1. q + 1 \in 1..d + 1 /\ i + (q + 1) = (i + 1) + q
    OBVIOUS
  <2>2. u[q + 1] = Meaning(op, entries[i + (q + 1)])
    BY <1>6, <2>1
  <2> QED
    BY <1>5, <2>1, <2>2
<1>11. <<x>> \o t = u
  BY <1>4, <1>7, <1>8, <1>9, <1>10, PutBefore
<1> QED
  BY <1>1, <1>2, <1>3, <1>11, Zenon

\* The entries from the i-th on are read exactly if they are all there, and as
\* they are meant.
LEMMA ReadEntries ==
    ASSUME NEW b, NEW pt \in Seq(Bytes), Begins(pt, b), NEW op, op # SET_RESPONSE,
           NEW entries \in Seq(EntrySet), NEW incl \in BOOLEAN,
           incl <=> HasStatus(op), NEW at, Layout(b, op, entries, at),
           NEW count \in Nat
    PROVE  LET got == _parse_property_entries(pt, count, incl)
           IN /\ got.ok <=> \A j \in 1..count : Readable(pt, entries, at, j)
              /\ got.ok => got.list = Told(op, entries, 0, count)
<1>1. PICK n \in Nat, len \in Nat : n = Len(entries) /\ len = Len(pt)
  BY LenProperties
<1>2. /\ at \in [0..n -> Nat] /\ at[0] = HEADER /\ at[n] = Len(b)
      /\ \A i \in 1..n : at[i] = at[i - 1] + Size(op, entries[i])
      /\ \A i \in 1..n : Shows(b, at[i - 1], op, entries[i])
      /\ \A i, k \in 0..n : i <= k => at[i] <= at[k]
  BY <1>1 DEF Layout
<1>3. len <= at[n] /\ at[n] \in Nat
  BY <1>1, <1>2 DEF Begins
<1>4. PICK f : /\ _parse_property_entries(pt, count, incl) = f[count][HEADER]
               /\ \A k \in 0..count, a \in Nat :
                     f[k][a] = IF k = 0 THEN Accepted(<<>>)
                               ELSE IF ~Fits(pt, a + PrefixOf(incl)) THEN Refused
                               ELSE EntryStep(pt, incl,
                                              f[k - 1][End(pt, a, incl)], a)
  <2>1. \A c \in Nat : \A x : \E f :
            /\ _parse_property_entries(pt, c, x) = f[c][HEADER]
            /\ \A k \in 0..c, a \in Nat :
                  f[k][a] = IF k = 0 THEN Accepted(<<>>)
                            ELSE IF ~Fits(pt, a + PrefixOf(x)) THEN Refused
                            ELSE EntryStep(pt, x, f[k - 1][End(pt, a, x)], a)
    BY Entries
  <2> QED
    BY <2>1
<1> DEFINE Rest(d) == f[d][at[count - d]]
           R(j) == Readable(pt, entries, at, j)
           P == {d \in Nat : d <= count /\ count - d <= n =>
                    /\ Rest(d).ok <=> \A j \in (count - d) + 1..count : R(j)
                    /\ Rest(d).ok => Rest(d).list = Told(op, entries, count - d, d)}
<1>5. 0 \in P
  <2>1. ASSUME count <= n
        PROVE  /\ Rest(0).ok /\ Rest(0).list = <<>>
               /\ \A j \in (count - 0) + 1..count : R(j)
               /\ Told(op, entries, count - 0, 0) = <<>>
    <3>1. count - 0 = count /\ at[count] \in Nat /\ 0 \in 0..count
      BY <1>2, <2>1
    <3>2. Rest(0) = Accepted(<<>>)
      BY <1>4, <3>1
    <3>3. \A j \in (count - 0) + 1..count : FALSE
      OBVIOUS
    <3>4. Told(op, entries, count - 0, 0) = <<>>
      BY DEF Told
    <3> QED
      BY <3>2, <3>3, <3>4, Outcomes
  <2> QED
    BY <2>1
<1>6. ASSUME NEW d \in Nat, d \in P
      PROVE  d + 1 \in P
  <2> SUFFICES ASSUME d + 1 <= count, count - (d + 1) <= n
               PROVE  /\ Rest(d + 1).ok
                         <=> \A j \in (count - (d + 1)) + 1..count : R(j)
                      /\ Rest(d + 1).ok
                         => Rest(d + 1).list
                            = Told(op, entries, count - (d + 1), d + 1)
    OBVIOUS
  <2>1. PICK i \in Nat : /\ i = count - (d + 1) /\ i + 1 = count - d
                         /\ i \in 0..n /\ i + 1 \in 1..count
    <3>1. PICK i \in Nat : i = count - (d + 1)
      OBVIOUS
    <3>2. i + 1 = count - d /\ i <= n /\ i + 1 \in 1..count
      BY <3>1
    <3> QED
      BY <3>1, <3>2
  <2>2. PICK a \in Nat : a = at[i]
    BY <1>2, <2>1
  <2>3. Rest(d + 1) = IF ~Fits(pt, a + PrefixOf(incl)) THEN Refused
                      ELSE EntryStep(pt, incl, f[d][End(pt, a, incl)], a)
    <3>1. d + 1 \in 0..count /\ d + 1 # 0 /\ (d + 1) - 1 = d
      OBVIOUS
    <3>2. Rest(d + 1) = f[d + 1][a]
      BY <2>1, <2>2
    <3> QED
      BY <1>4, <3>1, <3>2
  <2>4. PICK p \in {5, 7} : p = PrefixOf(incl)
    BY DEF PrefixOf
  <2>5. (\A j \in i + 1..count : R(j))
        <=> R(i + 1) /\ \A j \in (i + 1) + 1..count : R(j)
    <3>1. \A j \in i + 1..count : j = i + 1 \/ j \in (i + 1) + 1..count
      BY <2>1
    <3>2. i + 1 \in i + 1..count
      BY <2>1
    <3>3. \A j \in (i + 1) + 1..count : j \in i + 1..count
      BY <2>1
    <3> HIDE DEF R
    <3> QED
      BY <3>1, <3>2, <3>3
  <2>6. CASE i = n
    <3>1. a = at[n]
      BY <2>2, <2>6
    <3>2. ~(a + p <= len)
      BY <1>3, <2>4, <3>1
    <3>3. Rest(d + 1) = Refused
      BY <1>1, <2>3, <2>4, <3>2 DEF Fits
    <3>4. ~R(i + 1)
      BY <1>1, <2>6 DEF Readable
    <3> HIDE DEF P, Rest, R
    <3> QED
      BY <2>1, <2>5, <3>3, <3>4, Outcomes
  <2>7. CASE i # n
    <3>1. i + 1 \in 1..n /\ i + 1 \in 0..n /\ (i + 1) - 1 = i /\ i + 1 <= n
      BY <2>1, <2>7
    <3>2. PICK e \in EntrySet : e = entries[i + 1]
      BY <1>1, <3>1, ElementOfSeq
    <3>3. PICK to \in Nat : to = at[i + 1]
      BY <1>2, <3>1
    <3>4. to = a + Size(op, e) /\ Shows(b, a, op, e)
      BY <1>2, <2>2, <3>1, <3>2, <3>3
    <3>5. R(i + 1) <=> e.type \in DOMAIN Width /\ to <= len
      BY <1>1, <3>1, <3>2, <3>3 DEF Readable
    <3>6. CASE ~(a + p <= len)
      <4>1. Rest(d + 1) = Refused
        BY <1>1, <2>3, <2>4, <3>6 DEF Fits
      <4>2. PICK size \in Nat, k \in Nat : /\ size = Size(op, e) /\ k = Len(e.raw)
                                           /\ size = p + k
        <5>1. PICK k \in Nat : k = Len(e.raw)
          BY EntryTypes, LenProperties
        <5>2. Prefix(op) + 2 = p
          BY <2>4 DEF Prefix, PrefixOf
        <5>3. Prefix(op) \in Nat
          BY DEF Prefix
        <5>4. Size(op, e) = Prefix(op) + (2 + k)
          BY <5>1 DEF Size
        <5>5. Prefix(op) + (2 + k) = p + k
          BY <5>2, <5>3
        <5> QED
          BY <5>1, <5>4, <5>5
      <4>3. ~(to <= len)
        BY <3>4, <3>6, <4>2
      <4> HIDE DEF P, Rest, R
      <4> QED
        BY <2>1, <2>5, <3>5, <4>1, <4>3, Outcomes
    <3>7. CASE a + p <= len
      <4>1. a + PrefixOf(incl) <= Len(pt)
        BY <1>1, <2>4, <3>7
      <4>2. PICK rest : rest = f[d][End(pt, a, incl)]
        OBVIOUS
      <4>3. /\ e.type \in DOMAIN Width => End(pt, a, incl) = a + Size(op, e)
            /\ EntryStep(pt, incl, rest, a) =
                 IF /\ e.type \in DOMAIN Width /\ a + Size(op, e) <= Len(pt)
                    /\ rest.ok
                 THEN Accepted(<<Meaning(op, e)>> \o rest.list) ELSE Refused
        <5>1. Begins(pt, b) /\ op # SET_RESPONSE /\ (incl <=> HasStatus(op))
          OBVIOUS
        <5>2. Shows(b, a, op, e)
          BY <3>4
        <5> QED
          BY <4>1, <5>1, <5>2, StepReads
      <4>4. Rest(d + 1) = EntryStep(pt, incl, rest, a)
        BY <1>1, <2>3, <2>4, <3>7, <4>2 DEF Fits
      <4>5. CASE R(i + 1)
        <5>1. rest = Rest(d)
          BY <2>1, <3>3, <3>4, <3>5, <4>2, <4>3, <4>5
        <5>2. /\ rest.ok <=> \A j \in (i + 1) + 1..count : R(j)
              /\ rest.ok => rest.list = Told(op, entries, i + 1, d)
          <6>1. d <= count /\ count - d <= n
            BY <2>1, <3>1
          <6>2. /\ Rest(d).ok <=> \A j \in (count - d) + 1..count : R(j)
                /\ Rest(d).ok => Rest(d).list = Told(op, entries, count - d, d)
            BY <1>6, <6>1
          <6> HIDE DEF P, Rest, R
          <6> QED
            BY <2>1, <5>1, <6>2
        <5>3. Rest(d + 1) = IF rest.ok THEN Accepted(<<Meaning(op, e)>> \o rest.list)
                            ELSE Refused
          BY <1>1, <3>4, <3>5, <4>3, <4>4, <4>5
        <5>4. <<Meaning(op, e)>> \o Told(op, entries, i + 1, d)
              = Told(op, entries, i, d + 1)
          BY <3>2, ToldOn, ZenonT(40)
        <5> HIDE DEF P, Rest, R
        <5>5. CASE rest.ok
          <6>1. Rest(d + 1).ok /\ Rest(d + 1).list = Told(op, entries, i, d + 1)
            BY <5>2, <5>3, <5>4, <5>5, Outcomes
          <6> QED
            BY <2>1, <2>5, <4>5, <5>2, <5>5, <6>1
        <5>6. CASE ~rest.ok
          <6>1. ~Rest(d + 1).ok
            BY <5>3, <5>6, Outcomes
          <6> QED
            BY <2>1, <2>5, <5>2, <5>6, <6>1
        <5> QED
          BY <5>5, <5>6
      <4>6. CASE ~R(i + 1)
        <5>1. Rest(d + 1) = Refused
          BY <1>1, <3>4, <3>5, <4>3, <4>4, <4>6
        <5> HIDE DEF P, Rest, R
        <5> QED
          BY <2>1, <2>5, <4>6, <5>1, Outcomes
      <4> QED
        BY <4>5, <4>6
    <3> QED
      BY <3>6, <3>7
  <2> QED
    BY <2>6, <2>7
<1>7. count \in P
  <2> HIDE DEF P
  <2> QED
    BY <1>5, <1>6, Induction
<1>8. /\ Rest(count).ok <=> \A j \in 1..count : R(j)
      /\ Rest(count).ok => Rest(count).list = Told(op, entries, 0, count)
  <2>1. count <= count /\ count - count = 0 /\ 0 <= n /\ 0 + 1 = 1
    BY <1>1
  <2>2. count - count <= n
    BY <2>1
  <2>3. /\ Rest(count).ok <=> \A j \in (count - count) + 1..count : R(j)
        /\ Rest(count).ok
           => Rest(count).list = Told(op, entries, count - count, count)
    BY <1>7, <2>1, <2>2
  <2> HIDE DEF P, Rest, R
  <2> QED
    BY <2>1, <2>3
<1>9. Rest(count) = _parse_property_entries(pt, count, incl)
  <2>1. count - count = 0
    OBVIOUS
  <2> QED
    BY <1>2, <1>4, <2>1
<1> HIDE DEF P, Rest
<1> QED
  BY <1>8, <1>9

-----------------------------------------------------------------------------
(* The results of a write, one by one.                                     *)

ResultAt(pt, at) == EntryAt(pt, at, StatusAt(pt, at), "", 0)
ResultsBody(pt, f, k) ==
    [at \in Nat |->
        IF k = 0 THEN [ok |-> AtEnd(pt, at), list |-> <<>>]
        ELSE IF ~Fits(pt, at + 5) THEN Refused
        ELSE [f[k - 1][at + 5] EXCEPT !.list =
                <<ResultAt(pt, at)>> \o f[k - 1][at + 5].list]]

ResultsOf(pt, count) == CHOOSE f : f = [k \in 0..count |-> ResultsBody(pt, f, k)]
AreResults(pt, f, count) ==
    \A k \in 0..count, at \in Nat :
        f[k][at] = IF k = 0 THEN [ok |-> AtEnd(pt, at), list |-> <<>>]
                   ELSE IF ~Fits(pt, at + 5) THEN Refused
                   ELSE [f[k - 1][at + 5] EXCEPT !.list =
                           <<ResultAt(pt, at)>> \o f[k - 1][at + 5].list]
IsResult(pt) ==
    Fits(pt, HEADER) /\ pt[1] = SET_RESPONSE /\ pt[2] = MIOT /\ pt[5] = 1

LEMMA UnfoldResults ==
    ASSUME NEW pt
    PROVE  parse_set_response(pt) =
             IF IsResult(pt) THEN ResultsOf(pt, 255)[pt[6]][HEADER] ELSE Refused
BY DEF parse_set_response, ResultsBody, ResultAt, ResultsOf, IsResult

LEMMA ResultsDefined ==
    ASSUME NEW pt, NEW count \in Nat
    PROVE  \E f : f = [k \in 0..count |-> ResultsBody(pt, f, k)]
<1> DEFINE P == {n \in Nat : \E f : f = [k \in 0..n |-> ResultsBody(pt, f, k)]}
<1>1. 0 \in P
  <2>1. PICK f : f = [k \in 0..0 |-> ResultsBody(pt, <<>>, k)]
    OBVIOUS
  <2>2. \A k \in 0..0 : ResultsBody(pt, f, k) = ResultsBody(pt, <<>>, k)
    BY DEF ResultsBody
  <2>3. f = [k \in 0..0 |-> ResultsBody(pt, f, k)]
    BY <2>1, <2>2
  <2> QED
    BY <2>3
<1>2. ASSUME NEW n \in Nat, n \in P
      PROVE  n + 1 \in P
  <2>1. PICK f : f = [k \in 0..n |-> ResultsBody(pt, f, k)]
    BY <1>2
  <2>2. PICK h : h = [k \in 0..n + 1 |-> IF k = n + 1 THEN ResultsBody(pt, f, k)
                                         ELSE f[k]]
    OBVIOUS
  <2>3. ASSUME NEW k \in 0..n + 1
        PROVE  h[k] = ResultsBody(pt, h, k)
    <3>1. k # 0 => k - 1 \in 0..n /\ k - 1 \in 0..n + 1 /\ k - 1 # n + 1
      OBVIOUS
    <3>2. k # 0 => h[k - 1] = f[k - 1]
      BY <2>2, <3>1
    <3>3. ResultsBody(pt, h, k) = ResultsBody(pt, f, k)
      BY <3>2 DEF ResultsBody
    <3>4. k # n + 1 => k \in 0..n
      OBVIOUS
    <3>5. k # n + 1 => f[k] = ResultsBody(pt, f, k)
      BY <2>1, <3>4
    <3> QED
      BY <2>2, <3>3, <3>5
  <2>4. h = [k \in 0..n + 1 |-> ResultsBody(pt, h, k)]
    BY <2>2, <2>3
  <2> QED
    BY <2>4
<1> HIDE DEF P
<1>3. count \in P
  BY <1>1, <1>2, Induction
<1> QED
  BY <1>3 DEF P

LEMMA Results ==
    ASSUME NEW pt, NEW count \in Nat
    PROVE  AreResults(pt, ResultsOf(pt, count), count)
<1>1. \E f : f = [k \in 0..count |-> ResultsBody(pt, f, k)]
  BY ResultsDefined
<1>2. PICK g : g = ResultsOf(pt, count)
  OBVIOUS
<1>3. g = [k \in 0..count |-> ResultsBody(pt, g, k)]
  BY <1>1, <1>2, Zenon DEF ResultsOf
<1>4. \A k \in 0..count : g[k] = ResultsBody(pt, g, k)
  BY <1>3
<1>5. AreResults(pt, g, count)
  BY <1>4, ZenonT(40) DEF ResultsBody, AreResults
<1> QED
  BY <1>2, <1>5

\* As many results are taken as are counted.
Taken(S, r, k) == r.ok => r.list \in Seq(S) /\ Len(r.list) = k

LEMMA TakeNone ==
    ASSUME NEW S, NEW ok
    PROVE  Taken(S, [ok |-> ok, list |-> <<>>], 0)
BY DEF Taken

LEMMA TakeMore ==
    ASSUME NEW S, NEW x \in S, NEW ok, NEW list, NEW k \in Nat,
           Taken(S, [ok |-> ok, list |-> list], k)
    PROVE  Taken(S, [ok |-> ok, list |-> <<x>> \o list], k + 1)
<1>1. PICK s : s = <<x>>
  OBVIOUS
<1>2. ASSUME ok
      PROVE  s \o list \in Seq(S) /\ Len(s \o list) = k + 1
  <2>1. list \in Seq(S) /\ Len(list) = k
    BY <1>2 DEF Taken
  <2>2. s \in Seq(S) /\ Len(s) = 1
    BY <1>1, Singles
  <2>3. s \o list \in Seq(S) /\ Len(s \o list) = Len(s) + Len(list)
    BY <2>1, <2>2, ConcatProperties
  <2> QED
    BY <2>1, <2>2, <2>3
<1>3. Taken(S, [ok |-> ok, list |-> s \o list], k + 1)
  BY <1>2 DEF Taken
<1> QED
  BY <1>1, <1>3

LEMMA Replaced ==
    ASSUME NEW ok, NEW list, NEW v
    PROVE  [[ok |-> ok, list |-> list] EXCEPT !.list = v] = [ok |-> ok, list |-> v]
OBVIOUS

LEMMA AsManyResults ==
    ASSUME NEW pt, NEW f, NEW count \in Nat, AreResults(pt, f, count),
           NEW c \in 0..count, NEW start \in Nat, f[c][start].ok
    PROVE  Len(f[c][start].list) = c
<1>1. PICK S : S = {ResultAt(pt, at) : at \in Nat}
  OBVIOUS
<1> DEFINE Known(r) == r = [ok |-> r.ok, list |-> r.list]
           P == {k \in Nat : k <= count =>
                   \A at \in Nat : Taken(S, f[k][at], k) /\ Known(f[k][at])}
<1>2. 0 \in P
  <2>1. ASSUME NEW at \in Nat
        PROVE  Taken(S, f[0][at], 0) /\ Known(f[0][at])
    <3>1. f[0][at] = [ok |-> AtEnd(pt, at), list |-> <<>>]
      <4>1. 0 \in 0..count
        OBVIOUS
      <4> QED
        BY <4>1, Zenon DEF AreResults
    <3>2. PICK ok : f[0][at] = [ok |-> ok, list |-> <<>>]
      BY <3>1
    <3>3. Known(f[0][at])
      BY <3>2
    <3> QED
      BY <3>2, <3>3, TakeNone
  <2> QED
    BY <2>1
<1>3. ASSUME NEW k \in Nat, k \in P
      PROVE  k + 1 \in P
  <2>1. ASSUME k + 1 <= count, NEW at \in Nat
        PROVE  Taken(S, f[k + 1][at], k + 1) /\ Known(f[k + 1][at])
    <3>1. /\ k + 1 \in 0..count /\ k + 1 # 0 /\ (k + 1) - 1 = k /\ k <= count
          /\ at + 5 \in Nat
      BY <2>1
    <3>2. PICK rest : rest = f[k][at + 5]
      OBVIOUS
    <3>3. Taken(S, rest, k) /\ Known(rest)
      BY <1>3, <3>1, <3>2
    <3>4. f[k + 1][at] = IF ~Fits(pt, at + 5) THEN Refused
                         ELSE [rest EXCEPT !.list = <<ResultAt(pt, at)>> \o rest.list]
      <4>1. PICK j \in 0..count : j = k + 1 /\ j # 0 /\ j - 1 = k
        BY <3>1
      <4>2. f[j][at] = IF ~Fits(pt, at + 5) THEN Refused
                       ELSE [f[j - 1][at + 5] EXCEPT !.list =
                               <<ResultAt(pt, at)>> \o f[j - 1][at + 5].list]
        BY <4>1, Zenon DEF AreResults
      <4> QED
        BY <3>2, <4>1, <4>2, Zenon
    <3>5. CASE ~Fits(pt, at + 5)
      <4>1. f[k + 1][at] = Refused
        BY <3>4, <3>5
      <4>2. Known(Refused) /\ Taken(S, Refused, k + 1)
        BY DEF Refused, Taken
      <4> QED
        BY <4>1, <4>2
    <3>6. CASE Fits(pt, at + 5)
      <4>1. PICK x \in S : x = ResultAt(pt, at)
        BY <1>1
      <4>2. f[k + 1][at] = [rest EXCEPT !.list = <<x>> \o rest.list]
        BY <3>4, <3>6, <4>1
      <4>3. PICK ok, list : /\ ok = rest.ok /\ list = rest.list
                            /\ rest = [ok |-> ok, list |-> list]
        BY <3>3
      <4>4. f[k + 1][at] = [[ok |-> ok, list |-> list] EXCEPT !.list = <<x>> \o list]
        BY <4>2, <4>3, Zenon
      <4>5. f[k + 1][at] = [ok |-> ok, list |-> <<x>> \o list]
        BY <4>4, Replaced, Zenon
      <4>6. Taken(S, [ok |-> ok, list |-> list], k)
        BY <3>3, <4>3
      <4>7. Taken(S, [ok |-> ok, list |-> <<x>> \o list], k + 1)
        BY <4>6, TakeMore
      <4>8. Known([ok |-> ok, list |-> <<x>> \o list])
        OBVIOUS
      <4> HIDE DEF Known
      <4> QED
        BY <4>5, <4>7, <4>8
    <3> HIDE DEF Known
    <3> QED
      BY <3>5, <3>6
  <2> HIDE DEF Known
  <2> QED
    BY <2>1
<1>4. c \in P
  <2> HIDE DEF P
  <2> QED
    BY <1>2, <1>3, Induction
<1>5. Taken(S, f[c][start], c)
  <2> HIDE DEF Known
  <2> QED
    BY <1>4
<1> QED
  BY <1>5 DEF Taken

-----------------------------------------------------------------------------
(* An answer, cut off or not.                                              *)

LEMMA CountIsNatural ==
    ASSUME NEW m \in AnswerSet
    PROVE  m.count \in Nat
<1>1. m.count \in Bytes
  BY AnswerTypes
<1>2. \A x \in Bytes : x \in Nat
  BY SMTT(30) DEF Bytes
<1> QED
  BY <1>1, <1>2, Zenon

LEMMA AnswerLayout ==
    ASSUME NEW m \in AnswerSet
    PROVE  /\ Whole(m) \in Seq(Bytes) /\ Whole(m)[1] = m.op /\ Whole(m)[2] = MIOT
           /\ Whole(m)[5] = m.flag /\ Whole(m)[6] = m.count
           /\ \E at : Layout(Whole(m), m.op, m.entries, at)
<1>1. PICK b, n, op, entries : /\ b = Whole(m) /\ n = Len(m.entries)
                               /\ op = m.op /\ entries = m.entries
  OBVIOUS
<1>2. entries \in Seq(EntrySet) /\ n = Len(entries)
  BY <1>1, AnswerTypes
<1>3. PICK F : /\ Joins(Written(op, entries), Len(entries), F, Bytes)
               /\ F[Len(entries)] = FlattenSeq(Written(op, entries))
  BY <1>2, Flat
<1>4. PICK at : at = [i \in 0..n |-> HEADER + Len(F[i])]
  OBVIOUS
<1>5. /\ Joins(Written(m.op, m.entries), n, F, Bytes)
      /\ F[n] = FlattenSeq(Written(m.op, m.entries))
  BY <1>1, <1>2, <1>3
<1>6. /\ b \in Seq(Bytes)
      /\ b[1] = m.op /\ b[2] = MIOT /\ b[5] = m.flag /\ b[6] = m.count
      /\ Layout(b, m.op, m.entries, at)
  BY <1>1, <1>4, <1>5, AnswerPlaces
<1> QED
  BY <1>1, <1>6, Zenon

\* Entries that begin alike lie at the same places.
LEMMA LayoutsAlike ==
    ASSUME NEW b, NEW c, NEW op, NEW entries, NEW first, NEW at, NEW to,
           Layout(b, op, entries, at), Layout(c, op, first, to),
           NEW n \in Nat, n = Len(entries), NEW k \in 0..n, k = Len(first),
           \A i \in 1..k : first[i] = entries[i]
    PROVE  to[k] = at[k]
<1>1. /\ at[0] = HEADER /\ \A i \in 1..n : at[i] = at[i - 1] + Size(op, entries[i])
  BY DEF Layout
<1>2. /\ to[0] = HEADER /\ \A i \in 1..k : to[i] = to[i - 1] + Size(op, first[i])
  BY DEF Layout
<1> DEFINE P == {i \in Nat : i <= k => to[i] = at[i]}
<1>3. 0 \in P
  BY <1>1, <1>2
<1>4. ASSUME NEW i \in Nat, i \in P
      PROVE  i + 1 \in P
  <2>1. ASSUME i + 1 <= k
        PROVE  to[i + 1] = at[i + 1]
    <3>1. PICK j \in Nat : j = i + 1 /\ j - 1 = i
      OBVIOUS
    <3>2. j \in 1..k /\ j \in 1..n /\ i <= k
      BY <2>1, <3>1
    <3>3. to[j] = to[i] + Size(op, first[j]) /\ at[j] = at[i] + Size(op, entries[j])
      BY <1>1, <1>2, <3>1, <3>2
    <3>4. to[i] = at[i]
      BY <1>4, <3>2
    <3> QED
      BY <3>1, <3>2, <3>3, <3>4
  <2> QED
    BY <2>1
<1>5. k \in P
  <2> HIDE DEF P
  <2> QED
    BY <1>3, <1>4, Induction
<1> QED
  BY <1>5

LEMMA CountedAt ==
    ASSUME NEW m \in AnswerSet, NEW b, NEW at, Layout(b, m.op, m.entries, at),
           m.count <= Len(m.entries)
    PROVE  Len(Counted(m)) = at[m.count]
<1>1. PICK op, entries, n : op = m.op /\ entries = m.entries /\ n = Len(entries)
  OBVIOUS
<1>2. entries \in Seq(EntrySet) /\ n \in Nat
  BY <1>1, AnswerTypes, LenProperties
<1>3. PICK k \in 0..n : k = m.count
  BY <1>1, <1>2, CountIsNatural
<1>4. PICK first : first = SubSeq(entries, 1, k)
  OBVIOUS
<1>5. /\ first \in Seq(EntrySet) /\ Len(first) = k
      /\ \A i \in 1..k : first[i] = entries[i]
  BY <1>1, <1>2, <1>4
<1>6. PICK x : x = [m EXCEPT !.entries = SubSeq(@, 1, m.count)]
  OBVIOUS
<1>7. x = [m EXCEPT !.entries = first]
  BY <1>1, <1>3, <1>4, <1>6
<1>8. x \in AnswerSet /\ x.op = op /\ x.entries = first
  BY <1>1, <1>5, <1>7 DEF AnswerSet
<1>9. PICK to : Layout(Whole(x), op, first, to)
  BY <1>8, AnswerLayout
<1>10. to[k] = Len(Whole(x))
  BY <1>5, <1>9 DEF Layout
<1>11. to[k] = at[k]
  BY <1>1, <1>2, <1>5, <1>9, LayoutsAlike
<1> QED
  BY <1>3, <1>6, <1>10, <1>11 DEF Counted

\* An answer is cut off from a whole one.
IsCut(m, pt, b, at) ==
    /\ pt \in Seq(Bytes) /\ Len(pt) \in Nat /\ Begins(pt, b)
    /\ Layout(b, m.op, m.entries, at)
    /\ HEADER <= Len(pt) => /\ pt[1] = m.op /\ pt[2] = MIOT
                            /\ pt[5] = m.flag /\ pt[6] = m.count
    /\ m.count <= Len(m.entries) => Len(Counted(m)) = at[m.count]

LEMMA CutAnswer ==
    ASSUME NEW m \in AnswerSet
    PROVE  \E b, at : IsCut(m, Plaintext(m), b, at)
<1>1. PICK b : b = Whole(m)
  OBVIOUS
<1>2. /\ b \in Seq(Bytes) /\ b[1] = m.op /\ b[2] = MIOT
      /\ b[5] = m.flag /\ b[6] = m.count
      /\ \E at : Layout(b, m.op, m.entries, at)
  BY <1>1, AnswerLayout
<1>3. PICK at : Layout(b, m.op, m.entries, at)
  BY <1>2
<1>4. PICK cut \in Nat : cut = m.cut
  BY AnswerTypes
<1>5. PICK pt : pt = SubSeq(b, 1, Len(b) - cut)
  OBVIOUS
<1>6. Plaintext(m) = pt
  <2>1. m.is = "answer"
    BY AnswerTypes
  <2> QED
    BY <1>1, <1>4, <1>5, <2>1 DEF Plaintext
<1>7. pt \in Seq(Bytes) /\ Len(pt) \in Nat /\ Begins(pt, b)
  BY <1>2, <1>5, CutOff
<1>8. ASSUME HEADER <= Len(pt)
      PROVE  pt[1] = m.op /\ pt[2] = MIOT /\ pt[5] = m.flag /\ pt[6] = m.count
  <2>1. 1 \in 1..Len(pt) /\ 2 \in 1..Len(pt) /\ 5 \in 1..Len(pt) /\ 6 \in 1..Len(pt)
    BY <1>7, <1>8 DEF HEADER
  <2> QED
    BY <1>2, <1>7, <2>1 DEF Begins
<1>9. m.count <= Len(m.entries) => Len(Counted(m)) = at[m.count]
  BY <1>3, CountedAt
<1>10. IsCut(m, pt, b, at)
  BY <1>3, <1>7, <1>8, <1>9 DEF IsCut
<1> QED
  BY <1>6, <1>10

LEMMA AllReadable ==
    ASSUME NEW m \in AnswerSet, NEW pt, pt = Plaintext(m), NEW b, NEW at,
           IsCut(m, pt, b, at)
    PROVE  /\ Intact(m) => HEADER <= Len(pt)
           /\ HEADER <= Len(pt) =>
                (Intact(m) <=> \A j \in 1..m.count : Readable(pt, m.entries, at, j))
<1>1. PICK entries, n, k, len : /\ entries = m.entries /\ n = Len(entries)
                                /\ k = m.count /\ len = Len(pt)
  OBVIOUS
<1>2. n \in Nat /\ k \in Nat /\ len \in Nat /\ entries \in Seq(EntrySet)
  <2>1. entries \in Seq(EntrySet) /\ len \in Nat
    BY <1>1, AnswerTypes DEF IsCut
  <2> QED
    BY <1>1, <2>1, CountIsNatural, LenProperties
<1>3. /\ at \in [0..n -> Nat] /\ at[0] = HEADER
      /\ \A i, j \in 0..n : i <= j => at[i] <= at[j]
  BY <1>1 DEF IsCut, Layout
<1>4. Intact(m) <=> /\ k <= n /\ at[k] <= len
                    /\ \A i \in 1..k : entries[i].type \in DOMAIN Width
  <2>1. CASE k <= n
    <3>1. Len(Counted(m)) = at[k]
      BY <1>1, <2>1 DEF IsCut
    <3>2. at[k] \in Nat
      BY <1>2, <1>3, <2>1
    <3>3. Len(pt) >= Len(Counted(m)) <=> at[k] <= len
      BY <1>1, <1>2, <3>1, <3>2
    <3> QED
      BY <1>1, <2>1, <3>3 DEF Intact
  <2>2. CASE ~(k <= n)
    BY <1>1, <2>2 DEF Intact
  <2> QED
    BY <2>1, <2>2
<1>5. \A j \in 1..k : Readable(pt, entries, at, j)
        <=> j <= n /\ entries[j].type \in DOMAIN Width /\ at[j] <= len
  BY <1>1 DEF Readable
<1>6. ASSUME Intact(m)
      PROVE  HEADER <= len /\ \A j \in 1..k : Readable(pt, entries, at, j)
  <2>1. /\ k <= n /\ at[k] <= len
        /\ \A i \in 1..k : entries[i].type \in DOMAIN Width
    BY <1>4, <1>6
  <2>2. \A j \in 0..k : at[j] <= at[k] /\ at[j] \in Nat /\ at[k] \in Nat
    BY <1>2, <1>3, <2>1
  <2>3. \A j \in 0..k : at[j] <= len
    BY <1>2, <2>1, <2>2
  <2>4. 0 \in 0..k
    BY <1>2
  <2>5. \A j \in 1..k : j <= n /\ j \in 0..k
    BY <1>2, <2>1
  <2> QED
    BY <1>3, <1>5, <2>1, <2>3, <2>4, <2>5
<1>7. ASSUME HEADER <= len, \A j \in 1..k : Readable(pt, entries, at, j)
      PROVE  Intact(m)
  <2>1. CASE k = 0
    BY <1>2, <1>3, <1>4, <1>7, <2>1
  <2>2. CASE k # 0
    <3>1. k \in 1..k
      BY <1>2, <2>2
    <3> QED
      BY <1>4, <1>5, <1>7, <3>1
  <2> QED
    BY <2>1, <2>2
<1> QED
  BY <1>1, <1>6, <1>7

LEMMA ToldIsMeant ==
    ASSUME NEW m
    PROVE  m.count \in Nat => Told(m.op, m.entries, 0, m.count) = Meant(m)
<1> SUFFICES ASSUME m.count \in Nat
             PROVE  Told(m.op, m.entries, 0, m.count) = Meant(m)
  OBVIOUS
<1>1. \A q \in 1..m.count : 0 + q = q
  OBVIOUS
<1> QED
  BY <1>1 DEF Told, Meant

\* What an answer counts is taken for what it means, or not at all.
LEMMA ReadAnswer ==
    ASSUME NEW m \in AnswerSet, m.op # SET_RESPONSE,
           NEW incl \in BOOLEAN, incl <=> HasStatus(m.op),
           NEW pt, pt = Plaintext(m), HEADER <= Len(pt)
    PROVE  LET got == _parse_property_entries(pt, m.count, incl)
           IN (got.ok <=> Intact(m)) /\ (got.ok => got.list = Meant(m))
<1>1. PICK b, at : IsCut(m, pt, b, at)
  BY CutAnswer
<1>2. PICK op, entries, count : op = m.op /\ entries = m.entries /\ count = m.count
  OBVIOUS
<1>3. /\ pt \in Seq(Bytes) /\ Begins(pt, b) /\ Layout(b, op, entries, at)
  BY <1>1, <1>2 DEF IsCut
<1>4. entries \in Seq(EntrySet) /\ count \in Nat
  BY <1>2, AnswerTypes, CountIsNatural
<1>5. op # SET_RESPONSE /\ (incl <=> HasStatus(op))
  BY <1>2
<1>6. PICK got : got = _parse_property_entries(pt, count, incl)
  OBVIOUS
<1>7. /\ got.ok <=> \A j \in 1..count : Readable(pt, entries, at, j)
      /\ got.ok => got.list = Told(op, entries, 0, count)
  BY <1>3, <1>4, <1>5, <1>6, ReadEntries
<1>8. Intact(m) <=> \A j \in 1..count : Readable(pt, entries, at, j)
  BY <1>1, <1>2, AllReadable
<1>9. Told(op, entries, 0, count) = Meant(m)
  BY <1>2, <1>4, ToldIsMeant
<1> QED
  BY <1>2, <1>6, <1>7, <1>8, <1>9

LEMMA Opcodes ==
    ASSUME NEW op
    PROVE  /\ op \in RESPONSES => op # SET_RESPONSE /\ HasStatus(op)
           /\ op = NOTIFY \/ op = SET_REQUEST => op # SET_RESPONSE /\ ~HasStatus(op)
BY SMTT(30) DEF RESPONSES, SET_RESPONSE, HasStatus, NOTIFY, SET_REQUEST

\* What get_properties() makes of what it reads.
LEMMA LastOfKey ==
    ASSUME NEW pt
    PROVE  LET read == parse_response(pt)
           IN /\ read = [ok |-> read.ok, list |-> read.list] =>
                    /\ get_properties(pt).ok = read.ok
                    /\ get_properties(pt).list = ByKey(read.list)
<1> DEFINE read == parse_response(pt)
           Later(i) == {j \in i + 1..Len(read.list) :
                          /\ read.list[j].siid = read.list[i].siid
                          /\ read.list[j].piid = read.list[i].piid}
           v == {read.list[i] : i \in {j \in DOMAIN read.list : Later(j) = {}}}
<1>1. get_properties(pt) = [read EXCEPT !.list = v]
  BY DEF get_properties
<1>2. v = ByKey(read.list)
  <2>1. \A j : Later(j) = {} <=> \A k \in j + 1..Len(read.list) :
                  <<read.list[k].siid, read.list[k].piid>>
                  # <<read.list[j].siid, read.list[j].piid>>
    OBVIOUS
  <2> HIDE DEF read
  <2> QED
    BY <2>1 DEF ByKey
<1>3. ASSUME read = [ok |-> read.ok, list |-> read.list]
      PROVE  [read EXCEPT !.list = v].ok = read.ok /\ [read EXCEPT !.list = v].list = v
  <2> HIDE DEF read, v
  <2>1. PICK ok, list : ok = read.ok /\ list = read.list /\ read = [ok |-> ok, list |-> list]
    BY <1>3
  <2>2. [read EXCEPT !.list = v] = [ok |-> ok, list |-> v]
    BY <2>1
  <2> QED
    BY <2>1, <2>2
<1> HIDE DEF v
<1> QED
  BY <1>1, <1>2, <1>3, Zenon

LEMMA RecordsRead ==
    ASSUME NEW pt, NEW count \in Nat, NEW incl
    PROVE  LET got == _parse_property_entries(pt, count, incl)
           IN got = [ok |-> got.ok, list |-> got.list]
<1>1. PICK got : got = _parse_property_entries(pt, count, incl)
  OBVIOUS
<1>2. \A c \in Nat : \A x : \E f :
        /\ _parse_property_entries(pt, c, x) = f[c][HEADER]
        /\ \A k \in 0..c, a \in Nat :
              f[k][a] = IF k = 0 THEN Accepted(<<>>)
                        ELSE IF ~Fits(pt, a + PrefixOf(x)) THEN Refused
                        ELSE EntryStep(pt, x, f[k - 1][End(pt, a, x)], a)
  BY Entries
<1>3. count \in 0..count /\ HEADER \in Nat
  BY DEF HEADER
<1>4. (\E list : got = Accepted(list)) \/ got = Refused
  <2>1. PICK f : /\ got = f[count][HEADER]
                 /\ \A k \in 0..count, a \in Nat :
                       f[k][a] = IF k = 0 THEN Accepted(<<>>)
                                 ELSE IF ~Fits(pt, a + PrefixOf(incl)) THEN Refused
                                 ELSE EntryStep(pt, incl,
                                                f[k - 1][End(pt, a, incl)], a)
    BY <1>1, <1>2
  <2>2. PICK rest : rest = f[count - 1][End(pt, HEADER, incl)]
    OBVIOUS
  <2>3. \/ got = Accepted(<<>>) \/ got = Refused
        \/ got = EntryStep(pt, incl, rest, HEADER)
    BY <1>3, <2>1, <2>2
  <2>4. \/ EntryStep(pt, incl, rest, HEADER) = Refused
        \/ EntryStep(pt, incl, rest, HEADER)
           = Accepted(<<ReadAt(pt, HEADER, incl)>> \o rest.list)
    BY DEF EntryStep
  <2> QED
    BY <2>3, <2>4, Zenon
<1> QED
  BY <1>1, <1>4 DEF Accepted, Refused

\* The answer to a read.
LEMMA ResponseRead ==
    ASSUME NEW m \in AnswerSet, NEW pt, pt = Plaintext(m)
    PROVE  /\ get_properties(pt).ok <=> IsResponse(m)
           /\ get_properties(pt).ok => get_properties(pt).list = ByKey(Meant(m))
<1>1. PICK b, at : IsCut(m, pt, b, at)
  BY CutAnswer
<1>2. /\ Intact(m) => HEADER <= Len(pt)
      /\ HEADER <= Len(pt) => /\ pt[1] = m.op /\ pt[2] = MIOT
                              /\ pt[5] = m.flag /\ pt[6] = m.count
  BY <1>1, AllReadable DEF IsCut
<1>3. PICK read : read = parse_response(pt)
  OBVIOUS
<1>4. CASE Fits(pt, HEADER) /\ m.op \in RESPONSES
  <2>1. HEADER <= Len(pt) /\ m.op # SET_RESPONSE /\ HasStatus(m.op)
    BY <1>4, Opcodes DEF Fits
  <2>2. read = _parse_property_entries(pt, m.count, TRUE)
    BY <1>2, <1>3, <1>4, <2>1 DEF parse_response
  <2>3. (read.ok <=> Intact(m)) /\ (read.ok => read.list = Meant(m))
    <3>1. PICK incl \in BOOLEAN : incl = TRUE
      OBVIOUS
    <3>2. incl <=> HasStatus(m.op)
      BY <2>1, <3>1
    <3>3. read = _parse_property_entries(pt, m.count, incl)
      BY <2>2, <3>1
    <3> QED
      BY <2>1, <3>2, <3>3, ReadAnswer
  <2>4. read = [ok |-> read.ok, list |-> read.list]
    BY <2>2, CountIsNatural, RecordsRead
  <2>5. get_properties(pt).ok = read.ok /\ get_properties(pt).list = ByKey(read.list)
    BY <1>3, <2>4, LastOfKey
  <2> QED
    BY <1>4, <2>3, <2>5 DEF IsResponse
<1>5. CASE ~(Fits(pt, HEADER) /\ m.op \in RESPONSES)
  <2>1. read = Refused
    BY <1>2, <1>3, <1>5 DEF parse_response, Fits
  <2>2. read = [ok |-> read.ok, list |-> read.list] /\ ~read.ok
    BY <2>1 DEF Refused
  <2>3. get_properties(pt).ok = read.ok
    BY <1>3, <2>2, LastOfKey
  <2>4. ~IsResponse(m)
    BY <1>2, <1>5 DEF IsResponse, Fits
  <2> QED
    BY <2>2, <2>3, <2>4
<1> QED
  BY <1>4, <1>5

\* An event.
LEMMA EventRead ==
    ASSUME NEW m \in AnswerSet, NEW pt, pt = Plaintext(m)
    PROVE  /\ parse_notification(pt).ok <=> IsEvent(m)
           /\ parse_notification(pt).ok => parse_notification(pt).list = Meant(m)
<1>1. PICK b, at : IsCut(m, pt, b, at)
  BY CutAnswer
<1>2. /\ Intact(m) => HEADER <= Len(pt)
      /\ HEADER <= Len(pt) => /\ pt[1] = m.op /\ pt[2] = MIOT
                              /\ pt[5] = m.flag /\ pt[6] = m.count
  BY <1>1, AllReadable DEF IsCut
<1>3. PICK read : read = parse_notification(pt)
  OBVIOUS
<1>4. CASE /\ Fits(pt, HEADER)
           /\ m.op = NOTIFY \/ (m.op = SET_REQUEST /\ m.flag = ECHO)
  <2>1. HEADER <= Len(pt) /\ m.op # SET_RESPONSE /\ ~HasStatus(m.op)
    BY <1>4, Opcodes DEF Fits
  <2>2. read = _parse_property_entries(pt, m.count, FALSE)
    BY <1>2, <1>3, <1>4, <2>1 DEF parse_notification
  <2>3. (read.ok <=> Intact(m)) /\ (read.ok => read.list = Meant(m))
    <3>1. PICK incl \in BOOLEAN : incl = FALSE
      OBVIOUS
    <3>2. incl <=> HasStatus(m.op)
      BY <2>1, <3>1
    <3>3. read = _parse_property_entries(pt, m.count, incl)
      BY <2>2, <3>1
    <3> QED
      BY <2>1, <3>2, <3>3, ReadAnswer
  <2> QED
    BY <1>3, <1>4, <2>3 DEF IsEvent
<1>5. CASE ~(/\ Fits(pt, HEADER)
             /\ m.op = NOTIFY \/ (m.op = SET_REQUEST /\ m.flag = ECHO))
  <2>1. read = Refused
    BY <1>2, <1>3, <1>5 DEF parse_notification, Fits
  <2>2. ~read.ok
    BY <2>1 DEF Refused
  <2>3. ~IsEvent(m)
    BY <1>2, <1>5 DEF IsEvent, Fits
  <2> QED
    BY <1>3, <2>2, <2>3
<1> QED
  BY <1>4, <1>5

\* The answer to a write.
LEMMA WriteConfirmed ==
    ASSUME NEW m \in AnswerSet, NEW pt, pt = Plaintext(m), NEW key
    PROVE  set_property(key, pt) <=>
             /\ m.op = SET_RESPONSE /\ m.flag = 1 /\ m.count = 1
             /\ m.entries # <<>> /\ Len(pt) = Len(Counted(m))
             /\ m.entries[1].siid = key.siid /\ m.entries[1].piid = key.piid
             /\ m.entries[1].status = 0
<1>1. PICK b, at : IsCut(m, pt, b, at)
  BY CutAnswer
<1>2. PICK entries, n, len : entries = m.entries /\ n = Len(entries) /\ len = Len(pt)
  OBVIOUS
<1>3. entries \in Seq(EntrySet) /\ n \in Nat /\ len \in Nat
  BY <1>1, <1>2, AnswerTypes, LenProperties DEF IsCut
<1>4. /\ pt \in Seq(Bytes) /\ Begins(pt, b) /\ Layout(b, m.op, entries, at)
      /\ 6 <= len => /\ pt[1] = m.op /\ pt[2] = MIOT
                     /\ pt[5] = m.flag /\ pt[6] = m.count
      /\ m.count <= n => Len(Counted(m)) = at[m.count]
  BY <1>1, <1>2 DEF IsCut, HEADER
<1>5. /\ at \in [0..n -> Nat] /\ at[0] = 6 /\ at[n] = Len(b)
      /\ \A i \in 1..n : /\ at[i] = at[i - 1] + Size(m.op, entries[i])
                         /\ Shows(b, at[i - 1], m.op, entries[i])
  BY <1>2, <1>4 DEF Layout, HEADER
<1>6. len <= Len(b) /\ Len(b) \in Nat
  <2>1. at[n] \in Nat
    BY <1>3, <1>5
  <2> QED
    BY <1>2, <1>4, <1>5, <2>1 DEF Begins
<1>7. Fits(pt, 6) <=> 6 <= len
  BY <1>2 DEF Fits
<1>8. PICK f : f = ResultsOf(pt, 255)
  OBVIOUS
<1>9. PICK most \in Nat : most = 255
  OBVIOUS
<1>10. AreResults(pt, f, most)
  BY <1>8, <1>9, Results, Zenon
<1>11. m.count \in 0..most
  BY <1>9, AnswerTypes, SMTT(30) DEF Bytes
<1>12. ASSUME n >= 1, m.op = SET_RESPONSE
       PROVE  at[1] = 11 /\ Shows(b, 6, SET_RESPONSE, entries[1])
  <2>1. 1 \in 1..n /\ 1 - 1 = 0
    BY <1>3, <1>12
  <2>2. Size(SET_RESPONSE, entries[1]) = 5
    BY DEF Size, Prefix, HasStatus
  <2> QED
    BY <1>5, <1>12, <2>1, <2>2
<1>13. ASSUME n >= 1, m.op = SET_RESPONSE, 11 <= len
       PROVE  ResultAt(pt, 6)
              = Entry(entries[1].siid, entries[1].piid, entries[1].status, "", 0)
  <2>1. PICK e \in EntrySet : e = entries[1]
    <3>1. 1 \in 1..n
      BY <1>3, <1>13
    <3> QED
      BY <1>2, <1>3, <3>1, ElementOfSeq
  <2>2. PICK a \in Nat : a = 6
    OBVIOUS
  <2>3. Prefix(SET_RESPONSE) = 5 /\ HasStatus(SET_RESPONSE)
    BY DEF Prefix, HasStatus
  <2>4. Shows(b, a, SET_RESPONSE, e) /\ a + Prefix(SET_RESPONSE) <= Len(pt)
    BY <1>2, <1>12, <1>13, <2>1, <2>2, <2>3
  <2>5. /\ \A status, shown, x : EntryAt(pt, a, status, shown, x)
                                 = Entry(e.siid, e.piid, status, shown, x)
        /\ StatusAt(pt, a) = e.status
    BY <1>4, <2>3, <2>4, ReadHead
  <2> QED
    <3>1. ResultAt(pt, a) = Entry(e.siid, e.piid, e.status, "", 0)
      BY <2>5 DEF ResultAt
    <3> QED
      BY <2>1, <2>2, <3>1, Zenon
<1>14. PICK read : read = parse_set_response(pt)
  OBVIOUS
<1>15. read = IF 6 <= len /\ m.op = SET_RESPONSE /\ m.flag = 1
              THEN f[m.count][6] ELSE Refused
  <2>1. read = IF IsResult(pt) THEN f[pt[6]][HEADER] ELSE Refused
    BY <1>8, <1>14, UnfoldResults, Zenon
  <2>2. IsResult(pt) <=> 6 <= len /\ m.op = SET_RESPONSE /\ m.flag = 1
    BY <1>4, <1>7 DEF IsResult, HEADER
  <2> QED
    BY <1>4, <2>1, <2>2 DEF HEADER
<1>16. set_property(key, pt) <=> /\ read.ok /\ Len(read.list) = 1
                                /\ read.list[1] = Entry(key.siid, key.piid, 0, "", 0)
  BY <1>14 DEF set_property
<1>17. ASSUME read.ok, Len(read.list) = 1
       PROVE  6 <= len /\ m.op = SET_RESPONSE /\ m.flag = 1 /\ m.count = 1
  <2>1. 6 <= len /\ m.op = SET_RESPONSE /\ m.flag = 1 /\ read = f[m.count][6]
    BY <1>15, <1>17 DEF Refused
  <2>2. Len(f[m.count][6].list) = m.count
    <3>1. PICK c \in 0..most, start \in Nat : c = m.count /\ start = 6
      BY <1>11
    <3>2. f[c][start].ok
      BY <1>17, <2>1, <3>1
    <3>3. Len(f[c][start].list) = c
      BY <1>10, <3>2, AsManyResults
    <3> QED
      BY <3>1, <3>3
  <2> QED
    BY <1>17, <2>1, <2>2
<1>18. ASSUME m.op = SET_RESPONSE, m.flag = 1, m.count = 1, 6 <= len
       PROVE  read = IF ~(11 <= len) THEN Refused
                     ELSE [ok |-> len = 11, list |-> <<ResultAt(pt, 6)>>]
  <2>1. read = f[1][6]
    BY <1>15, <1>18
  <2>2. /\ 1 \in 0..most /\ 0 \in 0..most /\ 6 \in Nat /\ 11 \in Nat
        /\ 1 - 1 = 0 /\ 6 + 5 = 11 /\ 1 # 0
    BY <1>11, <1>18
  <2>3. f[0][11] = [ok |-> AtEnd(pt, 11), list |-> <<>>]
    BY <1>10, <2>2, Zenon DEF AreResults
  <2>4. f[1][6] = IF ~Fits(pt, 6 + 5) THEN Refused
                  ELSE [f[1 - 1][6 + 5] EXCEPT !.list =
                          <<ResultAt(pt, 6)>> \o f[1 - 1][6 + 5].list]
    BY <1>10, <2>2, ZenonT(40) DEF AreResults
  <2>5. PICK s, ok : s = <<ResultAt(pt, 6)>> /\ ok = AtEnd(pt, 11)
    OBVIOUS
  <2>6. s \o <<>> = s
    BY <2>5
  <2>7. PICK rest : rest = [ok |-> ok, list |-> <<>>]
    OBVIOUS
  <2>8. rest.list = <<>> /\ [rest EXCEPT !.list = s] = [ok |-> ok, list |-> s]
    BY <2>7
  <2>9. f[1][6] = IF ~Fits(pt, 11) THEN Refused
                  ELSE [rest EXCEPT !.list = s \o rest.list]
    BY <2>2, <2>3, <2>4, <2>5, <2>7, Zenon
  <2>10. f[1][6] = IF ~Fits(pt, 11) THEN Refused ELSE [ok |-> ok, list |-> s]
    BY <2>6, <2>8, <2>9, Zenon
  <2>11. (Fits(pt, 11) <=> 11 <= len) /\ ok = (len = 11)
    BY <1>2, <1>3, <2>5 DEF Fits, AtEnd
  <2> QED
    BY <2>1, <2>5, <2>10, <2>11
<1>19. ASSUME NEW r
       PROVE  Len(<<r>>) = 1 /\ <<r>>[1] = r
  OBVIOUS
<1>20. ASSUME set_property(key, pt)
       PROVE  /\ m.op = SET_RESPONSE /\ m.flag = 1 /\ m.count = 1
              /\ entries # <<>> /\ len = Len(Counted(m))
              /\ entries[1].siid = key.siid /\ entries[1].piid = key.piid
              /\ entries[1].status = 0
  <2>1. /\ read.ok /\ Len(read.list) = 1
        /\ read.list[1] = Entry(key.siid, key.piid, 0, "", 0)
    BY <1>16, <1>20
  <2>2. 6 <= len /\ m.op = SET_RESPONSE /\ m.flag = 1 /\ m.count = 1
    BY <1>17, <2>1
  <2>3. 11 <= len /\ read = [ok |-> len = 11, list |-> <<ResultAt(pt, 6)>>]
    <3>1. read = IF ~(11 <= len) THEN Refused
                 ELSE [ok |-> len = 11, list |-> <<ResultAt(pt, 6)>>]
      BY <1>18, <2>2, Zenon
    <3>2. 11 <= len
      BY <2>1, <3>1, Outcomes
    <3> QED
      BY <3>1, <3>2, Zenon
  <2>4. len = 11 /\ ResultAt(pt, 6) = Entry(key.siid, key.piid, 0, "", 0)
    <3>1. PICK r : r = ResultAt(pt, 6)
      OBVIOUS
    <3>2. read.list = <<r>> /\ (read.ok <=> len = 11)
      BY <2>3, <3>1
    <3> QED
      BY <1>19, <2>1, <3>1, <3>2, ZenonT(40)
  <2>5. n >= 1
    <3>1. n # 0
      <4>1. 11 <= len
        BY <2>3
      <4>2. n = 0 => Len(b) = 6
        BY <1>5
      <4> QED
        <5>1. PICK lb \in Nat : lb = Len(b) /\ len <= lb
          BY <1>6
        <5>2. n = 0 => lb = 6
          BY <4>2, <5>1
        <5>3. lb # 6
          BY <1>3, <4>1, <5>1
        <5> QED
          BY <5>2, <5>3
    <3> QED
      BY <1>3, <3>1
  <2>6. entries # <<>> /\ len = Len(Counted(m))
    <3>1. Len(Counted(m)) = at[1]
      BY <1>4, <2>2, <2>5
    <3>2. entries # <<>>
      BY <1>2, <2>5
    <3> QED
      BY <1>12, <2>2, <2>4, <2>5, <3>1, <3>2
  <2>7. Entry(entries[1].siid, entries[1].piid, entries[1].status, "", 0)
        = Entry(key.siid, key.piid, 0, "", 0)
    BY <1>13, <2>2, <2>3, <2>4, <2>5
  <2> QED
    BY <2>2, <2>6, <2>7 DEF Entry
<1>21. ASSUME /\ m.op = SET_RESPONSE /\ m.flag = 1 /\ m.count = 1
              /\ entries # <<>> /\ len = Len(Counted(m))
              /\ entries[1].siid = key.siid /\ entries[1].piid = key.piid
              /\ entries[1].status = 0
       PROVE  set_property(key, pt)
  <2>1. n >= 1
    <3>1. n # 0
      BY <1>2, <1>3, <1>21, EmptySeq
    <3> QED
      BY <1>3, <3>1
  <2>2. len = 11
    BY <1>4, <1>12, <1>21, <2>1
  <2>3. read = [ok |-> TRUE, list |-> <<ResultAt(pt, 6)>>]
    <3>1. 6 <= len /\ 11 <= len /\ (len = 11) = TRUE
      BY <2>2
    <3>2. read = IF ~(11 <= len) THEN Refused
                 ELSE [ok |-> len = 11, list |-> <<ResultAt(pt, 6)>>]
      BY <1>18, <1>21, <3>1, Zenon
    <3> QED
      BY <3>1, <3>2, Zenon
  <2>4. ResultAt(pt, 6) = Entry(key.siid, key.piid, 0, "", 0)
    <3>1. 11 <= len
      BY <2>2
    <3>2. ResultAt(pt, 6)
          = Entry(entries[1].siid, entries[1].piid, entries[1].status, "", 0)
      BY <1>13, <1>21, <2>1, <3>1, Zenon
    <3> QED
      BY <1>21, <3>2, Zenon
  <2>5. PICK r : r = ResultAt(pt, 6)
    OBVIOUS
  <2>6. read.ok /\ read.list = <<r>>
    BY <2>3, <2>5
  <2> QED
    BY <1>16, <1>19, <2>4, <2>5, <2>6
<1> QED
  BY <1>2, <1>20, <1>21

-----------------------------------------------------------------------------
(* The state: what the charger sent is an answer.                          *)

MessageSet ==
    {x \in [login : Nat, dir : {"tx", "rx"},
            what : Requests \cup Answers \cup OddAnswers,
            parts : {1, 2}, done : BOOLEAN, asked : Nat] :
        x.dir = "rx" => x.what \in Answers \cup OddAnswers}
SentOK == tokens \in Seq(BOOLEAN) /\ messages \in Seq(MessageSet)

LEMMA SendNew ==
    ASSUME SentOK, NEW dir \in {"tx", "rx"},
           NEW what \in Requests \cup Answers \cup OddAnswers,
           dir = "rx" => what \in Answers \cup OddAnswers,
           NEW parts \in {1, 2}, NEW done \in BOOLEAN, NEW asked \in Nat,
           New(dir, what, parts, done, asked)
    PROVE  messages' \in Seq(MessageSet)
<1>1. PICK x : x = [login |-> Login, dir |-> dir, what |-> what, parts |-> parts,
                    done |-> done, asked |-> asked]
  OBVIOUS
<1>2. Login \in Nat
  BY LenProperties DEF SentOK, Login
<1>3. x \in MessageSet
  BY <1>1, <1>2 DEF MessageSet
<1>4. messages' = Append(messages, x)
  BY <1>1 DEF New
<1> QED
  BY <1>3, <1>4, AppendProperties DEF SentOK

LEMMA AskedBefore ==
    ASSUME SentOK
    PROVE  Asked \subseteq Nat
BY DEF SentOK, Asked

LEMMA FinishPart ==
    ASSUME SentOK, NEW i, NEW v \in BOOLEAN
    PROVE  [messages EXCEPT ![i].done = v] \in Seq(MessageSet)
<1>1. ASSUME NEW x \in MessageSet
      PROVE  [x EXCEPT !.done = v] \in MessageSet
  BY DEF MessageSet
<1>2. PICK s, n : s = messages /\ n = Len(s)
  OBVIOUS
<1>3. n \in Nat /\ s \in [1..n -> MessageSet]
  BY <1>2 DEF SentOK
<1>4. [s EXCEPT ![i].done = v] \in [1..n -> MessageSet]
  BY <1>1, <1>3
<1>5. [s EXCEPT ![i].done = v] \in Seq(MessageSet)
  BY <1>3, <1>4
<1> QED
  BY <1>2, <1>5

LEMMA SentInit ==
    Init => SentOK
BY DEF Init, SentOK

LEMMA SentStep ==
    SentOK /\ [Next]_vars => SentOK'
<1> SUFFICES ASSUME SentOK, [Next]_vars
             PROVE  SentOK'
  OBVIOUS
<1> USE DEF SentOK
<1>1. CASE UNCHANGED vars
  BY <1>1 DEF vars, world
<1>2. CASE Connect
  BY <1>2 DEF Connect
<1>3. CASE Signal
  BY <1>3 DEF Signal
<1>4. CASE LoginStart
  <2>1. PICK ours \in BOOLEAN : tokens' = Append(tokens, ours)
    BY <1>4 DEF LoginStart
  <2>2. UNCHANGED messages
    BY <1>4 DEF LoginStart
  <2> QED
    BY <2>1, <2>2, AppendProperties
<1>5. CASE Exchange
  BY <1>5 DEF Exchange
<1>6. CASE GiveUp
  BY <1>6 DEF GiveUp
<1>7. CASE RequestAnnounce
  <2>1. PICK what \in Requests : New("tx", what, PartsOf(what), FALSE, 0)
    BY <1>7 DEF RequestAnnounce
  <2>2. PartsOf(what) \in {1, 2}
    BY DEF PartsOf
  <2>3. messages' \in Seq(MessageSet)
    BY <2>1, <2>2, SendNew
  <2> QED
    BY <1>7, <2>3 DEF RequestAnnounce
<1>8. CASE AnswerInline
  <2>1. PICK what \in Replies, asked \in Asked : New("rx", what, 1, TRUE, asked)
    BY <1>8 DEF AnswerInline
  <2>2. what \in Answers \cup OddAnswers /\ asked \in Nat
    BY AskedBefore DEF Replies
  <2>3. messages' \in Seq(MessageSet)
    BY <2>1, <2>2, SendNew
  <2> QED
    BY <1>8, <2>3 DEF AnswerInline
<1>9. CASE AnswerAnnounce
  <2>1. PICK what \in Answers, asked \in Asked : New("rx", what, 2, FALSE, asked)
    BY <1>9 DEF AnswerAnnounce
  <2>2. what \in Answers \cup OddAnswers /\ asked \in Nat
    BY AskedBefore
  <2>3. messages' \in Seq(MessageSet)
    BY <2>1, <2>2, SendNew
  <2> QED
    BY <1>9, <2>3 DEF AnswerAnnounce
<1>10. CASE Part
  <2>1. PICK t : messages' = [messages EXCEPT ![t.message].done =
                                t.next = messages[t.message].parts]
    BY <1>10 DEF Part
  <2>2. PICK i, v : i = t.message /\ v = (t.next = messages[t.message].parts)
    OBVIOUS
  <2>3. v \in BOOLEAN
    BY <2>2
  <2>4. messages' = [messages EXCEPT ![i].done = v]
    BY <2>1, <2>2, Zenon
  <2>5. messages' \in Seq(MessageSet)
    BY <2>3, <2>4, FinishPart
  <2> QED
    BY <1>10, <2>5 DEF Part
<1>11. ASSUME NEW dir, LastFragment(dir)
       PROVE  SentOK'
  BY <1>11 DEF LastFragment
<1>12. CASE CaptureEnds
  BY <1>12 DEF CaptureEnds, world
<1> QED
  BY <1>1, <1>2, <1>3, <1>4, <1>5, <1>6, <1>7, <1>8, <1>9, <1>10, <1>11, <1>12
     DEF Next

LEMMA AnswersReceived ==
    ASSUME SentOK, NEW k \in Received
    PROVE  messages[k].what \in AnswerSet
<1>1. k \in DOMAIN messages /\ messages[k].dir = "rx"
  BY DEF Received
<1>2. messages[k] \in MessageSet
  BY <1>1 DEF SentOK
<1> QED
  BY <1>1, <1>2, CaptureConstants DEF MessageSet

\* SetConfirmed always holds: set_property() returns exactly if the answer is
\* the one result of this very property, whole and with status 0, whatever the
\* answer counts, holds, and wherever it is cut off.
THEOREM Confirmed ==
    Spec => []SetConfirmed
<1>1. ASSUME SentOK
      PROVE  SetConfirmed
  <2>1. ASSUME NEW k \in Received
        PROVE  LET m == messages[k].what
                   key == messages[messages[k].asked].what.key
               IN set_property(key, Plaintext(m)) <=>
                    /\ m.op = SET_RESPONSE /\ m.flag = 1 /\ m.count = 1
                    /\ m.entries # <<>> /\ Len(Plaintext(m)) = Len(Counted(m))
                    /\ m.entries[1].siid = key.siid
                    /\ m.entries[1].piid = key.piid
                    /\ m.entries[1].status = 0
    <3>1. PICK m \in AnswerSet : m = messages[k].what
      BY <1>1, AnswersReceived
    <3>2. PICK key : key = messages[messages[k].asked].what.key
      OBVIOUS
    <3> QED
      BY <3>1, <3>2, WriteConfirmed, SMTT(40)
  <2> QED
    BY <2>1 DEF SetConfirmed
<1> QED
  BY <1>1, SentInit, SentStep, PTL DEF Spec

\* ReadsBack always holds: get_properties() and the listener of events take what
\* they are sent exactly if all it counts is there and of a known type, and then
\* for what the charger meant.
THEOREM TakenAsMeant ==
    Spec => []ReadsBack
<1>1. ASSUME SentOK
      PROVE  ReadsBack
  <2>1. ASSUME NEW k \in Received
        PROVE  LET m == messages[k].what
                   pt == Plaintext(m)
                   got == get_properties(pt)
                   event == parse_notification(pt)
               IN /\ got.ok <=> IsResponse(m)
                  /\ got.ok => got.list = ByKey(Meant(m))
                  /\ event.ok <=> IsEvent(m)
                  /\ event.ok => event.list = Meant(m)
    <3>1. PICK m \in AnswerSet : m = messages[k].what
      BY <1>1, AnswersReceived
    <3>2. PICK pt : pt = Plaintext(m)
      OBVIOUS
    <3> QED
      BY <3>1, <3>2, ResponseRead, EventRead
  <2> QED
    BY <2>1 DEF ReadsBack
<1> QED
  BY <1>1, SentInit, SentStep, PTL DEF Spec

-----------------------------------------------------------------------------
(* FoldLeft, frame by frame.  The two folds of the tool are proved about   *)
(* at once: "random" is extract_login_randoms, "frame" extract_miot_frames.*)

FoldBase(which) == IF which = "random" THEN NoRandoms ELSE [out |-> <<>>, t |-> None]
Take(which, s, f) == IF which = "random" THEN TakeRandom(s, f) ELSE TakeFrame(s, f)
FoldBody(which, q, g, s) ==
    IF s = {} THEN FoldBase(which)
    ELSE Take(which, g[s \ {Max(s)}], q[Max(s)])
FoldedFrom(which, q, n, g) ==
    g = [s \in SUBSET (1..n) |-> FoldBody(which, q, g, s)]

LEMMA Highest ==
    ASSUME NEW k \in Nat, NEW s \in SUBSET (1..k + 1)
    PROVE  /\ k + 1 \notin s => s \in SUBSET (1..k)
           /\ k + 1 \in s => /\ Max(s) = k + 1 /\ s # {}
                             /\ s \ {Max(s)} \in SUBSET (1..k)
<1>1. k + 1 \notin s => s \in SUBSET (1..k)
  OBVIOUS
<1>2. ASSUME k + 1 \in s
      PROVE  Max(s) = k + 1
  <2>1. \A y \in s : k + 1 >= y
    OBVIOUS
  <2>2. \A x \in s : (\A y \in s : x >= y) => x = k + 1
    BY <1>2, <2>1
  <2> QED
    BY <1>2, <2>1, <2>2 DEF Max
<1>3. s \ {k + 1} \in SUBSET (1..k)
  OBVIOUS
<1> QED
  BY <1>1, <1>2, <1>3

LEMMA HighestIn ==
    ASSUME NEW k \in Nat, NEW s \in SUBSET (1..k), s # {}
    PROVE  Max(s) \in s /\ Max(s) \in 1..k /\ s \ {Max(s)} \in SUBSET (1..k)
<1> DEFINE P == {j \in Nat : \A t \in SUBSET (1..j) : t # {} => Max(t) \in t}
<1>1. 0 \in P
  <2>1. \A t \in SUBSET (1..0) : t = {}
    OBVIOUS
  <2> QED
    BY <2>1
<1>2. ASSUME NEW j \in Nat, j \in P
      PROVE  j + 1 \in P
  <2>1. ASSUME NEW t \in SUBSET (1..j + 1), t # {}
        PROVE  Max(t) \in t
    <3>1. CASE j + 1 \in t
      BY <3>1, Highest
    <3>2. CASE j + 1 \notin t
      BY <1>2, <2>1, <3>2, Highest
    <3> QED
      BY <3>1, <3>2
  <2> QED
    BY <2>1
<1> HIDE DEF P
<1>3. k \in P
  BY <1>1, <1>2, Induction
<1> QED
  BY <1>3 DEF P

LEMMA FoldDefined ==
    ASSUME NEW which, NEW q, NEW n \in Nat
    PROVE  \E g : FoldedFrom(which, q, n, g)
<1> DEFINE P == {k \in Nat : \E g : FoldedFrom(which, q, k, g)}
<1>1. 0 \in P
  <2>1. PICK g : g = [s \in SUBSET (1..0) |-> FoldBase(which)]
    OBVIOUS
  <2>2. \A s \in SUBSET (1..0) : s = {}
    OBVIOUS
  <2>3. \A s \in SUBSET (1..0) : FoldBody(which, q, g, s) = FoldBase(which)
    BY <2>2 DEF FoldBody
  <2>4. FoldedFrom(which, q, 0, g)
    BY <2>1, <2>3 DEF FoldedFrom
  <2> QED
    BY <2>4
<1>2. ASSUME NEW k \in Nat, k \in P
      PROVE  k + 1 \in P
  <2>1. PICK g : FoldedFrom(which, q, k, g)
    BY <1>2
  <2>2. PICK h : h = [s \in SUBSET (1..k + 1) |->
                        IF k + 1 \in s THEN FoldBody(which, q, g, s) ELSE g[s]]
    OBVIOUS
  <2>3. ASSUME NEW s \in SUBSET (1..k)
        PROVE  h[s] = g[s] /\ g[s] = FoldBody(which, q, g, s)
    <3>1. s \in SUBSET (1..k + 1) /\ k + 1 \notin s
      OBVIOUS
    <3> QED
      BY <2>1, <2>2, <3>1 DEF FoldedFrom
  <2>4. ASSUME NEW s \in SUBSET (1..k + 1)
        PROVE  h[s] = FoldBody(which, q, h, s)
    <3>1. CASE k + 1 \in s
      <4>1. s # {} /\ s \ {Max(s)} \in SUBSET (1..k)
        BY <3>1, Highest
      <4>2. h[s \ {Max(s)}] = g[s \ {Max(s)}]
        BY <2>3, <4>1
      <4>3. FoldBody(which, q, h, s) = FoldBody(which, q, g, s)
        BY <4>2 DEF FoldBody
      <4> QED
        BY <2>2, <3>1, <4>3
    <3>2. CASE k + 1 \notin s
      <4>1. s \in SUBSET (1..k)
        BY <3>2, Highest
      <4>2. h[s] = FoldBody(which, q, g, s)
        BY <2>3, <4>1
      <4>3. s # {} => h[s \ {Max(s)}] = g[s \ {Max(s)}]
        BY <2>3, <4>1, HighestIn
      <4>4. FoldBody(which, q, h, s) = FoldBody(which, q, g, s)
        BY <4>3 DEF FoldBody
      <4> QED
        BY <4>2, <4>4
    <3> QED
      BY <3>1, <3>2
  <2>5. FoldedFrom(which, q, k + 1, h)
    BY <2>2, <2>4 DEF FoldedFrom
  <2> QED
    BY <2>5
<1> HIDE DEF P
<1>3. n \in P
  BY <1>1, <1>2, Induction
<1> QED
  BY <1>3 DEF P

\* Sequences that begin alike are folded alike up to there.
BothFolded(which, q, r, n, m, g, h) ==
    /\ n \in Nat /\ m \in Nat /\ n <= m /\ \A i \in 1..n : q[i] = r[i]
    /\ FoldedFrom(which, q, n, g) /\ FoldedFrom(which, r, m, h)

LEMMA FoldAlike ==
    ASSUME NEW which, NEW q, NEW r, NEW n, NEW m, NEW g, NEW h,
           BothFolded(which, q, r, n, m, g, h)
    PROVE  \A s \in SUBSET (1..n) : g[s] = h[s]
<1>0. /\ n \in Nat /\ m \in Nat /\ n <= m /\ \A i \in 1..n : q[i] = r[i]
      /\ FoldedFrom(which, q, n, g) /\ FoldedFrom(which, r, m, h)
  BY DEF BothFolded
<1> DEFINE P == {k \in Nat : k <= n => \A s \in SUBSET (1..k) : g[s] = h[s]}
<1>1. ASSUME NEW k \in Nat, k <= n, NEW s \in SUBSET (1..k)
      PROVE  g[s] = FoldBody(which, q, g, s) /\ h[s] = FoldBody(which, r, h, s)
  <2>1. s \in SUBSET (1..n) /\ s \in SUBSET (1..m)
    BY <1>0, <1>1
  <2> QED
    BY <1>0, <2>1 DEF FoldedFrom
<1>2. 0 \in P
  <2>1. ASSUME NEW s \in SUBSET (1..0)
        PROVE  g[s] = h[s]
    <3>1. s = {} /\ 0 \in Nat /\ 0 <= n
      BY <1>0
    <3>2. g[s] = FoldBody(which, q, g, s) /\ h[s] = FoldBody(which, r, h, s)
      BY <1>1, <3>1
    <3> QED
      BY <3>1, <3>2, Zenon DEF FoldBody
  <2> QED
    BY <2>1
<1>3. ASSUME NEW k \in Nat, k \in P
      PROVE  k + 1 \in P
  <2>1. ASSUME k + 1 <= n, NEW s \in SUBSET (1..k + 1)
        PROVE  g[s] = h[s]
    <3>1. \A t \in SUBSET (1..k) : g[t] = h[t]
      BY <1>0, <1>3, <2>1
    <3>2. CASE k + 1 \notin s
      BY <3>1, <3>2, Highest
    <3>3. CASE k + 1 \in s
      <4>1. s # {} /\ s \ {Max(s)} \in SUBSET (1..k) /\ Max(s) = k + 1
        BY <3>3, Highest
      <4>2. g[s \ {Max(s)}] = h[s \ {Max(s)}]
        BY <3>1, <4>1
      <4>3. q[Max(s)] = r[Max(s)]
        BY <1>0, <2>1, <4>1
      <4>4. FoldBody(which, q, g, s) = FoldBody(which, r, h, s)
        BY <4>2, <4>3, Zenon DEF FoldBody
      <4>5. k + 1 \in Nat
        OBVIOUS
      <4> QED
        BY <1>1, <2>1, <4>4, <4>5
    <3> QED
      BY <3>2, <3>3
  <2> QED
    BY <2>1
<1> HIDE DEF P
<1>4. n \in P
  BY <1>0, <1>2, <1>3, Induction
<1> QED
  BY <1>0, <1>4 DEF P

FoldOf(which, q) ==
    IF which = "random" THEN extract_login_randoms(q) ELSE Transfers(q)
RandomBody(q, g, s) ==
    IF s = {} THEN NoRandoms ELSE TakeRandom(g[s \ {Max(s)}], q[Max(s)])
FrameBody(q, g, s) ==
    IF s = {} THEN [out |-> <<>>, t |-> None]
    ELSE TakeFrame(g[s \ {Max(s)}], q[Max(s)])

LEMMA UnfoldRandoms ==
    ASSUME NEW q, NEW g, g = (CHOOSE c : c = [s \in SUBSET DOMAIN q |-> RandomBody(q, c, s)])
    PROVE  extract_login_randoms(q) = g[DOMAIN q]
BY DEF extract_login_randoms, FoldLeft, MapThenFoldSet, RandomBody

LEMMA UnfoldTransfers ==
    ASSUME NEW q, NEW g, g = (CHOOSE c : c = [s \in SUBSET DOMAIN q |-> FrameBody(q, c, s)])
    PROVE  Transfers(q) = g[DOMAIN q]
BY DEF Transfers, FoldLeft, MapThenFoldSet, FrameBody

LEMMA Folded ==
    ASSUME NEW S, NEW q \in Seq(S), NEW which \in {"random", "frame"}, NEW n, n = Len(q)
    PROVE  \E g : FoldedFrom(which, q, n, g) /\ FoldOf(which, q) = g[1..n]
<1>1. n \in Nat /\ 1..n = DOMAIN q
  OBVIOUS
<1>2. PICK b : FoldedFrom(which, q, n, b)
  BY <1>1, FoldDefined
<1>3. CASE which = "random"
  <2>1. \A g, s : FoldBody(which, q, g, s) = RandomBody(q, g, s)
    BY <1>3 DEF FoldBody, RandomBody, FoldBase, Take
  <2>2. b = [s \in SUBSET DOMAIN q |-> RandomBody(q, b, s)]
    BY <1>1, <1>2, <2>1, Zenon DEF FoldedFrom
  <2>3. PICK g : g = (CHOOSE c : c = [s \in SUBSET DOMAIN q |-> RandomBody(q, c, s)])
    OBVIOUS
  <2>4. g = [s \in SUBSET DOMAIN q |-> RandomBody(q, g, s)]
    BY <2>2, <2>3, Zenon
  <2>5. extract_login_randoms(q) = g[DOMAIN q]
    BY <2>3, UnfoldRandoms
  <2>6. FoldedFrom(which, q, n, g) /\ extract_login_randoms(q) = g[1..n]
    BY <1>1, <2>1, <2>4, <2>5 DEF FoldedFrom
  <2> QED
    BY <1>3, <2>6 DEF FoldOf
<1>4. CASE which = "frame"
  <2>1. \A g, s : FoldBody(which, q, g, s) = FrameBody(q, g, s)
    BY <1>4 DEF FoldBody, FrameBody, FoldBase, Take
  <2>2. b = [s \in SUBSET DOMAIN q |-> FrameBody(q, b, s)]
    BY <1>1, <1>2, <2>1, Zenon DEF FoldedFrom
  <2>3. PICK g : g = (CHOOSE c : c = [s \in SUBSET DOMAIN q |-> FrameBody(q, c, s)])
    OBVIOUS
  <2>4. g = [s \in SUBSET DOMAIN q |-> FrameBody(q, g, s)]
    BY <2>2, <2>3, Zenon
  <2>5. Transfers(q) = g[DOMAIN q]
    BY <2>3, UnfoldTransfers
  <2>6. FoldedFrom(which, q, n, g) /\ Transfers(q) = g[1..n]
    BY <1>1, <2>1, <2>4, <2>5 DEF FoldedFrom
  <2> QED
    BY <1>4, <2>6 DEF FoldOf
<1> QED
  BY <1>3, <1>4

LEMMA FoldNothing ==
    ASSUME NEW which \in {"random", "frame"}, NEW q \in Seq({}), NEW n, n = Len(q)
    PROVE  FoldOf(which, q) = FoldBase(which)
<1>1. PICK g : FoldedFrom(which, q, n, g) /\ FoldOf(which, q) = g[1..n]
  BY Folded
<1>2. n = 0
  OBVIOUS
<1>3. 1..n = {} /\ 1..n \in SUBSET (1..n)
  BY <1>2
<1>4. g[1..n] = FoldBody(which, q, g, 1..n)
  BY <1>1, <1>3 DEF FoldedFrom
<1> QED
  BY <1>1, <1>3, <1>4 DEF FoldBody

LEMMA FoldOneMore ==
    ASSUME NEW which, NEW q, NEW r, NEW n, NEW m, NEW g, NEW h,
           BothFolded(which, q, r, n, m, g, h), m = n + 1
    PROVE  h[1..m] = Take(which, g[1..n], r[m])
<1>1. /\ n \in Nat /\ m \in Nat /\ BothFolded(which, q, r, n, m, g, h)
      /\ FoldedFrom(which, r, m, h)
  BY DEF BothFolded
<1>2. \A s \in SUBSET (1..n) : g[s] = h[s]
  BY <1>1, FoldAlike
<1>3. /\ m \in 1..m /\ 1..m \in SUBSET (1..m)
      /\ (1..m) \ {m} = 1..n /\ 1..n \in SUBSET (1..n)
  BY <1>1
<1>4. Max(1..m) = m /\ 1..m # {}
  BY <1>1, <1>3, Highest
<1>5. h[1..m] = FoldBody(which, r, h, 1..m)
  BY <1>1, <1>3 DEF FoldedFrom
<1>6. g[1..n] = h[1..n]
  BY <1>2, <1>3
<1> QED
  BY <1>3, <1>4, <1>5, <1>6, Zenon DEF FoldBody

LEMMA FoldMore ==
    ASSUME NEW S, NEW q \in Seq(S), NEW x \in S, NEW which \in {"random", "frame"}
    PROVE  FoldOf(which, Append(q, x)) = Take(which, FoldOf(which, q), x)
<1>1. PICK n, m, r : n = Len(q) /\ m = n + 1 /\ r = Append(q, x)
  OBVIOUS
<1>2. /\ n \in Nat /\ m \in Nat /\ r \in Seq(S) /\ m = Len(r) /\ r[m] = x
      /\ \A i \in 1..n : q[i] = r[i]
  BY <1>1
<1>3. PICK g : FoldedFrom(which, q, n, g) /\ FoldOf(which, q) = g[1..n]
  BY <1>1, Folded
<1>4. PICK h : FoldedFrom(which, r, m, h) /\ FoldOf(which, r) = h[1..m]
  BY <1>2, Folded
<1>5. BothFolded(which, q, r, n, m, g, h)
  BY <1>1, <1>2, <1>3, <1>4 DEF BothFolded
<1>6. m = n + 1
  BY <1>1
<1>7. h[1..m] = Take(which, g[1..n], r[m])
  BY <1>5, <1>6, FoldOneMore
<1> QED
  BY <1>1, <1>2, <1>3, <1>4, <1>7

LEMMA NothingTaken ==
    extract_login_randoms(<<>>) = NoRandoms /\ Transfers(<<>>) = [out |-> <<>>, t |-> None]
<1>1. PICK q, n : q = <<>> /\ q \in Seq({}) /\ n = Len(q)
  <2>1. <<>> \in Seq({})
    OBVIOUS
  <2> QED
    BY <2>1, Zenon
<1>2. /\ FoldOf("random", q) = FoldBase("random")
      /\ FoldOf("frame", q) = FoldBase("frame")
  BY <1>1, FoldNothing
<1>3. "random" # "frame"
  OBVIOUS
<1> QED
  BY <1>1, <1>2, <1>3, Zenon DEF FoldOf, FoldBase

LEMMA OneMoreFrame ==
    ASSUME NEW S, NEW q \in Seq(S), NEW x \in S
    PROVE  /\ extract_login_randoms(Append(q, x)) = TakeRandom(extract_login_randoms(q), x)
           /\ Transfers(Append(q, x)) = TakeFrame(Transfers(q), x)
<1>1. /\ FoldOf("random", Append(q, x)) = Take("random", FoldOf("random", q), x)
      /\ FoldOf("frame", Append(q, x)) = Take("frame", FoldOf("frame", q), x)
  BY FoldMore
<1>2. "random" # "frame"
  OBVIOUS
<1> QED
  BY <1>1, <1>2, Zenon DEF FoldOf, Take

-----------------------------------------------------------------------------
(* Rows picked out of a list, by what they are of.                         *)

\* Induction over sequences, by their last element.
LEMMA SequenceInduction ==
    ASSUME NEW S, NEW P, <<>> \in P,
           \A s \in Seq(S) : \A x \in S : s \in P => Append(s, x) \in P
    PROVE  \A s \in Seq(S) : s \in P
<1> DEFINE Q == {n \in Nat : \A s \in Seq(S) : Len(s) = n => s \in P}
<1>1. 0 \in Q
  <2>1. ASSUME NEW s \in Seq(S), Len(s) = 0
        PROVE  s \in P
    <3>1. s = <<>>
      BY <2>1, EmptySeq
    <3> QED
      BY <3>1
  <2> QED
    BY <2>1
<1>2. ASSUME NEW n \in Nat, n \in Q
      PROVE  n + 1 \in Q
  <2>1. ASSUME NEW s \in Seq(S), Len(s) = n + 1
        PROVE  s \in P
    <3>1. s # <<>>
      BY <2>1
    <3>2. PICK t \in Seq(S), x \in S : s = Append(t, x)
      BY <3>1, SequenceEmptyOrAppend
    <3>3. Len(t) = n
      BY <2>1, <3>2
    <3>4. t \in P
      BY <1>2, <3>3
    <3> QED
      BY <3>2, <3>4
  <2> QED
    BY <2>1
<1>3. ASSUME NEW s \in Seq(S)
      PROVE  s \in P
  <2>1. PICK n \in Nat : n = Len(s)
    OBVIOUS
  <2>2. n \in Q
    <3> HIDE DEF Q
    <3> QED
      BY <1>1, <1>2, Induction
  <2> QED
    BY <2>1, <2>2
<1> QED
  BY <1>3

LEMMA FlattenType ==
    ASSUME NEW S, NEW seqs \in Seq(Seq(S))
    PROVE  FlattenSeq(seqs) \in Seq(S)
<1>1. PICK n : n = Len(seqs) /\ n \in Nat
  OBVIOUS
<1>2. PICK F : Joins(seqs, n, F, S) /\ F[n] = FlattenSeq(seqs)
  BY <1>1, FlattenJoins
<1>3. n \in 0..n
  BY <1>1
<1> QED
  BY <1>2, <1>3 DEF Joins

LEMMA FlattenMore ==
    ASSUME NEW S, NEW seqs \in Seq(Seq(S)), NEW x \in Seq(S)
    PROVE  FlattenSeq(Append(seqs, x)) = FlattenSeq(seqs) \o x
<1>1. PICK more, n, m : more = Append(seqs, x) /\ n = Len(seqs) /\ m = n + 1
  OBVIOUS
<1>2. /\ n \in Nat /\ m \in Nat /\ more \in Seq(Seq(S)) /\ m = Len(more)
      /\ more[m] = x /\ \A i \in 1..n : more[i] = seqs[i]
  BY <1>1
<1>3. PICK F : Joins(seqs, n, F, S) /\ F[n] = FlattenSeq(seqs)
  BY <1>1, FlattenJoins
<1>4. PICK G : Joins(more, m, G, S) /\ G[m] = FlattenSeq(more)
  BY <1>2, FlattenJoins
<1> DEFINE P == {i \in Nat : i <= n => F[i] = G[i]}
<1>5. 0 \in P
  BY <1>3, <1>4 DEF Joins
<1>6. ASSUME NEW i \in Nat, i \in P
      PROVE  i + 1 \in P
  <2>1. ASSUME i + 1 <= n
        PROVE  F[i + 1] = G[i + 1]
    <3>1. i <= n /\ i + 1 \in 1..n /\ i + 1 \in 1..m /\ (i + 1) - 1 = i
      BY <1>1, <1>2, <2>1
    <3>2. F[i] = G[i] /\ more[i + 1] = seqs[i + 1]
      BY <1>2, <1>6, <3>1
    <3>3. F[i + 1] = F[i] \o seqs[i + 1] /\ G[i + 1] = G[i] \o more[i + 1]
      BY <1>3, <1>4, <3>1 DEF Joins
    <3> QED
      BY <3>2, <3>3
  <2> QED
    BY <2>1
<1>7. n \in P
  <2> HIDE DEF P
  <2> QED
    BY <1>2, <1>5, <1>6, Induction
<1>8. G[m] = G[n] \o more[m]
  <2>1. m \in 1..m /\ m - 1 = n
    BY <1>1, <1>2
  <2> QED
    BY <1>4, <2>1 DEF Joins
<1>9. F[n] = G[n]
  BY <1>2, <1>7
<1> QED
  BY <1>1, <1>2, <1>3, <1>4, <1>8, <1>9, Zenon

\* What a row adds to the rows that are picked.
Picked(k, x) == IF x.message = k THEN <<x>> ELSE <<>>

LEMMA PickedType ==
    ASSUME NEW S, NEW k, NEW x \in S
    PROVE  Picked(k, x) \in Seq({r \in S : r.message = k})
<1>1. CASE x.message = k
  BY <1>1, Singles DEF Picked
<1>2. CASE x.message # k
  BY <1>2 DEF Picked
<1> QED
  BY <1>1, <1>2

LEMMA RowsForType ==
    ASSUME NEW S, NEW k, NEW rows \in Seq(S)
    PROVE  RowsFor(k, rows) \in Seq({r \in S : r.message = k})
<1>1. PICK T : T = {r \in S : r.message = k}
  OBVIOUS
<1>2. PICK n \in Nat : n = Len(rows) /\ DOMAIN rows = 1..n
  OBVIOUS
<1>3. PICK p : p = [i \in 1..n |-> Picked(k, rows[i])]
  OBVIOUS
<1>4. \A i \in 1..n : rows[i] \in S
  BY <1>2
<1>5. \A i \in 1..n : p[i] \in Seq(T)
  BY <1>1, <1>3, <1>4, PickedType
<1>6. p \in Seq(Seq(T))
  BY <1>3, <1>5
<1>7. RowsFor(k, rows) = FlattenSeq(p)
  BY <1>2, <1>3 DEF RowsFor, Picked
<1> QED
  BY <1>1, <1>6, <1>7, FlattenType

LEMMA RowsForNothing ==
    ASSUME NEW k
    PROVE  RowsFor(k, <<>>) = <<>>
<1>1. PICK rows, p : rows = <<>> /\ p = [i \in DOMAIN rows |-> Picked(k, rows[i])]
  OBVIOUS
<1>2. Len(p) = 0 /\ p = <<>>
  BY <1>1
<1>3. RowsFor(k, rows) = FlattenSeq(p)
  BY <1>1 DEF RowsFor, Picked
<1> QED
  BY <1>1, <1>2, <1>3, FlattenNothing

LEMMA RowsForMore ==
    ASSUME NEW S, NEW k, NEW rows \in Seq(S), NEW x \in S
    PROVE  RowsFor(k, Append(rows, x)) = RowsFor(k, rows) \o Picked(k, x)
<1>1. PICK n \in Nat : n = Len(rows) /\ DOMAIN rows = 1..n
  OBVIOUS
<1>2. PICK p : p = [i \in 1..n |-> Picked(k, rows[i])]
  OBVIOUS
<1>3. PICK more : more = Append(rows, x)
  OBVIOUS
<1>4. /\ DOMAIN more = 1..n + 1 /\ more[n + 1] = x
      /\ \A i \in 1..n : more[i] = rows[i]
  BY <1>1, <1>3
<1>5. PICK q : q = [i \in 1..n + 1 |-> Picked(k, more[i])]
  OBVIOUS
<1>6. \A i \in 1..n : p[i] \in Seq(S)
  <2>1. ASSUME NEW i \in 1..n
        PROVE  p[i] \in Seq(S)
    <3>1. rows[i] \in S
      BY <1>1
    <3>2. rows[i].message = k => <<rows[i]>> \in Seq(S)
      BY <3>1, Singles
    <3> QED
      BY <1>2, <3>2 DEF Picked
  <2> QED
    BY <2>1
<1>7. Picked(k, x) \in Seq(S)
  <2>1. <<x>> \in Seq(S)
    BY Singles
  <2> QED
    BY <2>1 DEF Picked
<1>8. p \in Seq(Seq(S)) /\ Len(p) = n
  BY <1>2, <1>6
<1>9. q = Append(p, Picked(k, x))
  <2>1. PICK y : y = Picked(k, x) /\ y \in Seq(S)
    BY <1>7
  <2>2. Append(p, y) = [i \in 1..n + 1 |-> IF i = n + 1 THEN y ELSE p[i]]
    <3>1. PICK T : T = Seq(S)
      OBVIOUS
    <3>2. p \in Seq(T) /\ y \in T /\ Len(p) = n
      BY <1>8, <2>1, <3>1
    <3>3. PICK r : r = Append(p, y)
      OBVIOUS
    <3>4. /\ r \in Seq(T) /\ Len(r) = n + 1 /\ r[n + 1] = y
          /\ \A i \in 1..n : r[i] = p[i]
      BY <3>2, <3>3
    <3>5. PICK m \in Nat : m = n + 1
      OBVIOUS
    <3>6. r = [i \in 1..m |-> r[i]]
      BY <3>4, <3>5
    <3>7. \A i \in 1..m : r[i] = IF i = m THEN y ELSE p[i]
      BY <3>4, <3>5
    <3>8. [i \in 1..m |-> r[i]] = [i \in 1..m |-> IF i = m THEN y ELSE p[i]]
      BY <3>7, Zenon
    <3> QED
      BY <3>3, <3>5, <3>6, <3>8, Zenon
  <2>3. \A i \in 1..n + 1 : Picked(k, more[i]) = IF i = n + 1 THEN y ELSE p[i]
    <3>1. \A i \in 1..n + 1 : i # n + 1 => i \in 1..n
      OBVIOUS
    <3>2. ASSUME NEW i \in 1..n + 1
          PROVE  Picked(k, more[i]) = IF i = n + 1 THEN y ELSE p[i]
      <4>1. CASE i = n + 1
        BY <1>4, <2>1, <4>1, Zenon
      <4>2. CASE i # n + 1
        <5>1. i \in 1..n
          BY <3>1, <4>2
        <5>2. more[i] = rows[i] /\ p[i] = Picked(k, rows[i])
          BY <1>2, <1>4, <5>1
        <5> QED
          BY <4>2, <5>2, Zenon
      <4> QED
        BY <4>1, <4>2
    <3> QED
      BY <3>2
  <2> QED
    BY <1>5, <2>1, <2>2, <2>3
<1>10. RowsFor(k, rows) = FlattenSeq(p)
  BY <1>1, <1>2 DEF RowsFor, Picked
<1>11. RowsFor(k, more) = FlattenSeq(q)
  BY <1>4, <1>5 DEF RowsFor, Picked
<1> QED
  BY <1>3, <1>7, <1>8, <1>9, <1>10, <1>11, FlattenMore

ThreeLists(S, u, v, w) == u \in Seq(S) /\ v \in Seq(S) /\ w \in Seq(S)

LEMMA Regroup ==
    ASSUME NEW S, NEW u, NEW v, NEW w, ThreeLists(S, u, v, w)
    PROVE  (u \o v) \o w = u \o (v \o w)
BY ConcatAssociative DEF ThreeLists

LEMMA RowsForConcat ==
    ASSUME NEW S, NEW k, NEW a \in Seq(S), NEW b \in Seq(S)
    PROVE  RowsFor(k, a \o b) = RowsFor(k, a) \o RowsFor(k, b)
<1> DEFINE P == {t \in Seq(S) : RowsFor(k, a \o t) = RowsFor(k, a) \o RowsFor(k, t)}
<1>1. \A t \in Seq(S) : RowsFor(k, t) \in Seq(S)
  <2>1. ASSUME NEW t \in Seq(S)
        PROVE  RowsFor(k, t) \in Seq(S)
    <3>1. RowsFor(k, t) \in Seq({r \in S : r.message = k})
      BY RowsForType
    <3> QED
      BY <3>1, SeqMonotonic
  <2> QED
    BY <2>1
<1>2. <<>> \in P
  <2>1. a \o <<>> = a /\ RowsFor(k, a) \o <<>> = RowsFor(k, a)
    BY <1>1, ConcatEmptySeq
  <2>2. <<>> \in Seq(S)
    OBVIOUS
  <2> QED
    BY <2>1, <2>2, RowsForNothing
<1>3. ASSUME NEW t \in Seq(S), NEW x \in S, t \in P
      PROVE  Append(t, x) \in P
  <2>1. PICK at : at = a \o t /\ at \in Seq(S)
    BY ConcatProperties
  <2>2. a \o Append(t, x) = Append(at, x)
    <3>1. <<x>> \in Seq(S)
      BY Singles
    <3>2. Append(t, x) = t \o <<x>> /\ Append(at, x) = at \o <<x>>
      BY <2>1, AppendIsConcat
    <3> QED
      BY <2>1, <3>1, <3>2, ConcatAssociative
  <2>3. /\ RowsFor(k, Append(at, x)) = RowsFor(k, at) \o Picked(k, x)
        /\ RowsFor(k, Append(t, x)) = RowsFor(k, t) \o Picked(k, x)
    BY <2>1, RowsForMore
  <2>4. RowsFor(k, at) = RowsFor(k, a) \o RowsFor(k, t)
    BY <1>3, <2>1
  <2>5. Picked(k, x) \in Seq(S)
    <3>1. Picked(k, x) \in Seq({r \in S : r.message = k})
      BY PickedType
    <3> QED
      BY <3>1, SeqMonotonic
  <2>6. (RowsFor(k, a) \o RowsFor(k, t)) \o Picked(k, x)
        = RowsFor(k, a) \o (RowsFor(k, t) \o Picked(k, x))
    <3>1. PICK u : u = RowsFor(k, a) /\ u \in Seq(S)
      BY <1>1
    <3>2. PICK v : v = RowsFor(k, t) /\ v \in Seq(S)
      BY <1>1
    <3>3. PICK w : w = Picked(k, x) /\ w \in Seq(S)
      BY <2>5
    <3>4. ThreeLists(S, u, v, w)
      BY <3>1, <3>2, <3>3 DEF ThreeLists
    <3>5. (u \o v) \o w = u \o (v \o w)
      BY <3>4, Regroup, SMT
    <3> QED
      BY <3>1, <3>2, <3>3, <3>5, Zenon
  <2>7. Append(t, x) \in Seq(S)
    BY AppendProperties
  <2> QED
    BY <2>2, <2>3, <2>4, <2>6, <2>7
<1>4. \A t \in Seq(S) : t \in P
  <2> HIDE DEF P
  <2> QED
    BY <1>2, <1>3, SequenceInduction
<1> QED
  BY <1>4

LEMMA RowsForConcats ==
    ASSUME NEW S, NEW k
    PROVE  \A u, v \in Seq(S) : RowsFor(k, u \o v) = RowsFor(k, u) \o RowsFor(k, v)
BY RowsForConcat

\* All of one message, or none of it.
LEMMA RowsForAll ==
    ASSUME NEW S, NEW k, NEW a \in Seq(S)
    PROVE  /\ (\A i \in DOMAIN a : a[i].message = k) => RowsFor(k, a) = a
           /\ (\A i \in DOMAIN a : a[i].message # k) => RowsFor(k, a) = <<>>
<1> DEFINE P == {t \in Seq(S) :
                /\ (\A i \in DOMAIN t : t[i].message = k) => RowsFor(k, t) = t
                /\ (\A i \in DOMAIN t : t[i].message # k) => RowsFor(k, t) = <<>>}
<1>1. <<>> \in P
  BY RowsForNothing
<1>2. ASSUME NEW t \in Seq(S), NEW x \in S, t \in P
      PROVE  Append(t, x) \in P
  <2>1. PICK more : more = Append(t, x)
    OBVIOUS
  <2>2. /\ more \in Seq(S) /\ \A i \in DOMAIN t : i \in DOMAIN more /\ more[i] = t[i]
        /\ Len(t) + 1 \in DOMAIN more /\ more[Len(t) + 1] = x
    BY <2>1
  <2>3. RowsFor(k, more) = RowsFor(k, t) \o Picked(k, x)
    BY <2>1, RowsForMore
  <2>4. ASSUME \A i \in DOMAIN more : more[i].message = k
        PROVE  RowsFor(k, more) = more
    <3>1. RowsFor(k, t) = t /\ Picked(k, x) = <<x>>
      BY <1>2, <2>2, <2>4 DEF Picked
    <3> QED
      BY <2>1, <2>3, <3>1, AppendIsConcat
  <2>5. ASSUME \A i \in DOMAIN more : more[i].message # k
        PROVE  RowsFor(k, more) = <<>>
    <3>1. RowsFor(k, t) = <<>> /\ Picked(k, x) = <<>>
      BY <1>2, <2>2, <2>5 DEF Picked
    <3> QED
      BY <2>3, <3>1, ConcatEmptySeq
  <2> QED
    BY <2>1, <2>2, <2>4, <2>5
<1>3. \A t \in Seq(S) : t \in P
  <2> HIDE DEF P
  <2> QED
    BY <1>1, <1>2, SequenceInduction
<1> QED
  BY <1>3

\* Lists put together, of which one at most is of the message.
OneOf(k, seqs, one) ==
    /\ one \in 0..Len(seqs)
    /\ \A i \in 1..Len(seqs) :
        \A j \in DOMAIN seqs[i] : (seqs[i][j].message = k) <=> (i = one)

LEMMA RowsForFlatten ==
    ASSUME NEW S, NEW k, NEW seqs \in Seq(Seq(S)), NEW one, OneOf(k, seqs, one)
    PROVE  RowsFor(k, FlattenSeq(seqs)) = IF one = 0 THEN <<>> ELSE seqs[one]
<1>1. PICK n \in Nat : n = Len(seqs)
  OBVIOUS
<1>2. PICK F : Joins(seqs, n, F, S) /\ F[n] = FlattenSeq(seqs)
  BY <1>1, FlattenJoins
<1>3. /\ one \in 0..n
      /\ \A i \in 1..n : \A j \in DOMAIN seqs[i] :
            (seqs[i][j].message = k) <=> (i = one)
  BY <1>1 DEF OneOf
<1>4. \A i \in 1..n : seqs[i] \in Seq(S)
  BY <1>1
<1>5. F[0] = <<>> /\ \A i \in 0..n : F[i] \in Seq(S)
  BY <1>2 DEF Joins
<1>11. \A u, v \in Seq(S) : RowsFor(k, u \o v) = RowsFor(k, u) \o RowsFor(k, v)
  BY RowsForConcats
<1>6. ASSUME NEW i \in 1..n
      PROVE  RowsFor(k, seqs[i]) = IF i = one THEN seqs[i] ELSE <<>>
  <2>1. seqs[i] \in Seq(S)
    BY <1>4
  <2>2. CASE i = one
    <3>1. \A j \in DOMAIN seqs[i] : seqs[i][j].message = k
      BY <1>3, <2>2
    <3> QED
      BY <2>1, <2>2, <3>1, RowsForAll
  <2>3. CASE i # one
    <3>1. \A j \in DOMAIN seqs[i] : seqs[i][j].message # k
      BY <1>3, <2>3
    <3> QED
      BY <2>1, <2>3, <3>1, RowsForAll
  <2> QED
    BY <2>2, <2>3
<1> DEFINE P == {i \in Nat : i <= n =>
                    RowsFor(k, F[i]) = IF one = 0 \/ i < one THEN <<>> ELSE seqs[one]}
<1>7. 0 \in P
  BY <1>3, <1>5, RowsForNothing
<1>8. ASSUME NEW i \in Nat, i \in P
      PROVE  i + 1 \in P
  <2>1. SUFFICES ASSUME i + 1 <= n
                 PROVE  RowsFor(k, F[i + 1])
                        = IF one = 0 \/ i + 1 < one THEN <<>> ELSE seqs[one]
    OBVIOUS
  <2>2. i <= n /\ i \in 0..n /\ i + 1 \in 1..n /\ (i + 1) - 1 = i
    BY <2>1
  <2>3. RowsFor(k, F[i]) = IF one = 0 \/ i < one THEN <<>> ELSE seqs[one]
    BY <1>8, <2>2
  <2> HIDE DEF P
  <2>4. F[i + 1] = F[i] \o seqs[i + 1]
    BY <1>2, <2>2 DEF Joins
  <2>5. RowsFor(k, F[i + 1]) = RowsFor(k, F[i]) \o RowsFor(k, seqs[i + 1])
    <3>1. PICK u : u = F[i] /\ u \in Seq(S)
      BY <1>5, <2>2
    <3>2. PICK v : v = seqs[i + 1] /\ v \in Seq(S)
      BY <1>4, <2>2
    <3>3. RowsFor(k, u \o v) = RowsFor(k, u) \o RowsFor(k, v)
      BY <1>11, <3>1, <3>2
    <3> QED
      BY <2>4, <3>1, <3>2, <3>3, Zenon
  <2>6. RowsFor(k, seqs[i + 1]) = IF i + 1 = one THEN seqs[i + 1] ELSE <<>>
    BY <1>6, <2>2
  <2>7. one # 0 => seqs[one] \in Seq(S)
    BY <1>3, <1>4
  <2>8. /\ <<>> \o <<>> = <<>>
        /\ one # 0 => <<>> \o seqs[one] = seqs[one] /\ seqs[one] \o <<>> = seqs[one]
    <3>1. <<>> \in Seq(S)
      OBVIOUS
    <3> QED
      BY <2>7, <3>1, ConcatEmptySeq
  <2>9. CASE i + 1 = one
    <3>1. one # 0 /\ i < one /\ ~(i + 1 < one)
      BY <2>9
    <3> QED
      BY <2>3, <2>5, <2>6, <2>8, <2>9, <3>1, Zenon
  <2>10. CASE i + 1 # one
    <3>1. (i < one) <=> (i + 1 < one)
      BY <1>3, <2>10
    <3>2. CASE one = 0 \/ i < one
      BY <2>3, <2>5, <2>6, <2>8, <2>10, <3>1, <3>2, Zenon
    <3>3. CASE ~(one = 0 \/ i < one)
      BY <2>3, <2>5, <2>6, <2>8, <2>10, <3>1, <3>3, Zenon
    <3> QED
      BY <3>2, <3>3
  <2> QED
    BY <2>9, <2>10
<1>9. n \in P
  <2> HIDE DEF P
  <2> QED
    BY <1>7, <1>8, Induction
<1>10. ~(n < one)
  BY <1>3
<1> QED
  BY <1>2, <1>9, <1>10

\* Sorting leaves every message its rows.
LEMMA SortedKeeps ==
    ASSUME NEW S, NEW rows \in Seq(S), NEW n \in Nat, DOMAIN messages = 1..n,
           NEW k \in DOMAIN messages
    PROVE  RowsFor(k, Sorted(rows)) = RowsFor(k, rows)
<1>1. PICK p : p = [m \in 1..n |-> RowsFor(m, rows)]
  OBVIOUS
<1>2. ASSUME NEW m \in 1..n
      PROVE  p[m] \in Seq(S) /\ \A j \in DOMAIN p[m] : p[m][j].message = m
  <2>1. PICK r : r = RowsFor(m, rows) /\ r \in Seq({x \in S : x.message = m})
    BY RowsForType
  <2>2. r \in Seq(S)
    BY <2>1, SeqMonotonic
  <2>3. \A j \in DOMAIN r : r[j] \in {x \in S : x.message = m}
    BY <2>1
  <2> QED
    BY <1>1, <2>1, <2>2, <2>3
<1>3. p \in Seq(Seq(S)) /\ Len(p) = n
  BY <1>1, <1>2
<1>4. OneOf(k, p, k)
  BY <1>2, <1>3 DEF OneOf
<1>5. Sorted(rows) = FlattenSeq(p)
  BY <1>1 DEF Sorted
<1>6. k # 0 /\ p[k] = RowsFor(k, rows)
  BY <1>1
<1> QED
  BY <1>3, <1>4, <1>5, <1>6, RowsForFlatten

-----------------------------------------------------------------------------
(* Numbers of one byte and of four.                                        *)

LEMMA OneByte ==
    ASSUME NEW a, NEW bytes, bytes = <<a>>, a \in Nat
    PROVE  FromLE(bytes) = a
<1>1. DOMAIN bytes = {1} /\ bytes[1] = a
  OBVIOUS
<1>2. Min({1}) = 1
  BY DEF Min
<1>3. PICK g : g = [s \in SUBSET {1} |-> IF s = {} THEN 0 ELSE a]
  OBVIOUS
<1>4. \A s \in SUBSET {1} : s = {} \/ s = {1}
  OBVIOUS
<1>5. g[{}] = 0 /\ g[{1}] = a /\ {1} \ {1} = {}
  BY <1>3
<1>6. ASSUME NEW s \in SUBSET {1}
      PROVE  g[s] = LEBody(bytes, g, s)
  <2>1. CASE s = {}
    BY <1>5, <2>1 DEF LEBody
  <2>2. CASE s = {1}
    BY <1>1, <1>2, <1>5, <2>2 DEF LEBody
  <2> QED
    BY <1>4, <2>1, <2>2, ZenonT(40)
<1>7. g = [s \in SUBSET {1} |-> LEBody(bytes, g, s)]
  BY <1>3, <1>6, ZenonT(40)
<1>8. PICK f : /\ f = [s \in SUBSET {1} |-> LEBody(bytes, f, s)]
               /\ FromLE(bytes) = f[{1}]
  BY <1>1, <1>7, UnfoldLE
<1>9. f[{1}] = LEBody(bytes, f, {1}) /\ f[{}] = LEBody(bytes, f, {})
  BY <1>8
<1>10. f[{}] = 0
  BY <1>9 DEF LEBody
<1> QED
  BY <1>1, <1>2, <1>5, <1>8, <1>9, <1>10 DEF LEBody

\* A number of the bytes from the i-th of four on that are in s.
FourthOf(s, d) == IF 4 \in s THEN d ELSE 0
ThirdOf(s, c, d) == IF 3 \in s THEN c + 256 * FourthOf(s, d) ELSE FourthOf(s, d)
SecondOf(s, b, c, d) ==
    IF 2 \in s THEN b + 256 * ThirdOf(s, c, d) ELSE ThirdOf(s, c, d)
FirstOf(s, a, b, c, d) ==
    IF 1 \in s THEN a + 256 * SecondOf(s, b, c, d) ELSE SecondOf(s, b, c, d)

LEMMA FourDefined ==
    ASSUME NEW a, NEW b, NEW c, NEW d, NEW bytes, bytes = <<a, b, c, d>>,
           {a, b, c, d} \subseteq Nat
    PROVE  \E g : g = [s \in SUBSET {1, 2, 3, 4} |-> LEBody(bytes, g, s)]
<1>1. bytes[1] = a /\ bytes[2] = b /\ bytes[3] = c /\ bytes[4] = d
  OBVIOUS
<1>2. PICK D : D = {1, 2, 3, 4}
  OBVIOUS
<1>3. PICK g : g = [s \in SUBSET D |-> FirstOf(s, a, b, c, d)]
  OBVIOUS
<1>4. ASSUME NEW s \in SUBSET D
      PROVE  g[s] = LEBody(bytes, g, s)
  <2>1. CASE s = {}
    BY <1>3, <2>1 DEF LEBody, FirstOf, SecondOf, ThirdOf, FourthOf
  <2>2. CASE s # {}
    <3>1. PICK i \in s : \A j \in s : i <= j
      <4>1. 1 \in s \/ 2 \in s \/ 3 \in s \/ 4 \in s
        BY <1>2, <2>2
      <4> QED
        BY <1>2, <4>1
    <3>2. Min(s) = i
      <4>1. PICK m : m = Min(s)
        OBVIOUS
      <4>2. m \in s /\ \A j \in s : m <= j
        BY <3>1, <4>1, Zenon DEF Min
      <4> QED
        BY <1>2, <3>1, <4>1, <4>2
    <3>3. PICK t : t = s \ {i} /\ t \in SUBSET D
      OBVIOUS
    <3>4. i \in {1, 2, 3, 4} /\ i \notin t /\ \A j : j # i => (j \in t <=> j \in s)
      BY <1>2, <3>3
    <3>5. \A j \in D : j < i => j \notin s
      BY <1>2, <3>1
    <3>6. g[s] = FirstOf(s, a, b, c, d) /\ g[t] = FirstOf(t, a, b, c, d)
      BY <1>3, <3>3
    <3>7. FirstOf(s, a, b, c, d) = bytes[i] + 256 * FirstOf(t, a, b, c, d)
      <4>1. CASE i = 1
        BY <1>1, <3>1, <3>4, <4>1 DEF FirstOf, SecondOf, ThirdOf, FourthOf
      <4>2. CASE i = 2
        <5>1. 1 \notin s
          BY <1>2, <3>5, <4>2
        <5> QED
          BY <1>1, <3>1, <3>4, <4>2, <5>1 DEF FirstOf, SecondOf, ThirdOf, FourthOf
      <4>3. CASE i = 3
        <5>1. 1 \notin s /\ 2 \notin s
          BY <1>2, <3>5, <4>3
        <5> QED
          BY <1>1, <3>1, <3>4, <4>3, <5>1 DEF FirstOf, SecondOf, ThirdOf, FourthOf
      <4>4. CASE i = 4
        <5>1. 1 \notin s /\ 2 \notin s /\ 3 \notin s
          BY <1>2, <3>5, <4>4
        <5> QED
          BY <1>1, <3>1, <3>4, <4>4, <5>1 DEF FirstOf, SecondOf, ThirdOf, FourthOf
      <4> QED
        BY <3>4, <4>1, <4>2, <4>3, <4>4
    <3> QED
      BY <2>2, <3>2, <3>3, <3>6, <3>7 DEF LEBody
  <2> QED
    BY <2>1, <2>2
<1>5. g = [s \in SUBSET D |-> LEBody(bytes, g, s)]
  BY <1>3, <1>4, ZenonT(40)
<1> QED
  BY <1>2, <1>5

LEMMA LEStep ==
    ASSUME NEW bytes, NEW h, NEW s, NEW i, NEW t, s # {}, Min(s) = i, t = s \ {i}
    PROVE  LEBody(bytes, h, s) = bytes[i] + 256 * h[t]
BY Zenon DEF LEBody

LEMMA FourBytes ==
    ASSUME NEW a, NEW b, NEW c, NEW d, NEW bytes, bytes = <<a, b, c, d>>,
           {a, b, c, d} \subseteq Nat
    PROVE  FromLE(bytes) = a + 256 * (b + 256 * (c + 256 * d))
<1>1. /\ DOMAIN bytes = {1, 2, 3, 4}
      /\ bytes[1] = a /\ bytes[2] = b /\ bytes[3] = c /\ bytes[4] = d
  OBVIOUS
<1>2. \E g : g = [s \in SUBSET {1, 2, 3, 4} |-> LEBody(bytes, g, s)]
  BY FourDefined
<1>3. PICK h : h = CHOOSE g : g = [s \in SUBSET {1, 2, 3, 4} |-> LEBody(bytes, g, s)]
  OBVIOUS
<1>4. h = [s \in SUBSET {1, 2, 3, 4} |-> LEBody(bytes, h, s)]
  BY <1>2, <1>3, Zenon
<1>5. FromLE(bytes) = h[{1, 2, 3, 4}]
  BY <1>1, <1>3, UnfoldLE, Zenon
<1>6. PICK s1, s2, s3, s4, s5 : /\ s1 = {1, 2, 3, 4} /\ s2 = {2, 3, 4}
                                /\ s3 = {3, 4} /\ s4 = {4} /\ s5 = {}
  OBVIOUS
<1>7. Min(s1) = 1 /\ Min(s2) = 2 /\ Min(s3) = 3 /\ Min(s4) = 4
  BY <1>6 DEF Min
<1>8. /\ s2 = s1 \ {1} /\ s3 = s2 \ {2} /\ s4 = s3 \ {3} /\ s5 = s4 \ {4}
      /\ s1 # {} /\ s2 # {} /\ s3 # {} /\ s4 # {}
  BY <1>6
<1>9. /\ h[s1] = LEBody(bytes, h, s1) /\ h[s2] = LEBody(bytes, h, s2)
      /\ h[s3] = LEBody(bytes, h, s3) /\ h[s4] = LEBody(bytes, h, s4)
      /\ h[s5] = LEBody(bytes, h, s5)
  BY <1>4, <1>6
<1>10. h[s5] = 0
  BY <1>6, <1>9 DEF LEBody
<1>11. /\ h[s1] = bytes[1] + 256 * h[s2] /\ h[s2] = bytes[2] + 256 * h[s3]
       /\ h[s3] = bytes[3] + 256 * h[s4] /\ h[s4] = bytes[4] + 256 * h[s5]
  <2>1. h[s1] = bytes[1] + 256 * h[s2]
    <3>1. LEBody(bytes, h, s1) = bytes[Min(s1)] + 256 * h[s1 \ {Min(s1)}]
      BY <1>8, Zenon DEF LEBody
    <3> QED
      BY <1>7, <1>8, <1>9, <3>1, Zenon
  <2>2. h[s2] = bytes[2] + 256 * h[s3]
    <3>1. LEBody(bytes, h, s2) = bytes[Min(s2)] + 256 * h[s2 \ {Min(s2)}]
      BY <1>8, Zenon DEF LEBody
    <3> QED
      BY <1>7, <1>8, <1>9, <3>1, ZenonT(40)
  <2>3. h[s3] = bytes[3] + 256 * h[s4]
    <3>1. LEBody(bytes, h, s3) = bytes[Min(s3)] + 256 * h[s3 \ {Min(s3)}]
      BY <1>8, Zenon DEF LEBody
    <3> QED
      BY <1>7, <1>8, <1>9, <3>1, ZenonT(40)
  <2>4. h[s4] = bytes[4] + 256 * h[s5]
    <3>1. LEBody(bytes, h, s4) = bytes[Min(s4)] + 256 * h[s4 \ {Min(s4)}]
      BY <1>8, Zenon DEF LEBody
    <3> QED
      BY <1>7, <1>8, <1>9, <3>1, ZenonT(40)
  <2> QED
    BY <2>1, <2>2, <2>3, <2>4
<1>12. h[s4] = d
  BY <1>1, <1>10, <1>11
<1>13. h[s1] = a + 256 * (b + 256 * (c + 256 * d))
  <2>1. h[s3] = c + 256 * d
    BY <1>1, <1>11, <1>12, Zenon
  <2>2. h[s2] = b + 256 * (c + 256 * d)
    BY <1>1, <1>11, <2>1, ZenonT(40)
  <2> QED
    BY <1>1, <1>11, <2>2, ZenonT(40)
<1> QED
  BY <1>5, <1>6, <1>13, Zenon

LEMMA HigherPlaces ==
    256^2 = 256 * 256 /\ 256^3 = 256 * (256 * 256)
BY SMTT(30)

LEMMA BelowIn ==
    ASSUME NEW m \in Nat, NEW x \in Nat, x < m
    PROVE  x \in 0..m - 1
OBVIOUS

LEMMA FourDigits ==
    ASSUME NEW lo \in Nat, NEW hi \in Nat, lo < 256 * 256,
           NEW n, n = lo + (256 * 256) * hi
    PROVE  /\ n % 256 = lo % 256 /\ (n \div 256) % 256 = lo \div 256
           /\ n \div (256 * 256) = hi /\ n \div (256 * (256 * 256)) = hi \div 256
<1>1. n % 256 = lo % 256 /\ (n \div 256) % 256 = lo \div 256
  BY SMTT(30)
<1>2. n \div (256 * 256) = hi
  BY SMTT(30)
<1>3. n \div (256 * (256 * 256)) = hi \div 256
  BY SMTT(30)
<1> QED
  BY <1>1, <1>2, <1>3

LEMMA FourDigitsExist ==
    \A n : \E digit : digit = [i \in 1..4 |-> (n \div 256^(i - 1)) % 256]
OBVIOUS

LEMMA Quarters ==
    ASSUME NEW n \in Nat, n \div (256 * 256) \in Words
    PROVE  /\ ToLE(n, 4) \in Seq(Bytes) /\ Len(ToLE(n, 4)) = 4
           /\ FromLE(ToLE(n, 4)) = n
<1>1. PICK lo \in Nat, hi \in Nat :
        /\ lo < 256 * 256 /\ n = lo + (256 * 256) * hi /\ hi = n \div (256 * 256)
  <2>1. /\ n \div (256 * 256) \in Nat /\ n % (256 * 256) \in Nat
        /\ n % (256 * 256) < 256 * 256
        /\ n = (n % (256 * 256)) + (256 * 256) * (n \div (256 * 256))
    BY SMTT(30)
  <2> QED
    BY <2>1
<1>2. lo \in Words /\ hi \in Words
  <2>1. lo \in 0..256 * 256 - 1
    <3>1. PICK m \in Nat : m = 256 * 256
      OBVIOUS
    <3>2. lo < m
      BY <1>1, <3>1, Zenon
    <3>3. lo \in 0..m - 1
      BY <3>2, BelowIn
    <3> QED
      BY <3>1, <3>3, Zenon
  <2>2. hi \in Words
    BY <1>1, Zenon
  <2> QED
    BY <2>1, <2>2, Zenon DEF Words
<1>3. /\ lo \div 256 \in Bytes /\ lo % 256 \in Bytes
      /\ lo = (lo % 256) + 256 * (lo \div 256)
  BY <1>2, Halves
<1>4. /\ hi \div 256 \in Bytes /\ hi % 256 \in Bytes
      /\ hi = (hi % 256) + 256 * (hi \div 256)
  BY <1>2, Halves
<1>5. PICK a, b, c, d : /\ a = lo % 256 /\ b = lo \div 256
                        /\ c = hi % 256 /\ d = hi \div 256
  OBVIOUS
<1>6. /\ n % 256 = a /\ (n \div 256) % 256 = b
      /\ n \div (256 * 256) = hi /\ n \div (256 * (256 * 256)) = d
  BY <1>1, <1>5, FourDigits
<1>7. PICK digit : digit = [i \in 1..4 |-> (n \div 256^(i - 1)) % 256]
  BY FourDigitsExist
<1>8. PICK p0, p1, p2, p3 : /\ p0 = 256^(1 - 1) /\ p1 = 256^(2 - 1)
                            /\ p2 = 256^(3 - 1) /\ p3 = 256^(4 - 1)
  OBVIOUS
<1>9. /\ 1 \in 1..4 /\ 2 \in 1..4 /\ 3 \in 1..4 /\ 4 \in 1..4
      /\ 3 - 1 = 2 /\ 4 - 1 = 3
  OBVIOUS
<1>10. p0 = 256^0 /\ p1 = 256^1 /\ p2 = 256^2 /\ p3 = 256^3
  BY <1>8, <1>9, PlaceValues, Zenon
<1>11. p0 = 1 /\ p1 = 256 /\ p2 = 256 * 256 /\ p3 = 256 * (256 * 256)
  BY <1>10, PlaceValues, HigherPlaces, Zenon
<1>12. /\ digit[1] = (n \div p0) % 256 /\ digit[2] = (n \div p1) % 256
       /\ digit[3] = (n \div p2) % 256 /\ digit[4] = (n \div p3) % 256
  <2>1. /\ digit[1] = (n \div 256^(1 - 1)) % 256
        /\ digit[2] = (n \div 256^(2 - 1)) % 256
        /\ digit[3] = (n \div 256^(3 - 1)) % 256
        /\ digit[4] = (n \div 256^(4 - 1)) % 256
    BY <1>7, <1>9, Zenon
  <2> QED
    BY <1>8, <2>1, Zenon
<1>13. /\ digit[1] = (n \div 1) % 256 /\ digit[2] = (n \div 256) % 256
       /\ digit[3] = (n \div (256 * 256)) % 256
       /\ digit[4] = (n \div (256 * (256 * 256))) % 256
  BY <1>11, <1>12, Zenon
<1>14. n \div 1 = n /\ d % 256 = d
  <2>1. n \div 1 = n
    BY SMTT(30)
  <2> QED
    BY <1>4, <1>5, <2>1, PlaceValues
<1>15. digit[1] = a /\ digit[2] = b /\ digit[3] = c /\ digit[4] = d
  <2>1. digit[1] = a
    BY <1>6, <1>13, <1>14, ZenonT(40)
  <2>2. digit[2] = b
    BY <1>6, <1>13, Zenon
  <2>3. digit[3] = c
    BY <1>5, <1>6, <1>13, Zenon
  <2>4. digit[4] = d
    BY <1>6, <1>13, <1>14, ZenonT(40)
  <2> QED
    BY <2>1, <2>2, <2>3, <2>4
<1>16. digit = <<a, b, c, d>>
  BY <1>7, <1>15
<1>17. ToLE(n, 4) = digit
  BY <1>7 DEF ToLE
<1>18. a \in Bytes /\ b \in Bytes /\ c \in Bytes /\ d \in Bytes
  BY <1>3, <1>4, <1>5
<1>19. digit \in Seq(Bytes) /\ Len(digit) = 4
  BY <1>16, <1>18
<1>20. FromLE(digit) = a + 256 * (b + 256 * (c + 256 * d))
  <2>1. {a, b, c, d} \subseteq Nat
    BY <1>18 DEF Bytes
  <2> QED
    BY <1>16, <2>1, FourBytes
<1>21. n = a + 256 * (b + 256 * (c + 256 * d))
  <2>1. a \in Nat /\ b \in Nat /\ c \in Nat /\ d \in Nat
    BY <1>18 DEF Bytes
  <2>2. lo = a + 256 * b /\ hi = c + 256 * d
    BY <1>3, <1>4, <1>5
  <2> QED
    BY <1>1, <2>1, <2>2, SMTT(30)
<1> QED
  BY <1>17, <1>19, <1>20, <1>21

-----------------------------------------------------------------------------
(* A reader that goes on from place to place: what it reads at one is r,   *)
(* the next one is nx, and go tells whether there is anything to read.     *)

WalkBody(r, nx, go, f, k) ==
    [at \in Nat |-> IF k = 0 \/ ~go[at] THEN <<>> ELSE <<r[at]>> \o f[k - 1][nx[at]]]

WalksTo(r, nx, go, count, f) == f = [k \in 0..count |-> WalkBody(r, nx, go, f, k)]

LEMMA WalkDefined ==
    ASSUME NEW r, NEW nx, NEW go, NEW count \in Nat
    PROVE  \E f : WalksTo(r, nx, go, count, f)
<1> DEFINE P == {n \in Nat : \E f : f = [k \in 0..n |-> WalkBody(r, nx, go, f, k)]}
<1>1. 0 \in P
  <2>1. PICK f : f = [k \in 0..0 |-> WalkBody(r, nx, go, <<>>, k)]
    OBVIOUS
  <2>2. \A k \in 0..0 : WalkBody(r, nx, go, f, k) = WalkBody(r, nx, go, <<>>, k)
    BY DEF WalkBody
  <2>3. f = [k \in 0..0 |-> WalkBody(r, nx, go, f, k)]
    BY <2>1, <2>2
  <2> QED
    BY <2>3
<1>2. ASSUME NEW n \in Nat, n \in P
      PROVE  n + 1 \in P
  <2>1. PICK f : f = [k \in 0..n |-> WalkBody(r, nx, go, f, k)]
    BY <1>2
  <2>2. PICK h : h = [k \in 0..n + 1 |-> IF k = n + 1 THEN WalkBody(r, nx, go, f, k)
                                         ELSE f[k]]
    OBVIOUS
  <2>3. ASSUME NEW k \in 0..n + 1
        PROVE  h[k] = WalkBody(r, nx, go, h, k)
    <3>1. k # 0 => k - 1 \in 0..n /\ k - 1 \in 0..n + 1 /\ k - 1 # n + 1
      OBVIOUS
    <3>2. k # 0 => h[k - 1] = f[k - 1]
      BY <2>2, <3>1
    <3>3. WalkBody(r, nx, go, h, k) = WalkBody(r, nx, go, f, k)
      BY <3>2 DEF WalkBody
    <3>4. k # n + 1 => k \in 0..n
      OBVIOUS
    <3>5. k # n + 1 => f[k] = WalkBody(r, nx, go, f, k)
      BY <2>1, <3>4
    <3> QED
      BY <2>2, <3>3, <3>5
  <2>4. h = [k \in 0..n + 1 |-> WalkBody(r, nx, go, h, k)]
    BY <2>2, <2>3
  <2> QED
    BY <2>4
<1> HIDE DEF P
<1>3. count \in P
  BY <1>1, <1>2, Induction
<1> QED
  BY <1>3 DEF P, WalksTo

IsWalk(r, nx, go, S, f) ==
    /\ \A k \in 0..255 : \A at \in Nat :
        f[k][at] = IF k = 0 \/ ~go[at] THEN <<>> ELSE <<r[at]>> \o f[k - 1][nx[at]]
    /\ \A at \in Nat : r[at] \in S /\ nx[at] \in Nat

LEMMA WalkType ==
    ASSUME NEW r, NEW nx, NEW go, NEW S, NEW f, IsWalk(r, nx, go, S, f)
    PROVE  \A k \in 0..255 : \A at \in Nat : f[k][at] \in Seq(S)
<1> DEFINE P == {k \in Nat : k <= 255 => \A at \in Nat : f[k][at] \in Seq(S)}
<1>1. 0 \in P
  <2>1. 0 \in 0..255 /\ <<>> \in Seq(S)
    OBVIOUS
  <2>2. \A at \in Nat : f[0][at] = <<>>
    BY <2>1, Zenon DEF IsWalk
  <2> QED
    BY <2>1, <2>2
<1>2. ASSUME NEW k \in Nat, k \in P
      PROVE  k + 1 \in P
  <2>1. ASSUME k + 1 <= 255, NEW at \in Nat
        PROVE  f[k + 1][at] \in Seq(S)
    <3>1. k + 1 \in 0..255 /\ k <= 255 /\ k + 1 # 0 /\ (k + 1) - 1 = k
      BY <2>1
    <3>2. r[at] \in S /\ nx[at] \in Nat
      BY ZenonT(40) DEF IsWalk
    <3>3. f[k][nx[at]] \in Seq(S)
      BY <1>2, <3>1, <3>2, SMTT(40)
    <3>4. f[k + 1][at] = <<>> \/ f[k + 1][at] = <<r[at]>> \o f[k][nx[at]]
      BY <3>1 DEF IsWalk
    <3>5. <<r[at]>> \in Seq(S)
      BY <3>2, Singles
    <3> HIDE DEF P
    <3>6. <<r[at]>> \o f[k][nx[at]] \in Seq(S)
      BY <3>3, <3>5, ConcatProperties
    <3>7. <<>> \in Seq(S)
      OBVIOUS
    <3> QED
      BY <3>4, <3>6, <3>7
  <2> QED
    BY <2>1
<1>3. \A k \in Nat : k \in P
  <2> HIDE DEF P
  <2> QED
    BY <1>1, <1>2, Induction
<1>4. ASSUME NEW k \in 0..255, NEW at \in Nat
      PROVE  f[k][at] \in Seq(S)
  <2>1. k \in Nat /\ k <= 255
    OBVIOUS
  <2> QED
    BY <1>3, <2>1
<1> QED
  BY <1>4

\* From one place to the next, as often as it is told to.
LeadsOn(nx, go, n, pl) ==
    /\ n \in 0..255 /\ \A i \in 0..n : pl[i] \in Nat
    /\ \A i \in 1..n : go[pl[i - 1]] /\ nx[pl[i - 1]] = pl[i]

LEMMA WalkReads ==
    ASSUME NEW r, NEW nx, NEW go, NEW S, NEW f, IsWalk(r, nx, go, S, f),
           NEW n, NEW pl, LeadsOn(nx, go, n, pl)
    PROVE  f[n][pl[0]] = [i \in 1..n |-> r[pl[i - 1]]]
<1> DEFINE Rest(d) == [q \in 1..d |-> r[pl[(n - d) + (q - 1)]]]
           P == {d \in Nat : d <= n => f[d][pl[n - d]] = Rest(d)}
<1>0. n \in Nat /\ n \in 0..255
  BY DEF LeadsOn
<1>7. /\ \A i \in 0..n : pl[i] \in Nat
      /\ \A i \in 1..n : go[pl[i - 1]] /\ nx[pl[i - 1]] = pl[i]
  BY Zenon DEF LeadsOn
<1>1. 0 \in P
  <2>1. pl[n - 0] \in Nat /\ 0 \in 0..255
    BY <1>0, <1>7
  <2>2. f[0][pl[n - 0]] = <<>>
    BY <2>1 DEF IsWalk
  <2>3. Rest(0) = <<>>
    OBVIOUS
  <2> QED
    BY <2>2, <2>3
<1>2. ASSUME NEW d \in Nat, d \in P
      PROVE  d + 1 \in P
  <2> SUFFICES ASSUME d + 1 <= n
               PROVE  f[d + 1][pl[n - (d + 1)]] = Rest(d + 1)
    OBVIOUS
  <2>1. PICK i \in Nat : i = n - (d + 1) /\ i + 1 = n - d /\ i \in 0..n
                         /\ i + 1 \in 1..n /\ (i + 1) - 1 = i
    <3>1. PICK i \in Nat : i = n - (d + 1)
      BY <1>0
    <3>2. i + 1 = n - d /\ i \in 0..n /\ i + 1 \in 1..n /\ (i + 1) - 1 = i
      BY <1>0, <3>1
    <3> QED
      BY <3>1, <3>2
  <2>2. PICK a \in Nat : a = pl[i]
    BY <1>7, <2>1
  <2>3. go[a] /\ nx[a] = pl[n - d]
    BY <1>7, <2>1, <2>2
  <2>4. d + 1 \in 0..255 /\ d + 1 # 0 /\ (d + 1) - 1 = d /\ d <= n
    BY <1>0
  <2>5. f[d + 1][a] = <<r[a]>> \o f[d][pl[n - d]]
    <3>1. f[d + 1][a] = IF d + 1 = 0 \/ ~go[a] THEN <<>>
                        ELSE <<r[a]>> \o f[(d + 1) - 1][nx[a]]
      BY <2>4, Zenon DEF IsWalk
    <3> QED
      BY <2>3, <2>4, <3>1, Zenon
  <2>6. f[d][pl[n - d]] = Rest(d)
    BY <1>2, <2>4
  <2>7. PICK t, u, x : t = Rest(d) /\ u = Rest(d + 1) /\ x = r[a]
    OBVIOUS
  <2>8. \A j \in Nat : j <= n => r[pl[j]] \in S
    <3>1. \A j \in Nat : j <= n => j \in 0..n
      BY <1>0
    <3>2. \A at \in Nat : r[at] \in S
      BY Zenon DEF IsWalk
    <3> QED
      BY <1>7, <3>1, <3>2
  <2>9. t \in [1..d -> S] /\ x \in S
    <3>1. \A q \in 1..d : (n - d) + (q - 1) \in Nat /\ (n - d) + (q - 1) <= n
      BY <1>0, <2>4
    <3>2. x \in S
      BY <2>2, <2>7 DEF IsWalk
    <3> QED
      BY <2>7, <2>8, <3>1, <3>2
  <2>10. u \in [1..d + 1 -> S]
    <3>1. \A q \in 1..d + 1 : (n - (d + 1)) + (q - 1) \in Nat
                              /\ (n - (d + 1)) + (q - 1) <= n
      BY <1>0, <2>4
    <3> QED
      BY <2>7, <2>8, <3>1
  <2>11. u[1] = x
    <3>1. 1 \in 1..d + 1 /\ (n - (d + 1)) + (1 - 1) = i
      BY <2>1
    <3> QED
      BY <2>2, <2>7, <3>1
  <2>12. ASSUME NEW q \in 1..d
         PROVE  u[q + 1] = t[q]
    <3>1. q + 1 \in 1..d + 1
          /\ (n - (d + 1)) + ((q + 1) - 1) = (n - d) + (q - 1)
      BY <1>0
    <3> QED
      BY <2>7, <3>1
  <2> HIDE DEF P, Rest
  <2>13. <<x>> \o t = u
    BY <2>9, <2>10, <2>11, <2>12, PutBefore
  <2> QED
    BY <2>1, <2>2, <2>5, <2>6, <2>7, <2>13, Zenon
<1>3. n \in P
  <2> HIDE DEF P
  <2> QED
    BY <1>0, <1>1, <1>2, Induction
<1>4. f[n][pl[n - n]] = Rest(n)
  <2>1. n <= n
    BY <1>0
  <2> QED
    BY <1>3, <2>1
<1>5. n - n = 0 /\ \A q \in 1..n : (n - n) + (q - 1) = q - 1
  BY <1>0
<1>6. Rest(n) = [i \in 1..n |-> r[pl[i - 1]]]
  BY <1>5
<1> HIDE DEF Rest
<1> QED
  BY <1>4, <1>5, <1>6

-----------------------------------------------------------------------------
(* The decoders of the tool are such readers.                              *)

Follows(r) == {r[at] : at \in Nat}
Decodes(pt, got, action, r, nx, go) ==
    \E f : /\ IsWalk(r, nx, go, Follows(r), f)
           /\ got = OrBlank(f[pt[6]][HEADER], action)

LEMMA WalkExists ==
    ASSUME NEW r, NEW nx, NEW go
    PROVE  \E f : WalksTo(r, nx, go, 255, f)
<1>1. PICK count \in Nat : count = 255
  OBVIOUS
<1>2. \E f : WalksTo(r, nx, go, count, f)
  BY WalkDefined
<1> QED
  BY <1>1, <1>2

LEMMA WalkIs ==
    ASSUME NEW r, NEW nx, NEW go, NEW h, \A at \in Nat : nx[at] \in Nat,
           \A k \in 0..255 : h[k] = WalkBody(r, nx, go, h, k)
    PROVE  IsWalk(r, nx, go, Follows(r), h)
<1>1. \A k \in 0..255 : \A at \in Nat :
        h[k][at] = IF k = 0 \/ ~go[at] THEN <<>> ELSE <<r[at]>> \o h[k - 1][nx[at]]
  BY Zenon DEF WalkBody
<1>2. \A at \in Nat : r[at] \in Follows(r) /\ nx[at] \in Nat
  BY DEF Follows
<1> QED
  BY <1>1, <1>2, Zenon DEF IsWalk

\* Requests to read.
GetRows(pt) == [at \in Nat |-> Row("get_request", EntryAt(pt, at, 0, "", 0))]
Steps(d) == [at \in Nat |-> at + d]
Fitting(pt, d) == [at \in Nat |-> Fits(pt, at + d)]
GetBody(pt, f, k) ==
    [at \in Nat |->
        IF k = 0 \/ ~Fits(pt, at + 3) THEN <<>>
        ELSE <<Row("get_request", EntryAt(pt, at, 0, "", 0))>> \o f[k - 1][at + 3]]

LEMMA UnfoldGet ==
    ASSUME NEW pt
    PROVE  _decode_get_request(pt) =
             OrBlank((CHOOSE f : f = [k \in 0..255 |-> GetBody(pt, f, k)])
                        [pt[6]][HEADER], "get_request")
BY DEF _decode_get_request, GetBody

LEMMA GetWalks ==
    ASSUME NEW pt
    PROVE  Decodes(pt, _decode_get_request(pt), "get_request",
                   GetRows(pt), Steps(3), Fitting(pt, 3))
<1>1. PICK r, nx, go : r = GetRows(pt) /\ nx = Steps(3) /\ go = Fitting(pt, 3)
  OBVIOUS
<1>2. \A at \in Nat : /\ r[at] = Row("get_request", EntryAt(pt, at, 0, "", 0))
                      /\ nx[at] = at + 3 /\ nx[at] \in Nat /\ go[at] = Fits(pt, at + 3)
  <2>1. \A at \in Nat : at + 3 \in Nat
    OBVIOUS
  <2> QED
    BY <1>1, <2>1, Zenon DEF GetRows, Steps, Fitting
<1>3. ASSUME NEW f, NEW k
      PROVE  GetBody(pt, f, k) = WalkBody(r, nx, go, f, k)
  BY <1>2, Zenon DEF GetBody, WalkBody
<1>4. PICK g : g = [k \in 0..255 |-> WalkBody(r, nx, go, g, k)]
  <2>1. PICK g : WalksTo(r, nx, go, 255, g)
    BY WalkExists, Zenon
  <2> QED
    BY <2>1, Zenon DEF WalksTo
<1>5. g = [k \in 0..255 |-> GetBody(pt, g, k)]
  BY <1>3, <1>4
<1>6. PICK h : h = CHOOSE f : f = [k \in 0..255 |-> GetBody(pt, f, k)]
  OBVIOUS
<1>7. h = [k \in 0..255 |-> GetBody(pt, h, k)]
  BY <1>5, <1>6, Zenon
<1>8. \A k \in 0..255 : h[k] = WalkBody(r, nx, go, h, k)
  BY <1>3, <1>7
<1>9. IsWalk(r, nx, go, Follows(r), h)
  BY <1>2, <1>8, WalkIs, Zenon
<1> QED
  BY <1>1, <1>6, <1>9, UnfoldGet, Zenon DEF Decodes

\* Results of writes.
ResultRows(pt) ==
    [at \in Nat |-> Row("set_response", EntryAt(pt, at, StatusAt(pt, at), "", 0))]
ResultBody(pt, f, k) ==
    [at \in Nat |->
        IF k = 0 \/ ~Fits(pt, at + 5) THEN <<>>
        ELSE <<Row("set_response", EntryAt(pt, at, StatusAt(pt, at), "", 0))>>
             \o f[k - 1][at + 5]]

LEMMA UnfoldResult ==
    ASSUME NEW pt
    PROVE  _decode_set_response(pt) =
             OrBlank((CHOOSE f : f = [k \in 0..255 |-> ResultBody(pt, f, k)])
                        [pt[6]][HEADER], "set_response")
BY DEF _decode_set_response, ResultBody

LEMMA ResultWalks ==
    ASSUME NEW pt
    PROVE  Decodes(pt, _decode_set_response(pt), "set_response",
                   ResultRows(pt), Steps(5), Fitting(pt, 5))
<1>1. PICK r, nx, go : r = ResultRows(pt) /\ nx = Steps(5) /\ go = Fitting(pt, 5)
  OBVIOUS
<1>2. \A at \in Nat : /\ r[at] = Row("set_response",
                                     EntryAt(pt, at, StatusAt(pt, at), "", 0))
                      /\ nx[at] = at + 5 /\ nx[at] \in Nat /\ go[at] = Fits(pt, at + 5)
  <2>1. \A at \in Nat : at + 5 \in Nat
    OBVIOUS
  <2> QED
    BY <1>1, <2>1, Zenon DEF ResultRows, Steps, Fitting
<1>3. ASSUME NEW f, NEW k
      PROVE  ResultBody(pt, f, k) = WalkBody(r, nx, go, f, k)
  BY <1>2, Zenon DEF ResultBody, WalkBody
<1>4. PICK g : g = [k \in 0..255 |-> WalkBody(r, nx, go, g, k)]
  <2>1. PICK g : WalksTo(r, nx, go, 255, g)
    BY WalkExists, Zenon
  <2> QED
    BY <2>1, Zenon DEF WalksTo
<1>5. g = [k \in 0..255 |-> ResultBody(pt, g, k)]
  BY <1>3, <1>4
<1>6. PICK h : h = CHOOSE f : f = [k \in 0..255 |-> ResultBody(pt, f, k)]
  OBVIOUS
<1>7. h = [k \in 0..255 |-> ResultBody(pt, h, k)]
  BY <1>5, <1>6, ZenonT(40)
<1>8. \A k \in 0..255 : h[k] = WalkBody(r, nx, go, h, k)
  BY <1>3, <1>7
<1>9. IsWalk(r, nx, go, Follows(r), h)
  BY <1>2, <1>8, WalkIs, Zenon
<1> QED
  BY <1>1, <1>6, <1>9, UnfoldResult, Zenon DEF Decodes

\* Values.
KindAt(at, bare) == at + (IF bare THEN 3 ELSE 5)
ValueRead(pt, at, bare) ==
    _decode_value(pt, KindAt(at, bare) + 2, pt[KindAt(at, bare) + 1],
                  pt[KindAt(at, bare) + 2])
ValueRow(pt, action, at, bare) ==
    Row(action, EntryAt(pt, at, IF bare THEN 0 ELSE StatusAt(pt, at),
                        ValueRead(pt, at, bare).shown, ValueRead(pt, at, bare).n))
ValueFit(pt, at, bare) == Fits(pt, at + 5) /\ Fits(pt, KindAt(at, bare) + 2)
ValueRows(pt, action, bare) == [at \in Nat |-> ValueRow(pt, action, at, bare)]
ValueSteps(pt, bare) == [at \in Nat |-> ValueRead(pt, at, bare).next]
ValuesFit(pt, bare) == [at \in Nat |-> ValueFit(pt, at, bare)]
ValueBody(pt, action, bare, f, k) ==
    [at \in Nat |->
        IF k = 0 \/ ~Fits(pt, at + 5) \/ ~Fits(pt, KindAt(at, bare) + 2) THEN <<>>
        ELSE <<ValueRow(pt, action, at, bare)>>
             \o f[k - 1][ValueRead(pt, at, bare).next]]

LEMMA UnfoldValues ==
    ASSUME NEW pt, NEW action, NEW bare
    PROVE  _decode_property_values(pt, action, bare) =
             OrBlank((CHOOSE f : f = [k \in 0..255 |->
                                        ValueBody(pt, action, bare, f, k)])
                        [pt[6]][HEADER], action)
BY DEF _decode_property_values, ValueBody, ValueRow, ValueRead, KindAt

LEMMA NextPlace ==
    ASSUME NEW pt \in Seq(Bytes), NEW at \in Nat, NEW type, NEW marker
    PROVE  _decode_value(pt, at, type, marker).next \in Nat
<1>1. Len(pt) \in Nat /\ at + 4 \in Nat /\ at + 1 \in Nat
  BY LenProperties
<1> QED
  BY <1>1 DEF _decode_value

LEMMA ValuesWalk ==
    ASSUME NEW pt \in Seq(Bytes), NEW action, NEW bare \in BOOLEAN
    PROVE  Decodes(pt, _decode_property_values(pt, action, bare), action,
                   ValueRows(pt, action, bare), ValueSteps(pt, bare),
                   ValuesFit(pt, bare))
<1>1. PICK r, nx, go : /\ r = ValueRows(pt, action, bare)
                       /\ nx = ValueSteps(pt, bare) /\ go = ValuesFit(pt, bare)
  OBVIOUS
<1>2. ASSUME NEW at \in Nat
      PROVE  /\ r[at] = ValueRow(pt, action, at, bare)
             /\ nx[at] = ValueRead(pt, at, bare).next /\ nx[at] \in Nat
             /\ go[at] = (Fits(pt, at + 5) /\ Fits(pt, KindAt(at, bare) + 2))
  <2>1. KindAt(at, bare) + 2 \in Nat
    BY DEF KindAt
  <2>2. ValueRead(pt, at, bare).next \in Nat
    BY <2>1, NextPlace DEF ValueRead
  <2> QED
    BY <1>1, <2>2, Zenon DEF ValueRows, ValueSteps, ValuesFit, ValueFit
<1>3. ASSUME NEW f, NEW k
      PROVE  ValueBody(pt, action, bare, f, k) = WalkBody(r, nx, go, f, k)
  BY <1>2, Zenon DEF ValueBody, WalkBody
<1>4. PICK g : g = [k \in 0..255 |-> WalkBody(r, nx, go, g, k)]
  <2>1. PICK g : WalksTo(r, nx, go, 255, g)
    BY WalkExists, Zenon
  <2> QED
    BY <2>1, Zenon DEF WalksTo
<1>5. g = [k \in 0..255 |-> ValueBody(pt, action, bare, g, k)]
  BY <1>3, <1>4, ZenonT(40)
<1>6. PICK h : h = CHOOSE f : f = [k \in 0..255 |-> ValueBody(pt, action, bare, f, k)]
  OBVIOUS
<1>7. h = [k \in 0..255 |-> ValueBody(pt, action, bare, h, k)]
  BY <1>5, <1>6, ZenonT(40)
<1>8. \A k \in 0..255 : h[k] = WalkBody(r, nx, go, h, k)
  BY <1>3, <1>7
<1>9. IsWalk(r, nx, go, Follows(r), h)
  BY <1>2, <1>8, WalkIs, Zenon
<1> QED
  BY <1>1, <1>6, <1>9, UnfoldValues, Zenon DEF Decodes
-----------------------------------------------------------------------------
(* Whatever a plaintext is, a list is made of it, and not an empty one.    *)
IsList(s) == s # <<>> /\ s \in Seq({s[i] : i \in DOMAIN s})

LEMMA OwnElements ==
    ASSUME NEW S, NEW s \in Seq(S), s # <<>>
    PROVE  IsList(s)
<1>1. PICK T : T = {s[i] : i \in DOMAIN s}
  OBVIOUS
<1>2. \A i \in 1..Len(s) : s[i] \in T
  BY <1>1
<1>3. s \in Seq(T)
  BY <1>2
<1> QED
  BY <1>1, <1>3 DEF IsList

LEMMA OneRow ==
    ASSUME NEW x
    PROVE  IsList(<<x>>)
<1>1. <<x>> \in Seq({x}) /\ <<x>> # <<>>
  OBVIOUS
<1> QED
  BY <1>1, OwnElements

LEMMA DecodesList ==
    ASSUME NEW pt, NEW got, NEW action, NEW r, NEW nx, NEW go,
           Decodes(pt, got, action, r, nx, go), pt[6] \in 0..255
    PROVE  IsList(got)
<1>1. PICK f : /\ IsWalk(r, nx, go, Follows(r), f)
               /\ got = OrBlank(f[pt[6]][HEADER], action)
  BY DEF Decodes
<1>2. HEADER \in Nat
  BY DEF HEADER
<1>3. PICK rows : rows = f[pt[6]][HEADER]
  OBVIOUS
<1>4. rows \in Seq(Follows(r))
  BY <1>1, <1>2, <1>3, WalkType, Zenon
<1>5. CASE rows = <<>>
  <2>1. got = <<Row(action, Blank)>>
    BY <1>1, <1>3, <1>5 DEF OrBlank
  <2> QED
    BY <2>1, OneRow
<1>6. CASE rows # <<>>
  <2>1. got = rows
    BY <1>1, <1>3, <1>6 DEF OrBlank
  <2> QED
    BY <1>4, <1>6, <2>1, OwnElements
<1> QED
  BY <1>5, <1>6

LEMMA AlwaysDecoded ==
    ASSUME NEW pt \in Seq(Bytes)
    PROVE  IsList(decode_miot_plaintext(pt))
<1>1. CASE ~Fits(pt, HEADER) \/ pt[2] # MIOT
  <2>1. decode_miot_plaintext(pt) = <<Row("unknown", Blank)>>
    BY <1>1 DEF decode_miot_plaintext
  <2> QED
    BY <2>1, OneRow
<1>2. CASE Fits(pt, HEADER) /\ pt[2] = MIOT
  <2>1. pt[6] \in 0..255
    <3>1. 6 \in 1..Len(pt)
      BY <1>2, LenProperties DEF Fits, HEADER
    <3>2. pt[6] \in Bytes
      BY <3>1, ElementOfSeq
    <3> QED
      BY <3>2, Zenon DEF Bytes
  <2>2. PICK got : got = decode_miot_plaintext(pt)
    OBVIOUS
  <2>3. \/ got = _decode_get_request(pt)
        \/ got = _decode_property_values(pt, "get_response", FALSE)
        \/ got = _decode_property_values(pt, "set_request", TRUE)
        \/ got = _decode_set_response(pt)
        \/ got = _decode_property_values(pt, "notify", TRUE)
        \/ got = <<Row("unknown", Blank)>>
    <3>1. PICK a, b, c, d, e, u :
            /\ a = _decode_get_request(pt) /\ d = _decode_set_response(pt)
            /\ b = _decode_property_values(pt, "get_response", FALSE)
            /\ c = _decode_property_values(pt, "set_request", TRUE)
            /\ e = _decode_property_values(pt, "notify", TRUE)
            /\ u = <<Row("unknown", Blank)>>
      OBVIOUS
    <3>2. got = CASE pt[1] = GET -> a
                  [] pt[1] \in RESPONSES -> b
                  [] pt[1] = SET_REQUEST -> c
                  [] pt[1] = SET_RESPONSE -> d
                  [] pt[1] = NOTIFY -> e
                  [] OTHER -> u
      BY <1>2, <2>2, <3>1, Zenon DEF decode_miot_plaintext
    <3>3. got = a \/ got = b \/ got = c \/ got = d \/ got = e \/ got = u
      BY <3>2
    <3> QED
      BY <3>1, <3>3, Zenon
  <2>4. IsList(_decode_get_request(pt))
    BY <2>1, GetWalks, DecodesList
  <2>5. IsList(_decode_set_response(pt))
    BY <2>1, ResultWalks, DecodesList
  <2>6. \A action, bare : bare \in BOOLEAN =>
            IsList(_decode_property_values(pt, action, bare))
    BY <2>1, ValuesWalk, DecodesList
  <2>7. IsList(<<Row("unknown", Blank)>>)
    BY OneRow
  <2> QED
    BY <2>2, <2>3, <2>4, <2>5, <2>6, <2>7, Zenon
<1> QED
  BY <1>1, <1>2

-----------------------------------------------------------------------------
(* What the tool makes of an answer is what the charger means by it.       *)

EntriesOf(rows) == [i \in DOMAIN rows |-> rows[i].entry]
\* A way from place to place in a plaintext.
IsWay(pt, nx, go, pl) ==
    pt[6] \in 0..255 /\ pl[0] = HEADER /\ LeadsOn(nx, go, pt[6], pl)

LEMMA WayRead ==
    ASSUME NEW pt, NEW got, NEW action, NEW r, NEW nx, NEW go,
           Decodes(pt, got, action, r, nx, go), NEW pl, IsWay(pt, nx, go, pl),
           NEW e, \A i \in 1..pt[6] : r[pl[i - 1]].entry = e[i]
    PROVE  EntriesOf(got) = IF pt[6] = 0 THEN <<Blank>> ELSE [i \in 1..pt[6] |-> e[i]]
<1>1. PICK n \in 0..255 : n = pt[6]
  BY DEF IsWay
<1>2. PICK f : /\ IsWalk(r, nx, go, Follows(r), f)
               /\ got = OrBlank(f[n][HEADER], action)
  BY <1>1 DEF Decodes
<1>3. PICK rows : rows = f[n][HEADER]
  OBVIOUS
<1>4. rows = [i \in 1..n |-> r[pl[i - 1]]]
  <2>1. LeadsOn(nx, go, n, pl) /\ pl[0] = HEADER
    BY <1>1, Zenon DEF IsWay
  <2>2. f[n][pl[0]] = [i \in 1..n |-> r[pl[i - 1]]]
    BY <1>2, <2>1, WalkReads, SMT
  <2> QED
    BY <1>3, <2>1, <2>2, Zenon
<1>5. CASE n = 0
  <2>1. rows = <<>>
    BY <1>4, <1>5
  <2>2. got = <<Row(action, Blank)>>
    BY <1>2, <1>3, <2>1 DEF OrBlank
  <2>3. EntriesOf(got) = <<Blank>>
    BY <2>2 DEF EntriesOf, Row
  <2> QED
    BY <1>1, <1>5, <2>3
<1>6. CASE n # 0
  <2>1. rows # <<>>
    BY <1>4, <1>6
  <2>2. got = rows
    BY <1>2, <1>3, <2>1 DEF OrBlank
  <2>3. \A i \in 1..n : rows[i].entry = e[i]
    BY <1>1, <1>4
  <2>4. DOMAIN rows = 1..n
    BY <1>4
  <2>5. EntriesOf(got) = [i \in 1..n |-> e[i]]
    BY <2>2, <2>3, <2>4 DEF EntriesOf
  <2> QED
    BY <1>1, <1>6, <2>5
<1> QED
  BY <1>5, <1>6

LEMMA ByteNumbers ==
    \A x \in Bytes : x \in Nat
BY SMTT(30) DEF Bytes

\* What is left of a value of one byte.
LEMMA OneByteLong ==
    ASSUME NEW raw \in Seq(Bytes), Len(raw) = 1
    PROVE  raw # <<>> /\ FromLE(raw) = raw[1]
<1>1. raw = <<raw[1]>> /\ raw[1] \in Nat
  <2>1. PICK x : x = raw[1] /\ x \in Bytes
    <3>1. 1 \in 1..Len(raw)
      OBVIOUS
    <3> QED
      BY <3>1, ElementOfSeq
  <2>2. x \in Nat
    BY <2>1, ByteNumbers, Zenon
  <2>3. <<x>> \in Seq(Bytes) /\ Len(<<x>>) = 1 /\ <<x>>[1] = x
    BY <2>1, Singles
  <2>4. raw = <<x>>
    BY <2>1, <2>3, SeqEqual
  <2> QED
    BY <2>1, <2>2, <2>4
<1> QED
  BY <1>1, OneByte

LEMMA ValueDecoded ==
    ASSUME NEW pt, NEW from \in Nat, NEW e \in EntrySet,
           e.type \in DOMAIN Width, e.type # SHORT,
           Slice(pt, from, from + Len(e.raw)) = e.raw
    PROVE  LET read == _decode_value(pt, from, e.type, e.marker)
               isBool == e.type = BYTE /\ e.marker = 0
           IN /\ read.shown = IF isBool THEN "bool" ELSE "int"
              /\ read.n = IF isBool THEN Truth(e.raw) ELSE FromLE(e.raw)
              /\ read.next = from + Len(e.raw)
<1>1. PICK raw, type, marker : raw = e.raw /\ type = e.type /\ marker = e.marker
  OBVIOUS
<1>2. /\ raw \in Seq(Bytes) /\ type \in {BYTE, WORD} /\ Len(raw) = Width[type]
  BY <1>1, EntryTypes DEF Width
<1>3. CASE type = WORD
  <2>1. Len(raw) = 4
    BY <1>2, <1>3 DEF Width, WORD, BYTE, SHORT
  <2>2. Slice(pt, from, from + 4) = raw /\ type # BYTE
    BY <1>1, <1>3, <2>1 DEF WORD, BYTE
  <2>3. _decode_value(pt, from, type, marker)
        = [n |-> FromLE(raw), shown |-> "int", next |-> from + 4]
    BY <1>3, <2>2 DEF _decode_value
  <2> QED
    BY <1>1, <2>1, <2>2, <2>3
<1>4. CASE type = BYTE
  <2>1. Len(raw) = 1
    BY <1>2, <1>4 DEF Width, WORD, BYTE, SHORT
  <2>2. Slice(pt, from, from + 1) = raw /\ type # WORD
    BY <1>1, <1>4, <2>1 DEF WORD, BYTE
  <2>3. raw # <<>> /\ FromLE(raw) = raw[1]
    BY <1>2, <2>1, OneByteLong
  <2>4. _decode_value(pt, from, type, marker)
        = [n |-> IF marker = 0 THEN Truth(raw) ELSE raw[1],
           shown |-> IF marker = 0 THEN "bool" ELSE "int", next |-> from + 1]
    BY <1>4, <2>2, <2>3 DEF _decode_value
  <2> QED
    BY <1>1, <1>4, <2>1, <2>3, <2>4
<1> QED
  BY <1>2, <1>3, <1>4

LEMMA PastKind ==
    ASSUME NEW a \in Nat, NEW p \in Nat, 3 <= p, NEW to \in Nat, a + (p + 2) <= to
    PROVE  a + 5 <= to /\ (a + p) + 2 <= to
OBVIOUS

\* One entry of an answer.
LEMMA EntryDecoded ==
    ASSUME NEW b, NEW pt \in Seq(Bytes), Begins(pt, b), NEW a \in Nat, NEW op,
           op # SET_RESPONSE, NEW bare \in BOOLEAN, bare <=> ~HasStatus(op),
           NEW e \in EntrySet, e.type \in DOMAIN Width, e.type # SHORT,
           Shows(b, a, op, e), a + Size(op, e) <= Len(pt), NEW action
    PROVE  /\ ValueFit(pt, a, bare)
           /\ ValueRead(pt, a, bare).next = a + Size(op, e)
           /\ ValueRow(pt, action, a, bare).entry = Meaning(op, e)
<1>1. PICK p \in {3, 5} : p = Prefix(op) /\ KindAt(a, bare) = a + p
  BY DEF Prefix, KindAt
<1>2. PICK len \in Nat, k \in Nat : len = Len(pt) /\ k = Len(e.raw) /\ k >= 1
  <2>1. Len(e.raw) = Width[e.type] /\ e.raw \in Seq(Bytes)
    BY EntryTypes
  <2>2. Width[e.type] >= 1
    BY DEF Width, BYTE, SHORT, WORD
  <2> QED
    BY <2>1, <2>2, LenProperties
<1>3. PICK from \in Nat, to \in Nat : /\ from = a + (p + 2) /\ to = from + k
                                      /\ to = a + Size(op, e) /\ to <= len
  <2>1. Size(op, e) = p + (2 + k)
    BY <1>1, <1>2 DEF Size
  <2>2. PICK from \in Nat : from = a + (p + 2)
    OBVIOUS
  <2>3. PICK to \in Nat : to = from + k
    OBVIOUS
  <2>4. to = a + (p + (2 + k))
    BY <2>2, <2>3
  <2> QED
    BY <1>2, <2>1, <2>2, <2>3, <2>4
<1>4. ValueFit(pt, a, bare)
  <2>1. a + 5 <= to /\ (a + p) + 2 <= to
    <3>1. p \in Nat /\ 3 <= p
      OBVIOUS
    <3>2. PICK q \in Nat : q = a + (p + 2)
      OBVIOUS
    <3>3. from = q /\ to = from + k
      BY <1>3, <3>2, Zenon
    <3>4. q <= to
      BY <1>2, <3>3
    <3> QED
      BY <3>1, <3>2, <3>4, PastKind
  <2>2. a + 5 <= len /\ (a + p) + 2 <= len
    BY <1>3, <2>1
  <2> QED
    BY <1>1, <1>2, <2>2 DEF ValueFit, Fits
<1>5. /\ pt[KindAt(a, bare) + 1] = e.type /\ pt[KindAt(a, bare) + 2] = e.marker
      /\ KindAt(a, bare) + 2 = from
  <2>1. a + (Prefix(op) + 2) <= Len(pt)
    BY <1>1, <1>2, <1>3, SMTT(40)
  <2>2. /\ pt[a + (Prefix(op) + 2) - 1] = e.type
        /\ pt[a + (Prefix(op) + 2)] = e.marker
    BY <2>1, ReadType
  <2>3. /\ a + (p + 2) - 1 = (a + p) + 1 /\ a + (p + 2) = (a + p) + 2
    OBVIOUS
  <2> QED
    BY <1>1, <1>3, <2>2, <2>3, Zenon
<1>6. Slice(pt, from, from + Len(e.raw)) = e.raw
  <2>1. from = a + (Prefix(op) + 2) /\ to = from + Len(e.raw) /\ to <= Len(pt)
    BY <1>1, <1>2, <1>3
  <2>2. Slice(pt, from, to) = e.raw
    BY <2>1, ReadRaw
  <2> QED
    BY <2>1, <2>2, Zenon
<1>7. PICK read : read = ValueRead(pt, a, bare)
  OBVIOUS
<1>8. read = _decode_value(pt, from, e.type, e.marker)
  BY <1>5, <1>7, Zenon DEF ValueRead
<1>9. PICK isBool : isBool = (e.type = BYTE /\ e.marker = 0)
  OBVIOUS
<1>10. /\ read.shown = IF e.type = BYTE /\ e.marker = 0 THEN "bool" ELSE "int"
       /\ read.n = IF e.type = BYTE /\ e.marker = 0 THEN Truth(e.raw)
                   ELSE FromLE(e.raw)
       /\ read.next = from + Len(e.raw)
  BY <1>6, <1>8, ValueDecoded
<1>11. /\ \A status, shown, n : EntryAt(pt, a, status, shown, n)
                                = Entry(e.siid, e.piid, status, shown, n)
       /\ HasStatus(op) => StatusAt(pt, a) = e.status
  <2>1. a + Prefix(op) <= Len(pt)
    BY <1>1, <1>2, <1>3
  <2> QED
    BY <2>1, ReadHead
<1>12. (IF bare THEN 0 ELSE StatusAt(pt, a))
       = (IF op \in RESPONSES THEN e.status ELSE 0)
  BY <1>11 DEF HasStatus
<1>13. ValueRow(pt, action, a, bare).entry = Meaning(op, e)
  <2>1. ValueRow(pt, action, a, bare).entry
        = EntryAt(pt, a, IF bare THEN 0 ELSE StatusAt(pt, a), read.shown, read.n)
    BY <1>7 DEF ValueRow, Row
  <2> QED
    BY <1>10, <1>11, <1>12, <2>1 DEF Meaning
<1> QED
  BY <1>2, <1>3, <1>4, <1>7, <1>10, <1>13

\* All the entries an answer counts.
ValueOps == RESPONSES \cup {NOTIFY, SET_REQUEST}
WayMeans(m, pt, bare, action, pl) ==
    /\ IsWay(pt, ValueSteps(pt, bare), ValuesFit(pt, bare), pl)
    /\ \A i \in 1..m.count :
        ValueRows(pt, action, bare)[pl[i - 1]].entry = Meaning(m.op, m.entries[i])

LEMMA AnswerWay ==
    ASSUME NEW m \in AnswerSet, m.op \in ValueOps, Intact(m),
           \A i \in 1..m.count : m.entries[i].type # SHORT,
           NEW pt, pt = Plaintext(m), NEW bare \in BOOLEAN, bare <=> ~HasStatus(m.op),
           NEW action
    PROVE  /\ pt \in Seq(Bytes) /\ HEADER <= Len(pt)
           /\ pt[1] = m.op /\ pt[2] = MIOT /\ pt[6] = m.count
           /\ \E pl : WayMeans(m, pt, bare, action, pl)
<1>1. PICK b, at : IsCut(m, pt, b, at)
  BY CutAnswer
<1>2. PICK op, entries, n, k : /\ op = m.op /\ entries = m.entries
                               /\ n = Len(entries) /\ k = m.count
  OBVIOUS
<1>3. /\ pt \in Seq(Bytes) /\ Begins(pt, b) /\ HEADER <= Len(pt)
      /\ pt[1] = op /\ pt[2] = MIOT /\ pt[6] = k
  BY <1>1, <1>2, AllReadable DEF IsCut
<1>4. /\ at \in [0..n -> Nat] /\ at[0] = HEADER
      /\ \A i \in 1..n : at[i] = at[i - 1] + Size(op, entries[i])
      /\ \A i \in 1..n : Shows(b, at[i - 1], op, entries[i])
  BY <1>1, <1>2 DEF IsCut, Layout
<1>5. n \in Nat /\ k \in Nat /\ k \in 0..255 /\ entries \in Seq(EntrySet)
  <2>1. entries \in Seq(EntrySet) /\ k \in Bytes
    BY <1>2, AnswerTypes
  <2>2. k \in Nat
    BY <2>1, ByteNumbers, Zenon
  <2>3. k \in 0..255
    BY <2>1, Zenon DEF Bytes
  <2> QED
    BY <1>2, <2>1, <2>2, <2>3, LenProperties, Zenon
<1>6. \A i \in 1..k : Readable(pt, entries, at, i) /\ entries[i].type # SHORT
  BY <1>1, <1>2, <1>3, AllReadable
<1>7. \A i \in 1..k : /\ i <= n /\ entries[i].type \in DOMAIN Width
                      /\ at[i] <= Len(pt)
  BY <1>2, <1>6 DEF Readable
<1>8. k <= n
  <2>1. k # 0 => k \in 1..k
    BY <1>5
  <2> QED
    BY <1>5, <1>7, <2>1
<1>9. op # SET_RESPONSE
  BY <1>2 DEF ValueOps, RESPONSES, NOTIFY, SET_REQUEST, SET_RESPONSE
<1>10. PICK nx, go, r : /\ nx = ValueSteps(pt, bare) /\ go = ValuesFit(pt, bare)
                        /\ r = ValueRows(pt, action, bare)
  OBVIOUS
<1>11. ASSUME NEW i \in 1..k
       PROVE  /\ go[at[i - 1]] /\ nx[at[i - 1]] = at[i]
              /\ r[at[i - 1]].entry = Meaning(op, entries[i])
  <2>1. i \in 1..n /\ i - 1 \in 0..n
    BY <1>5, <1>8
  <2>2. PICK a \in Nat : a = at[i - 1]
    BY <1>4, <2>1
  <2>3. PICK e \in EntrySet : e = entries[i]
    BY <1>2, <1>5, <2>1, ElementOfSeq
  <2>4. at[i] = a + Size(op, e) /\ Shows(b, a, op, e)
    BY <1>4, <2>1, <2>2, <2>3
  <2>5. e.type \in DOMAIN Width /\ e.type # SHORT /\ a + Size(op, e) <= Len(pt)
    BY <1>6, <1>7, <2>3, <2>4
  <2>6. bare <=> ~HasStatus(op)
    BY <1>2
  <2>7. /\ ValueFit(pt, a, bare) /\ ValueRead(pt, a, bare).next = a + Size(op, e)
        /\ ValueRow(pt, action, a, bare).entry = Meaning(op, e)
    BY <1>3, <1>9, <2>4, <2>5, <2>6, EntryDecoded
  <2>8. /\ go[a] = ValueFit(pt, a, bare) /\ nx[a] = ValueRead(pt, a, bare).next
        /\ r[a] = ValueRow(pt, action, a, bare)
    BY <1>10, Zenon DEF ValueSteps, ValuesFit, ValueRows
  <2> QED
    BY <2>2, <2>3, <2>4, <2>7, <2>8, Zenon
<1>12. IsWay(pt, nx, go, at)
  <2>1. \A i \in 0..k : at[i] \in Nat
    BY <1>4, <1>5, <1>8
  <2>2. LeadsOn(nx, go, k, at)
    BY <1>5, <1>11, <2>1 DEF LeadsOn
  <2> QED
    BY <1>3, <1>4, <1>5, <2>2 DEF IsWay
<1>13. \A i \in 1..m.count : r[at[i - 1]].entry = Meaning(m.op, m.entries[i])
  BY <1>2, <1>11
<1>14. WayMeans(m, pt, bare, action, at)
  BY <1>10, <1>12, <1>13, Zenon DEF WayMeans
<1> QED
  BY <1>2, <1>3, <1>14, Zenon

LEMMA AnswerPrinted ==
    ASSUME NEW m \in AnswerSet, m.op \in ValueOps, Intact(m),
           \A i \in 1..m.count : m.entries[i].type # SHORT
    PROVE  EntriesOf(decode_miot_plaintext(Plaintext(m)))
           = IF m.count = 0 THEN <<Blank>> ELSE Meant(m)
<1>1. PICK pt : pt = Plaintext(m)
  OBVIOUS
<1>0. PICK bare \in BOOLEAN : bare <=> ~HasStatus(m.op)
  OBVIOUS
<1>2. PICK action :
        /\ bare <=> ~HasStatus(m.op)
        /\ action = CASE m.op \in RESPONSES -> "get_response"
                       [] m.op = SET_REQUEST -> "set_request"
                       [] m.op = NOTIFY -> "notify"
  BY <1>0
<1>3. PICK pl : WayMeans(m, pt, bare, action, pl)
  BY <1>1, <1>2, AnswerWay
<1>4. /\ pt \in Seq(Bytes) /\ HEADER <= Len(pt)
      /\ pt[1] = m.op /\ pt[2] = MIOT /\ pt[6] = m.count
  BY <1>1, <1>2, AnswerWay
<1>5. PICK got : got = _decode_property_values(pt, action, bare)
  OBVIOUS
<1>6. decode_miot_plaintext(pt) = got
  <2>1. Fits(pt, HEADER)
    BY <1>4 DEF Fits
  <2>2. CASE m.op \in RESPONSES
    <3>1. /\ pt[1] # GET /\ ~bare /\ action = "get_response" /\ pt[1] \in RESPONSES
          /\ pt[1] # SET_REQUEST /\ pt[1] # SET_RESPONSE /\ pt[1] # NOTIFY
      BY <1>2, <1>4, <2>2 DEF GET, RESPONSES, SET_REQUEST, NOTIFY, HasStatus, SET_RESPONSE
    <3> QED
      BY <1>4, <1>5, <2>1, <2>2, <3>1 DEF decode_miot_plaintext
  <2>3. CASE m.op = SET_REQUEST
    <3>1. /\ pt[1] # GET /\ bare /\ action = "set_request"
          /\ pt[1] \notin RESPONSES /\ pt[1] # SET_RESPONSE /\ pt[1] # NOTIFY
      BY <1>2, <1>4, <2>3 DEF GET, RESPONSES, SET_REQUEST, NOTIFY, HasStatus, SET_RESPONSE
    <3> QED
      BY <1>4, <1>5, <2>1, <2>3, <3>1 DEF decode_miot_plaintext
  <2>4. CASE m.op = NOTIFY
    <3>1. /\ pt[1] # GET /\ bare /\ action = "notify"
          /\ pt[1] \notin RESPONSES /\ pt[1] # SET_REQUEST /\ pt[1] # SET_RESPONSE
      BY <1>2, <1>4, <2>4 DEF GET, RESPONSES, SET_REQUEST, NOTIFY, HasStatus, SET_RESPONSE
    <3> QED
      BY <1>4, <1>5, <2>1, <2>4, <3>1 DEF decode_miot_plaintext
  <2> QED
    BY <2>2, <2>3, <2>4 DEF ValueOps
<1>7. PICK e : e = [i \in 1..pt[6] |-> Meaning(m.op, m.entries[i])]
  OBVIOUS
<1>8. EntriesOf(got) = IF pt[6] = 0 THEN <<Blank>> ELSE [i \in 1..pt[6] |-> e[i]]
  <2>1. Decodes(pt, got, action, ValueRows(pt, action, bare), ValueSteps(pt, bare),
                ValuesFit(pt, bare))
    BY <1>4, <1>5, ValuesWalk
  <2>2. \A i \in 1..pt[6] : ValueRows(pt, action, bare)[pl[i - 1]].entry = e[i]
    BY <1>3, <1>4, <1>7 DEF WayMeans
  <2>3. IsWay(pt, ValueSteps(pt, bare), ValuesFit(pt, bare), pl)
    BY <1>3, Zenon DEF WayMeans
  <2> QED
    BY <2>1, <2>2, <2>3, WayRead
<1>9. [i \in 1..pt[6] |-> e[i]] = Meant(m)
  BY <1>4, <1>7 DEF Meant
<1> QED
  BY <1>1, <1>4, <1>6, <1>8, <1>9

-----------------------------------------------------------------------------
(* A write is laid out like an answer with the one entry.                  *)

WriteSet == {r \in RequestSet : r.is = "set"}
WriteRaw(w) == CASE w.kind = "bool" -> <<w.n>>
                 [] w.kind = "u32" -> ToLE(w.n, 4)
                 [] w.kind = "u8" -> <<w.n % 256>>
WriteEntry(w) ==
    [siid |-> w.key.siid, piid |-> w.key.piid, status |-> 0,
     type |-> IF w.kind = "u32" THEN WORD ELSE BYTE,
     marker |-> CASE w.kind = "bool" -> 0 [] w.kind = "u32" -> 80
                  [] w.kind = "u8" -> 16,
     raw |-> WriteRaw(w)]
WriteAnswer(w) ==
    [is |-> "answer", op |-> SET_REQUEST, flag |-> 0, count |-> 1,
     entries |-> <<WriteEntry(w)>>, cut |-> 0]

LEMMA WriteTypes ==
    ASSUME NEW w \in WriteSet
    PROVE  /\ w.is = "set" /\ w.key.siid \in Bytes /\ w.key.piid \in Words
           /\ w.kind \in {"bool", "u8", "u32"} /\ w.n \in Nat
           /\ w.kind = "bool" => w.n \in {0, 1}
           /\ w.kind = "u8" => w.n \in Bytes
           /\ w.kind = "u32" => w.n \div (256 * 256) \in Words
<1>1. w.is = "set" /\ w \in RequestSet
  BY DEF WriteSet
<1>2. w \in [is : {"set"}, key : KeySet, kind : {"bool", "u8", "u32"}, n : Nat]
      /\ (w.kind = "bool" => w.n \in {0, 1}) /\ (w.kind = "u8" => w.n \in Bytes)
      /\ (w.kind = "u32" => w.n \div (256 * 256) \in Words)
  BY <1>1, Zenon DEF RequestSet
<1>3. w.key \in KeySet /\ w.kind \in {"bool", "u8", "u32"} /\ w.n \in Nat
  BY <1>2
<1>4. w.key.siid \in Bytes /\ w.key.piid \in Words
  BY <1>3 DEF KeySet
<1> QED
  BY <1>1, <1>2, <1>3, <1>4

LEMMA SmallBytes ==
    /\ 0 \in Bytes /\ 1 \in Bytes /\ 16 \in Bytes /\ 80 \in Bytes /\ 0 \in Words
    /\ BYTE \in Bytes /\ WORD \in Bytes /\ SET_REQUEST \in Bytes
    /\ BYTE # WORD /\ BYTE # SHORT /\ WORD # SHORT
    /\ Width[BYTE] = 1 /\ Width[WORD] = 4
    /\ BYTE \in DOMAIN Width /\ WORD \in DOMAIN Width
BY SMTT(30) DEF Bytes, Words, BYTE, WORD, SHORT, SET_REQUEST, Width

LEMMA PairAndOne ==
    ASSUME NEW a, NEW b, NEW c
    PROVE  <<a, b>> \o <<c>> = <<a, b, c>>
<1>1. PICK S : S = {a, b, c}
  OBVIOUS
<1>2. <<a, b>> \in Seq(S) /\ c \in S
  BY <1>1
<1>3. Append(<<a, b>>, c) = <<a, b>> \o <<c>>
  BY <1>2, AppendIsConcat
<1>4. Append(<<a, b>>, c) = <<a, b, c>>
  <2>1. PICK u, v, p : u = Append(p, c) /\ v = <<a, b, c>> /\ p = <<a, b>>
    OBVIOUS
  <2>2. p \in Seq(S) /\ Len(p) = 2 /\ p[1] = a /\ p[2] = b
    BY <1>1, <2>1
  <2>3. /\ u \in Seq(S) /\ Len(u) = 3 /\ u[1] = a /\ u[2] = b /\ u[3] = c
    BY <1>2, <2>1, <2>2
  <2>4. v \in Seq(S) /\ Len(v) = 3 /\ v[1] = a /\ v[2] = b /\ v[3] = c
    BY <1>1, <2>1
  <2>5. \A i \in 1..3 : u[i] = v[i]
    <3>1. \A i \in 1..3 : i = 1 \/ i = 2 \/ i = 3
      OBVIOUS
    <3> QED
      BY <2>3, <2>4, <3>1, Zenon
  <2> QED
    BY <2>1, <2>3, <2>4, <2>5, SeqEqual
<1> QED
  BY <1>3, <1>4

\* The value of a write, and what it says.
LEMMA WriteValue ==
    ASSUME NEW w \in WriteSet
    PROVE  /\ WriteRaw(w) \in Seq(Bytes)
           /\ Len(WriteRaw(w)) = Width[WriteEntry(w).type]
           /\ EncodedValue(w.kind, w.n)
              = <<WriteEntry(w).type, WriteEntry(w).marker>> \o WriteRaw(w)
           /\ FromLE(WriteRaw(w)) = w.n
           /\ w.kind = "bool" <=> (WriteEntry(w).type = BYTE /\ WriteEntry(w).marker = 0)
           /\ w.kind = "bool" => Truth(WriteRaw(w)) = w.n
<1>1. PICK n \in Nat, kind \in {"bool", "u8", "u32"} :
        /\ n = w.n /\ kind = w.kind
        /\ kind = "bool" => n \in {0, 1}
        /\ kind = "u8" => n \in Bytes
        /\ kind = "u32" => n \div (256 * 256) \in Words
  BY WriteTypes
<1>2. PICK e, raw : e = WriteEntry(w) /\ raw = WriteRaw(w)
  OBVIOUS
<1>3. CASE kind = "bool"
  <2>1. raw = <<n>> /\ e.type = BYTE /\ e.marker = 0
    BY <1>1, <1>2, <1>3 DEF WriteRaw, WriteEntry
  <2>2. n \in Bytes
    BY <1>1, <1>3, SmallBytes
  <2>3. raw \in Seq(Bytes) /\ Len(raw) = 1
    BY <2>1, <2>2, Singles
  <2>4. FromLE(raw) = n
    BY <2>1, OneByte
  <2>5. EncodedValue(kind, n) = <<BYTE, 0, n>>
    BY <1>3 DEF EncodedValue
  <2>6. EncodedValue(kind, n) = <<e.type, e.marker>> \o raw
    BY <2>1, <2>5, PairAndOne
  <2>7. Truth(raw) = n
    BY <1>1, <1>3, <2>4 DEF Truth
  <2>8. Len(raw) = Width[e.type]
    BY <2>1, <2>3, SmallBytes
  <2> QED
    BY <1>1, <1>2, <1>3, <2>1, <2>3, <2>4, <2>6, <2>7, <2>8
<1>4. CASE kind = "u8"
  <2>1. raw = <<n % 256>> /\ n % 256 = n
    BY <1>1, <1>2, <1>4, PlaceValues DEF WriteRaw
  <2>2. e.type = BYTE /\ e.marker = 16
    BY <1>1, <1>2, <1>4 DEF WriteEntry
  <2>3. raw \in Seq(Bytes) /\ Len(raw) = 1
    BY <1>1, <1>4, <2>1, Singles
  <2>4. FromLE(raw) = n
    BY <2>1, OneByte
  <2>5. EncodedValue(kind, n) = <<BYTE, 16, n>>
    BY <1>4, <2>1 DEF EncodedValue
  <2>6. EncodedValue(kind, n) = <<e.type, e.marker>> \o raw
    BY <2>1, <2>2, <2>5, PairAndOne
  <2>7. Len(raw) = Width[e.type]
    BY <2>2, <2>3, SmallBytes
  <2>8. kind # "bool" /\ e.marker # 0
    BY <1>4, <2>2
  <2> QED
    BY <1>1, <1>2, <2>3, <2>4, <2>6, <2>7, <2>8
<1>5. CASE kind = "u32"
  <2>1. raw = ToLE(n, 4) /\ e.type = WORD /\ e.marker = 80
    BY <1>1, <1>2, <1>5 DEF WriteRaw, WriteEntry
  <2>2. raw \in Seq(Bytes) /\ Len(raw) = 4 /\ FromLE(raw) = n
    BY <1>1, <1>5, <2>1, Quarters
  <2>3. EncodedValue(kind, n) = <<e.type, e.marker>> \o raw
    BY <1>5, <2>1 DEF EncodedValue
  <2>4. Len(raw) = Width[e.type] /\ e.type # BYTE
    BY <2>1, <2>2, SmallBytes
  <2> QED
    BY <1>1, <1>2, <1>5, <2>2, <2>3, <2>4
<1> QED
  BY <1>1, <1>3, <1>4, <1>5

LEMMA WriteAnswers ==
    ASSUME NEW w \in WriteSet
    PROVE  /\ WriteEntry(w) \in EntrySet /\ WriteAnswer(w) \in AnswerSet
           /\ WriteEntry(w).type \in DOMAIN Width /\ WriteEntry(w).type # SHORT
           /\ Meaning(SET_REQUEST, WriteEntry(w))
              = Entry(w.key.siid, w.key.piid, 0,
                      IF w.kind = "bool" THEN "bool" ELSE "int", w.n)
<1>1. PICK e, raw : e = WriteEntry(w) /\ raw = WriteRaw(w)
  OBVIOUS
<1>2. /\ raw \in Seq(Bytes) /\ Len(raw) = Width[e.type] /\ FromLE(raw) = w.n
      /\ w.kind = "bool" <=> (e.type = BYTE /\ e.marker = 0)
      /\ w.kind = "bool" => Truth(raw) = w.n
  BY <1>1, WriteValue
<1>3. /\ e.siid = w.key.siid /\ e.piid = w.key.piid /\ e.status = 0 /\ e.raw = raw
      /\ e.type \in {BYTE, WORD} /\ e.marker \in {0, 16, 80}
      /\ e = [siid |-> e.siid, piid |-> e.piid, status |-> e.status, type |-> e.type,
              marker |-> e.marker, raw |-> e.raw]
  BY <1>1, WriteTypes DEF WriteEntry
<1>4. e \in [siid : Bytes, piid : Words, status : Words, type : Bytes,
             marker : Bytes, raw : Seq(Bytes)]
  <2>1. /\ e.siid \in Bytes /\ e.piid \in Words /\ e.status \in Words
        /\ e.type \in Bytes /\ e.marker \in Bytes /\ e.raw \in Seq(Bytes)
    BY <1>2, <1>3, WriteTypes, SmallBytes
  <2> QED
    BY <1>3, <2>1
<1>5. e \in EntrySet
  BY <1>2, <1>3, <1>4, Zenon DEF EntrySet
<1>6. WriteAnswer(w) \in AnswerSet
  <2>1. <<e>> \in Seq(EntrySet)
    BY <1>5, Singles
  <2>2. 0 \in Bytes /\ 1 \in Bytes /\ SET_REQUEST \in Bytes /\ 0 \in Nat
    BY SmallBytes
  <2> QED
    BY <1>1, <2>1, <2>2 DEF WriteAnswer, AnswerSet
<1>7. Meaning(SET_REQUEST, e)
      = Entry(w.key.siid, w.key.piid, 0,
              IF w.kind = "bool" THEN "bool" ELSE "int", w.n)
  <2>1. SET_REQUEST \notin RESPONSES
    BY DEF SET_REQUEST, RESPONSES
  <2> QED
    BY <1>2, <1>3, <2>1 DEF Meaning
<1>8. e.type \in DOMAIN Width /\ e.type # SHORT
  BY <1>3, SmallBytes
<1> QED
  BY <1>1, <1>5, <1>6, <1>7, <1>8

LEMMA FlattenOne ==
    ASSUME NEW S, NEW x \in Seq(S)
    PROVE  FlattenSeq(<<x>>) = x
<1>1. <<>> \in Seq(Seq(S)) /\ Append(<<>>, x) = <<x>>
  OBVIOUS
<1>2. FlattenSeq(Append(<<>>, x)) = FlattenSeq(<<>>) \o x
  BY <1>1, FlattenMore
<1>3. <<>> \o x = x
  BY ConcatEmptySeq
<1> QED
  BY <1>1, <1>2, <1>3, FlattenNothing

LEMMA HeaderForm ==
    ASSUME NEW op \in Bytes, NEW flag \in Bytes, NEW count \in Bytes
    PROVE  /\ Header(op, flag, count) \in Seq(Bytes)
           /\ Len(Header(op, flag, count)) = 6 /\ HEADER = 6
           /\ Header(op, flag, count)[1] = op /\ Header(op, flag, count)[2] = MIOT
           /\ Header(op, flag, count)[6] = count
BY DEF Header, HEADER, MIOT, Bytes

\* The bytes of both are the same.
LEMMA WriteLayout ==
    ASSUME NEW w \in WriteSet
    PROVE  Plaintext(w) = Plaintext(WriteAnswer(w))
<1>1. PICK e, m : e = WriteEntry(w) /\ m = WriteAnswer(w)
  OBVIOUS
<1>2. /\ m.is = "answer" /\ m.op = SET_REQUEST /\ m.flag = 0 /\ m.count = 1
      /\ m.entries = <<e>> /\ m.cut = 0
  BY <1>1 DEF WriteAnswer
<1>3. PICK h, s, t, v : /\ h = Header(SET_REQUEST, 0, 1) /\ s = <<w.key.siid>>
                        /\ t = ToLE(w.key.piid, 2) /\ v = EncodedValue(w.kind, w.n)
  OBVIOUS
<1>4. h \in Seq(Bytes) /\ s \in Seq(Bytes) /\ t \in Seq(Bytes) /\ v \in Seq(Bytes)
  <2>1. h \in Seq(Bytes)
    BY <1>3, SmallBytes, HeaderForm
  <2>2. s \in Seq(Bytes) /\ t \in Seq(Bytes)
    BY <1>3, WriteTypes, Singles, LittleEndian
  <2>3. PICK p, raw : p = <<e.type, e.marker>> /\ raw = WriteRaw(w)
    OBVIOUS
  <2>4. p \in Seq(Bytes)
    <3>1. e.type \in Bytes /\ e.marker \in Bytes
      BY <1>1, WriteAnswers, EntryTypes
    <3> QED
      BY <2>3, <3>1, Pairs
  <2>5. raw \in Seq(Bytes) /\ v = p \o raw
    BY <1>1, <1>3, <2>3, WriteValue
  <2>6. v \in Seq(Bytes)
    BY <2>4, <2>5, ConcatProperties
  <2> QED
    BY <2>1, <2>2, <2>6
<1>5. Plaintext(w) = ((h \o s) \o t) \o v
  BY <1>3, WriteTypes DEF Plaintext, encode_set_property
<1>6. EntryBytes(SET_REQUEST, e) = (s \o t) \o v
  <2>1. SET_REQUEST \notin RESPONSES \cup {SET_RESPONSE} /\ SET_REQUEST # SET_RESPONSE
    BY DEF SET_REQUEST, RESPONSES, SET_RESPONSE
  <2>2. e.siid = w.key.siid /\ e.piid = w.key.piid /\ e.raw = WriteRaw(w)
    BY <1>1 DEF WriteEntry
  <2>3. v = <<e.type, e.marker>> \o e.raw
    BY <1>1, <1>3, <2>2, WriteValue
  <2>4. s \o t \in Seq(Bytes) /\ (s \o t) \o <<>> = s \o t
    <3>1. s \o t \in Seq(Bytes)
      BY <1>4, ConcatProperties
    <3> QED
      BY <3>1, ConcatEmptySeq
  <2>5. EntryBytes(SET_REQUEST, e)
        = ((s \o t) \o <<>>) \o (<<e.type, e.marker>> \o e.raw)
    BY <1>3, <2>1, <2>2 DEF EntryBytes
  <2> QED
    BY <2>3, <2>4, <2>5, Zenon
<1>7. PICK x : x = (s \o t) \o v /\ x \in Seq(Bytes)
  <2>1. s \o t \in Seq(Bytes)
    BY <1>4, ConcatProperties
  <2>2. (s \o t) \o v \in Seq(Bytes)
    BY <1>4, <2>1, ConcatProperties
  <2> QED
    BY <2>2
<1>8. Whole(m) = h \o x
  <2>1. PICK one : one = <<e>>
    OBVIOUS
  <2>2. DOMAIN one = {1} /\ one[1] = e
    BY <2>1
  <2>3. [i \in DOMAIN one |-> EntryBytes(SET_REQUEST, one[i])] = <<x>>
    <3>1. \A i \in DOMAIN one : EntryBytes(SET_REQUEST, one[i]) = x
      BY <1>6, <1>7, <2>2
    <3>2. <<x>> = [i \in {1} |-> x]
      BY SMT
    <3> QED
      BY <2>2, <3>1, <3>2
  <2>4. FlattenSeq(<<x>>) = x
    BY <1>7, FlattenOne
  <2> QED
    BY <1>2, <1>3, <2>1, <2>3, <2>4, Zenon DEF Whole
<1>9. h \o x \in Seq(Bytes)
  BY <1>4, <1>7, ConcatProperties
<1>10. Plaintext(m) = h \o x
  <2>1. PICK y : y = h \o x /\ y \in Seq(Bytes)
    BY <1>9
  <2>2. Plaintext(m) = SubSeq(y, 1, Len(y) - 0)
    BY <1>2, <1>8, <2>1, Zenon DEF Plaintext
  <2>3. SubSeq(y, 1, Len(y)) = y /\ Len(y) - 0 = Len(y)
    BY <2>1
  <2> QED
    BY <2>1, <2>2, <2>3, Zenon
<1>11. ((h \o s) \o t) \o v = h \o x
  <2>1. PICK st : st = s \o t /\ st \in Seq(Bytes)
    BY <1>4, ConcatProperties
  <2>2. (h \o s) \o t = h \o st
    <3>1. ThreeLists(Bytes, h, s, t)
      BY <1>4 DEF ThreeLists
    <3> QED
      BY <2>1, <3>1, Regroup, SMT
  <2>3. (h \o st) \o v = h \o (st \o v)
    <3>1. ThreeLists(Bytes, h, st, v)
      BY <1>4, <2>1 DEF ThreeLists
    <3> QED
      BY <3>1, Regroup, SMT
  <2> QED
    BY <1>7, <2>1, <2>2, <2>3, Zenon
<1> QED
  BY <1>1, <1>5, <1>10, <1>11, Zenon

LEMMA WritePrinted ==
    ASSUME NEW w \in WriteSet
    PROVE  /\ Plaintext(w) \in Seq(Bytes)
           /\ EntriesOf(decode_miot_plaintext(Plaintext(w)))
              = <<Entry(w.key.siid, w.key.piid, 0,
                        IF w.kind = "bool" THEN "bool" ELSE "int", w.n)>>
<1>1. PICK m, e : m = WriteAnswer(w) /\ e = WriteEntry(w)
  OBVIOUS
<1>2. /\ m.is = "answer" /\ m.op = SET_REQUEST /\ m.flag = 0 /\ m.count = 1
      /\ m.entries = <<e>> /\ m.cut = 0
  BY <1>1 DEF WriteAnswer
<1>3. m \in AnswerSet /\ e \in EntrySet /\ e.type \in DOMAIN Width /\ e.type # SHORT
  BY <1>1, WriteAnswers
<1>4. Intact(m)
  <2>1. PICK b : b = Whole(m) /\ b \in Seq(Bytes)
    BY <1>3, AnswerLayout
  <2>2. Plaintext(m) = b
    <3>1. Plaintext(m) = SubSeq(b, 1, Len(b) - 0)
      BY <1>2, <2>1, Zenon DEF Plaintext
    <3> QED
      BY <2>1, <3>1
  <2>3. Counted(m) = b
    <3>1. SubSeq(<<e>>, 1, 1) = <<e>>
      <4>1. PICK one : one = <<e>>
        OBVIOUS
      <4>2. one \in Seq({e}) /\ Len(one) = 1
        BY <4>1
      <4>3. SubSeq(one, 1, 1) = one
        BY <4>2
      <4> QED
        BY <4>1, <4>3
    <3>2. [m EXCEPT !.entries = SubSeq(@, 1, m.count)] = m
      <4>1. [m EXCEPT !.entries = m.entries] = m
        BY <1>3 DEF AnswerSet
      <4> QED
        BY <1>2, <3>1, <4>1
    <3> QED
      BY <2>1, <3>2 DEF Counted
  <2>4. Len(b) \in Nat
    BY <2>1, LenProperties
  <2>5. m.count <= Len(m.entries) /\ \A i \in 1..m.count : m.entries[i].type \in DOMAIN Width
    BY <1>2, <1>3
  <2> QED
    BY <2>2, <2>3, <2>4, <2>5 DEF Intact
<1>5. m.op \in ValueOps /\ \A i \in 1..m.count : m.entries[i].type # SHORT
  BY <1>2, <1>3 DEF ValueOps
<1>6. EntriesOf(decode_miot_plaintext(Plaintext(m))) = Meant(m)
  <2>1. m.count # 0
    BY <1>2
  <2> QED
    BY <1>3, <1>4, <1>5, <2>1, AnswerPrinted
<1>7. Meant(m) = <<Meaning(SET_REQUEST, e)>>
  <2>1. \A i \in 1..1 : m.entries[i] = e
    BY <1>2
  <2> QED
    BY <1>2, <2>1 DEF Meant
<1>8. Plaintext(m) \in Seq(Bytes)
  BY <1>3, CutAnswer DEF IsCut
<1>9. Plaintext(w) = Plaintext(m)
  BY <1>1, WriteLayout
<1>10. Meaning(SET_REQUEST, e)
       = Entry(w.key.siid, w.key.piid, 0,
               IF w.kind = "bool" THEN "bool" ELSE "int", w.n)
  BY <1>1, WriteAnswers
<1> QED
  BY <1>6, <1>7, <1>8, <1>9, <1>10, Zenon

-----------------------------------------------------------------------------
(* A request to read, key by key.                                          *)

ReadSet == {r \in RequestSet : r.is = "get"}
KeyBytes(key) == <<key.siid>> \o ToLE(key.piid, 2)

LEMMA ReadTypes ==
    ASSUME NEW g \in ReadSet
    PROVE  g.is = "get" /\ g.keys \in Seq(KeySet) /\ Len(g.keys) <= 255
<1>1. g.is = "get" /\ g \in RequestSet
  BY DEF ReadSet
<1>2. g \in [is : {"get"}, keys : Seq(KeySet)] /\ Len(g.keys) <= 255
  BY <1>1, Zenon DEF RequestSet
<1> QED
  BY <1>1, <1>2

LEMMA KeyForm ==
    ASSUME NEW key \in KeySet
    PROVE  /\ KeyBytes(key) \in Seq(Bytes) /\ Len(KeyBytes(key)) = 3
           /\ KeyBytes(key)[1] = key.siid
           /\ KeyBytes(key)[2] = ToLE(key.piid, 2)[1]
           /\ KeyBytes(key)[3] = ToLE(key.piid, 2)[2]
<1>1. key.siid \in Bytes /\ key.piid \in Words
  BY DEF KeySet
<1>2. PICK s : s = <<key.siid>> /\ s \in Seq(Bytes) /\ Len(s) = 1 /\ s[1] = key.siid
  BY <1>1, Singles
<1>3. PICK t : t = ToLE(key.piid, 2) /\ t \in Seq(Bytes) /\ Len(t) = 2
  BY <1>1, LittleEndian
<1>4. PICK x : x = s \o t
  OBVIOUS
<1>5. /\ x \in Seq(Bytes) /\ Len(x) = Len(s) + Len(t)
      /\ \A j \in 1..Len(s) : x[j] = s[j]
      /\ \A j \in 1..Len(t) : x[Len(s) + j] = t[j]
  BY <1>2, <1>3, <1>4, Concatenated
<1>6. x[1] = s[1] /\ x[1 + 1] = t[1] /\ x[1 + 2] = t[2] /\ Len(x) = 3
  BY <1>2, <1>3, <1>5
<1> QED
  BY <1>2, <1>3, <1>4, <1>5, <1>6 DEF KeyBytes

KeysWritten(keys) == [i \in DOMAIN keys |-> KeyBytes(keys[i])]

KeysJoined(keys, n, F) ==
    /\ keys \in Seq(KeySet) /\ n = Len(keys)
    /\ Joins(KeysWritten(keys), n, F, Bytes)
KeysPlaced(keys, n, F) ==
    /\ \A i \in 0..n : F[i] \in Seq(Bytes) /\ Len(F[i]) = 3 * i
    /\ \A i \in 1..n : \A j \in 1..3 :
        F[n][3 * (i - 1) + j] = KeyBytes(keys[i])[j]

LEMMA KeyPlaces ==
    ASSUME NEW keys, NEW n, NEW F, KeysJoined(keys, n, F)
    PROVE  KeysPlaced(keys, n, F)
<1>10. /\ keys \in Seq(KeySet) /\ n = Len(keys)
       /\ Joins(KeysWritten(keys), n, F, Bytes)
  BY DEF KeysJoined
<1>0. n \in Nat
  BY <1>10, LenProperties
<1>1. PICK w : w = KeysWritten(keys)
  OBVIOUS
<1>2. \A i \in 1..n : keys[i] \in KeySet /\ w[i] = KeyBytes(keys[i])
  BY <1>10, <1>1, ElementOfSeq DEF KeysWritten
<1>3. \A i \in 1..n : w[i] \in Seq(Bytes) /\ Len(w[i]) = 3
  BY <1>2, KeyForm
<1>4. /\ \A i \in 0..n : F[i] \in Seq(Bytes) /\ Len(F[i]) \in Nat
      /\ F[0] = <<>>
      /\ \A i \in 1..n : F[i] = F[i - 1] \o w[i]
  BY <1>10, <1>1, LenProperties DEF Joins
<1> DEFINE P == {i \in Nat : i <= n => Len(F[i]) = 3 * i}
<1>5. 0 \in P
  BY <1>4
<1>6. ASSUME NEW i \in Nat, i \in P
      PROVE  i + 1 \in P
  <2>1. ASSUME i + 1 <= n
        PROVE  Len(F[i + 1]) = 3 * (i + 1)
    <3>1. i <= n /\ i \in 0..n /\ i + 1 \in 1..n /\ (i + 1) - 1 = i
      BY <1>0, <2>1
    <3>2. PICK f, x : f = F[i] /\ x = w[i + 1]
      OBVIOUS
    <3>3. f \in Seq(Bytes) /\ x \in Seq(Bytes) /\ Len(x) = 3 /\ Len(f) = 3 * i
      BY <1>3, <1>4, <1>6, <3>1, <3>2
    <3>4. Len(f \o x) = 3 * i + 3
      <4>1. Len(f \o x) = Len(f) + Len(x)
        BY <3>3, Concatenated
      <4> QED
        BY <3>3, <4>1
    <3>5. F[i + 1] = f \o x
      BY <1>4, <3>1, <3>2
    <3> QED
      BY <3>4, <3>5
  <2> QED
    BY <2>1
<1>7. \A i \in Nat : i \in P
  <2> HIDE DEF P
  <2> QED
    BY <1>5, <1>6, Induction
<1>8. \A i \in 0..n : Len(F[i]) = 3 * i
  BY <1>0, <1>7
<1>9. ASSUME NEW i \in 1..n, NEW j \in 1..3
      PROVE  F[n][3 * (i - 1) + j] = KeyBytes(keys[i])[j]
  <2>1. i - 1 \in 0..n /\ i \in 0..n /\ n \in i..n
    BY <1>0
  <2>2. PICK f, g, x : f = F[i - 1] /\ g = F[i] /\ x = w[i]
    OBVIOUS
  <2>3. /\ f \in Seq(Bytes) /\ x \in Seq(Bytes) /\ g = f \o x /\ Len(x) = 3
        /\ Len(f) = 3 * (i - 1) /\ Len(g) = 3 * i
    BY <1>3, <1>4, <1>8, <2>1, <2>2
  <2>4. \A q \in 1..Len(x) : g[Len(f) + q] = x[q]
    BY <2>3, Concatenated
  <2>5. g[3 * (i - 1) + j] = x[j]
    BY <2>3, <2>4
  <2>6. \A k \in i..n : Begins(F[i], F[k])
    BY <1>0, <1>10, <1>1, <1>3, <2>1, JoinsGrow
  <2>7. \A q \in 1..Len(g) : F[n][q] = g[q]
    BY <2>1, <2>2, <2>6 DEF Begins
  <2>8. 3 * (i - 1) + j \in 1..3 * i
    BY <1>0
  <2>9. 3 * (i - 1) + j \in 1..Len(g)
    BY <2>3, <2>8
  <2>10. F[n][3 * (i - 1) + j] = g[3 * (i - 1) + j]
    BY <2>7, <2>9
  <2> QED
    BY <1>2, <2>2, <2>5, <2>10
<1> QED
  BY <1>4, <1>8, <1>9 DEF KeysPlaced

\* The plaintext of a request, key by key.
KeysAt(g, pt) ==
    /\ pt \in Seq(Bytes) /\ Len(pt) = 6 + 3 * Len(g.keys) /\ HEADER = 6
    /\ pt[1] = GET /\ pt[2] = MIOT /\ pt[6] = Len(g.keys)
    /\ \A i \in 1..Len(g.keys) : \A j \in 1..3 :
        pt[6 + 3 * (i - 1) + j] = KeyBytes(g.keys[i])[j]

LEMMA ReadLayout ==
    ASSUME NEW g \in ReadSet
    PROVE  KeysAt(g, Plaintext(g))
<1>1. PICK keys, n : keys = g.keys /\ n = Len(keys)
  OBVIOUS
<1>2. keys \in Seq(KeySet) /\ n \in Nat /\ n <= 255 /\ g.is = "get"
  BY <1>1, ReadTypes
<1>3. PICK w : w = KeysWritten(keys)
  OBVIOUS
<1>4. w \in Seq(Seq(Bytes)) /\ Len(w) = n
  <2>1. \A i \in 1..n : keys[i] \in KeySet
    BY <1>1, <1>2, ElementOfSeq
  <2>2. \A i \in 1..n : KeyBytes(keys[i]) \in Seq(Bytes)
    BY <2>1, KeyForm
  <2>3. DOMAIN keys = 1..n
    BY <1>1, <1>2
  <2>4. PICK T : T = Seq(Bytes)
    OBVIOUS
  <2>5. w = [i \in 1..n |-> KeyBytes(keys[i])]
    BY <1>3, <2>3 DEF KeysWritten
  <2>6. w \in Seq(T) /\ Len(w) = n
    BY <1>2, <2>2, <2>4, <2>5
  <2> QED
    BY <2>4, <2>6
<1>5. PICK F : Joins(w, n, F, Bytes) /\ F[n] = FlattenSeq(w)
  BY <1>4, FlattenJoins
<1>6. /\ n \in 0..n /\ F[n] \in Seq(Bytes) /\ Len(F[n]) = 3 * n
      /\ \A i \in 1..n : \A j \in 1..3 : F[n][3 * (i - 1) + j] = KeyBytes(keys[i])[j]
  <2>1. n \in 0..n
    BY <1>2
  <2>2. Joins(KeysWritten(keys), n, F, Bytes)
    BY <1>3, <1>5
  <2>3. n = Len(keys) /\ keys \in Seq(KeySet)
    BY <1>1, <1>2
  <2>4. KeysPlaced(keys, n, F)
    BY <2>2, <2>3, KeyPlaces DEF KeysJoined
  <2> QED
    BY <2>1, <2>4 DEF KeysPlaced
<1>7. PICK h, x : h = Header(GET, 2, n) /\ x = F[n]
  OBVIOUS
<1>8. n \in Bytes
  BY <1>2 DEF Bytes
<1>9. /\ h \in Seq(Bytes) /\ Len(h) = 6 /\ HEADER = 6
      /\ h[1] = GET /\ h[2] = MIOT /\ h[6] = n
  <2>1. GET \in Bytes /\ 2 \in Bytes
    BY DEF GET, Bytes
  <2> QED
    BY <1>7, <1>8, <2>1, HeaderForm
<1>10. PICK pt : pt = h \o x
  OBVIOUS
<1>11. Plaintext(g) = pt
  BY <1>1, <1>2, <1>3, <1>5, <1>7, <1>10
     DEF Plaintext, encode_get_properties, KeysWritten, KeyBytes
<1>12. /\ pt \in Seq(Bytes) /\ Len(pt) = Len(h) + Len(x)
       /\ \A j \in 1..Len(h) : pt[j] = h[j]
       /\ \A j \in 1..Len(x) : pt[Len(h) + j] = x[j]
  BY <1>6, <1>7, <1>9, <1>10, Concatenated
<1>13. pt[1] = GET /\ pt[2] = MIOT /\ pt[6] = n
  BY <1>9, <1>12
<1>14. ASSUME NEW i \in 1..n, NEW j \in 1..3
       PROVE  pt[6 + 3 * (i - 1) + j] = KeyBytes(keys[i])[j]
  <2>1. PICK p \in Nat : p = 3 * (i - 1) + j
    OBVIOUS
  <2>2. p \in 1..3 * n /\ 6 + 3 * (i - 1) + j = 6 + p
    BY <1>2, <2>1
  <2>3. pt[6 + p] = x[p]
    BY <1>6, <1>7, <1>9, <1>12, <2>2
  <2> QED
    BY <1>6, <1>7, <2>1, <2>2, <2>3
<1>15. Len(pt) = 6 + 3 * n
  BY <1>6, <1>7, <1>9, <1>12
<1> QED
  BY <1>1, <1>9, <1>11, <1>12, <1>13, <1>14, <1>15 DEF KeysAt

LEMMA RowEntry ==
    \A action, x : Row(action, x).entry = x
BY DEF Row

LEMMA ReadPrinted ==
    ASSUME NEW g \in ReadSet
    PROVE  /\ Plaintext(g) \in Seq(Bytes)
           /\ EntriesOf(decode_miot_plaintext(Plaintext(g)))
              = IF g.keys = <<>> THEN <<Blank>>
                ELSE [i \in DOMAIN g.keys |->
                        Entry(g.keys[i].siid, g.keys[i].piid, 0, "", 0)]
<1>1. PICK pt, keys, n : pt = Plaintext(g) /\ keys = g.keys /\ n = Len(keys)
  OBVIOUS
<1>2. keys \in Seq(KeySet) /\ n \in Nat /\ n <= 255
  BY <1>1, ReadTypes
<1>3. /\ pt \in Seq(Bytes) /\ Len(pt) = 6 + 3 * n /\ HEADER = 6
      /\ pt[1] = GET /\ pt[2] = MIOT /\ pt[6] = n
      /\ \A i \in 1..n : \A j \in 1..3 :
            pt[6 + 3 * (i - 1) + j] = KeyBytes(keys[i])[j]
  BY <1>1, ReadLayout DEF KeysAt
<1>4. PICK got : got = _decode_get_request(pt)
  OBVIOUS
<1>5. decode_miot_plaintext(pt) = got
  <2>1. Fits(pt, HEADER)
    BY <1>2, <1>3 DEF Fits
  <2>2. /\ pt[1] \notin RESPONSES /\ pt[1] # SET_REQUEST /\ pt[1] # SET_RESPONSE
        /\ pt[1] # NOTIFY
    BY <1>3 DEF GET, RESPONSES, SET_REQUEST, SET_RESPONSE, NOTIFY
  <2> QED
    BY <1>3, <1>4, <2>1, <2>2 DEF decode_miot_plaintext
<1>6. PICK r, nx, go : r = GetRows(pt) /\ nx = Steps(3) /\ go = Fitting(pt, 3)
  OBVIOUS
<1>7. Decodes(pt, got, "get_request", r, nx, go)
  BY <1>4, <1>6, GetWalks
<1>8. PICK pl : pl = [i \in 0..n |-> 6 + 3 * i]
  OBVIOUS
<1>9. PICK e : e = [i \in 1..n |-> Entry(keys[i].siid, keys[i].piid, 0, "", 0)]
  OBVIOUS
<1>10. ASSUME NEW i \in 1..n
       PROVE  /\ go[pl[i - 1]] /\ nx[pl[i - 1]] = pl[i]
              /\ r[pl[i - 1]].entry = e[i]
  <2>1. i - 1 \in 0..n /\ i \in 0..n /\ 6 + 3 * (i - 1) \in Nat
    BY <1>2
  <2>2. PICK a \in Nat : a = 6 + 3 * (i - 1)
    BY <2>1
  <2>3. pl[i - 1] = a /\ pl[i] = a + 3
    <3>1. 6 + 3 * i = a + 3
      BY <1>2, <2>2
    <3> QED
      BY <1>8, <2>1, <2>2, <3>1
  <2>4. a + 3 <= Len(pt)
    BY <1>2, <1>3, <2>2
  <2>5. PICK key \in KeySet : key = keys[i]
    BY <1>1, <1>2, ElementOfSeq
  <2>6. pt[a + 1] = key.siid /\ pt[a + 2] = ToLE(key.piid, 2)[1]
        /\ pt[a + 3] = ToLE(key.piid, 2)[2]
    <3>1. 1 \in 1..3 /\ 2 \in 1..3 /\ 3 \in 1..3
      OBVIOUS
    <3>2. \A j \in 1..3 : pt[a + j] = KeyBytes(key)[j]
      BY <1>3, <2>2, <2>5, Zenon
    <3> QED
      BY <3>1, <3>2, KeyForm, Zenon
  <2>7. FromLE(Slice(pt, a + 1, a + 3)) = key.piid
    <3>1. PICK b \in Nat : b = a + 1
      OBVIOUS
    <3>2. b + 1 = a + 2 /\ b + 2 = a + 3 /\ b + 2 <= Len(pt)
      BY <1>2, <1>3, <2>4, <3>1
    <3>3. key.piid \in Words
      BY DEF KeySet
    <3>4. pt[b + 1] = ToLE(key.piid, 2)[1] /\ pt[b + 2] = ToLE(key.piid, 2)[2]
      BY <2>6, <3>2, Zenon
    <3>5. FromLE(Slice(pt, b, b + 2)) = key.piid
      BY <1>3, <3>2, <3>3, <3>4, ReadNumber
    <3> QED
      BY <3>1, <3>2, <3>5, Zenon
  <2>8. EntryAt(pt, a, 0, "", 0) = Entry(key.siid, key.piid, 0, "", 0)
    BY <2>6, <2>7, Zenon DEF EntryAt
  <2>9. r[a] = Row("get_request", EntryAt(pt, a, 0, "", 0))
    BY <1>6, Zenon DEF GetRows
  <2>10. r[a].entry = e[i]
    <3>1. r[a].entry = EntryAt(pt, a, 0, "", 0)
      <4>1. PICK y : y = r[a]
        OBVIOUS
      <4>2. y.entry = EntryAt(pt, a, 0, "", 0)
        BY <2>9, <4>1, RowEntry, Zenon
      <4> QED
        BY <4>1, <4>2, Zenon
    <3>2. e[i] = Entry(key.siid, key.piid, 0, "", 0)
      BY <1>9, <2>5, Zenon
    <3> QED
      BY <2>8, <3>1, <3>2, Zenon
  <2>11. nx[a] = a + 3 /\ go[a]
    BY <1>6, <2>4 DEF Steps, Fitting, Fits
  <2> QED
    BY <2>3, <2>10, <2>11
<1>11. IsWay(pt, nx, go, pl)
  <2>1. n \in 0..255 /\ \A i \in 0..n : pl[i] \in Nat
    BY <1>2, <1>8
  <2>2. pl[0] = HEADER
    BY <1>2, <1>3, <1>8
  <2>3. LeadsOn(nx, go, n, pl)
    BY <1>10, <2>1 DEF LeadsOn
  <2> QED
    BY <1>3, <2>1, <2>2, <2>3 DEF IsWay
<1>12. EntriesOf(got) = IF n = 0 THEN <<Blank>> ELSE [i \in 1..n |-> e[i]]
  <2>1. \A i \in 1..pt[6] : r[pl[i - 1]].entry = e[i]
    BY <1>3, <1>10
  <2>2. EntriesOf(got) = IF pt[6] = 0 THEN <<Blank>> ELSE [i \in 1..pt[6] |-> e[i]]
    BY <1>7, <1>11, <2>1, WayRead
  <2> QED
    BY <1>3, <2>2
<1>13. [i \in 1..n |-> e[i]]
       = [i \in DOMAIN keys |-> Entry(keys[i].siid, keys[i].piid, 0, "", 0)]
  <2>1. DOMAIN keys = 1..n
    BY <1>1, <1>2
  <2> QED
    BY <1>9, <2>1
<1>14. n = 0 <=> keys = <<>>
  BY <1>1, <1>2, EmptySeq
<1> QED
  BY <1>1, <1>3, <1>5, <1>12, <1>13, <1>14
-----------------------------------------------------------------------------
(* Whatever was sent is printed as what it is.                             *)

LEMMA AnyPrinted ==
    ASSUME NEW what \in RequestSet \cup AnswerSet
    PROVE  /\ IsList(decode_miot_plaintext(Plaintext(what)))
           /\ Printable(what) =>
                EntriesOf(decode_miot_plaintext(Plaintext(what))) = Expected(what)
<1>1. CASE what \in ReadSet
  <2>1. what.is = "get"
    BY <1>1, ReadTypes
  <2>2. Expected(what) = IF what.keys = <<>> THEN <<Blank>>
                         ELSE [i \in DOMAIN what.keys |->
                                Entry(what.keys[i].siid, what.keys[i].piid, 0, "", 0)]
    BY <2>1 DEF Expected
  <2> QED
    BY <1>1, <2>2, ReadPrinted, AlwaysDecoded
<1>2. CASE what \in WriteSet
  <2>1. what.is = "set"
    BY <1>2, WriteTypes
  <2>2. Expected(what) = <<Entry(what.key.siid, what.key.piid, 0,
                             IF what.kind = "bool" THEN "bool" ELSE "int", what.n)>>
    BY <2>1 DEF Expected
  <2> QED
    BY <1>2, <2>2, WritePrinted, AlwaysDecoded
<1>3. CASE what \in AnswerSet
  <2>1. what.is = "answer"
    BY <1>3 DEF AnswerSet
  <2>2. Plaintext(what) \in Seq(Bytes)
    BY <1>3, CutAnswer DEF IsCut
  <2>3. ASSUME Printable(what)
        PROVE  EntriesOf(decode_miot_plaintext(Plaintext(what))) = Expected(what)
    <3>1. /\ IsResponse(what) \/ IsEvent(what)
          /\ \A i \in 1..what.count : what.entries[i].type # SHORT
      BY <2>1, <2>3 DEF Printable
    <3>2. what.op \in ValueOps /\ Intact(what)
      BY <3>1 DEF IsResponse, IsEvent, ValueOps
    <3>3. EntriesOf(decode_miot_plaintext(Plaintext(what)))
          = IF what.count = 0 THEN <<Blank>> ELSE Meant(what)
      BY <1>3, <3>1, <3>2, AnswerPrinted
    <3>4. Expected(what) = IF what.count = 0 THEN <<Blank>> ELSE Meant(what)
      BY <2>1 DEF Expected
    <3> QED
      BY <3>3, <3>4
  <2> QED
    BY <2>2, <2>3, AlwaysDecoded
<1>4. what \in RequestSet => what \in ReadSet \/ what \in WriteSet
  BY DEF RequestSet, ReadSet, WriteSet
<1> QED
  BY <1>1, <1>2, <1>3, <1>4

-----------------------------------------------------------------------------
(* The invariant of the tool: how far the epoch it holds is, beside how    *)
(* far the two ends are.                                                   *)

FrameSet ==
    [handle : Handles, ch : {"auth", "miot", "signalling"}, dir : {"tx", "rx"},
     kind : {"announce", "part", "inline", "control"}, n : Nat, of : Nat]
Underway(dir) == IF dir = "tx" THEN tx ELSE rx
Active == Transfers(active)
Randoms == extract_login_randoms(active)

\* A message of the present login, not sent to its end.
Unsent(k, dir) ==
    /\ k \in DOMAIN messages
    /\ messages[k].login = Login /\ messages[k].dir = dir /\ ~messages[k].done

\* One transfer at a time, of a message that is not done.
WorldOK ==
    /\ link \in [handle : Handles,
                 step : {"greeted", "announced", "asked", "offered", "ready"}]
    /\ \A k \in DOMAIN messages : messages[k].login \in 0..Login
    /\ tx = Idle \/ rx = Idle
    /\ \A dir \in {"tx", "rx"} : Underway(dir) # Idle =>
        /\ link.step = "ready"
        /\ Underway(dir).message \in Nat \ {0}
        /\ Underway(dir).next \in 1..messages[Underway(dir).message].parts
        /\ Underway(dir) = [message |-> Underway(dir).message,
                            next |-> Underway(dir).next]
        /\ Unsent(Underway(dir).message, dir)

\* A frame whose last fragment is to come is the first of two parts, begun by
\* the tool as well.
Flying(dir, k) ==
    /\ Unsent(k, dir) /\ messages[k].parts = 2
    /\ air[dir] = Frame("miot", dir, "part", 1, k)
    /\ link.handle \in DOMAIN l2cap_buffers
    /\ l2cap_buffers[link.handle] = air[dir]
    /\ Active.t = [want |-> 2, got |-> <<>>, dir |-> dir]
    /\ \A d \in {"tx", "rx"} :
        Underway(d) # Idle => Underway(d) = [message |-> k, next |-> 2] /\ d = dir
AirOK ==
    /\ DOMAIN l2cap_buffers \subseteq Handles
    /\ \A h \in DOMAIN l2cap_buffers :
        l2cap_buffers[h] \in FrameSet /\ l2cap_buffers[h].ch = "miot"
    /\ l2cap_buffers = [h \in DOMAIN l2cap_buffers |-> l2cap_buffers[h]]
    /\ DOMAIN air = {"tx", "rx"} /\ air = [dir \in {"tx", "rx"} |-> air[dir]]
    /\ air["tx"] = NoFrame \/ air["rx"] = NoFrame
    /\ \A dir \in {"tx", "rx"} : air[dir] # NoFrame =>
        /\ link.step = "ready" /\ air[dir].handle = link.handle /\ air[dir].ch = "miot"
        /\ Login > 0 => \E k \in DOMAIN messages : Flying(dir, k)

Started ==
    /\ active \in Seq(FrameSet) /\ (active = <<>> <=> Login = 0)
    /\ Login = 0 => link.step \in {"greeted", "ready"}
    /\ Login > 0 /\ link.step # "greeted" => active[1].handle = link.handle

\* The random numbers the tool has are those of the present login.
Announced(dir) == [want |-> 1, got |-> <<>>, dir |-> dir]
Numbers(app, appT, devT) ==
    [app |-> app, dev |-> 0, ok |-> FALSE, appT |-> appT, devT |-> devT]
RandomsOK ==
    Login > 0 =>
        /\ link.step = "ready" \/ (\E k \in DOMAIN messages : messages[k].login = Login)
           => Randoms.ok /\ Randoms.app = Login /\ Randoms.dev = Login
        /\ link.step = "announced" =>
            Randoms = Numbers(0, Announced("tx"), None)
        /\ link.step = "asked" => Randoms = Numbers(Login, None, None)
        /\ link.step = "offered" =>
            Randoms = Numbers(Login, None, Announced("rx"))

\* What was put together: each message that is done, once, with its parts.
FoundSet == [of : Nat, dir : {"tx", "rx"}, parts : Seq(FrameSet)]
IsWhole(c) ==
    /\ c.of \in DOMAIN messages
    /\ messages[c.of].login = Login /\ messages[c.of].done
    /\ c.dir = messages[c.of].dir /\ Len(c.parts) = messages[c.of].parts
    /\ \A i \in 1..messages[c.of].parts : c.parts[i].of = c.of /\ c.parts[i].n = i

\* How much of the transfer under way was seen.
Seen(dir) ==
    LET u == Underway(dir)
    IN /\ Active.t.want = messages[u.message].parts /\ Active.t.dir = dir
       /\ u.next = 1 \/ air[dir] # NoFrame => Active.t.got = <<>>
       /\ u.next # 1 /\ air[dir] = NoFrame =>
            \E h \in Handles : Active.t.got = [i \in {1} |->
                [handle |-> h, ch |-> "miot", dir |-> dir, kind |-> "part", n |-> 1,
                 of |-> u.message]]
FoundOK ==
    /\ Active.out \in Seq(FoundSet)
    /\ \A i \in DOMAIN Active.out : IsWhole(Active.out[i])
    /\ \A i, j \in DOMAIN Active.out : Active.out[i].of = Active.out[j].of => i = j
    /\ \A k \in DOMAIN messages : messages[k].login = Login /\ messages[k].done =>
        \E i \in DOMAIN Active.out : Active.out[i].of = k
TransfersOK ==
    Login > 0 =>
        /\ Active = [out |-> Active.out, t |-> Active.t]
        /\ Active.t = [want |-> Active.t.want, got |-> Active.t.got,
                       dir |-> Active.t.dir]
        /\ FoundOK
        /\ \A dir \in {"tx", "rx"} : Underway(dir) # Idle => Seen(dir)

\* The rows of the logins before: each message that is due, once.
RowSet ==
    [message : Nat,
     row : UNION {{decode_miot_plaintext(Plaintext(what))[i] :
                    i \in DOMAIN decode_miot_plaintext(Plaintext(what))} :
                  what \in Requests \cup Answers \cup OddAnswers}]
Due(k) ==
    /\ messages[k].done /\ messages[k].login > 0
    /\ tokens[messages[k].login]
RowsOK ==
    /\ tool \in [verdict : {"reading", "limit", "rows", "warned", "nothing"},
                 rows : Seq(RowSet), sessions : Nat, complete : Nat, failed : Nat]
    /\ \A i \in DOMAIN tool.rows :
        /\ tool.rows[i].message \in DOMAIN messages
        /\ messages[tool.rows[i].message].login < Login
    /\ \A k \in DOMAIN messages :
        Due(k) /\ messages[k].login < Login => RowsFor(k, tool.rows) = RowsOf(k)
AllPrinted ==
    \A k \in DOMAIN messages : Due(k) => RowsFor(k, tool.rows) = RowsOf(k)

FollowsOK == WorldOK /\ AirOK /\ Started /\ RandomsOK /\ TransfersOK /\ RowsOK
ToolOK ==
    /\ Reading => FollowsOK
    /\ tool.verdict \in {"rows", "warned", "nothing"} => AllPrinted
-----------------------------------------------------------------------------
(* The rows of a message.                                                  *)

LEMMA MessageTypes ==
    ASSUME SentOK, NEW k \in DOMAIN messages
    PROVE  /\ messages[k] \in MessageSet /\ k \in Nat /\ k \in 1..Len(messages)
           /\ messages[k].what \in Requests \cup Answers \cup OddAnswers
           /\ messages[k].what \in RequestSet \cup AnswerSet
<1>1. messages[k] \in MessageSet /\ k \in 1..Len(messages)
  BY DEF SentOK
<1>2. messages[k].what \in Requests \cup Answers \cup OddAnswers
  BY <1>1 DEF MessageSet
<1> QED
  BY <1>1, <1>2, CaptureConstants

LEMMA RowsOfMessage ==
    ASSUME SentOK, NEW k \in DOMAIN messages
    PROVE  /\ RowsOf(k) \in Seq(RowSet) /\ RowsOf(k) # <<>>
           /\ \A j \in DOMAIN RowsOf(k) : RowsOf(k)[j].message = k
           /\ [j \in DOMAIN RowsOf(k) |-> RowsOf(k)[j].row.entry]
              = EntriesOf(decode_miot_plaintext(Plaintext(messages[k].what)))
<1>1. PICK what : /\ what = messages[k].what /\ what \in RequestSet \cup AnswerSet
                  /\ what \in Requests \cup Answers \cup OddAnswers /\ k \in Nat
  BY MessageTypes
<1>2. PICK d : d = decode_miot_plaintext(Plaintext(what)) /\ IsList(d)
  BY <1>1, AnyPrinted
<1>3. PICK T : T = {d[i] : i \in DOMAIN d}
  OBVIOUS
<1>4. d \in Seq(T) /\ d # <<>>
  BY <1>2, <1>3 DEF IsList
<1>5. PICK n \in Nat : n = Len(d) /\ DOMAIN d = 1..n /\ n # 0
  BY <1>4, EmptySeq
<1>6. PICK rows : rows = [i \in 1..n |-> [message |-> k, row |-> d[i]]]
  OBVIOUS
<1>7. rows = RowsOf(k)
  BY <1>1, <1>2, <1>5, <1>6, Zenon DEF RowsOf
<1>8. ASSUME NEW i \in 1..n
      PROVE  rows[i] \in RowSet
  <2>1. PICK x : x = d[i]
    OBVIOUS
  <2>2. PICK R : R = UNION {{decode_miot_plaintext(Plaintext(w))[j] :
                        j \in DOMAIN decode_miot_plaintext(Plaintext(w))} :
                      w \in Requests \cup Answers \cup OddAnswers}
    OBVIOUS
  <2>3. x \in {d[j] : j \in DOMAIN d}
    BY <1>5, <2>1
  <2>4. x \in R
    <3> DEFINE Of(w) == {decode_miot_plaintext(Plaintext(w))[j] :
                            j \in DOMAIN decode_miot_plaintext(Plaintext(w))}
    <3>1. x \in Of(what)
      BY <1>2, <2>3, Zenon
    <3>2. R = UNION {Of(w) : w \in Requests \cup Answers \cup OddAnswers}
      BY <2>2, Zenon
    <3> HIDE DEF Of
    <3> QED
      BY <1>1, <3>1, <3>2
  <2>5. [message |-> k, row |-> x] \in [message : Nat, row : R]
    BY <1>1, <2>4
  <2>6. rows[i] = [message |-> k, row |-> x]
    BY <1>6, <2>1
  <2> QED
    BY <2>2, <2>5, <2>6, Zenon DEF RowSet
<1>9. rows \in Seq(RowSet) /\ rows # <<>> /\ DOMAIN rows = 1..n
  BY <1>5, <1>6, <1>8
<1>10. \A j \in 1..n : rows[j].message = k /\ rows[j].row = d[j]
  BY <1>6
<1>11. [j \in 1..n |-> rows[j].row.entry] = [j \in 1..n |-> d[j].entry]
  BY <1>10, Zenon
<1>12. EntriesOf(d) = [j \in 1..n |-> d[j].entry]
  BY <1>5, Zenon DEF EntriesOf
<1> QED
  BY <1>1, <1>2, <1>7, <1>9, <1>10, <1>11, <1>12, Zenon

\* What is printed of a message, once its rows are those it has.
LEMMA PrintedIs ==
    ASSUME SentOK, NEW k \in DOMAIN messages, RowsFor(k, tool.rows) = RowsOf(k)
    PROVE  /\ Printed(k) # <<>>
           /\ Printable(messages[k].what) => Printed(k) = Expected(messages[k].what)
<1>1. PICK rows, what : rows = RowsOf(k) /\ what = messages[k].what
  OBVIOUS
<1>2. PICK e : e = [j \in DOMAIN rows |-> rows[j].row.entry]
  OBVIOUS
<1>3. Printed(k) = e
  BY <1>1, <1>2, Zenon DEF Printed
<1>4. /\ rows \in Seq(RowSet) /\ rows # <<>>
      /\ e = EntriesOf(decode_miot_plaintext(Plaintext(what)))
  BY <1>1, <1>2, RowsOfMessage
<1>5. e # <<>>
  <2>1. 1 \in DOMAIN rows
    BY <1>4
  <2> QED
    BY <1>2, <2>1
<1>6. what \in RequestSet \cup AnswerSet
  BY <1>1, MessageTypes
<1>7. Printable(what) => e = Expected(what)
  BY <1>4, <1>6, AnyPrinted
<1> QED
  BY <1>1, <1>3, <1>5, <1>7

LEMMA AllDecoded ==
    ASSUME SentOK, ToolOK
    PROVE  Decoded
<1>1. ASSUME tool.verdict \in {"rows", "warned", "nothing"},
             NEW k \in DOMAIN messages, Due(k)
      PROVE  /\ Printed(k) # <<>>
             /\ Printable(messages[k].what) =>
                    Printed(k) = Expected(messages[k].what)
  <2>1. RowsFor(k, tool.rows) = RowsOf(k)
    BY <1>1 DEF ToolOK, AllPrinted
  <2> QED
    BY <2>1, PrintedIs
<1> QED
  BY <1>1 DEF Decoded, Due

-----------------------------------------------------------------------------
(* An epoch that is done.                                                  *)

LEMMA LoginNumber ==
    ASSUME SentOK
    PROVE  Login \in Nat /\ \A l \in 1..Login : tokens[l] \in BOOLEAN
BY LenProperties DEF SentOK, Login

\* The whole messages of the epoch decrypt, if the token is theirs.
LEMMA FoundDecrypts ==
    ASSUME SentOK, WorldOK, RandomsOK, Login > 0, NEW c, IsWhole(c)
    PROVE  /\ Randoms.ok
           /\ Decrypts(c, Randoms) <=> tokens[Login]
<1>1. PICK m : m = messages[c.of]
  OBVIOUS
<1>2. /\ c.of \in DOMAIN messages /\ m.login = Login /\ m.done
      /\ c.dir = m.dir /\ Len(c.parts) = m.parts
      /\ \A i \in 1..m.parts : c.parts[i].of = c.of /\ c.parts[i].n = i
  BY <1>1 DEF IsWhole
<1>3. Randoms.ok /\ Randoms.app = Login /\ Randoms.dev = Login
  BY <1>1, <1>2 DEF RandomsOK
<1>4. PICK r : r = Randoms
  OBVIOUS
<1>5. Decrypts(c, r) <=> tokens[Login]
  BY <1>1, <1>2, <1>3, <1>4 DEF Decrypts
<1> QED
  BY <1>3, <1>4, <1>5

\* What is decrypted of them: each message that is done and due, once.
LEMMA DecryptedRows ==
    ASSUME SentOK, WorldOK, RandomsOK, FoundOK, Login > 0, tokens[Login]
    PROVE  /\ Decrypted(Active.out, Randoms) \in Seq(RowSet)
           /\ \A i \in DOMAIN Decrypted(Active.out, Randoms) :
                /\ Decrypted(Active.out, Randoms)[i].message \in DOMAIN messages
                /\ messages[Decrypted(Active.out, Randoms)[i].message].login = Login
           /\ \A k \in DOMAIN messages :
                RowsFor(k, Decrypted(Active.out, Randoms))
                = IF messages[k].login = Login /\ messages[k].done THEN RowsOf(k)
                  ELSE <<>>
<1>1. PICK found, n, r : found = Active.out /\ n = Len(found) /\ r = Randoms
  OBVIOUS
<1>2. /\ found \in Seq(FoundSet) /\ n \in Nat /\ DOMAIN found = 1..n
      /\ \A i \in 1..n : IsWhole(found[i])
      /\ \A i, j \in 1..n : found[i].of = found[j].of => i = j
      /\ \A k \in DOMAIN messages : messages[k].login = Login /\ messages[k].done =>
            \E i \in 1..n : found[i].of = k
  <2>1. found \in Seq(FoundSet) /\ n \in Nat /\ DOMAIN found = 1..n
    BY <1>1, LenProperties DEF FoundOK
  <2> QED
    BY <1>1, <2>1 DEF FoundOK
<1>3. \A i \in 1..n : /\ found[i].of \in DOMAIN messages
                      /\ messages[found[i].of].login = Login
                      /\ messages[found[i].of].done
                      /\ Decrypts(found[i], r)
  BY <1>1, <1>2, FoundDecrypts DEF IsWhole
<1>4. PICK seqs : seqs = [i \in 1..n |-> RowsOf(found[i].of)]
  OBVIOUS
<1>5. Decrypted(found, r) = FlattenSeq(seqs)
  BY <1>2, <1>3, <1>4 DEF Decrypted
<1>6. \A i \in 1..n : /\ seqs[i] \in Seq(RowSet)
                      /\ \A j \in DOMAIN seqs[i] : seqs[i][j].message = found[i].of
  BY <1>3, <1>4, RowsOfMessage
<1>7. seqs \in Seq(Seq(RowSet)) /\ Len(seqs) = n
  <2>1. PICK T : T = Seq(RowSet)
    OBVIOUS
  <2>2. \A i \in 1..n : seqs[i] \in T
    BY <1>6, <2>1
  <2>3. seqs \in Seq(T) /\ Len(seqs) = n
    BY <1>2, <1>4, <2>2
  <2> QED
    BY <2>1, <2>3
<1>8. ASSUME NEW k \in DOMAIN messages
      PROVE  RowsFor(k, FlattenSeq(seqs))
             = IF messages[k].login = Login /\ messages[k].done THEN RowsOf(k)
               ELSE <<>>
  <2>1. CASE messages[k].login = Login /\ messages[k].done
    <3>1. PICK i \in 1..n : found[i].of = k
      BY <1>2, <2>1
    <3>2. \A q \in 1..n : found[q].of = k <=> q = i
      BY <1>2, <3>1
    <3>3. OneOf(k, seqs, i)
      <4>1. \A q \in 1..n : \A j \in DOMAIN seqs[q] :
                (seqs[q][j].message = k) <=> (q = i)
        BY <1>6, <3>2, Zenon
      <4>2. i \in 0..n
        BY <1>2
      <4> QED
        BY <1>7, <4>1, <4>2, Zenon DEF OneOf
    <3>4. RowsFor(k, FlattenSeq(seqs)) = seqs[i]
      <4>1. i # 0
        BY <1>2
      <4>2. RowsFor(k, FlattenSeq(seqs)) = IF i = 0 THEN <<>> ELSE seqs[i]
        BY <1>7, <3>3, RowsForFlatten
      <4> QED
        BY <4>1, <4>2
    <3> QED
      BY <1>4, <2>1, <3>1, <3>4
  <2>2. CASE ~(messages[k].login = Login /\ messages[k].done)
    <3>1. \A q \in 1..n : found[q].of # k
      BY <1>3, <2>2
    <3>2. OneOf(k, seqs, 0)
      BY <1>2, <1>6, <1>7, <3>1 DEF OneOf
    <3>3. RowsFor(k, FlattenSeq(seqs)) = <<>>
      BY <1>7, <3>2, RowsForFlatten
    <3> QED
      BY <2>2, <3>3
  <2> QED
    BY <2>1, <2>2
<1>9. PICK mine : mine = {x \in RowSet : /\ x.message \in DOMAIN messages
                                         /\ messages[x.message].login = Login}
  OBVIOUS
<1>10. FlattenSeq(seqs) \in Seq(mine)
  <2>1. \A i \in 1..n : \A j \in DOMAIN seqs[i] : seqs[i][j] \in mine
    <3>1. ASSUME NEW i \in 1..n, NEW j \in DOMAIN seqs[i]
          PROVE  seqs[i][j] \in mine
      <4>1. PICK x, s : s = seqs[i] /\ x = s[j]
        OBVIOUS
      <4>2. x \in RowSet
        BY <1>6, <4>1
      <4>3. x.message = found[i].of
        BY <1>6, <4>1
      <4> QED
        BY <1>3, <1>9, <4>1, <4>2, <4>3
    <3> QED
      BY <3>1
  <2>2. \A i \in 1..n : seqs[i] \in Seq(mine)
    <3>1. ASSUME NEW i \in 1..n
          PROVE  seqs[i] \in Seq(mine)
      <4>1. PICK s : s = seqs[i] /\ s \in Seq(RowSet) /\ \A j \in DOMAIN s : s[j] \in mine
        BY <1>6, <2>1
      <4>2. s \in Seq(mine)
        BY <4>1
      <4> QED
        BY <4>1, <4>2
    <3> QED
      BY <3>1
  <2>3. seqs \in Seq(Seq(mine))
    <3>1. PICK T : T = Seq(mine)
      OBVIOUS
    <3>2. seqs \in Seq(T)
      BY <1>2, <1>4, <2>2, <3>1
    <3> QED
      BY <3>1, <3>2
  <2> QED
    BY <2>3, FlattenType
<1>11. PICK d : d = FlattenSeq(seqs) /\ d \in Seq(mine)
  BY <1>10
<1>12. d \in Seq(RowSet)
  <2>1. mine \subseteq RowSet
    BY <1>9
  <2> QED
    BY <1>11, <2>1, SeqMonotonic
<1>13. \A i \in DOMAIN d : d[i] \in mine
  BY <1>11
<1>14. \A i \in DOMAIN d : /\ d[i].message \in DOMAIN messages
                           /\ messages[d[i].message].login = Login
  BY <1>9, <1>13
<1>15. Decrypted(Active.out, Randoms) = d
  BY <1>1, <1>5, <1>11, Zenon
<1> QED
  BY <1>8, <1>11, <1>12, <1>14, <1>15, Zenon

-----------------------------------------------------------------------------
(* The counters of the tool, and rows that are complete so far.            *)

ToolSet ==
    [verdict : {"reading", "limit", "rows", "warned", "nothing"},
     rows : Seq(RowSet), sessions : Nat, complete : Nat, failed : Nat]

SameTool(t, u) == u \in ToolSet /\ u.rows = t.rows /\ u.verdict = t.verdict

LEMMA CountSession ==
    ASSUME NEW t \in ToolSet
    PROVE  SameTool(t, [t EXCEPT !.sessions = @ + 1])
BY DEF ToolSet, SameTool

LEMMA CountComplete ==
    ASSUME NEW t \in ToolSet
    PROVE  SameTool(t, [t EXCEPT !.complete = @ + 1])
BY DEF ToolSet, SameTool

LEMMA CountFailed ==
    ASSUME NEW t \in ToolSet
    PROVE  SameTool(t, [t EXCEPT !.failed = @ + 1])
BY DEF ToolSet, SameTool

\* The rows there are when an epoch is done: those of each message that is due.
Printing(t) ==
    /\ t \in ToolSet /\ t.verdict = "reading"
    /\ \A i \in DOMAIN t.rows : t.rows[i].message \in DOMAIN messages
    /\ \A k \in DOMAIN messages : Due(k) => RowsFor(k, t.rows) = RowsOf(k)

\* Rows of the logins before, none of this one.
LEMMA RowsBefore ==
    ASSUME SentOK, RowsOK, NEW k \in DOMAIN messages, messages[k].login = Login
    PROVE  RowsFor(k, tool.rows) = <<>>
<1>1. tool.rows \in Seq(RowSet)
  BY DEF RowsOK
<1>2. PICK rows : rows = tool.rows
  OBVIOUS
<1>3. \A i \in DOMAIN rows : /\ rows[i].message \in DOMAIN messages
                             /\ messages[rows[i].message].login < Login
  BY <1>2 DEF RowsOK
<1>4. ~(Login < Login)
  BY LoginNumber
<1>5. \A i \in DOMAIN rows : rows[i].message # k
  BY <1>3, <1>4
<1> QED
  BY <1>1, <1>2, <1>5, RowsForAll

\* What is due of this login has a row only if the login used the token given.
LEMMA DueBefore ==
    ASSUME SentOK, WorldOK, RowsOK,
           \A k \in DOMAIN messages : Due(k) => messages[k].login # Login
    PROVE  \A k \in DOMAIN messages : Due(k) => RowsFor(k, tool.rows) = RowsOf(k)
<1>1. ASSUME NEW k \in DOMAIN messages, Due(k)
      PROVE  RowsFor(k, tool.rows) = RowsOf(k)
  <2>1. messages[k].login \in 0..Login /\ messages[k].login # Login
    BY <1>1 DEF WorldOK
  <2>2. messages[k].login < Login
    BY <2>1, LoginNumber
  <2> QED
    BY <1>1, <2>2 DEF RowsOK
<1> QED
  BY <1>1

LEMMA MoreRows ==
    ASSUME SentOK, WorldOK, RandomsOK, TransfersOK, RowsOK, Login > 0,
           tokens[Login], NEW d, d = Decrypted(Active.out, Randoms)
    PROVE  /\ tool.rows \o d \in Seq(RowSet)
           /\ \A i \in DOMAIN (tool.rows \o d) :
                (tool.rows \o d)[i].message \in DOMAIN messages
           /\ \A k \in DOMAIN messages : Due(k) =>
                RowsFor(k, tool.rows \o d) = RowsOf(k)
<1>1. PICK rows : rows = tool.rows
  OBVIOUS
<1>2. rows \in Seq(RowSet) /\ \A i \in DOMAIN rows : rows[i].message \in DOMAIN messages
  BY <1>1 DEF RowsOK
<1>3. FoundOK
  BY DEF TransfersOK
<1>4. /\ d \in Seq(RowSet) /\ \A i \in DOMAIN d : d[i].message \in DOMAIN messages
      /\ \A k \in DOMAIN messages :
            RowsFor(k, d) = IF messages[k].login = Login /\ messages[k].done
                            THEN RowsOf(k) ELSE <<>>
  BY <1>3, DecryptedRows
<1>5. PICK all : all = rows \o d /\ all \in Seq(RowSet)
  BY <1>2, <1>4, ConcatProperties
<1>6. \A i \in DOMAIN all : all[i].message \in DOMAIN messages
  <2>1. ASSUME NEW i \in DOMAIN all
        PROVE  all[i].message \in DOMAIN messages
    <3>1. \/ i \in DOMAIN rows /\ all[i] = rows[i]
          \/ \E j \in DOMAIN d : all[i] = d[j]
      <4>1. PICK a \in Nat, b \in Nat : /\ a = Len(rows) /\ b = Len(d)
                                        /\ DOMAIN rows = 1..a /\ DOMAIN d = 1..b
        BY <1>2, <1>4
      <4>2. /\ Len(all) = a + b /\ DOMAIN all = 1..a + b
            /\ \A j \in 1..a + b : all[j] = IF j <= a THEN rows[j] ELSE d[j - a]
        BY <1>2, <1>4, <1>5, <4>1, ConcatProperties
      <4>3. i \in 1..a + b /\ (i <= a => i \in 1..a) /\ (~(i <= a) => i - a \in 1..b)
        BY <4>1, <4>2
      <4> QED
        BY <4>1, <4>2, <4>3
    <3> QED
      BY <1>2, <1>4, <3>1
  <2> QED
    BY <2>1
<1>7. ASSUME NEW k \in DOMAIN messages, Due(k)
      PROVE  RowsFor(k, all) = RowsOf(k)
  <2>1. RowsFor(k, all) = RowsFor(k, rows) \o RowsFor(k, d)
    <3>1. \A u, v \in Seq(RowSet) : RowsFor(k, u \o v) = RowsFor(k, u) \o RowsFor(k, v)
      BY RowsForConcats
    <3> QED
      BY <1>2, <1>4, <1>5, <3>1, Zenon
  <2>2. PICK own : own = RowsOf(k) /\ own \in Seq(RowSet)
    BY RowsOfMessage
  <2>3. own \o <<>> = own /\ <<>> \o own = own
    BY <2>2, ConcatEmptySeq
  <2>4. CASE messages[k].login = Login
    <3>1. RowsFor(k, rows) = <<>>
      BY <1>1, <2>4, RowsBefore
    <3>2. RowsFor(k, d) = own
      BY <1>4, <1>7, <2>2, <2>4 DEF Due
    <3> QED
      BY <2>1, <2>2, <2>3, <3>1, <3>2
  <2>5. CASE messages[k].login # Login
    <3>1. messages[k].login \in 0..Login
      BY DEF WorldOK
    <3>2. messages[k].login < Login
      BY <2>5, <3>1, LoginNumber
    <3>3. RowsFor(k, rows) = own
      BY <1>1, <1>7, <2>2, <3>2 DEF RowsOK
    <3>4. RowsFor(k, d) = <<>>
      BY <1>4, <2>5
    <3> QED
      BY <2>1, <2>2, <2>3, <3>3, <3>4
  <2> QED
    BY <2>4, <2>5
<1> QED
  BY <1>1, <1>5, <1>6, <1>7, Zenon

LEMMA EpochPrinted ==
    ASSUME SentOK, Reading, FollowsOK, NEW t, t = EpochDone(tool, active)
    PROVE  t \in ToolSet /\ (t.verdict = "limit" \/ Printing(t))
<1> USE DEF FollowsOK
<1>1. PICK s : s = tool /\ s \in ToolSet /\ s.verdict = "reading"
  BY DEF RowsOK, ToolSet, Reading
<1>2. PICK randoms, found : randoms = Randoms /\ found = Active.out
  OBVIOUS
<1>3. PICK begun : begun = [s EXCEPT !.sessions = @ + 1]
  OBVIOUS
<1>4. PICK whole : whole = [begun EXCEPT !.complete = @ + 1]
  OBVIOUS
<1>5. PICK failed : failed = [whole EXCEPT !.failed = @ + 1]
  OBVIOUS
<1>6. PICK rows : rows = s.rows \o Decrypted(found, randoms)
  OBVIOUS
<1>7. t = IF active = <<>> THEN s
          ELSE IF ~randoms.ok THEN begun
          ELSE IF found # <<>> /\ \A i \in DOMAIN found : ~Decrypts(found[i], randoms)
          THEN failed
          ELSE IF Len(rows) > MaxRows THEN [whole EXCEPT !.verdict = "limit"]
          ELSE [whole EXCEPT !.rows = rows]
  BY <1>1, <1>2, <1>3, <1>4, <1>5, <1>6, Zenon
     DEF EpochDone, Randoms, Active, extract_miot_frames
<1>8. /\ begun \in ToolSet /\ begun.rows = s.rows /\ begun.verdict = "reading"
      /\ whole \in ToolSet /\ whole.rows = s.rows /\ whole.verdict = "reading"
      /\ failed \in ToolSet /\ failed.rows = s.rows /\ failed.verdict = "reading"
  <2>1. SameTool(s, begun)
    BY <1>1, <1>3, CountSession
  <2>2. SameTool(begun, whole)
    BY <1>4, <2>1, CountComplete DEF SameTool
  <2>3. SameTool(whole, failed)
    BY <1>5, <2>2, CountFailed DEF SameTool
  <2> QED
    BY <1>1, <2>1, <2>2, <2>3 DEF SameTool
<1>9. \A i \in DOMAIN s.rows : s.rows[i].message \in DOMAIN messages
  BY <1>1 DEF RowsOK
\* If nothing is added, nothing was due.
<1>10. ASSUME \A k \in DOMAIN messages : Due(k) => messages[k].login # Login,
              NEW u \in ToolSet, u.rows = s.rows, u.verdict = "reading"
       PROVE  Printing(u) /\ u \in ToolSet
  <2>1. \A k \in DOMAIN messages : Due(k) => RowsFor(k, s.rows) = RowsOf(k)
    BY <1>1, <1>10, DueBefore
  <2> QED
    BY <1>9, <1>10, <2>1 DEF Printing
<1>11. CASE active = <<>>
  <2>1. Login = 0
    BY <1>11 DEF Started
  <2>2. \A k \in DOMAIN messages : Due(k) => messages[k].login # Login
    BY <2>1 DEF Due
  <2>3. t = s
    BY <1>7, <1>11
  <2> QED
    BY <1>1, <1>10, <2>2, <2>3
<1>12. CASE active # <<>> /\ ~randoms.ok
  <2>1. Login > 0
    BY <1>12, LoginNumber DEF Started
  <2>2. \A k \in DOMAIN messages : messages[k].login # Login
    BY <1>2, <1>12, <2>1 DEF RandomsOK
  <2>3. t = begun
    BY <1>7, <1>12
  <2> QED
    BY <1>8, <1>10, <2>2, <2>3
<1>13. CASE active # <<>> /\ randoms.ok
  <2>1. Login > 0
    BY <1>13, LoginNumber DEF Started
  <2>2. FoundOK
    BY <2>1 DEF TransfersOK
  <2>3. \A i \in DOMAIN found : Decrypts(found[i], randoms) <=> tokens[Login]
    <3>1. ASSUME NEW i \in DOMAIN found
          PROVE  Decrypts(found[i], randoms) <=> tokens[Login]
      <4>1. PICK c : c = found[i] /\ IsWhole(c)
        BY <1>2, <2>2, <3>1 DEF FoundOK
      <4>2. Decrypts(c, Randoms) <=> tokens[Login]
        BY <2>1, <4>1, FoundDecrypts
      <4> QED
        BY <1>2, <4>1, <4>2
    <3> QED
      BY <3>1
  <2>4. found \in Seq(FoundSet)
    BY <1>2, <2>2 DEF FoundOK
  <2>5. found = <<>> => \A k \in DOMAIN messages : Due(k) => messages[k].login # Login
    BY <1>2, <2>2 DEF FoundOK, Due
  <2>6. CASE found # <<>> /\ ~tokens[Login]
    <3>1. \A k \in DOMAIN messages : Due(k) => messages[k].login # Login
      BY <2>6 DEF Due
    <3>2. t = failed
      BY <1>7, <1>13, <2>3, <2>6
    <3> QED
      BY <1>8, <1>10, <3>1, <3>2
  <2>7. CASE found = <<>> \/ tokens[Login]
    <3>1. found # <<>> => \E i \in DOMAIN found : Decrypts(found[i], randoms)
      <4>1. ASSUME found # <<>>
            PROVE  1 \in DOMAIN found
        BY <2>4, <4>1
      <4> QED
        BY <2>3, <2>7, <4>1
    <3>2. t = IF Len(rows) > MaxRows THEN [whole EXCEPT !.verdict = "limit"]
              ELSE [whole EXCEPT !.rows = rows]
      BY <1>7, <1>13, <3>1, Zenon
    <3>3. CASE Len(rows) > MaxRows
      <4>1. t = [whole EXCEPT !.verdict = "limit"]
        BY <3>2, <3>3
      <4>2. t \in ToolSet /\ t.verdict = "limit"
        BY <1>8, <4>1 DEF ToolSet
      <4> QED
        BY <4>2
    <3>4. CASE ~(Len(rows) > MaxRows)
      <4>1. t = [whole EXCEPT !.rows = rows]
        BY <3>2, <3>4
      <4>2. CASE found = <<>>
        <5>1. Decrypted(found, randoms) = <<>>
          <6>1. PICK seqs : seqs = [i \in DOMAIN found |->
                    IF Decrypts(found[i], randoms) THEN RowsOf(found[i].of)
                    ELSE <<>>]
            OBVIOUS
          <6>2. Len(seqs) = 0 /\ seqs = <<>>
            BY <4>2, <6>1
          <6>3. FlattenSeq(seqs) = <<>>
            BY <6>2, FlattenNothing
          <6> QED
            BY <6>1, <6>3 DEF Decrypted
        <5>2. s.rows \in Seq(RowSet)
          BY <1>1 DEF ToolSet
        <5>3. rows = s.rows
          BY <1>6, <5>1, <5>2, ConcatEmptySeq
        <5>4. t \in ToolSet /\ t.rows = s.rows /\ t.verdict = "reading"
          BY <1>8, <4>1, <5>2, <5>3 DEF ToolSet
        <5> QED
          BY <1>10, <2>5, <4>2, <5>4
      <4>3. CASE tokens[Login]
        <5>1. /\ rows \in Seq(RowSet)
              /\ \A i \in DOMAIN rows : rows[i].message \in DOMAIN messages
              /\ \A k \in DOMAIN messages : Due(k) => RowsFor(k, rows) = RowsOf(k)
          BY <1>1, <1>2, <1>6, <2>1, <4>3, MoreRows
        <5>2. t \in ToolSet /\ t.rows = rows /\ t.verdict = "reading"
          BY <1>8, <4>1, <5>1 DEF ToolSet
        <5> QED
          BY <5>1, <5>2 DEF Printing
      <4> QED
        BY <2>7, <4>2, <4>3
    <3> QED
      BY <3>3, <3>4
  <2> QED
    BY <2>6, <2>7
<1> QED
  BY <1>11, <1>12, <1>13

\* The end of the capture.
LEMMA EndPrinted ==
    ASSUME SentOK, Reading, FollowsOK, CaptureEnds
    PROVE  ToolOK'
<1>1. PICK t : t = EpochDone(tool, active)
  OBVIOUS
<1>2. tool' = [t EXCEPT !.verdict = Verdict(t), !.rows = Sorted(t.rows)]
  BY <1>1 DEF CaptureEnds
<1>3. UNCHANGED <<messages, tokens>>
  BY DEF CaptureEnds, world
<1>4. CASE t \in ToolSet /\ t.verdict = "limit"
  <2>1. Verdict(t) = "limit"
    BY <1>4 DEF Verdict
  <2>2. tool'.verdict = "limit"
    BY <1>2, <1>4, <2>1 DEF ToolSet
  <2> QED
    BY <2>2 DEF ToolOK, Reading
<1>5. CASE Printing(t)
  <2>1. t \in ToolSet /\ t.rows \in Seq(RowSet)
    BY <1>5 DEF Printing, ToolSet
  <2>2. PICK rows : rows = Sorted(t.rows)
    OBVIOUS
  <2>3. tool'.verdict = Verdict(t) /\ tool'.rows = rows
    BY <1>2, <2>1, <2>2 DEF ToolSet
  <2>4. Verdict(t) # "reading"
    BY DEF Verdict
  <2>5. ASSUME NEW k \in DOMAIN messages, Due(k)
        PROVE  RowsFor(k, rows) = RowsOf(k)
    <3>1. PICK n \in Nat : DOMAIN messages = 1..n
      BY DEF SentOK
    <3>2. RowsFor(k, rows) = RowsFor(k, t.rows)
      BY <2>1, <2>2, <3>1, SortedKeeps
    <3> QED
      BY <1>5, <2>5, <3>2 DEF Printing
  <2>6. AllPrinted'
    <3>1. ASSUME NEW k
          PROVE  Due(k)' <=> Due(k)
      BY <1>3 DEF Due
    <3>2. ASSUME NEW k
          PROVE  RowsOf(k)' = RowsOf(k)
      BY <1>3, Zenon DEF RowsOf
    <3>3. ASSUME NEW k \in DOMAIN messages, Due(k)
          PROVE  RowsFor(k, tool'.rows) = RowsOf(k)
      BY <2>3, <2>5, <3>3
    <3> QED
      BY <1>3, <3>1, <3>2, <3>3, Zenon DEF AllPrinted
  <2> QED
    BY <2>3, <2>4, <2>6 DEF ToolOK, Reading
<1> QED
  BY <1>1, <1>4, <1>5, EpochPrinted

-----------------------------------------------------------------------------
(* What a frame that is seen changes.                                      *)

LEMMA Stopped ==
    ASSUME tool'.verdict = "limit"
    PROVE  ToolOK'
BY DEF ToolOK, Reading

Watched(f) ==
    /\ tool' = tool
    /\ active' \in Seq(FrameSet) /\ active' # <<>> /\ active'[1] = active[1]
    /\ Randoms' = TakeRandom(Randoms, f) /\ Active' = TakeFrame(Active, f)

LEMMA Observed ==
    ASSUME Started, RowsOK, NEW f \in FrameSet, ~IsLoginStart(f), Observe(f)
    PROVE  \/ /\ active = <<>> \/ active[1].handle # f.handle
              /\ active' = active /\ tool' = tool
           \/ active # <<>> /\ tool'.verdict = "limit"
           \/ active # <<>> /\ Watched(f)
<1>1. CASE active = <<>> \/ active[1].handle # f.handle
  BY <1>1 DEF Observe
<1>2. CASE /\ ~(active = <<>> \/ active[1].handle # f.handle)
           /\ Len(active) >= MaxFrames
  <2>1. tool' = [tool EXCEPT !.verdict = "limit"]
    BY <1>2 DEF Observe, Overfull
  <2>2. tool'.verdict = "limit"
    BY <2>1 DEF RowsOK
  <2> QED
    BY <1>2, <2>2
<1>3. CASE /\ ~(active = <<>> \/ active[1].handle # f.handle)
           /\ ~(Len(active) >= MaxFrames)
  <2>1. active' = Append(active, f) /\ tool' = tool
    BY <1>3 DEF Observe
  <2>2. PICK q : q = active /\ q \in Seq(FrameSet) /\ q # <<>>
    BY <1>3 DEF Started
  <2>3. /\ Append(q, f) \in Seq(FrameSet) /\ Append(q, f) # <<>>
        /\ Append(q, f)[1] = q[1]
    BY <2>2
  <2>4. /\ extract_login_randoms(Append(q, f))
           = TakeRandom(extract_login_randoms(q), f)
        /\ Transfers(Append(q, f)) = TakeFrame(Transfers(q), f)
    BY <2>2, OneMoreFrame
  <2>5. Randoms' = TakeRandom(Randoms, f)
    BY <2>1, <2>2, <2>4, Zenon DEF Randoms
  <2>6. Active' = TakeFrame(Active, f)
    BY <2>1, <2>2, <2>4, Zenon DEF Active
  <2> QED
    BY <1>3, <2>1, <2>2, <2>3, <2>5, <2>6 DEF Watched
<1> QED
  BY <1>1, <1>2, <1>3

\* Messages are added to the present login, and sent to their end.
Kept ==
    /\ tokens' = tokens
    /\ \A k \in DOMAIN messages :
        /\ k \in DOMAIN messages' /\ messages'[k].login = messages[k].login
        /\ messages'[k].what = messages[k].what /\ messages'[k].dir = messages[k].dir
        /\ messages'[k].parts = messages[k].parts
        /\ messages[k].done => messages'[k].done
        /\ messages[k].login # Login => messages'[k].done = messages[k].done
    /\ \A k \in DOMAIN messages' \ DOMAIN messages : messages'[k].login = Login

LEMMA KeptSame ==
    ASSUME tokens' = tokens, messages' = messages
    PROVE  Kept /\ Login' = Login
BY DEF Kept, Login

LEMMA RowsKept ==
    ASSUME SentOK, WorldOK, RowsOK, Kept, tool' = tool
    PROVE  RowsOK' /\ \A k \in DOMAIN messages' : messages'[k].login \in (0..Login)'
<1>1. Login' = Login /\ Login \in Nat
  BY LoginNumber DEF Kept, Login
<1>2. \A k \in DOMAIN messages : messages[k].login \in 0..Login
  BY DEF WorldOK
<1>3. \A k \in DOMAIN messages' : messages'[k].login \in 0..Login
  <2>1. Login \in 0..Login
    BY <1>1
  <2> QED
    BY <1>2, <2>1 DEF Kept
<1>4. ASSUME NEW k \in DOMAIN messages', Due(k)', messages'[k].login < Login
      PROVE  RowsFor(k, tool.rows) = RowsOf(k)'
  <2>1. messages'[k].login # Login
    BY <1>1, <1>4
  <2>2. k \in DOMAIN messages /\ messages'[k].what = messages[k].what
    BY <2>1 DEF Kept
  <2>3. messages[k].login = messages'[k].login /\ messages[k].done = messages'[k].done
    BY <2>1, <2>2 DEF Kept
  <2>4. Due(k)
    BY <1>4, <2>3 DEF Due, Kept
  <2>5. RowsFor(k, tool.rows) = RowsOf(k)
    BY <1>4, <2>2, <2>3, <2>4 DEF RowsOK
  <2>6. RowsOf(k)' = RowsOf(k)
    BY <2>2, Zenon DEF RowsOf
  <2> QED
    BY <2>5, <2>6
<1>5. \A i \in DOMAIN tool.rows : /\ tool.rows[i].message \in DOMAIN messages'
                                  /\ messages'[tool.rows[i].message].login < Login
  BY DEF RowsOK, Kept
<1>6. RowsOK'
  <2>1. tool \in ToolSet
    BY DEF RowsOK, ToolSet
  <2>2. \A k \in DOMAIN messages' : Due(k)' /\ messages'[k].login < Login =>
            RowsFor(k, tool.rows) = RowsOf(k)'
    BY <1>4
  <2> QED
    BY <1>1, <1>5, <2>1, <2>2 DEF RowsOK, ToolSet
<1> QED
  BY <1>1, <1>3, <1>6

LEMMA WholeKept ==
    ASSUME Kept, NEW c, IsWhole(c)
    PROVE  IsWhole(c)'
<1>1. Login' = Login
  BY DEF Kept, Login
<1>2. c.of \in DOMAIN messages
  BY DEF IsWhole
<1>3. PICK m, w : m = messages[c.of] /\ w = messages'[c.of]
  OBVIOUS
<1>4. /\ c.of \in DOMAIN messages' /\ w.login = m.login /\ w.dir = m.dir
      /\ w.parts = m.parts /\ (m.done => w.done)
  BY <1>2, <1>3 DEF Kept
<1> QED
  BY <1>1, <1>3, <1>4 DEF IsWhole

\* Nothing more was put together, and nothing more is done.
LEMMA FoundKept ==
    ASSUME FoundOK, Kept, Active'.out = Active.out,
           \A k \in DOMAIN messages' : messages'[k].login = Login /\ messages'[k].done =>
                k \in DOMAIN messages /\ messages[k].done
    PROVE  FoundOK'
<1>1. Login' = Login
  BY DEF Kept, Login
<1>2. PICK out : out = Active.out /\ out = Active'.out
  OBVIOUS
<1>3. /\ out \in Seq(FoundSet)
      /\ \A i \in DOMAIN out : IsWhole(out[i])'
      /\ \A i, j \in DOMAIN out : out[i].of = out[j].of => i = j
  BY <1>2, WholeKept DEF FoundOK
<1>4. ASSUME NEW k \in DOMAIN messages', messages'[k].login = Login, messages'[k].done
      PROVE  \E i \in DOMAIN out : out[i].of = k
  <2>1. k \in DOMAIN messages /\ messages[k].done
    BY <1>4
  <2>2. messages[k].login = Login
    BY <1>4, <2>1 DEF Kept
  <2> QED
    BY <1>2, <2>1, <2>2 DEF FoundOK
<1> QED
  BY <1>1, <1>2, <1>3, <1>4 DEF FoundOK

\* One more message was put together, and it is the one that is done now.
LEMMA FoundMore ==
    ASSUME FoundOK, Kept, NEW c \in FoundSet, Active'.out = Append(Active.out, c),
           IsWhole(c)', ~(c.of \in DOMAIN messages /\ messages[c.of].done),
           \A k \in DOMAIN messages' : messages'[k].login = Login /\ messages'[k].done =>
                k = c.of \/ (k \in DOMAIN messages /\ messages[k].done)
    PROVE  FoundOK'
<1>1. Login' = Login
  BY DEF Kept, Login
<1>2. PICK out, n : out = Active.out /\ n = Len(out)
  OBVIOUS
<1>3. PICK more, m : more = Append(out, c) /\ m = n + 1
  OBVIOUS
<1>4. /\ out \in Seq(FoundSet) /\ n \in Nat /\ DOMAIN out = 1..n
      /\ more \in Seq(FoundSet) /\ DOMAIN more = 1..m /\ more[m] = c
      /\ \A i \in 1..n : more[i] = out[i]
  BY <1>2, <1>3 DEF FoundOK
<1>5. /\ \A i \in 1..m : i \in 1..n \/ i = m
      /\ \A i \in 1..n : i \in 1..m /\ i # m
      /\ m \in 1..m
  BY <1>3, <1>4
<1>6. \A i \in 1..m : IsWhole(more[i])'
  BY <1>2, <1>4, <1>5, WholeKept DEF FoundOK
<1>7. \A i \in 1..n : out[i].of \in DOMAIN messages /\ messages[out[i].of].done
  BY <1>2, <1>4 DEF FoundOK, IsWhole
<1>8. \A i \in 1..n : out[i].of # c.of
  BY <1>7
<1>9. \A i, j \in 1..n : out[i].of = out[j].of => i = j
  BY <1>2, <1>4 DEF FoundOK
<1>10. \A i, j \in 1..m : more[i].of = more[j].of => i = j
  BY <1>4, <1>5, <1>8, <1>9
<1>11. ASSUME NEW k \in DOMAIN messages', messages'[k].login = Login,
              messages'[k].done
       PROVE  \E i \in 1..m : more[i].of = k
  <2>1. CASE k = c.of
    BY <1>4, <1>5, <2>1
  <2>2. CASE k \in DOMAIN messages /\ messages[k].done
    <3>1. messages[k].login = Login
      BY <1>11, <2>2 DEF Kept
    <3>2. PICK i \in 1..n : out[i].of = k
      BY <1>2, <1>4, <2>2, <3>1 DEF FoundOK
    <3> QED
      BY <1>4, <1>5, <3>2
  <2> QED
    BY <1>11, <2>1, <2>2
<1>12. Active'.out = more
  BY <1>2, <1>3
<1> QED
  BY <1>1, <1>4, <1>6, <1>10, <1>11, <1>12 DEF FoundOK

-----------------------------------------------------------------------------
(* Connecting and logging in.                                              *)

LEMMA AuthPasses ==
    ASSUME NEW s, NEW f, f.ch # "miot"
    PROVE  TakeFrame(s, f) = s
BY DEF TakeFrame

LEMMA NoneUnderway ==
    ASSUME WorldOK, link.step # "ready"
    PROVE  /\ \A dir \in {"tx", "rx"} : Underway(dir) = Idle
           /\ tx = Idle /\ rx = Idle
<1>1. \A dir \in {"tx", "rx"} : Underway(dir) = Idle
  BY DEF WorldOK
<1>2. "tx" \in {"tx", "rx"} /\ "rx" \in {"tx", "rx"} /\ "rx" # "tx"
  OBVIOUS
<1>3. Underway("tx") = tx /\ Underway("rx") = rx
  BY <1>2 DEF Underway
<1> QED
  BY <1>1, <1>2, <1>3

\* The link is all that changes, and the epoch has one frame more, on the auth
\* channel.
LEMMA TransfersStay ==
    ASSUME TransfersOK, Kept, messages' = messages, Active' = Active,
           tx' = Idle, rx' = Idle
    PROVE  TransfersOK'
<1>1. Login' = Login
  BY DEF Kept, Login
<1>2. \A dir \in {"tx", "rx"} : Underway(dir)' = Idle
  BY DEF Underway
<1>3. ASSUME Login > 0
      PROVE  FoundOK'
  <2>1. FoundOK
    BY <1>3 DEF TransfersOK
  <2>2. Active'.out = Active.out
    OBVIOUS
  <2>3. \A k \in DOMAIN messages' : messages'[k].login = Login /\ messages'[k].done =>
                k \in DOMAIN messages /\ messages[k].done
    OBVIOUS
  <2> QED
    BY <2>1, <2>2, <2>3, FoundKept
<1>4. PICK a : a = Active /\ a = Active'
  OBVIOUS
<1>5. Login > 0 => /\ a = [out |-> a.out, t |-> a.t]
                   /\ a.t = [want |-> a.t.want, got |-> a.t.got, dir |-> a.t.dir]
  BY <1>4, Zenon DEF TransfersOK
<1>6. \A dir \in {"tx", "rx"} : Underway(dir)' # Idle' => Seen(dir)'
  BY <1>2 DEF Idle
<1> QED
  BY <1>1, <1>3, <1>4, <1>5, <1>6, Zenon DEF TransfersOK

LEMMA ConnectOK ==
    ASSUME SentOK, Reading, FollowsOK, Connect
    PROVE  ToolOK'
<1> USE DEF FollowsOK
<1>1. PICK h \in Handles :
        /\ link' = [handle |-> h, step |-> "greeted"]
        /\ _parse_att_frame([Frame("auth", "tx", "control", 0, 0)
                                EXCEPT !.handle = h])
  BY DEF Connect
<1>2. PICK f : f = [handle |-> h, ch |-> "auth", dir |-> "tx", kind |-> "control",
                    n |-> 0, of |-> 0]
  OBVIOUS
<1>3. f = [Frame("auth", "tx", "control", 0, 0) EXCEPT !.handle = h]
  BY <1>2 DEF Frame
<1>4. f \in FrameSet /\ ~IsLoginStart(f)
  BY <1>2 DEF FrameSet, IsLoginStart
<1>5. f.ch # "signalling"
  BY <1>2
<1>6. Observe(f)
  <2>1. _parse_att_frame(f)
    BY <1>1, <1>3, Zenon
  <2> QED
    BY <1>5, <2>1, Zenon DEF _parse_att_frame
<1>7. /\ tx' = Idle /\ rx' = Idle /\ air' = Quiet
      /\ tokens' = tokens /\ messages' = messages /\ l2cap_buffers' = l2cap_buffers
  BY DEF Connect
<1>8. Kept /\ Login' = Login
  BY <1>7, KeptSame
<1>9. SUFFICES ASSUME tool' = tool,
                      /\ active' \in Seq(FrameSet)
                      /\ active' = <<>> <=> active = <<>>,
                      Active' = Active,
                      Randoms' = Randoms \/ (Randoms' = TakeRandom(Randoms, f))
               PROVE  ToolOK'
  <2>1. CASE active' = active /\ tool' = tool
    <3>1. Active' = Active /\ Randoms' = Randoms
      BY <2>1, Zenon DEF Active, Randoms
    <3>2. active' \in Seq(FrameSet) /\ (active' = <<>> <=> active = <<>>)
      BY <2>1 DEF Started
    <3> QED
      BY <1>9, <2>1, <3>1, <3>2
  <2>2. CASE tool'.verdict = "limit"
    BY <2>2, Stopped
  <2>3. CASE active # <<>> /\ Watched(f)
    <3>1. f.ch # "miot"
      BY <1>2
    <3>2. Active' = Active
      BY <2>3, <3>1, AuthPasses DEF Watched
    <3> QED
      BY <1>9, <2>3, <3>2 DEF Watched
  <2> QED
    BY <1>4, <1>6, <2>1, <2>2, <2>3, Observed
<1>10. RowsOK' /\ \A k \in DOMAIN messages' : messages'[k].login \in (0..Login)'
  BY <1>8, <1>9, RowsKept
<1>11. WorldOK'
  <2>1. \A dir \in {"tx", "rx"} : Underway(dir)' = Idle
    BY <1>7 DEF Underway
  <2>2. link' \in [handle : Handles,
                   step : {"greeted", "announced", "asked", "offered", "ready"}]
    BY <1>1
  <2> QED
    BY <1>7, <1>10, <2>1, <2>2 DEF WorldOK, Idle
<1>12. AirOK'
  <2>1. /\ DOMAIN air' = {"tx", "rx"} /\ air' = [dir \in {"tx", "rx"} |-> air'[dir]]
        /\ \A dir \in {"tx", "rx"} : air'[dir] = NoFrame
    BY <1>7 DEF Quiet
  <2>2. /\ DOMAIN l2cap_buffers' \subseteq Handles
        /\ \A b \in DOMAIN l2cap_buffers' :
               l2cap_buffers'[b] \in FrameSet /\ l2cap_buffers'[b].ch = "miot"
        /\ l2cap_buffers' = [b \in DOMAIN l2cap_buffers' |-> l2cap_buffers'[b]]
    BY <1>7 DEF AirOK
  <2>3. \A dir \in {"tx", "rx"} : air'[dir] = NoFrame'
    BY <2>1 DEF NoFrame
  <2> QED
    BY <2>1, <2>2, <2>3, Zenon DEF AirOK
<1>13. Started'
  <2>1. active' = <<>> <=> Login' = 0
    BY <1>8, <1>9 DEF Started
  <2>2. link'.step = "greeted"
    BY <1>1
  <2> QED
    BY <1>9, <2>1, <2>2 DEF Started
<1>14. RandomsOK'
  <2>1. link'.step = "greeted"
    BY <1>1
  <2>2. ASSUME Login > 0, \E k \in DOMAIN messages : messages[k].login = Login
        PROVE  Randoms'.ok /\ Randoms'.app = Login /\ Randoms'.dev = Login
    <3>1. Randoms.ok /\ Randoms.app = Login /\ Randoms.dev = Login
      BY <2>2 DEF RandomsOK
    <3>2. TakeRandom(Randoms, f) = Randoms
      BY <3>1 DEF TakeRandom
    <3> QED
      BY <1>9, <3>1, <3>2
  <2> QED
    BY <1>7, <1>8, <2>1, <2>2 DEF RandomsOK
<1>15. TransfersOK'
  BY <1>7, <1>8, <1>9, TransfersStay
<1> QED
  BY <1>9, <1>10, <1>11, <1>12, <1>13, <1>14, <1>15 DEF ToolOK, Reading, RowsOK

-----------------------------------------------------------------------------
(* The first state, steps the tool does not see, the start of a login.     *)

LEMMA ToolInit ==
    Init => ToolOK
<1> SUFFICES ASSUME Init
             PROVE  ToolOK
  OBVIOUS
<1>1. /\ link \in [handle : Handles, step : {"greeted", "ready"}]
      /\ tokens = <<>> /\ messages = <<>> /\ tx = Idle /\ rx = Idle
      /\ active = <<>>
      /\ tool = [verdict |-> "reading", rows |-> <<>>, sessions |-> 0,
                 complete |-> 0, failed |-> 0]
      /\ l2cap_buffers = [h \in {} |-> BegunBefore]
  BY DEF Init
<1>2. Login = 0 /\ DOMAIN messages = {}
  BY <1>1 DEF Login
<1>3. WorldOK
  <2>1. \A dir \in {"tx", "rx"} : Underway(dir) = Idle
    BY <1>1 DEF Underway
  <2>2. link \in [handle : Handles,
                  step : {"greeted", "announced", "asked", "offered", "ready"}]
    BY <1>1
  <2> QED
    BY <1>1, <1>2, <2>1, <2>2 DEF WorldOK
<1>4. AirOK
  <2>1. DOMAIN l2cap_buffers = {}
    BY <1>1
  <2>2. l2cap_buffers = [h \in DOMAIN l2cap_buffers |-> l2cap_buffers[h]]
    BY <1>1, <2>1
  <2>3. /\ BegunBefore.handle = link.handle /\ BegunBefore.ch = "miot"
    BY DEF BegunBefore, Frame
  <2>4. CASE air = Quiet
    <3>1. /\ DOMAIN air = {"tx", "rx"} /\ air = [dir \in {"tx", "rx"} |-> air[dir]]
          /\ \A dir \in {"tx", "rx"} : air[dir] = NoFrame
      BY <2>4 DEF Quiet
    <3> QED
      BY <2>1, <2>2, <3>1, Zenon DEF AirOK
  <2>5. CASE link.step = "ready" /\ air = [Quiet EXCEPT !["tx"] = BegunBefore]
    <3>1. /\ DOMAIN air = {"tx", "rx"} /\ air = [dir \in {"tx", "rx"} |-> air[dir]]
          /\ air["tx"] = BegunBefore /\ air["rx"] = NoFrame
      BY <2>5 DEF Quiet
    <3>2. \A dir \in {"tx", "rx"} : air[dir] # NoFrame =>
            link.step = "ready" /\ air[dir].handle = link.handle /\ air[dir].ch = "miot"
      BY <2>3, <2>5, <3>1
    <3>3. ~(Login > 0)
      BY <1>2
    <3> QED
      BY <2>1, <2>2, <3>1, <3>2, <3>3 DEF AirOK
  <2> QED
    BY <2>4, <2>5 DEF Init
<1>5. Started
  BY <1>1, <1>2 DEF Started
<1>6. RandomsOK /\ TransfersOK
  BY <1>2 DEF RandomsOK, TransfersOK
<1>7. RowsOK
  BY <1>1, <1>2 DEF RowsOK
<1> QED
  BY <1>1, <1>3, <1>4, <1>5, <1>6, <1>7 DEF ToolOK, FollowsOK

LEMMA ToolStutters ==
    ASSUME ToolOK, UNCHANGED vars
    PROVE  ToolOK'
<1>1. UNCHANGED <<link, tokens, messages, tx, rx, air, l2cap_buffers, active, tool>>
  BY DEF vars, world, decrypt
<1>2. Login' = Login /\ Active' = Active /\ Randoms' = Randoms
  BY <1>1, Zenon DEF Login, Active, Randoms
<1>3. /\ \A dir : Underway(dir)' = Underway(dir)
      /\ \A k, dir : Unsent(k, dir)' = Unsent(k, dir)
      /\ \A ch, dir, kind, n, of : Frame(ch, dir, kind, n, of)'
                                   = Frame(ch, dir, kind, n, of)
  BY <1>1, <1>2, Zenon DEF Underway, Unsent, Frame
<1>4. WorldOK => WorldOK'
  BY <1>1, <1>2, <1>3 DEF WorldOK, Idle
<1>5. \A dir, k : Flying(dir, k)' = Flying(dir, k)
  BY <1>1, <1>2, <1>3, Zenon DEF Flying, Idle
<1>6. AirOK => AirOK'
  BY <1>1, <1>2, <1>5, Zenon DEF AirOK, NoFrame
<1>7. Started => Started'
  BY <1>1, <1>2 DEF Started
<1>8. RandomsOK => RandomsOK'
  BY <1>1, <1>2, Zenon DEF RandomsOK
<1>9. FoundOK => FoundOK'
  <2>1. \A c : IsWhole(c)' = IsWhole(c)
    BY <1>1, <1>2, Zenon DEF IsWhole
  <2> QED
    BY <1>1, <1>2, <2>1, Zenon DEF FoundOK
<1>10. TransfersOK => TransfersOK'
  <2>1. \A dir : Seen(dir)' = Seen(dir)
    BY <1>1, <1>2, <1>3, Zenon DEF Seen, NoFrame
  <2> QED
    BY <1>2, <1>3, <1>9, <2>1, Zenon DEF TransfersOK, Idle
<1>11. \A k : Due(k)' = Due(k) /\ RowsOf(k)' = RowsOf(k)
  BY <1>1, Zenon DEF Due, RowsOf
<1>12. RowsOK => RowsOK'
  BY <1>1, <1>2, <1>11, Zenon DEF RowsOK
<1>13. AllPrinted => AllPrinted'
  BY <1>1, <1>11, Zenon DEF AllPrinted
<1> QED
  BY <1>1, <1>4, <1>6, <1>7, <1>8, <1>10, <1>12, <1>13
     DEF ToolOK, FollowsOK, Reading

LEMMA SignalOK ==
    ASSUME ToolOK, Signal
    PROVE  ToolOK'
<1>1. PICK f : f = Frame("signalling", "rx", "control", 0, 0)
  OBVIOUS
<1>2. f.ch = "signalling"
  BY <1>1 DEF Frame
<1>3. Send(f) /\ UNCHANGED <<link, tokens, messages, tx, rx>>
  BY <1>1 DEF Signal
<1>4. ~MaySplit(f)
  BY <1>2 DEF MaySplit
<1>5. _parse_att_frame(f) /\ UNCHANGED <<air, l2cap_buffers>>
  BY <1>3, <1>4 DEF Send
<1>6. UNCHANGED decrypt
  BY <1>2, <1>5 DEF _parse_att_frame
<1> QED
  BY <1>3, <1>5, <1>6, ToolStutters DEF vars, world, decrypt

LEMMA NotReadyQuiet ==
    ASSUME AirOK, link.step # "ready"
    PROVE  \A dir \in {"tx", "rx"} : air[dir] = NoFrame
BY DEF AirOK

\* Frames on the auth channel go whole.
LEMMA AuthWhole ==
    ASSUME NEW f, f.ch = "auth", Send(f)
    PROVE  /\ Observe(f) /\ UNCHANGED <<air, l2cap_buffers>>
<1>1. ~MaySplit(f)
  BY DEF MaySplit
<1>2. _parse_att_frame(f) /\ UNCHANGED <<air, l2cap_buffers>>
  BY <1>1 DEF Send
<1> QED
  BY <1>2 DEF _parse_att_frame

LEMMA AirStill ==
    ASSUME AirOK, link.step # "ready", UNCHANGED <<air, l2cap_buffers>>
    PROVE  AirOK'
<1>1. \A dir \in {"tx", "rx"} : air'[dir] = NoFrame'
  BY NotReadyQuiet DEF NoFrame
<1>2. /\ DOMAIN l2cap_buffers' \subseteq Handles
      /\ \A b \in DOMAIN l2cap_buffers' :
             l2cap_buffers'[b] \in FrameSet /\ l2cap_buffers'[b].ch = "miot"
      /\ l2cap_buffers' = [b \in DOMAIN l2cap_buffers' |-> l2cap_buffers'[b]]
  BY DEF AirOK
<1>3. DOMAIN air' = {"tx", "rx"} /\ air' = [dir \in {"tx", "rx"} |-> air'[dir]]
  BY DEF AirOK
<1> QED
  BY <1>1, <1>2, <1>3, Zenon DEF AirOK

LEMMA FirstFrame ==
    ASSUME NEW f \in FrameSet, IsLoginStart(f), active' = <<f>>
    PROVE  /\ Randoms' = Numbers(0, Fresh(f), None)
           /\ Active' = [out |-> <<>>, t |-> None]
           /\ active' \in Seq(FrameSet) /\ active' # <<>> /\ active'[1] = f
<1>1. PICK q : q = <<>> /\ q \in Seq(FrameSet)
  BY Zenon, EmptySeq
<1>2. Append(q, f) = <<f>>
  BY <1>1
<1>3. /\ extract_login_randoms(<<f>>) = TakeRandom(extract_login_randoms(q), f)
      /\ Transfers(<<f>>) = TakeFrame(Transfers(q), f)
  BY <1>1, <1>2, OneMoreFrame
<1>4. /\ extract_login_randoms(q) = NoRandoms
      /\ Transfers(q) = [out |-> <<>>, t |-> None]
  BY <1>1, NothingTaken
<1>5. f.ch = "auth" /\ f.dir = "tx" /\ f.kind = "announce"
  BY DEF IsLoginStart
<1>6. TakeRandom(NoRandoms, f) = Numbers(0, Fresh(f), None)
  <2>1. TakeRandom(NoRandoms, f) = [NoRandoms EXCEPT !.appT = Fresh(f)]
    BY <1>5 DEF TakeRandom, NoRandoms
  <2>2. PICK s, none, new, no :
            s = NoRandoms /\ none = None /\ new = Fresh(f) /\ no = FALSE
    OBVIOUS
  <2>3. s = [app |-> 0, dev |-> 0, ok |-> no, appT |-> none, devT |-> none]
    BY <2>2, Zenon DEF NoRandoms
  <2>4. [s EXCEPT !.appT = new]
        = [app |-> 0, dev |-> 0, ok |-> no, appT |-> new, devT |-> none]
    BY <2>3
  <2> QED
    BY <2>1, <2>2, <2>4, Zenon DEF Numbers
<1>7. TakeFrame([out |-> <<>>, t |-> None], f) = [out |-> <<>>, t |-> None]
  BY <1>5, AuthPasses
<1>8. Randoms' = extract_login_randoms(<<f>>) /\ Active' = Transfers(<<f>>)
  BY Zenon DEF Randoms, Active
<1>9. active' \in Seq(FrameSet) /\ active' # <<>> /\ active'[1] = f
  OBVIOUS
<1> QED
  BY <1>3, <1>4, <1>6, <1>7, <1>8, <1>9, Zenon

LEMMA LoginStartOK ==
    ASSUME SentOK, Reading, FollowsOK, LoginStart
    PROVE  ToolOK'
<1> USE DEF FollowsOK
<1>1. PICK f : f = Frame("auth", "tx", "announce", 1, 0)
  OBVIOUS
<1>2. f = [handle |-> link.handle, ch |-> "auth", dir |-> "tx", kind |-> "announce",
           n |-> 1, of |-> 0]
  BY <1>1 DEF Frame
<1>3. f \in FrameSet /\ IsLoginStart(f) /\ f.ch = "auth"
  BY <1>2 DEF FrameSet, IsLoginStart, WorldOK
<1>4. /\ link.step = "greeted" /\ link' = [link EXCEPT !.step = "announced"]
      /\ Send(f) /\ UNCHANGED <<messages, tx, rx>>
  BY <1>1 DEF LoginStart
<1>5. PICK ours \in BOOLEAN : tokens' = Append(tokens, ours)
  BY DEF LoginStart
<1>6. Observe(f) /\ UNCHANGED <<air, l2cap_buffers>>
  BY <1>3, <1>4, AuthWhole
<1>7. active' = <<f>> /\ tool' = EpochDone(tool, active)
  BY <1>3, <1>6 DEF Observe
<1>8. PICK L \in Nat : /\ L = Login /\ Login' = L + 1 /\ L = Len(tokens)
                       /\ \A l \in 1..L : tokens'[l] = tokens[l]
  BY <1>5 DEF SentOK, Login
<1>9. CASE tool'.verdict = "limit"
  BY <1>9, Stopped
<1>10. CASE Printing(tool')
  <2>1. WorldOK'
    <3>1. \A dir \in {"tx", "rx"} : Underway(dir)' = Idle
      BY <1>4, NoneUnderway DEF Underway
    <3>2. link' \in [handle : Handles,
                     step : {"greeted", "announced", "asked", "offered", "ready"}]
      BY <1>4 DEF WorldOK
    <3>3. \A k \in DOMAIN messages : messages[k].login \in 0..L + 1
      BY <1>8 DEF WorldOK
    <3>4. tx' = Idle /\ rx' = Idle
      BY <1>4, NoneUnderway
    <3> QED
      BY <1>4, <1>8, <3>1, <3>2, <3>3, <3>4 DEF WorldOK, Idle
  <2>2. AirOK'
    BY <1>4, <1>6, AirStill
  <2>3. /\ Randoms' = Numbers(0, Fresh(f), None)
        /\ Active' = [out |-> <<>>, t |-> None]
        /\ active' \in Seq(FrameSet) /\ active' # <<>> /\ active'[1] = f
    BY <1>3, <1>7, FirstFrame
  <2>4. Started'
    <3>1. f.handle = link'.handle
      BY <1>2, <1>4 DEF WorldOK
    <3> QED
      BY <1>8, <2>3, <3>1 DEF Started
  <2>5. \A k \in DOMAIN messages : messages[k].login # L + 1
    BY <1>8 DEF WorldOK
  <2>6. RandomsOK'
    <3>1. link'.step = "announced"
      BY <1>4 DEF WorldOK
    <3>2. Fresh(f) = Announced("tx")
      BY <1>2 DEF Fresh, Announced
    <3> QED
      BY <1>4, <1>8, <2>3, <2>5, <3>1, <3>2 DEF RandomsOK
  <2>7. TransfersOK'
    <3>1. \A dir \in {"tx", "rx"} : Underway(dir)' = Idle'
      BY <1>4, NoneUnderway DEF Underway, Idle
    <3>2. FoundOK'
      <4>1. Active'.out = <<>> /\ <<>> \in Seq(FoundSet) /\ DOMAIN <<>> = {}
        BY <2>3
      <4>2. \A k \in DOMAIN messages' : messages'[k].login # Login'
        BY <1>4, <1>8, <2>5
      <4> QED
        BY <4>1, <4>2 DEF FoundOK
    <3>3. PICK a : a = Active' /\ a = [out |-> <<>>, t |-> None]
      BY <2>3
    <3>4. /\ a = [out |-> a.out, t |-> a.t]
          /\ a.t = [want |-> a.t.want, got |-> a.t.got, dir |-> a.t.dir]
      <4>1. a.out = <<>> /\ a.t = None
        BY <3>3
      <4>2. None = [want |-> None.want, got |-> None.got, dir |-> None.dir]
        BY DEF None
      <4> QED
        BY <3>3, <4>1, <4>2, Zenon
    <3> QED
      BY <3>1, <3>2, <3>3, <3>4, Zenon DEF TransfersOK
  <2>8. RowsOK'
    <3>1. PICK t : t = tool' /\ Printing(t)
      BY <1>10
    <3>2. /\ t \in ToolSet
          /\ \A i \in DOMAIN t.rows : t.rows[i].message \in DOMAIN messages
          /\ \A k \in DOMAIN messages : Due(k) => RowsFor(k, t.rows) = RowsOf(k)
      BY <3>1 DEF Printing
    <3>3. \A k \in DOMAIN messages : messages[k].login \in 0..L
      BY <1>8 DEF WorldOK
    <3>4. \A k \in DOMAIN messages : Due(k)' => Due(k)
      <4>1. ASSUME NEW k \in DOMAIN messages, Due(k)'
            PROVE  Due(k)
        <5>1. /\ messages[k].done /\ messages[k].login > 0
              /\ tokens'[messages[k].login]
          BY <1>4, <4>1 DEF Due
        <5>2. messages[k].login \in 1..L
          BY <3>3, <5>1
        <5> QED
          BY <1>8, <5>1, <5>2 DEF Due
      <4> QED
        BY <4>1
    <3>5. \A k : RowsOf(k)' = RowsOf(k)
      BY <1>4, Zenon DEF RowsOf
    <3>6. \A k \in DOMAIN messages : messages[k].login < L + 1
      BY <3>3
    <3>7. \A i \in DOMAIN t.rows : /\ t.rows[i].message \in DOMAIN messages
                                   /\ messages[t.rows[i].message].login < L + 1
      BY <3>2, <3>6
    <3>8. \A k \in DOMAIN messages : Due(k)' => RowsFor(k, t.rows) = RowsOf(k)'
      BY <3>2, <3>4, <3>5
    <3> QED
      BY <1>4, <1>8, <3>1, <3>2, <3>7, <3>8 DEF RowsOK, ToolSet
  <2> QED
    BY <1>10, <2>1, <2>2, <2>4, <2>6, <2>7, <2>8 DEF ToolOK, Reading, Printing
<1> QED
  BY <1>7, <1>9, <1>10, EpochPrinted

-----------------------------------------------------------------------------
(* The numbers of a login, as their transfers carry them.                  *)

\* A number comes in one part.
LEMMA OnePart ==
    ASSUME NEW dir, NEW f, f.n = 1
    PROVE  /\ Full(Put(Announced(dir), f)) /\ Put(Announced(dir), f).got[1] = f
<1>1. PICK t : t = Put(Announced(dir), f)
  OBVIOUS
<1>2. PICK e : e = <<>> /\ DOMAIN e = {}
  OBVIOUS
<1>3. Announced(dir) = [want |-> 1, got |-> e, dir |-> dir]
  BY <1>2 DEF Announced
<1>4. t = [want |-> 1, got |-> With(e, 1, f), dir |-> dir]
  BY <1>1, <1>3 DEF Put
<1>5. t.want = 1 /\ t.got = With(e, 1, f)
  BY <1>4
<1>6. DOMAIN With(e, 1, f) = {1} /\ With(e, 1, f)[1] = f
  BY <1>2 DEF With
<1>7. 1..1 = {1}
  OBVIOUS
<1> QED
  BY <1>1, <1>5, <1>6, <1>7 DEF Full

LEMMA AppNumber ==
    ASSUME NEW L \in Nat, L > 0, NEW f, f.ch = "auth", f.dir = "tx",
           f.kind = "part", f.n = 1, f.of = L
    PROVE  TakeRandom(Numbers(0, Announced("tx"), None), f) = Numbers(L, None, None)
<1>1. PICK s, none, atx, no :
        /\ s = Numbers(0, Announced("tx"), None)
        /\ none = None /\ atx = Announced("tx") /\ no = FALSE
  OBVIOUS
<1>2. PICK t : t = Put(Announced("tx"), f) /\ Full(t) /\ t.got[1] = f
  BY OnePart
<1>3. s = [app |-> 0, dev |-> 0, ok |-> no, appT |-> atx, devT |-> none]
  BY <1>1, Zenon DEF Numbers
<1>4. s.ok = no /\ s.appT = atx
  BY <1>3
<1>5. s.appT.want = 1 /\ ~s.ok
  BY <1>1, <1>4 DEF Announced
<1>6. PICK u, w : u = [s EXCEPT !.app = L] /\ w = [u EXCEPT !.appT = none]
  OBVIOUS
<1>7. TakeRandom(s, f) = w
  <2>1. /\ ~(f.ch # "auth" \/ s.ok) /\ ~(f.dir = "tx" /\ f.kind = "announce")
        /\ f.dir = "tx" /\ s.appT.want > 0
    BY <1>5
  <2>2. t = Put(s.appT, f) /\ t.got[1].of = L
    BY <1>1, <1>2, <1>4, Zenon
  <2>3. TakeRandom(s, f) = [s EXCEPT !.app = L, !.appT = None]
    BY <1>2, <2>1, <2>2, Zenon DEF TakeRandom
  <2> QED
    BY <1>1, <1>6, <2>3, Zenon
<1>8. PICK app, zero : app = L /\ zero = 0
  OBVIOUS
<1>9. u = [app |-> app, dev |-> zero, ok |-> no, appT |-> atx, devT |-> none]
  BY <1>3, <1>6, <1>8
<1>10. w = [app |-> app, dev |-> zero, ok |-> no, appT |-> none, devT |-> none]
  <2>1. DOMAIN w = {"app", "dev", "ok", "appT", "devT"}
    BY <1>6, <1>9
  <2>2. w.appT = none
    BY <1>6, <1>9
  <2>3. w.app = app /\ w.dev = zero /\ w.ok = no /\ w.devT = none
    BY <1>6, <1>9
  <2>4. w = [y \in DOMAIN w |-> w[y]]
    BY <1>6, <1>9
  <2> QED
    BY <2>1, <2>2, <2>3, <2>4
<1> QED
  BY <1>1, <1>7, <1>8, <1>10, Zenon DEF Numbers

\* The charger's number after the host's: both are there.
Fills(r, L, s, appT, devT, v, a, b, x) ==
    /\ s = Numbers(L, appT, devT) /\ v = (s.app # 0 /\ L # 0)
    /\ a = [s EXCEPT !.dev = L] /\ b = [a EXCEPT !.ok = v]
    /\ r = [b EXCEPT !.devT = x]
Filled(r, L) ==
    \E s, appT, devT, v, a, b, x : Fills(r, L, s, appT, devT, v, a, b, x)

LEMMA Complete ==
    ASSUME NEW L \in Nat, L > 0, NEW r, Filled(r, L)
    PROVE  r.ok /\ r.app = L /\ r.dev = L
<1>1. PICK s, appT, devT, v, a, b, x :
        /\ s = Numbers(L, appT, devT) /\ v = (s.app # 0 /\ L # 0)
        /\ a = [s EXCEPT !.dev = L] /\ b = [a EXCEPT !.ok = v]
        /\ r = [b EXCEPT !.devT = x]
  BY Zenon DEF Filled, Fills
<1>2. PICK no, none : no = FALSE /\ none = 0
  OBVIOUS
<1>3. s = [app |-> L, dev |-> none, ok |-> no, appT |-> appT, devT |-> devT]
  BY <1>1, <1>2, Zenon DEF Numbers
<1>4. v = TRUE
  <2>1. s.app = L /\ L # 0
    BY <1>3
  <2> QED
    BY <1>1, <2>1, Zenon
<1>5. PICK w : w = v
  OBVIOUS
<1>6. a = [app |-> L, dev |-> L, ok |-> no, appT |-> appT, devT |-> devT]
  BY <1>1, <1>3
<1>7. b = [a EXCEPT !.ok = w]
  BY <1>1, <1>5, Zenon
<1>8. b = [app |-> L, dev |-> L, ok |-> w, appT |-> appT, devT |-> devT]
  BY <1>6, <1>7
<1>9. r = [b EXCEPT !.devT = x]
  BY <1>1, Zenon
<1>10. r = [app |-> L, dev |-> L, ok |-> w, appT |-> appT, devT |-> x]
  BY <1>8, <1>9
<1>11. r.ok = w /\ r.app = L /\ r.dev = L
  BY <1>10
<1> QED
  BY <1>4, <1>5, <1>11, Zenon

\* What the charger's number makes of the host's, whichever way it comes.
Brings(f, t, L) ==
    /\ f.ch = "auth" /\ f.dir = "rx"
    /\ \/ f.kind = "inline" /\ f.of = L
       \/ f.kind = "part" /\ Full(t) /\ t.got[1].of = L

LEMMA DeviceFills ==
    ASSUME NEW L, NEW devT, NEW s, s = Numbers(L, None, devT), NEW f,
           Brings(f, Put(s.devT, f), L)
    PROVE  Filled(TakeRandom(s, f), L)
<1> DEFINE t == Put(s.devT, f)
<1> USE DEF Brings
<1>1. PICK none, no : none = None /\ no = FALSE
  OBVIOUS
<1>2. s = [app |-> L, dev |-> 0, ok |-> no, appT |-> none, devT |-> devT]
  BY <1>1, Zenon DEF Numbers
<1>3. s.ok = no
  BY <1>2
<1>4. f.kind # "announce" /\ ~(f.dir = "tx")
  OBVIOUS
<1>5. /\ ~(f.ch # "auth" \/ s.ok) /\ ~(f.dir = "tx" /\ f.kind = "announce")
      /\ ~(f.dir = "tx" /\ s.appT.want > 0) /\ ~(f.dir = "rx" /\ f.kind = "announce")
  BY <1>1, <1>3, <1>4
<1>6. PICK dev, x :
        /\ dev = IF f.dir = "tx" THEN s.dev
                 ELSE IF f.kind = "inline" THEN f.of
                 ELSE IF Full(t) THEN t.got[1].of ELSE s.dev
        /\ x = IF f.dir = "tx" \/ f.kind = "inline" THEN s.devT
               ELSE IF Full(t) THEN None ELSE t
  OBVIOUS
<1>7. dev = L
  <2>1. CASE f.kind = "inline" /\ f.of = L
    BY <1>4, <1>6, <2>1, Zenon
  <2>2. CASE f.kind = "part" /\ Full(t) /\ t.got[1].of = L
    <3>1. f.kind # "inline"
      BY <2>2
    <3> QED
      BY <1>4, <1>6, <2>2, <3>1, Zenon
  <2> QED
    BY <2>1, <2>2
<1>8. TakeRandom(s, f) = [s EXCEPT !.dev = dev, !.ok = s.app # 0 /\ dev # 0, !.devT = x]
  BY <1>5, <1>6, Zenon DEF TakeRandom
<1>9. PICK v, a, b : /\ v = (s.app # 0 /\ L # 0)
                     /\ a = [s EXCEPT !.dev = L] /\ b = [a EXCEPT !.ok = v]
  OBVIOUS
<1>10. TakeRandom(s, f) = [b EXCEPT !.devT = x]
  BY <1>7, <1>8, <1>9, Zenon
<1>11. s = Numbers(L, None, devT)
  OBVIOUS
<1>12. Fills(TakeRandom(s, f), L, s, None, devT, v, a, b, x)
  BY <1>9, <1>10, <1>11, Zenon DEF Fills
<1> QED
  BY <1>12, Zenon DEF Filled

LEMMA DeviceInline ==
    ASSUME NEW L \in Nat, L > 0, NEW f, f.ch = "auth", f.dir = "rx", f.of = L,
           f.kind = "inline", NEW r, r = TakeRandom(Numbers(L, None, None), f)
    PROVE  r.ok /\ r.app = L /\ r.dev = L
<1>1. PICK l, s, t, none : /\ l = L /\ s = Numbers(l, None, none)
                           /\ t = Put(s.devT, f) /\ none = None
  OBVIOUS
<1>2. Filled(TakeRandom(s, f), l)
  <2>1. Brings(f, Put(s.devT, f), l)
    BY <1>1, Zenon DEF Brings
  <2> QED
    BY <1>1, <2>1, DeviceFills
<1>3. Filled(r, L)
  BY <1>1, <1>2, Zenon
<1> QED
  BY <1>3, Complete

LEMMA DeviceParcel ==
    ASSUME NEW L \in Nat, L > 0, NEW f, f.ch = "auth", f.dir = "rx", f.of = L,
           f.kind = "part", f.n = 1, NEW r,
           r = TakeRandom(Numbers(L, None, Announced("rx")), f)
    PROVE  r.ok /\ r.app = L /\ r.dev = L
<1>1. PICK s, t, arx, none, no :
        /\ s = Numbers(L, None, arx) /\ t = Put(s.devT, f)
        /\ arx = Announced("rx") /\ none = None /\ no = FALSE
  OBVIOUS
<1>2. s.devT = arx
  <2>1. s = [app |-> L, dev |-> 0, ok |-> no, appT |-> none, devT |-> arx]
    BY <1>1, Zenon DEF Numbers
  <2> QED
    BY <2>1
<1>3. Full(t) /\ t.got[1] = f
  <2>1. t = Put(Announced("rx"), f)
    BY <1>1, <1>2, Zenon
  <2> QED
    BY <2>1, OnePart
<1>4. t.got[1].of = L
  BY <1>3
<1>5. Filled(TakeRandom(s, f), L)
  <2>1. Brings(f, Put(s.devT, f), L)
    BY <1>1, <1>3, <1>4, Zenon DEF Brings
  <2> QED
    BY <1>1, <2>1, DeviceFills
<1>6. Filled(r, L)
  BY <1>1, <1>5, Zenon
<1> QED
  BY <1>6, Complete

LEMMA DeviceAnnounces ==
    ASSUME NEW L \in Nat, NEW f, f.ch = "auth", f.dir = "rx", f.kind = "announce",
           f.n = 1
    PROVE  TakeRandom(Numbers(L, None, None), f) = Numbers(L, None, Announced("rx"))
<1>1. PICK s, none, arx, no : /\ s = Numbers(L, None, None) /\ none = None
                              /\ arx = Announced("rx") /\ no = FALSE
  OBVIOUS
<1>2. s = [app |-> L, dev |-> 0, ok |-> no, appT |-> none, devT |-> none]
  BY <1>1, Zenon DEF Numbers
<1>3. Fresh(f) = arx
  BY <1>1 DEF Fresh, Announced
<1>4. TakeRandom(s, f) = [s EXCEPT !.devT = Fresh(f)]
  <2>1. s.ok = no
    BY <1>2
  <2>2. ~(f.ch # "auth" \/ s.ok) /\ ~(f.dir = "tx") /\ f.dir = "rx"
    BY <1>1, <2>1
  <2> QED
    BY <2>2, Zenon DEF TakeRandom
<1>5. [s EXCEPT !.devT = arx]
      = [app |-> L, dev |-> 0, ok |-> no, appT |-> none, devT |-> arx]
  BY <1>2
<1> QED
  BY <1>1, <1>3, <1>4, <1>5, Zenon DEF Numbers

\* A login under way has not both numbers.
LEMMA NotComplete ==
    ASSUME NEW app, NEW appT, NEW devT
    PROVE  ~Numbers(app, appT, devT).ok
BY DEF Numbers

LEMMA ExchangeOK ==
    ASSUME SentOK, Reading, FollowsOK, Exchange
    PROVE  ToolOK'
<1> USE DEF FollowsOK
<1>1. PICK s \in LoginSteps :
        link.step = s[1] /\ link' = [link EXCEPT !.step = s[2]] /\ Send(s[3])
  BY DEF Exchange
<1>2. UNCHANGED <<tokens, messages, tx, rx>>
  BY DEF Exchange
<1>3. PICK f, from, to : f = s[3] /\ from = s[1] /\ to = s[2]
  OBVIOUS
<1>4. PICK L \in Nat : L = Login
  BY LoginNumber
<1>5. /\ f \in FrameSet /\ ~IsLoginStart(f) /\ f.ch = "auth"
      /\ f.handle = link.handle
      /\ \/ /\ from = "announced" /\ to = "asked"
            /\ f.dir = "tx" /\ f.kind = "part" /\ f.n = 1 /\ f.of = L
         \/ /\ from = "asked" /\ to = "ready"
            /\ f.dir = "rx" /\ f.kind = "inline" /\ f.of = L
         \/ /\ from = "asked" /\ to = "offered"
            /\ f.dir = "rx" /\ f.kind = "announce" /\ f.n = 1
         \/ /\ from = "offered" /\ to = "ready"
            /\ f.dir = "rx" /\ f.kind = "part" /\ f.n = 1 /\ f.of = L
  <2>1. link.handle \in Handles
    BY DEF WorldOK
  <2>2. ASSUME NEW ch \in {"auth"}, NEW dir \in {"tx", "rx"},
               NEW kind \in {"announce", "part", "inline"}, NEW n \in {0, 1},
               NEW of \in Nat, ~(dir = "tx" /\ kind = "announce"),
               f = Frame(ch, dir, kind, n, of)
        PROVE  /\ f \in FrameSet /\ ~IsLoginStart(f) /\ f.ch = "auth"
               /\ f.handle = link.handle /\ f.dir = dir /\ f.kind = kind
               /\ f.n = n /\ f.of = of
    BY <2>1, <2>2 DEF Frame, FrameSet, IsLoginStart
  <2>3. CASE s = <<"announced", "asked", Frame("auth", "tx", "part", 1, Login)>>
    BY <1>3, <1>4, <2>2, <2>3
  <2>4. CASE s = <<"asked", "ready", Frame("auth", "rx", "inline", 0, Login)>>
    BY <1>3, <1>4, <2>2, <2>4
  <2>5. CASE s = <<"asked", "offered", Frame("auth", "rx", "announce", 1, 0)>>
    BY <1>3, <2>2, <2>5
  <2>6. CASE s = <<"offered", "ready", Frame("auth", "rx", "part", 1, Login)>>
    BY <1>3, <1>4, <2>2, <2>6
  <2> QED
    BY <1>1, <2>3, <2>4, <2>5, <2>6 DEF LoginSteps
<1>6. Observe(f) /\ UNCHANGED <<air, l2cap_buffers>>
  BY <1>1, <1>3, <1>5, AuthWhole
<1>7. link.step = from /\ from # "ready" /\ from # "greeted"
  BY <1>1, <1>3, <1>5
<1>8. L > 0
  BY <1>4, <1>7 DEF Started
<1>9. active # <<>> /\ active[1].handle = f.handle
  BY <1>4, <1>5, <1>7, <1>8 DEF Started
<1>10. Kept /\ Login' = L
  BY <1>2, <1>4, KeptSame
<1>11. CASE tool'.verdict = "limit"
  BY <1>11, Stopped
<1>12. CASE Watched(f)
  <2>1. /\ tool' = tool /\ Randoms' = TakeRandom(Randoms, f)
        /\ active' \in Seq(FrameSet) /\ active' # <<>> /\ active'[1] = active[1]
    BY <1>12 DEF Watched
  <2>2. Active' = Active
    BY <1>5, <1>12, AuthPasses DEF Watched
  <2>3. RowsOK' /\ \A k \in DOMAIN messages' : messages'[k].login \in (0..Login)'
    BY <1>10, <2>1, RowsKept
  <2>4. /\ link' \in [handle : Handles,
                      step : {"greeted", "announced", "asked", "offered", "ready"}]
        /\ link'.step = to /\ link'.handle = link.handle
    BY <1>1, <1>3, <1>5 DEF WorldOK
  <2>5. /\ \A dir \in {"tx", "rx"} : Underway(dir)' = Idle
        /\ tx' = Idle /\ rx' = Idle
    BY <1>2, <1>7, NoneUnderway DEF Underway
  <2>6. WorldOK'
    BY <2>3, <2>4, <2>5 DEF WorldOK, Idle
  <2>7. AirOK'
    BY <1>6, <1>7, AirStill
  <2>8. Started'
    BY <1>4, <1>5, <1>7, <1>8, <1>9, <1>10, <2>1, <2>4 DEF Started
  <2>9. RandomsOK'
    <3>1. ASSUME NEW k \in DOMAIN messages, messages[k].login = L
          PROVE  Randoms.ok
      BY <1>4, <1>8, <3>1 DEF RandomsOK
    <3>2. CASE from = "announced"
      <4>1. Randoms = Numbers(0, Announced("tx"), None)
        BY <1>4, <1>7, <1>8, <3>2 DEF RandomsOK
      <4>2. Randoms' = Numbers(L, None, None)
        BY <1>5, <1>8, <2>1, <3>2, <4>1, AppNumber
      <4>3. ~Randoms.ok
        BY <4>1, NotComplete
      <4> QED
        BY <1>2, <1>5, <1>10, <2>4, <3>1, <3>2, <4>2, <4>3 DEF RandomsOK
    <3>3. CASE from = "asked" /\ to = "ready"
      <4>1. Randoms = Numbers(L, None, None)
        BY <1>4, <1>7, <1>8, <3>3 DEF RandomsOK
      <4>2. Randoms'.ok /\ Randoms'.app = L /\ Randoms'.dev = L
        <5>1. f.kind = "inline" /\ f.dir = "rx" /\ f.of = L
          BY <1>5, <3>3
        <5> QED
          BY <1>5, <1>8, <2>1, <4>1, <5>1, DeviceInline
      <4> QED
        BY <1>10, <2>4, <3>3, <4>2 DEF RandomsOK
    <3>4. CASE from = "asked" /\ to = "offered"
      <4>1. Randoms = Numbers(L, None, None)
        BY <1>4, <1>7, <1>8, <3>4 DEF RandomsOK
      <4>2. Randoms' = Numbers(L, None, Announced("rx"))
        <5>1. f.kind = "announce" /\ f.dir = "rx" /\ f.n = 1
          BY <1>5, <3>4
        <5> QED
          BY <1>5, <2>1, <4>1, <5>1, DeviceAnnounces
      <4>3. ~Randoms.ok
        BY <4>1, NotComplete
      <4> QED
        BY <1>2, <1>10, <2>4, <3>1, <3>4, <4>2, <4>3 DEF RandomsOK
    <3>5. CASE from = "offered"
      <4>1. Randoms = Numbers(L, None, Announced("rx"))
        BY <1>4, <1>7, <1>8, <3>5 DEF RandomsOK
      <4>2. to = "ready" /\ f.kind = "part" /\ f.n = 1 /\ f.dir = "rx" /\ f.of = L
        BY <1>5, <3>5
      <4>3. Randoms'.ok /\ Randoms'.app = L /\ Randoms'.dev = L
        <5>1. PICK g : g = Numbers(L, None, Announced("rx"))
          OBVIOUS
        <5>2. PICK r : r = TakeRandom(g, f)
          OBVIOUS
        <5>3. r.ok /\ r.app = L /\ r.dev = L
          BY <1>5, <1>8, <4>2, <5>1, <5>2, DeviceParcel
        <5>4. Randoms' = r
          BY <2>1, <4>1, <5>1, <5>2, Zenon
        <5> QED
          BY <5>3, <5>4
      <4> QED
        BY <1>10, <2>4, <4>2, <4>3 DEF RandomsOK
    <3> QED
      BY <1>5, <3>2, <3>3, <3>4, <3>5
  <2>10. TransfersOK'
    BY <1>2, <1>10, <2>2, <2>5, TransfersStay
  <2> QED
    BY <2>1, <2>3, <2>6, <2>7, <2>8, <2>9, <2>10 DEF ToolOK, Reading, RowsOK
<1> QED
  BY <1>5, <1>6, <1>9, <1>11, <1>12, Observed

-----------------------------------------------------------------------------
(* What the frames of a transfer make of the one that is pending.          *)

Transfer(want, got, dir) == [want |-> want, got |-> got, dir |-> dir]
Holding(out, t) == [out |-> out, t |-> t]
FoundOf(parts) == [of |-> parts[1].of, dir |-> parts[1].dir, parts |-> parts]

LEMMA HoldingFields ==
    ASSUME NEW out, NEW t, NEW want, NEW got, NEW dir
    PROVE  /\ Holding(out, t).out = out /\ Holding(out, t).t = t
           /\ Transfer(want, got, dir).want = want
           /\ Transfer(want, got, dir).got = got
           /\ Transfer(want, got, dir).dir = dir
BY DEF Holding, Transfer

LEMMA HoldingParts ==
    ASSUME NEW out, NEW t, NEW s, s = Holding(out, t)
    PROVE  s.out = out /\ s.t = t
BY DEF Holding

\* What the tool has, as the two values that make it.
LEMMA ActiveHolds ==
    ASSUME TransfersOK, Login > 0
    PROVE  Active = Holding(Active.out,
                            Transfer(Active.t.want, Active.t.got, Active.t.dir))
<1>1. PICK a : a = Active
  OBVIOUS
<1>2. /\ a = [out |-> a.out, t |-> a.t]
      /\ a.t = [want |-> a.t.want, got |-> a.t.got, dir |-> a.t.dir]
  BY <1>1, Zenon DEF TransfersOK
<1> QED
  BY <1>1, <1>2, Zenon DEF Holding, Transfer

LEMMA CollectedIs ==
    ASSUME NEW out, NEW t, NEW s, s = Holding(out, t), NEW parts
    PROVE  Collected(s, parts) = Holding(Append(out, FoundOf(parts)), t)
<1>1. PICK c : c = FoundOf(parts)
  OBVIOUS
<1>2. s = [out |-> out, t |-> t]
  BY DEF Holding
<1>3. s.out = out
  BY <1>2
<1>4. Collected(s, parts) = [s EXCEPT !.out = Append(s.out, c)]
  BY <1>1, Zenon DEF Collected, FoundOf
<1>5. PICK more : more = Append(out, c)
  OBVIOUS
<1>6. Collected(s, parts) = [s EXCEPT !.out = more]
  BY <1>3, <1>4, <1>5, Zenon
<1>7. [s EXCEPT !.out = more] = [out |-> more, t |-> t]
  BY <1>2
<1> QED
  BY <1>1, <1>5, <1>6, <1>7, Zenon DEF Holding

LEMMA WithNext ==
    ASSUME NEW out, NEW t, NEW s, s = Holding(out, t), NEW u
    PROVE  [s EXCEPT !.t = u] = Holding(out, u)
BY DEF Holding

LEMMA TakesAnnounce ==
    ASSUME NEW out, NEW t, NEW s, s = Holding(out, t), NEW f,
           f.ch = "miot", f.kind = "announce"
    PROVE  TakeFrame(s, f) = Holding(out, Transfer(f.n, <<>>, f.dir))
<1>1. PICK u : u = Fresh(f)
  OBVIOUS
<1>2. u = Transfer(f.n, <<>>, f.dir)
  BY <1>1 DEF Fresh, Transfer
<1>3. f.kind # "inline" /\ ~(f.ch # "miot")
  OBVIOUS
<1>4. TakeFrame(s, f) = [s EXCEPT !.t = u]
  BY <1>1, <1>3, Zenon DEF TakeFrame
<1>5. [s EXCEPT !.t = u] = Holding(out, u)
  BY WithNext
<1> QED
  BY <1>2, <1>4, <1>5, Zenon

LEMMA TakesInline ==
    ASSUME NEW out, NEW t, NEW s, s = Holding(out, t), NEW f,
           f.ch = "miot", f.kind = "inline"
    PROVE  TakeFrame(s, f) = Holding(Append(out, FoundOf(<<f>>)), t)
<1>1. TakeFrame(s, f) = Collected(s, <<f>>)
  BY DEF TakeFrame, TakeInline
<1>2. PICK parts : parts = <<f>>
  OBVIOUS
<1>3. Collected(s, parts) = Holding(Append(out, FoundOf(parts)), t)
  BY CollectedIs
<1> QED
  BY <1>1, <1>2, <1>3, Zenon

Awaits(s, out, want, got, dir, f, g) ==
    /\ want \in Nat /\ s = Holding(out, Transfer(want, got, dir))
    /\ f.ch = "miot" /\ f.kind = "part" /\ f.dir = dir /\ f.n \in 1..want
    /\ g = With(got, f.n, f)

Partial(g, want) == DOMAIN g # 1..want
AllOf(g, want) == [i \in 1..want |-> g[i]]

LEMMA TakesPart ==
    ASSUME NEW out, NEW want, NEW got, NEW dir, NEW s, NEW f, NEW g,
           Awaits(s, out, want, got, dir, f, g)
    PROVE  /\ ~Partial(g, want) => TakeFrame(s, f) =
                Holding(Append(out, FoundOf(AllOf(g, want))), None)
           /\ Partial(g, want) => TakeFrame(s, f) =
                Holding(out, Transfer(want, g, dir))
<1> USE DEF Awaits, AllOf
<1>1. PICK p : p = Transfer(want, got, dir)
  OBVIOUS
<1>2. p = [want |-> want, got |-> got, dir |-> dir]
  BY <1>1 DEF Transfer
<1>3. s = [out |-> out, t |-> p]
  BY <1>1 DEF Holding
<1>4. s.t = p
  BY <1>3
<1>5. p.want = want /\ p.dir = dir /\ p.got = got
  BY <1>2
<1>6. PICK t : t = [p EXCEPT !.got = g]
  OBVIOUS
<1>7. t = Put(s.t, f)
  BY <1>4, <1>5, <1>6, Zenon DEF Put
<1>8. t = [want |-> want, got |-> g, dir |-> dir]
  BY <1>2, <1>6
<1>9. t.want = want /\ t.got = g
  BY <1>8
<1>10. Full(t) <=> DOMAIN g = 1..want
  <2>1. want > 0
    OBVIOUS
  <2> QED
    BY <1>9, <2>1 DEF Full
<1>11. /\ ~(f.ch # "miot") /\ f.kind # "inline" /\ f.kind # "announce"
       /\ ~(s.t.dir # f.dir)
  BY <1>4, <1>5
<1>12. ASSUME DOMAIN g = 1..want
       PROVE  TakeFrame(s, f) =
                Holding(Append(out, FoundOf([i \in 1..want |-> g[i]])), None)
  <2>1. PICK parts : parts = Parts(t)
    OBVIOUS
  <2>2. parts = [i \in 1..want |-> g[i]]
    BY <1>9, <2>1, Zenon DEF Parts
  <2>3. PICK u : u = Collected(s, parts)
    OBVIOUS
  <2>4. u = Holding(Append(out, FoundOf(parts)), p)
    BY <1>1, <2>3, CollectedIs
  <2>5. PICK none, more : none = None /\ more = Append(out, FoundOf(parts))
    OBVIOUS
  <2>6. [u EXCEPT !.t = none] = Holding(more, none)
    BY <2>4, <2>5, WithNext
  <2>7. TakeFrame(s, f) = [u EXCEPT !.t = None]
    BY <1>7, <1>10, <1>11, <1>12, <2>1, <2>3, Zenon DEF TakeFrame
  <2> QED
    BY <2>2, <2>5, <2>6, <2>7, Zenon
<1>13. ASSUME DOMAIN g # 1..want
       PROVE  TakeFrame(s, f) = Holding(out, Transfer(want, g, dir))
  <2>1. TakeFrame(s, f) = [s EXCEPT !.t = t]
    BY <1>7, <1>10, <1>11, <1>13, Zenon DEF TakeFrame
  <2>2. [s EXCEPT !.t = t] = Holding(out, t)
    BY <1>1, WithNext
  <2> QED
    BY <1>8, <2>1, <2>2, Zenon DEF Transfer
<1> QED
  BY <1>12, <1>13 DEF Partial

\* The first part of a transfer, and the last, of one part or of two.
FirstOnly(f) == [i \in {1} |-> f]
IsFirst(s, out, w, e, dir, f) ==
    /\ s = Holding(out, Transfer(w, e, dir)) /\ w = 2 /\ e = <<>>
    /\ f.ch = "miot" /\ f.kind = "part" /\ f.dir = dir /\ f.n = 1

LEMMA TakesFirst ==
    ASSUME NEW out, NEW dir, NEW w, NEW e, NEW s, NEW f,
           IsFirst(s, out, w, e, dir, f)
    PROVE  TakeFrame(s, f) = Holding(out, Transfer(w, FirstOnly(f), dir))
<1>1. PICK g : g = With(e, f.n, f)
  OBVIOUS
<1>2. DOMAIN e = {} /\ f.n = 1
  BY DEF IsFirst
<1>3. g = [i \in {1} |-> f]
  BY <1>1, <1>2 DEF With
<1>4. Partial(g, w)
  <2>1. DOMAIN g = {1} /\ 2 \in 1..2
    BY <1>3
  <2> QED
    BY <2>1 DEF Partial, IsFirst
<1>5. Awaits(s, out, w, e, dir, f, g)
  BY <1>1 DEF Awaits, IsFirst
<1>6. TakeFrame(s, f) = Holding(out, Transfer(w, g, dir))
  BY <1>4, <1>5, TakesPart
<1> QED
  BY <1>3, <1>6, Zenon DEF FirstOnly

LastParts(p, f, b) == [i \in 1..p |-> IF i = p THEN f ELSE b]
IsLast(s, out, p, got, dir, f, b) ==
    /\ p \in {1, 2} /\ s = Holding(out, Transfer(p, got, dir))
    /\ p = 1 => got = <<>>
    /\ p = 2 => got = [i \in {1} |-> b]
    /\ f.ch = "miot" /\ f.kind = "part" /\ f.dir = dir /\ f.n = p

LEMMA TakesLast ==
    ASSUME NEW out, NEW dir, NEW p, NEW got, NEW s, NEW b, NEW f,
           IsLast(s, out, p, got, dir, f, b)
    PROVE  TakeFrame(s, f) = Holding(Append(out, FoundOf(LastParts(p, f, b))), None)
<1> USE DEF IsLast, LastParts
<1>1. PICK g : g = With(got, p, f)
  OBVIOUS
<1>2. CASE p = 1
  <2>1. DOMAIN got = {}
    BY <1>2
  <2>2. 1..p = {1}
    BY <1>2
  <2>3. DOMAIN g = 1..p /\ g[1] = f
    BY <1>1, <1>2, <2>1, <2>2 DEF With
  <2>4. [i \in 1..p |-> g[i]] = [i \in 1..p |-> IF i = p THEN f ELSE b]
    BY <1>2, <2>2, <2>3
  <2>5. g = With(got, f.n, f)
    BY <1>1
  <2>6. Awaits(s, out, p, got, dir, f, g)
    BY <1>2, <2>5 DEF Awaits
  <2>7. TakeFrame(s, f) = Holding(Append(out, FoundOf(AllOf(g, p))), None)
    <3>1. ~Partial(g, p)
      BY <2>3 DEF Partial
    <3> QED
      BY <2>6, <3>1, TakesPart
  <2> QED
    BY <2>4, <2>7, Zenon DEF AllOf
<1>3. CASE p = 2
  <2>1. DOMAIN got = {1} /\ got[1] = b
    BY <1>3
  <2>2. 1..p = {1, 2}
    BY <1>3
  <2>3. DOMAIN g = 1..p /\ g[1] = b /\ g[2] = f
    BY <1>1, <1>3, <2>1, <2>2 DEF With
  <2>4. [i \in 1..p |-> g[i]] = [i \in 1..p |-> IF i = p THEN f ELSE b]
    BY <1>3, <2>2, <2>3
  <2>5. g = With(got, f.n, f)
    BY <1>1
  <2>6. Awaits(s, out, p, got, dir, f, g)
    BY <1>3, <2>5 DEF Awaits
  <2>7. TakeFrame(s, f) = Holding(Append(out, FoundOf(AllOf(g, p))), None)
    <3>1. ~Partial(g, p)
      BY <2>3 DEF Partial
    <3> QED
      BY <2>6, <3>1, TakesPart
  <2> QED
    BY <2>4, <2>7, Zenon DEF AllOf
<1> QED
  BY <1>2, <1>3
-----------------------------------------------------------------------------
(* A step of two ends that are ready.                                      *)

\* The tool is still reading, and has no other random numbers.
Followed ==
    /\ tool' = tool
    /\ active' \in Seq(FrameSet) /\ (active' = <<>> <=> active = <<>>)
    /\ active # <<>> => active'[1] = active[1]
    /\ Randoms' = Randoms

Sees(f) == Followed /\ (Login > 0 => Active' = TakeFrame(Active, f))

LEMMA QuietFollows ==
    ASSUME Started, UNCHANGED <<active, tool>>
    PROVE  Followed /\ Active' = Active
<1>1. Active' = Active /\ Randoms' = Randoms
  BY Zenon DEF Active, Randoms
<1> QED
  BY <1>1 DEF Followed, Started

LEMMA ReadySees ==
    ASSUME SentOK, FollowsOK, Ready, NEW f \in FrameSet, f.ch = "miot",
           f.handle = link.handle, _parse_att_frame(f)
    PROVE  \/ tool'.verdict = "limit"
           \/ Sees(f)
<1> USE DEF FollowsOK, Sees
<1>1. Observe(f) /\ ~IsLoginStart(f)
  BY DEF _parse_att_frame, IsLoginStart
<1>2. Login \in Nat
  BY LoginNumber
<1>3. CASE Login = 0
  <2>1. active = <<>>
    BY <1>3 DEF Started
  <2>2. active' = active /\ tool' = tool
    BY <1>1, <2>1 DEF Observe
  <2> QED
    BY <1>3, <2>2, QuietFollows
<1>4. CASE Login > 0
  <2>1. active # <<>> /\ active[1].handle = f.handle
    BY <1>4 DEF Started, Ready
  <2>2. tool'.verdict = "limit" \/ Watched(f)
    BY <1>1, <2>1, Observed
  <2>3. ASSUME Watched(f)
        PROVE  Followed /\ Active' = TakeFrame(Active, f)
    <3>1. TakeRandom(Randoms, f) = Randoms
      BY DEF TakeRandom
    <3> QED
      BY <2>1, <2>3, <3>1 DEF Watched, Followed
  <2> QED
    BY <2>2, <2>3
<1> QED
  BY <1>2, <1>3, <1>4

\* What is left to show of such a step: the transfers, and what is in the air.
LEMMA ToolFollows ==
    ASSUME SentOK, FollowsOK, Ready, link' = link, Kept, Followed,
           (\A k \in DOMAIN messages' : messages'[k].login \in (0..Login)')
               => WorldOK',
           AirOK', TransfersOK'
    PROVE  ToolOK'
<1> USE DEF FollowsOK
<1>1. Login' = Login
  BY DEF Kept, Login
<1>2. tool' = tool
  BY DEF Followed
<1>3. RowsOK' /\ \A k \in DOMAIN messages' : messages'[k].login \in (0..Login)'
  BY <1>2, RowsKept
<1>4. WorldOK'
  BY <1>3
<1>5. Started'
  BY <1>1 DEF Started, Followed
<1>6. RandomsOK'
  BY <1>1 DEF RandomsOK, Followed, Ready
<1> QED
  BY <1>2, <1>3, <1>4, <1>5, <1>6 DEF ToolOK, Ready, Reading, RowsOK

LEMMA GiveUpOK ==
    ASSUME SentOK, FollowsOK, GiveUp
    PROVE  ToolOK'
<1> USE DEF FollowsOK
<1>1. /\ Ready /\ tx' = Idle /\ rx' = Idle
      /\ UNCHANGED <<link, tokens, messages, air, l2cap_buffers, active, tool>>
  BY DEF GiveUp, decrypt
<1>2. Kept /\ Login' = Login
  BY <1>1, KeptSame
<1>3. Followed /\ Active' = Active
  BY <1>1, QuietFollows
<1>4. \A dir \in {"tx", "rx"} : Underway(dir)' = Idle'
  BY <1>1 DEF Underway, Idle
<1>5. (\A k \in DOMAIN messages' : messages'[k].login \in (0..Login)') => WorldOK'
  <2>1. link' \in [handle : Handles,
                   step : {"greeted", "announced", "asked", "offered", "ready"}]
    BY <1>1 DEF WorldOK
  <2>2. tx' = Idle'
    BY <1>1 DEF Idle
  <2> QED
    BY <1>4, <2>1, <2>2, Zenon DEF WorldOK
<1>6. \A dir \in {"tx", "rx"} : \A k : Flying(dir, k) => Flying(dir, k)'
  <2>1. \A dir, k : Unsent(k, dir)' = Unsent(k, dir)
    BY <1>1, <1>2, Zenon DEF Unsent
  <2>2. \A dir, k : Frame("miot", dir, "part", 1, k)'
                    = Frame("miot", dir, "part", 1, k)
    BY <1>1, Zenon DEF Frame
  <2> QED
    BY <1>1, <1>3, <1>4, <2>1, <2>2, Zenon DEF Flying
<1>7. AirOK'
  BY <1>1, <1>2, <1>6, Zenon DEF AirOK, NoFrame
<1>8. TransfersOK'
  BY <1>1, <1>2, <1>3, TransfersStay
<1> QED
  BY <1>1, <1>2, <1>3, <1>5, <1>7, <1>8, ToolFollows

-----------------------------------------------------------------------------
(* A message more.                                                         *)

NewMessage(dir, what, parts, done, asked) ==
    [login |-> Login, dir |-> dir, what |-> what, parts |-> parts, done |-> done,
     asked |-> asked]

LEMMA OneMoreMessage ==
    ASSUME SentOK, NEW m, messages' = Append(messages, m), m.login = Login,
           tokens' = tokens
    PROVE  /\ Kept /\ Login' = Login
           /\ Latest \in Nat \ {0} /\ Latest \notin DOMAIN messages
           /\ DOMAIN messages' = DOMAIN messages \cup {Latest}
           /\ messages'[Latest] = m
           /\ \A k \in DOMAIN messages : messages'[k] = messages[k]
<1>1. PICK q, n : q = messages /\ n = Len(q) /\ n \in Nat /\ DOMAIN q = 1..n
                  /\ q \in Seq(MessageSet)
  BY DEF SentOK
<1>2. PICK l : l = n + 1
  OBVIOUS
<1>3. l = Latest
  BY <1>1, <1>2 DEF Latest
<1>4. PICK r : r = Append(q, m)
  OBVIOUS
<1>5. /\ DOMAIN r = 1..l /\ r[l] = m /\ \A k \in 1..n : r[k] = q[k]
  BY <1>1, <1>2, <1>4
<1>6. 1..l = 1..n \cup {l} /\ l \notin 1..n /\ l \in Nat \ {0}
  BY <1>1, <1>2
<1>7. messages' = r
  BY <1>1, <1>4
<1>8. Login' = Login
  BY DEF Login
<1>9. /\ Latest \in Nat \ {0} /\ Latest \notin DOMAIN messages
      /\ DOMAIN messages' = DOMAIN messages \cup {Latest}
      /\ messages'[Latest] = m
      /\ \A k \in DOMAIN messages : messages'[k] = messages[k]
  BY <1>1, <1>3, <1>5, <1>6, <1>7
<1>10. Kept
  BY <1>9 DEF Kept
<1> QED
  BY <1>8, <1>9, <1>10

\* With nothing in the air.
LEMMA QuietAir ==
    ASSUME AirOK, air = Quiet, UNCHANGED <<air, l2cap_buffers>>
    PROVE  AirOK' /\ \A dir \in {"tx", "rx"} : air[dir] = NoFrame /\ air'[dir] = NoFrame'
<1>1. \A dir \in {"tx", "rx"} : air[dir] = NoFrame /\ air'[dir] = NoFrame'
  BY DEF Quiet, NoFrame
<1>2. /\ DOMAIN l2cap_buffers' \subseteq Handles
      /\ \A b \in DOMAIN l2cap_buffers' :
            l2cap_buffers'[b] \in FrameSet /\ l2cap_buffers'[b].ch = "miot"
      /\ l2cap_buffers' = [b \in DOMAIN l2cap_buffers' |-> l2cap_buffers'[b]]
  BY DEF AirOK
<1>3. DOMAIN air' = {"tx", "rx"} /\ air' = [dir \in {"tx", "rx"} |-> air'[dir]]
  BY DEF AirOK
<1> QED
  BY <1>1, <1>2, <1>3, Zenon DEF AirOK

\* A frame of the MIOT channel.
LEMMA MiotFrame ==
    ASSUME WorldOK, NEW dir \in {"tx", "rx"}, NEW kind \in {"announce", "part", "inline"},
           NEW n \in Nat, NEW of \in Nat, NEW f, f = Frame("miot", dir, kind, n, of)
    PROVE  /\ f \in FrameSet /\ f.ch = "miot" /\ f.handle = link.handle
           /\ f.dir = dir /\ f.kind = kind /\ f.n = n /\ f.of = of
<1>1. link.handle \in Handles
  BY DEF WorldOK
<1>2. f = [handle |-> link.handle, ch |-> "miot", dir |-> dir, kind |-> kind,
           n |-> n, of |-> of]
  BY DEF Frame
<1> QED
  BY <1>1, <1>2 DEF FrameSet

LEMMA AnnounceOK ==
    ASSUME SentOK, FollowsOK, Ready, Duplex = FALSE, link' = link, tokens' = tokens,
           NEW dir \in {"tx", "rx"}, NEW what, NEW parts \in {1, 2}, NEW asked,
           messages' = Append(messages, NewMessage(dir, what, parts, FALSE, asked)),
           Send(Frame("miot", dir, "announce", parts, Latest)),
           NEW u, u = [message |-> Latest, next |-> 1],
           tx' = (IF dir = "tx" THEN u ELSE Idle),
           rx' = (IF dir = "rx" THEN u ELSE Idle)
    PROVE  ToolOK'
<1> USE DEF FollowsOK
<1>1. PICK m : m = NewMessage(dir, what, parts, FALSE, asked)
  OBVIOUS
<1>2. /\ m.login = Login /\ m.dir = dir /\ m.parts = parts /\ ~m.done
  BY <1>1 DEF NewMessage
<1>3. PICK k : k = Latest
  OBVIOUS
<1>4. /\ Kept /\ Login' = Login
      /\ k \in Nat \ {0} /\ k \notin DOMAIN messages
      /\ DOMAIN messages' = DOMAIN messages \cup {k}
      /\ messages'[k] = m
      /\ \A j \in DOMAIN messages : messages'[j] = messages[j]
  BY <1>1, <1>2, <1>3, OneMoreMessage
<1>5. PICK f : f = Frame("miot", dir, "announce", parts, k)
  OBVIOUS
<1>6. /\ f \in FrameSet /\ f.ch = "miot" /\ f.handle = link.handle
      /\ f.dir = dir /\ f.kind = "announce" /\ f.n = parts
  BY <1>4, <1>5, MiotFrame
<1>7. Send(f)
  BY <1>3, <1>5, Zenon
<1>8. _parse_att_frame(f) /\ UNCHANGED <<air, l2cap_buffers>> /\ air = Quiet
  BY <1>6, <1>7 DEF Send, MaySend, MaySplit
<1>9. AirOK' /\ \A d \in {"tx", "rx"} : air'[d] = NoFrame'
  BY <1>8, QuietAir
<1>10. /\ Underway(dir)' = u /\ \A d \in {"tx", "rx"} : d # dir => Underway(d)' = Idle'
       /\ tx' = Idle' \/ rx' = Idle'
  BY DEF Underway, Idle
<1>11. u.message = k /\ u.next = 1
  BY <1>3
<1>12. (\A j \in DOMAIN messages' : messages'[j].login \in (0..Login)') => WorldOK'
  <2>1. Unsent(k, dir)'
    BY <1>2, <1>4 DEF Unsent
  <2>2. 1 \in 1..parts
    OBVIOUS
  <2>3. u = [message |-> u.message, next |-> u.next]
    BY <1>11
  <2>4. ASSUME NEW d \in {"tx", "rx"}, NEW w, w = Underway(d)', w # Idle'
        PROVE  /\ link'.step = "ready" /\ w.message \in Nat \ {0}
               /\ w.next \in 1..messages'[w.message].parts
               /\ w = [message |-> w.message, next |-> w.next]
               /\ Unsent(w.message, d)'
    <3>1. d = dir
      BY <1>10, <2>4
    <3>2. w = u
      BY <1>10, <2>4, <3>1
    <3>3. /\ link'.step = "ready" /\ w.message \in Nat \ {0}
          /\ w.next \in 1..messages'[w.message].parts
      BY <1>2, <1>4, <1>11, <2>2, <3>2 DEF Ready
    <3>4. w = [message |-> w.message, next |-> w.next]
      BY <2>3, <3>2, Zenon
    <3>5. Unsent(w.message, d)'
      BY <1>11, <2>1, <3>1, <3>2, Zenon
    <3> QED
      BY <3>3, <3>4, <3>5, Zenon
  <2>5. link' \in [handle : Handles,
                   step : {"greeted", "announced", "asked", "offered", "ready"}]
    BY DEF WorldOK
  <2> QED
    BY <1>10, <2>4, <2>5, Zenon DEF WorldOK
<1>13. ASSUME Sees(f)
       PROVE  TransfersOK'
  <2>1. SUFFICES ASSUME Login > 0
                 PROVE  TransfersOK'
    BY <1>4 DEF TransfersOK
  <2>2. PICK out, t : out = Active.out /\ Active = Holding(out, t)
    BY <2>1, ActiveHolds
  <2>3. PICK b, e, v : /\ b = Active' /\ e = <<>> /\ v = Transfer(parts, e, dir)
                       /\ b = Holding(out, v)
    <3>1. TakeFrame(Active, f) = Holding(out, Transfer(f.n, <<>>, f.dir))
      BY <1>6, <2>2, TakesAnnounce
    <3> QED
      BY <1>6, <1>13, <2>1, <3>1, Zenon DEF Sees
  <2>4. /\ b.out = out /\ b.t = v
        /\ v.want = parts /\ v.got = e /\ v.dir = dir
    BY <2>3, HoldingFields
  <2>5. FoundOK'
    <3>1. FoundOK
      BY <2>1 DEF TransfersOK
    <3>2. Active'.out = Active.out
      BY <2>2, <2>3, <2>4, Zenon
    <3>3. \A j \in DOMAIN messages' : messages'[j].login = Login /\ messages'[j].done =>
                j \in DOMAIN messages /\ messages[j].done
      BY <1>2, <1>4, ZenonT(40)
    <3> QED
      BY <1>4, <3>1, <3>2, <3>3, FoundKept
  <2>6. /\ b = [out |-> b.out, t |-> b.t]
        /\ b.t = [want |-> b.t.want, got |-> b.t.got, dir |-> b.t.dir]
    BY <2>3, <2>4, Zenon DEF Holding, Transfer
  <2>7. Seen(dir)'
    <3>1. /\ b.t.want = messages'[u.message].parts /\ b.t.dir = dir /\ b.t.got = <<>>
          /\ ~(u.next # 1)
      BY <1>2, <1>4, <1>11, <2>3, <2>4
    <3> QED
      BY <1>10, <2>3, <3>1, Zenon DEF Seen
  <2>8. \A d \in {"tx", "rx"} : Underway(d)' # Idle' => Seen(d)'
    BY <1>10, <2>7
  <2> QED
    BY <2>3, <2>5, <2>6, <2>8, Zenon DEF TransfersOK
<1>14. tool'.verdict = "limit" \/ Sees(f)
  BY <1>6, <1>8, ReadySees
<1>15. Sees(f) => Followed
  BY DEF Sees
<1> QED
  BY <1>4, <1>9, <1>12, <1>13, <1>14, <1>15, Stopped, ToolFollows

LEMMA RequestAnnounceOK ==
    ASSUME SentOK, FollowsOK, Duplex = FALSE, RequestAnnounce
    PROVE  ToolOK'
<1>1. PICK what \in Requests :
        /\ New("tx", what, PartsOf(what), FALSE, 0)
        /\ Send(Frame("miot", "tx", "announce", PartsOf(what), Latest))
  BY DEF RequestAnnounce
<1>2. PICK parts : parts = PartsOf(what)
  OBVIOUS
<1>3. parts \in {1, 2}
  BY <1>2 DEF PartsOf
<1>4. messages' = Append(messages, NewMessage("tx", what, parts, FALSE, 0))
  BY <1>1, <1>2, Zenon DEF New, NewMessage
<1>5. Send(Frame("miot", "tx", "announce", parts, Latest))
  BY <1>1, <1>2, Zenon
<1>6. /\ Ready /\ link' = link /\ tokens' = tokens /\ rx' = rx /\ rx = Idle
      /\ tx' = [message |-> Latest, next |-> 1]
  BY DEF RequestAnnounce
<1>7. PICK u : u = [message |-> Latest, next |-> 1]
  OBVIOUS
<1>8. PICK dir \in {"tx", "rx"} : dir = "tx"
  OBVIOUS
<1>9. /\ messages' = Append(messages, NewMessage(dir, what, parts, FALSE, 0))
      /\ Send(Frame("miot", dir, "announce", parts, Latest))
  BY <1>4, <1>5, <1>8, Zenon
<1>10. /\ tx' = (IF dir = "tx" THEN u ELSE Idle)
       /\ rx' = (IF dir = "rx" THEN u ELSE Idle)
  BY <1>6, <1>7, <1>8
<1> QED
  BY <1>3, <1>6, <1>7, <1>9, <1>10, AnnounceOK

LEMMA AnswerAnnounceOK ==
    ASSUME SentOK, FollowsOK, Duplex = FALSE, AnswerAnnounce
    PROVE  ToolOK'
<1>1. PICK what \in Answers, asked \in Asked : New("rx", what, 2, FALSE, asked)
  BY DEF AnswerAnnounce
<1>2. Send(Frame("miot", "rx", "announce", 2, Latest))
  BY DEF AnswerAnnounce
<1>3. messages' = Append(messages, NewMessage("rx", what, 2, FALSE, asked))
  BY <1>1, Zenon DEF New, NewMessage
<1>4. /\ Ready /\ link' = link /\ tokens' = tokens /\ tx' = tx /\ tx = Idle
      /\ rx' = [message |-> Latest, next |-> 1]
  BY DEF AnswerAnnounce
<1>5. PICK u : u = [message |-> Latest, next |-> 1]
  OBVIOUS
<1>6. PICK dir \in {"tx", "rx"} : dir = "rx"
  OBVIOUS
<1>7. PICK parts \in {1, 2} : parts = 2
  OBVIOUS
<1>8. /\ messages' = Append(messages, NewMessage(dir, what, parts, FALSE, asked))
      /\ Send(Frame("miot", dir, "announce", parts, Latest))
  BY <1>2, <1>3, <1>6, <1>7, Zenon
<1>9. /\ tx' = (IF dir = "tx" THEN u ELSE Idle)
      /\ rx' = (IF dir = "rx" THEN u ELSE Idle)
  BY <1>4, <1>5, <1>6
<1> QED
  BY <1>4, <1>5, <1>8, <1>9, AnnounceOK

-----------------------------------------------------------------------------
(* What is under way, and in the air, beside a step that leaves it alone.  *)

LEMMA SeenKept ==
    ASSUME Kept, WorldOK, NEW d \in {"tx", "rx"}, Underway(d) # Idle, Seen(d),
           Underway(d)' = Underway(d), Active'.t = Active.t, air' = air
    PROVE  Seen(d)'
<1>1. PICK u, t : u = Underway(d) /\ u = Underway(d)' /\ t = Active.t /\ t = Active'.t
  OBVIOUS
<1>2. u.message \in DOMAIN messages
  BY <1>1 DEF WorldOK, Unsent
<1>3. messages'[u.message].parts = messages[u.message].parts
  BY <1>2 DEF Kept
<1>4. PICK a : a = air[d] /\ a = air'[d]
  OBVIOUS
<1>5. /\ t.want = messages[u.message].parts /\ t.dir = d
      /\ u.next = 1 \/ a # NoFrame => t.got = <<>>
      /\ u.next # 1 /\ a = NoFrame =>
            \E h \in Handles : t.got = [i \in {1} |->
                [handle |-> h, ch |-> "miot", dir |-> d, kind |-> "part", n |-> 1,
                 of |-> u.message]]
  BY <1>1, <1>4, Zenon DEF Seen
<1>6. NoFrame' = NoFrame
  BY DEF NoFrame
<1> QED
  BY <1>1, <1>3, <1>4, <1>5, <1>6, Zenon DEF Seen

LEMMA FlyingKept ==
    ASSUME Kept, NEW d \in {"tx", "rx"}, NEW k, Flying(d, k), Unsent(k, d)',
           link' = link, l2cap_buffers' = l2cap_buffers, air' = air,
           Active'.t = Active.t,
           \A e \in {"tx", "rx"} : Underway(e)' = Underway(e)
    PROVE  Flying(d, k)'
<1>1. messages'[k].parts = messages[k].parts
  BY DEF Flying, Unsent, Kept
<1>2. Frame("miot", d, "part", 1, k)' = Frame("miot", d, "part", 1, k)
  BY Zenon DEF Frame
<1>3. PICK t : t = Active.t /\ t = Active'.t
  OBVIOUS
<1>4. /\ messages[k].parts = 2 /\ air[d] = Frame("miot", d, "part", 1, k)
      /\ link.handle \in DOMAIN l2cap_buffers
      /\ l2cap_buffers[link.handle] = air[d]
      /\ t = [want |-> 2, got |-> <<>>, dir |-> d]
  BY <1>3, Zenon DEF Flying
<1>5. \A e \in {"tx", "rx"} :
        Underway(e) # Idle => Underway(e) = [message |-> k, next |-> 2] /\ e = d
  BY Zenon DEF Flying
<1>6. \A e \in {"tx", "rx"} :
        Underway(e)' # Idle' => Underway(e)' = [message |-> k, next |-> 2] /\ e = d
  BY <1>5 DEF Idle
<1> QED
  BY <1>1, <1>2, <1>3, <1>4, <1>6, Zenon DEF Flying

\* The parts of a message that is done make one that is whole.
PartsFor(parts, k, n, dir) ==
    /\ k \in Nat /\ n \in {1, 2} /\ dir \in {"tx", "rx"}
    /\ parts \in Seq(FrameSet) /\ Len(parts) = n /\ parts[1].dir = dir
    /\ \A i \in 1..n : parts[i].of = k /\ parts[i].n = i
DoneNow(k, n, dir) ==
    /\ k \in DOMAIN messages /\ messages[k].login = Login /\ messages[k].done
    /\ messages[k].dir = dir /\ messages[k].parts = n

LEMMA WholeNow ==
    ASSUME NEW k, NEW n, NEW dir, NEW parts, PartsFor(parts, k, n, dir),
           DoneNow(k, n, dir)', NEW c, c = FoundOf(parts)
    PROVE  c \in FoundSet /\ c.of = k /\ IsWhole(c)'
<1> USE DEF PartsFor, DoneNow
<1>1. 1 \in 1..n
  OBVIOUS
<1>2. parts[1].of = k
  BY <1>1
<1>3. c = [of |-> k, dir |-> dir, parts |-> parts]
  BY <1>2 DEF FoundOf
<1>4. c.of = k /\ c.dir = dir /\ c.parts = parts
  BY <1>3
<1>5. c \in FoundSet
  BY <1>3 DEF FoundSet
<1>6. IsWhole(c)'
  BY <1>4 DEF IsWhole
<1> QED
  BY <1>4, <1>5, <1>6

LEMMA AnswerInlineOK ==
    ASSUME SentOK, FollowsOK, AnswerInline
    PROVE  ToolOK'
<1> USE DEF FollowsOK
<1>1. PICK what \in Replies, asked \in Asked : New("rx", what, 1, TRUE, asked)
  BY DEF AnswerInline
<1>2. PICK m : m = NewMessage("rx", what, 1, TRUE, asked)
  OBVIOUS
<1>3. messages' = Append(messages, m)
  BY <1>1, <1>2, Zenon DEF New, NewMessage
<1>4. m.login = Login /\ m.dir = "rx" /\ m.parts = 1 /\ m.done
  BY <1>2 DEF NewMessage
<1>5. /\ Ready /\ Send(Frame("miot", "rx", "inline", 1, Latest))
      /\ link' = link /\ tokens' = tokens /\ tx' = tx /\ rx' = rx
  BY DEF AnswerInline
<1>6. PICK k : k = Latest
  OBVIOUS
<1>7. /\ Kept /\ Login' = Login
      /\ k \in Nat \ {0} /\ k \notin DOMAIN messages
      /\ DOMAIN messages' = DOMAIN messages \cup {k}
      /\ messages'[k] = m
      /\ \A j \in DOMAIN messages : messages'[j] = messages[j]
  BY <1>3, <1>4, <1>5, <1>6, OneMoreMessage
<1>8. PICK f : f = Frame("miot", "rx", "inline", 1, k)
  OBVIOUS
<1>9. /\ f \in FrameSet /\ f.ch = "miot" /\ f.handle = link.handle
      /\ f.dir = "rx" /\ f.kind = "inline" /\ f.n = 1 /\ f.of = k
  BY <1>7, <1>8, MiotFrame
<1>10. _parse_att_frame(f) /\ UNCHANGED <<air, l2cap_buffers>>
  <2>1. Send(f)
    BY <1>5, <1>6, <1>8, Zenon
  <2> QED
    BY <1>9, <2>1 DEF Send, MaySplit
<1>11. /\ \A d \in {"tx", "rx"} : Underway(d)' = Underway(d)
       /\ Idle' = Idle /\ NoFrame' = NoFrame
  BY <1>5 DEF Underway, Idle, NoFrame
<1>12. \A j, d : Unsent(j, d) => Unsent(j, d)'
  BY <1>7 DEF Unsent
<1>13. (\A j \in DOMAIN messages' : messages'[j].login \in (0..Login)') => WorldOK'
  <2>1. ASSUME NEW d \in {"tx", "rx"}, NEW w, w = Underway(d), w # Idle
        PROVE  /\ link'.step = "ready" /\ w.message \in Nat \ {0}
               /\ w.next \in 1..messages'[w.message].parts
               /\ w = [message |-> w.message, next |-> w.next]
               /\ Unsent(w.message, d)'
    <3>1. /\ link.step = "ready" /\ w.message \in Nat \ {0}
          /\ w.next \in 1..messages[w.message].parts
          /\ w = [message |-> w.message, next |-> w.next]
          /\ Unsent(w.message, d)
      BY <2>1, Zenon DEF WorldOK
    <3>2. messages'[w.message] = messages[w.message]
      BY <1>7, <3>1 DEF Unsent
    <3> QED
      BY <1>5, <1>12, <3>1, <3>2
  <2>2. /\ link' \in [handle : Handles,
                   step : {"greeted", "announced", "asked", "offered", "ready"}]
        /\ tx' = Idle' \/ rx' = Idle'
    BY <1>5, <1>11 DEF WorldOK
  <2> QED
    BY <1>11, <2>1, <2>2, Zenon DEF WorldOK
<1>14. ASSUME Sees(f)
       PROVE  AirOK' /\ TransfersOK'
  <2>1. PICK out, t, c : out = Active.out /\ t = Active.t /\ c = FoundOf(<<f>>)
    OBVIOUS
  <2>2. ASSUME Login > 0
        PROVE  /\ Active' = Holding(Append(out, c), t)
               /\ Active'.out = Append(out, c) /\ Active'.t = t
    <3>1. PICK s, want, got, dir :
            s = Active /\ s = Holding(out, Transfer(want, got, dir))
      BY <2>1, <2>2, ActiveHolds
    <3>2. s.t = Transfer(want, got, dir)
      BY <3>1, HoldingFields
    <3>3. s = Holding(out, t)
      BY <2>1, <3>1, <3>2, Zenon
    <3>4. TakeFrame(s, f) = Holding(Append(out, c), t)
      BY <1>9, <2>1, <3>3, TakesInline
    <3>5. Active' = Holding(Append(out, c), t)
      BY <1>14, <2>2, <3>1, <3>4, Zenon DEF Sees
    <3>6. PICK b, more : b = Active' /\ more = Append(out, c)
      OBVIOUS
    <3>7. b = Holding(more, t)
      BY <3>5, <3>6, Zenon
    <3>8. b.out = more /\ b.t = t
      BY <3>7, HoldingFields
    <3> QED
      BY <3>5, <3>6, <3>8, Zenon
  <2>3. AirOK'
    <3>1. ASSUME NEW d \in {"tx", "rx"}, NEW j, Flying(d, j), Login > 0
          PROVE  Flying(d, j)'
      <4>1. Unsent(j, d)'
        BY <1>12, <3>1 DEF Flying
      <4>2. Active'.t = Active.t
        BY <2>1, <2>2, <3>1
      <4> QED
        BY <1>5, <1>7, <1>10, <1>11, <3>1, <4>1, <4>2, FlyingKept
    <3>2. ASSUME NEW d \in {"tx", "rx"}, air[d] # NoFrame
          PROVE  /\ link'.step = "ready" /\ air'[d].handle = link'.handle
                 /\ air'[d].ch = "miot"
                 /\ Login' > 0 => \E j \in DOMAIN messages' : Flying(d, j)'
      <4>1. /\ link.step = "ready" /\ air[d].handle = link.handle
            /\ air[d].ch = "miot"
            /\ Login > 0 => \E j \in DOMAIN messages : Flying(d, j)
        BY <3>2, Zenon DEF AirOK
      <4> QED
        BY <1>5, <1>7, <1>10, <3>1, <4>1
    <3>3. /\ DOMAIN l2cap_buffers' \subseteq Handles
          /\ \A b \in DOMAIN l2cap_buffers' :
                l2cap_buffers'[b] \in FrameSet /\ l2cap_buffers'[b].ch = "miot"
          /\ l2cap_buffers' = [b \in DOMAIN l2cap_buffers' |-> l2cap_buffers'[b]]
          /\ DOMAIN air' = {"tx", "rx"} /\ air' = [d \in {"tx", "rx"} |-> air'[d]]
          /\ air'["tx"] = NoFrame' \/ air'["rx"] = NoFrame'
      BY <1>10, <1>11 DEF AirOK
    <3> QED
      BY <1>10, <1>11, <3>2, <3>3, Zenon DEF AirOK
  <2>4. TransfersOK'
    <3>1. SUFFICES ASSUME Login > 0
                   PROVE  TransfersOK'
      BY <1>7 DEF TransfersOK
    <3>2. PICK b : /\ b = Active' /\ b = Holding(Append(out, c), t)
                   /\ b.out = Append(out, c) /\ b.t = t
      BY <2>2, <3>1
    <3>3. PICK parts : parts = <<f>>
      OBVIOUS
    <3>4. c \in FoundSet /\ c.of = k /\ IsWhole(c)'
      <4>1. /\ parts \in Seq(FrameSet) /\ Len(parts) = 1 /\ parts[1].dir = "rx"
            /\ \A i \in 1..1 : parts[i].of = k /\ parts[i].n = i
        BY <1>9, <3>3
      <4>2. PartsFor(parts, k, 1, "rx")
        BY <1>7, <4>1 DEF PartsFor
      <4>3. DoneNow(k, 1, "rx")'
        BY <1>4, <1>7 DEF DoneNow
      <4>4. c = FoundOf(parts)
        BY <2>1, <3>3, Zenon
      <4> QED
        BY <4>2, <4>3, <4>4, WholeNow
    <3>5. FoundOK'
      <4>1. FoundOK
        BY <3>1 DEF TransfersOK
      <4>2. Active'.out = Append(Active.out, c)
        BY <2>1, <3>2, Zenon
      <4>3. ~(c.of \in DOMAIN messages /\ messages[c.of].done)
        BY <1>7, <3>4
      <4>4. \A j \in DOMAIN messages' :
                messages'[j].login = Login /\ messages'[j].done =>
                    j = c.of \/ (j \in DOMAIN messages /\ messages[j].done)
        BY <1>7, <3>4
      <4> QED
        BY <1>7, <3>4, <4>1, <4>2, <4>3, <4>4, FoundMore
    <3>6. /\ b = [out |-> b.out, t |-> b.t]
          /\ b.t = [want |-> b.t.want, got |-> b.t.got, dir |-> b.t.dir]
      <4>1. t = [want |-> t.want, got |-> t.got, dir |-> t.dir]
        BY <2>1, <3>1, Zenon DEF TransfersOK
      <4> QED
        BY <3>2, <4>1, Zenon DEF Holding
    <3>7. \A d \in {"tx", "rx"} : Underway(d)' # Idle' => Seen(d)'
      <4>1. ASSUME NEW d \in {"tx", "rx"}, Underway(d) # Idle
            PROVE  Seen(d)'
        <5>1. Seen(d)
          BY <3>1, <4>1, Zenon DEF TransfersOK
        <5>2. Active'.t = Active.t
          BY <2>1, <3>2, Zenon
        <5> QED
          BY <1>7, <1>10, <1>11, <4>1, <5>1, <5>2, SeenKept
      <4> QED
        BY <1>11, <4>1
    <3> QED
      BY <3>2, <3>5, <3>6, <3>7, Zenon DEF TransfersOK
  <2> QED
    BY <2>3, <2>4
<1>15. tool'.verdict = "limit" \/ Sees(f)
  BY <1>5, <1>9, <1>10, ReadySees
<1>16. Sees(f) => Followed
  BY DEF Sees
<1> QED
  BY <1>5, <1>7, <1>13, <1>14, <1>15, <1>16, Stopped, ToolFollows

-----------------------------------------------------------------------------
(* A part of the transfer under way.                                       *)

\* Part n of p, of message k.
PartStep(dir, k, n, p) ==
    /\ dir \in {"tx", "rx"} /\ k \in Nat \ {0} /\ p \in {1, 2} /\ n \in 1..p
    /\ Underway(dir) = [message |-> k, next |-> n]
    /\ Underway(dir) # Idle
    /\ Unsent(k, dir) /\ messages[k].parts = p
    /\ link.step = "ready" /\ air = Quiet

SentNow(dir, k, n, p) ==
    /\ Kept /\ Login' = Login /\ link' = link /\ DOMAIN messages' = DOMAIN messages
    /\ \A j \in DOMAIN messages : j # k => messages'[j] = messages[j]
    /\ messages'[k].login = messages[k].login /\ messages'[k].dir = messages[k].dir
    /\ messages'[k].parts = messages[k].parts
    /\ messages'[k].done <=> n = p
    /\ \A d \in {"tx", "rx"} :
        Underway(d)' = IF d = dir /\ n # p THEN [message |-> k, next |-> 2] ELSE Idle
    /\ tx' = Idle \/ rx' = Idle

LEMMA PartIs ==
    ASSUME SentOK, FollowsOK, Duplex = FALSE, Part
    PROVE  /\ Ready
           /\ \E dir, k, n, p : /\ PartStep(dir, k, n, p) /\ SentNow(dir, k, n, p)
                                /\ Send(Frame("miot", dir, "part", n, k))
<1> USE DEF FollowsOK
<1>1. PICK dir \in {"tx", "rx"} :
        LET t == IF dir = "tx" THEN tx ELSE rx
        IN /\ t # Idle
           /\ Send(Frame("miot", dir, "part", t.next, t.message))
           /\ messages' = [messages EXCEPT ![t.message].done =
                            t.next = messages[t.message].parts]
           /\ tx' = IF dir = "tx" THEN After(t) ELSE tx
           /\ rx' = IF dir = "rx" THEN After(t) ELSE rx
  BY DEF Part
<1>2. PICK u : u = (IF dir = "tx" THEN tx ELSE rx)
  OBVIOUS
<1>3. u = Underway(dir)
  BY <1>2, Zenon DEF Underway
<1>4. PICK k, n : k = u.message /\ n = u.next
  OBVIOUS
<1>5. PICK p : p = messages[k].parts
  OBVIOUS
<1>6. PICK v : v = (n = p)
  OBVIOUS
<1>7. /\ u # Idle /\ Send(Frame("miot", dir, "part", n, k))
      /\ messages' = [messages EXCEPT ![k].done = v]
      /\ tx' = (IF dir = "tx" THEN After(u) ELSE tx)
      /\ rx' = (IF dir = "rx" THEN After(u) ELSE rx)
  BY <1>1, <1>2, <1>4, <1>5, <1>6, Zenon
<1>8. /\ Ready /\ link' = link /\ tokens' = tokens /\ link.step = "ready"
  BY DEF Part, Ready
<1>9. /\ k \in Nat \ {0} /\ n \in 1..p /\ u = [message |-> k, next |-> n]
      /\ Unsent(k, dir)
  BY <1>3, <1>4, <1>5, <1>7, Zenon DEF WorldOK
<1>10. k \in DOMAIN messages /\ messages[k].login = Login /\ ~messages[k].done
  BY <1>9 DEF Unsent
<1>11. PICK m : m = messages[k] /\ m \in MessageSet
  BY <1>10 DEF SentOK
<1>12. p \in {1, 2} /\ m.parts = p
  BY <1>5, <1>11 DEF MessageSet
<1>13. /\ DOMAIN messages' = DOMAIN messages
       /\ \A j \in DOMAIN messages : j # k => messages'[j] = messages[j]
       /\ messages'[k] = [m EXCEPT !.done = v]
  BY <1>7, <1>10, <1>11
<1>14. PICK w : w = messages'[k] /\ w = [m EXCEPT !.done = v]
  BY <1>13
<1>15. /\ w.login = m.login /\ w.dir = m.dir /\ w.parts = m.parts
       /\ w.what = m.what /\ w.done = v
  BY <1>11, <1>14 DEF MessageSet
<1>16. /\ messages'[k].login = messages[k].login
       /\ messages'[k].dir = messages[k].dir
       /\ messages'[k].parts = messages[k].parts
       /\ messages'[k].what = messages[k].what
       /\ messages'[k].done <=> n = p
  BY <1>6, <1>11, <1>14, <1>15
<1>17. Kept /\ Login' = Login
  BY <1>8, <1>10, <1>13, <1>16 DEF Kept, Login
<1>18. After(u) = IF n # p THEN [message |-> k, next |-> 2] ELSE Idle
  <2>1. CASE n = p
    BY <1>4, <1>5, <2>1 DEF After
  <2>2. CASE n # p
    <3>1. n = 1
      BY <1>9, <1>12, <2>2
    <3>2. After(u) = [u EXCEPT !.next = u.next + 1]
      BY <1>4, <1>5, <2>2 DEF After
    <3>3. [u EXCEPT !.next = u.next + 1] = [message |-> k, next |-> 2]
      BY <1>9, <3>1
    <3> QED
      BY <2>2, <3>2, <3>3
  <2> QED
    BY <2>1, <2>2
<1>19. \A d \in {"tx", "rx"} : d # dir => Underway(d) = Idle
  BY <1>3, <1>7 DEF WorldOK, Underway
<1>20. /\ \A d \in {"tx", "rx"} :
            Underway(d)' = IF d = dir /\ n # p THEN [message |-> k, next |-> 2]
                           ELSE Idle
       /\ tx' = Idle \/ rx' = Idle
  <2>1. CASE dir = "tx"
    <3>1. rx = Idle
      BY <1>19, <2>1 DEF Underway
    <3>2. tx' = After(u) /\ rx' = Idle
      BY <1>7, <2>1, <3>1
    <3>3. Underway("tx")' = After(u) /\ Underway("rx")' = Idle
      BY <3>2 DEF Underway
    <3> QED
      BY <1>18, <2>1, <3>2, <3>3
  <2>2. CASE dir = "rx"
    <3>1. tx = Idle
      BY <1>19, <2>2 DEF Underway
    <3>2. rx' = After(u) /\ tx' = Idle
      BY <1>7, <2>2, <3>1
    <3>3. Underway("rx")' = After(u) /\ Underway("tx")' = Idle
      BY <3>2 DEF Underway
    <3> QED
      BY <1>18, <2>2, <3>2, <3>3
  <2> QED
    BY <2>1, <2>2
<1>21. air = Quiet
  <2>1. PICK f : f = Frame("miot", dir, "part", n, k)
    OBVIOUS
  <2>2. f.kind = "part"
    BY <2>1 DEF Frame
  <2>3. Send(f)
    BY <1>7, <2>1, Zenon
  <2> QED
    BY <2>2, <2>3 DEF Send, MaySend
<1>22. PartStep(dir, k, n, p)
  BY <1>3, <1>5, <1>7, <1>8, <1>9, <1>12, <1>21, Zenon DEF PartStep
<1>23. SentNow(dir, k, n, p)
  BY <1>8, <1>13, <1>16, <1>17, <1>20, Zenon DEF SentNow
<1> QED
  BY <1>7, <1>8, <1>22, <1>23, Zenon

LEMMA PartWorld ==
    ASSUME FollowsOK, NEW dir, NEW k, NEW n, NEW p, PartStep(dir, k, n, p),
           SentNow(dir, k, n, p)
    PROVE  (\A j \in DOMAIN messages' : messages'[j].login \in (0..Login)') => WorldOK'
<1>1. PICK u : u = [message |-> k, next |-> 2]
  OBVIOUS
<1>2. u.message = k /\ u.next = 2 /\ u = [message |-> u.message, next |-> u.next]
  BY <1>1
<1>3. \A d \in {"tx", "rx"} : Underway(d)' # Idle' =>
        d = dir /\ n # p /\ Underway(d)' = u
  BY <1>1 DEF SentNow, Idle
<1>4. n # p => /\ k \in Nat \ {0} /\ 2 \in 1..messages'[k].parts
               /\ Unsent(k, dir)'
  <2>1. ASSUME n # p
        PROVE  messages'[k].parts = 2 /\ ~messages'[k].done
    BY <2>1 DEF PartStep, SentNow
  <2>2. n # p => Unsent(k, dir)'
    BY <2>1 DEF PartStep, SentNow, Unsent
  <2>3. k \in Nat \ {0}
    BY DEF PartStep
  <2> QED
    BY <2>1, <2>2, <2>3
<1>5. /\ link' \in [handle : Handles,
                    step : {"greeted", "announced", "asked", "offered", "ready"}]
      /\ link'.step = "ready"
      /\ tx' = Idle' \/ rx' = Idle'
  BY DEF FollowsOK, WorldOK, SentNow, PartStep, Idle
<1>6. \A d \in {"tx", "rx"} : Underway(d)' # Idle' =>
        /\ Underway(d)' = u /\ u.message \in Nat \ {0}
        /\ u.next \in 1..messages'[u.message].parts
        /\ u = [message |-> u.message, next |-> u.next]
        /\ Unsent(u.message, d)'
  BY <1>2, <1>3, <1>4, Zenon
<1> QED
  BY <1>5, <1>6, Zenon DEF WorldOK

\* A part that is seen whole.
LEMMA PartSeen ==
    ASSUME FollowsOK, NEW dir, NEW k, NEW n, NEW p, PartStep(dir, k, n, p),
           SentNow(dir, k, n, p), air' = Quiet, NEW f,
           f = Frame("miot", dir, "part", n, k), Sees(f)
    PROVE  TransfersOK'
<1> USE DEF FollowsOK
<1>1. SUFFICES ASSUME Login > 0
               PROVE  TransfersOK'
  BY DEF SentNow, TransfersOK
<1>2. /\ dir \in {"tx", "rx"} /\ k \in Nat \ {0} /\ p \in {1, 2} /\ n \in 1..p
      /\ Kept /\ Login' = Login
  BY DEF PartStep, SentNow
<1>3. /\ f \in FrameSet /\ f.ch = "miot" /\ f.handle = link.handle
      /\ f.dir = dir /\ f.kind = "part" /\ f.n = n /\ f.of = k
  BY <1>2, MiotFrame
<1>4. PICK out, want, got, d, s :
        /\ out = Active.out /\ want = Active.t.want /\ got = Active.t.got
        /\ d = Active.t.dir /\ s = Active
  OBVIOUS
<1>5. s = Holding(out, Transfer(want, got, d))
  BY <1>1, <1>4, ActiveHolds
<1>6. Seen(dir)
  BY <1>1, <1>2, Zenon DEF TransfersOK, PartStep
<1>7. PICK u : u = Underway(dir) /\ u.message = k /\ u.next = n
  BY DEF PartStep
<1>8. air[dir] = NoFrame
  BY <1>2 DEF PartStep, Quiet
<1>9. /\ want = p /\ d = dir
      /\ n = 1 => got = <<>>
      /\ n # 1 => \E h \in Handles : got = [i \in {1} |->
                    [handle |-> h, ch |-> "miot", dir |-> dir, kind |-> "part",
                     n |-> 1, of |-> k]]
  <2>1. messages[k].parts = p
    BY DEF PartStep
  <2> QED
    BY <1>4, <1>6, <1>7, <1>8, <2>1, Zenon DEF Seen
<1>10. s = Holding(out, Transfer(p, got, dir))
  BY <1>5, <1>9
<1>11. Active' = TakeFrame(s, f)
  BY <1>1, <1>4, Zenon DEF Sees
<1>12. FoundOK /\ ~messages[k].done /\ k \in DOMAIN messages /\ messages[k].dir = dir
       /\ messages[k].login = Login /\ messages[k].parts = p
  BY <1>1 DEF TransfersOK, PartStep, Unsent
<1>13. CASE n # p
  <2>1. n = 1 /\ p = 2
    BY <1>2, <1>13
  <2>2. PICK g, b, t : /\ g = [i \in {1} |-> f] /\ t = Transfer(p, g, dir)
                       /\ b = Active' /\ b = Holding(out, t)
    <3>1. IsFirst(s, out, p, got, dir, f)
      BY <1>3, <1>9, <1>10, <2>1 DEF IsFirst
    <3>2. TakeFrame(s, f) = Holding(out, Transfer(p, FirstOnly(f), dir))
      BY <3>1, TakesFirst
    <3> QED
      BY <1>11, <3>2, Zenon DEF FirstOnly
  <2>3. b.out = out /\ b.t = t /\ t.want = p /\ t.got = g /\ t.dir = dir
    BY <2>2, HoldingFields
  <2>4. FoundOK'
    <3>1. Active'.out = Active.out
      BY <1>4, <2>2, <2>3, Zenon
    <3>2. \A j \in DOMAIN messages' : messages'[j].login = Login /\ messages'[j].done =>
                j \in DOMAIN messages /\ messages[j].done
      BY <1>13 DEF SentNow
    <3> QED
      BY <1>2, <1>12, <3>1, <3>2, FoundKept
  <2>5. /\ b = [out |-> b.out, t |-> b.t]
        /\ b.t = [want |-> b.t.want, got |-> b.t.got, dir |-> b.t.dir]
    BY <2>2, <2>3, Zenon DEF Holding, Transfer
  <2>6. ASSUME NEW e \in {"tx", "rx"}, Underway(e)' # Idle'
        PROVE  Seen(e)'
    <3>1. e = dir /\ Underway(e)' = [message |-> k, next |-> 2]
      BY <1>13, <2>6 DEF SentNow, Idle
    <3>2. PICK w : w = Underway(e)' /\ w.message = k /\ w.next = 2
      BY <3>1
    <3>3. messages'[k].parts = p
      BY <1>12 DEF SentNow
    <3>4. \E h \in Handles : g = [i \in {1} |->
                [handle |-> h, ch |-> "miot", dir |-> e, kind |-> "part", n |-> 1,
                 of |-> w.message]]
      <4>1. link.handle \in Handles
        BY DEF WorldOK
      <4>2. f = [handle |-> link.handle, ch |-> "miot", dir |-> e, kind |-> "part",
                 n |-> 1, of |-> w.message]
        BY <2>1, <3>1, <3>2 DEF Frame
      <4> QED
        BY <2>2, <4>1, <4>2, Zenon
    <3>5. air'[e] = NoFrame' /\ 2 # 1
      BY DEF Quiet, NoFrame
    <3>6. b.t.want = messages'[w.message].parts /\ b.t.dir = e /\ b.t.got = g
      BY <2>3, <3>1, <3>2, <3>3
    <3>7. ~(w.next = 1 \/ air'[e] # NoFrame')
      BY <3>2, <3>5
    <3> QED
      BY <2>2, <3>2, <3>4, <3>6, <3>7, ZenonT(40) DEF Seen
  <2> QED
    BY <2>2, <2>4, <2>5, <2>6, Zenon DEF TransfersOK
<1>14. CASE n = p
  <2>1. PICK one : /\ one \in FrameSet /\ one.of = k /\ one.n = 1 /\ one.dir = dir
                   /\ p = 2 => got = [i \in {1} |-> one]
    <3>1. CASE p = 1
      BY <1>3, <1>14, <3>1
    <3>2. CASE p = 2
      <4>1. PICK h \in Handles : got = [i \in {1} |->
                    [handle |-> h, ch |-> "miot", dir |-> dir, kind |-> "part",
                     n |-> 1, of |-> k]]
        BY <1>9, <1>14, <3>2
      <4>2. PICK one : one = [handle |-> h, ch |-> "miot", dir |-> dir,
                              kind |-> "part", n |-> 1, of |-> k]
        OBVIOUS
      <4>3. one \in FrameSet /\ one.of = k /\ one.n = 1 /\ one.dir = dir
        BY <1>2, <4>2 DEF FrameSet
      <4> QED
        BY <4>1, <4>2, <4>3, Zenon
    <3> QED
      BY <1>2, <3>1, <3>2
  <2>2. p = 1 => got = <<>>
    BY <1>9, <1>14
  <2>3. PICK parts, c, none :
            /\ parts = [i \in 1..p |-> IF i = p THEN f ELSE one]
            /\ c = FoundOf(parts) /\ none = None
    OBVIOUS
  <2>4. TakeFrame(s, f) = Holding(Append(out, c), none)
    <3>1. IsLast(s, out, p, got, dir, f, one)
      BY <1>2, <1>3, <1>10, <1>14, <2>1, <2>2 DEF IsLast
    <3>2. TakeFrame(s, f) = Holding(Append(out, FoundOf(LastParts(p, f, one))), None)
      BY <3>1, TakesLast
    <3> QED
      BY <2>3, <3>2, Zenon DEF LastParts
  <2>5. PICK b, more : /\ b = Active' /\ more = Append(out, c)
                       /\ b = Holding(more, none)
    BY <1>11, <2>4, Zenon
  <2>6. b.out = more /\ b.t = none
    BY <2>5, HoldingParts
  <2>7. PartsFor(parts, k, p, dir)
    <3>1. parts \in Seq(FrameSet) /\ Len(parts) = p
      BY <1>2, <1>3, <2>1, <2>3
    <3>2. \A i \in 1..p : parts[i].of = k /\ parts[i].n = i /\ parts[i].dir = dir
      BY <1>2, <1>3, <1>14, <2>1, <2>3
    <3>3. 1 \in 1..p
      BY <1>2
    <3> QED
      BY <1>2, <3>1, <3>2, <3>3 DEF PartsFor
  <2>8. DoneNow(k, p, dir)'
    BY <1>12, <1>14 DEF DoneNow, SentNow
  <2>9. c \in FoundSet /\ c.of = k /\ IsWhole(c)'
    BY <2>3, <2>7, <2>8, WholeNow
  <2>10. FoundOK'
    <3>1. Active'.out = Append(Active.out, c)
      BY <1>4, <2>5, <2>6, Zenon
    <3>2. ~(c.of \in DOMAIN messages /\ messages[c.of].done)
      BY <1>12, <2>9
    <3>3. \A j \in DOMAIN messages' : messages'[j].login = Login /\ messages'[j].done =>
                j = c.of \/ (j \in DOMAIN messages /\ messages[j].done)
      BY <2>9 DEF SentNow
    <3> QED
      BY <1>2, <1>12, <2>9, <3>1, <3>2, <3>3, FoundMore
  <2>11. /\ b = [out |-> b.out, t |-> b.t]
         /\ b.t = [want |-> b.t.want, got |-> b.t.got, dir |-> b.t.dir]
    <3>1. None = [want |-> None.want, got |-> None.got, dir |-> None.dir]
      BY DEF None
    <3> QED
      BY <2>3, <2>5, <2>6, <3>1, Zenon DEF Holding
  <2>12. \A e \in {"tx", "rx"} : Underway(e)' = Idle'
    BY <1>14 DEF SentNow, Idle
  <2> QED
    BY <2>5, <2>10, <2>11, <2>12, Zenon DEF TransfersOK
<1> QED
  BY <1>13, <1>14

-----------------------------------------------------------------------------
(* A part of a message, whole in one frame or split in two.                *)

LEMMA PartWholeOK ==
    ASSUME SentOK, FollowsOK, Ready, NEW dir, NEW k, NEW n, NEW p,
           PartStep(dir, k, n, p), SentNow(dir, k, n, p), NEW f,
           f = Frame("miot", dir, "part", n, k), _parse_att_frame(f),
           UNCHANGED <<air, l2cap_buffers>>
    PROVE  ToolOK'
<1>1. air = Quiet /\ air' = Quiet
  BY DEF PartStep, Quiet
<1>2. AirOK'
  <2>1. AirOK
    BY DEF FollowsOK
  <2> QED
    BY <1>1, <2>1, QuietAir
<1>3. f \in FrameSet /\ f.ch = "miot" /\ f.handle = link.handle
  <2>1. dir \in {"tx", "rx"} /\ n \in Nat /\ k \in Nat /\ WorldOK
    BY DEF PartStep, FollowsOK
  <2> QED
    BY <2>1, MiotFrame
<1>4. tool'.verdict = "limit" \/ Sees(f)
  BY <1>3, ReadySees
<1>5. CASE tool'.verdict = "limit"
  BY <1>5, Stopped
<1>6. CASE Sees(f)
  <2>1. TransfersOK'
    BY <1>1, <1>6, PartSeen
  <2>2. Kept /\ link' = link
    BY DEF SentNow
  <2>3. Followed
    BY <1>6 DEF Sees
  <2>4. (\A j \in DOMAIN messages' : messages'[j].login \in (0..Login)') => WorldOK'
    BY PartWorld
  <2> QED
    BY <1>2, <2>1, <2>2, <2>3, <2>4, ToolFollows
<1> QED
  BY <1>4, <1>5, <1>6

LEMMA PartSplitOK ==
    ASSUME SentOK, FollowsOK, Ready, NEW dir, NEW k, NEW n, NEW p,
           PartStep(dir, k, n, p), SentNow(dir, k, n, p), NEW f,
           f = Frame("miot", dir, "part", n, k), MaySplit(f), FirstFragment(f),
           air' = [air EXCEPT ![f.dir] = f]
    PROVE  ToolOK'
<1>1. /\ dir \in {"tx", "rx"} /\ n \in Nat /\ k \in Nat \ {0} /\ air = Quiet
      /\ messages[k].parts = p /\ p \in {1, 2} /\ n \in 1..p
      /\ WorldOK /\ AirOK /\ Started /\ TransfersOK
  BY DEF PartStep, FollowsOK
<1>2. /\ f \in FrameSet /\ f.ch = "miot" /\ f.handle = link.handle /\ f.dir = dir
      /\ f.kind = "part" /\ f.n = n /\ f.of = k
  BY <1>1, MiotFrame
<1>3. n = 1 /\ p = 2
  BY <1>1, <1>2 DEF MaySplit
<1>4. /\ Kept /\ link' = link /\ Login' = Login
  BY DEF SentNow
<1>5. Followed /\ Active' = Active
  <2>1. UNCHANGED <<active, tool>>
    BY DEF FirstFragment, decrypt
  <2> QED
    BY <1>1, <2>1, QuietFollows
<1>6. (\A j \in DOMAIN messages' : messages'[j].login \in (0..Login)') => WorldOK'
  BY PartWorld
<1>7. /\ DOMAIN air' = {"tx", "rx"} /\ air' = [d \in {"tx", "rx"} |-> air'[d]]
      /\ air'[dir] = f
      /\ \A d \in {"tx", "rx"} : d # dir => air'[d] = NoFrame'
  <2>1. air' = [air EXCEPT ![dir] = f]
    BY <1>2
  <2> QED
    BY <1>1, <2>1 DEF Quiet, NoFrame
<1>8. air'[dir] # NoFrame'
  <2>1. f.kind # NoFrame'.kind
    BY <1>2 DEF NoFrame
  <2> QED
    BY <1>7, <2>1
<1>9. /\ DOMAIN l2cap_buffers' \subseteq Handles
      /\ \A b \in DOMAIN l2cap_buffers' :
            l2cap_buffers'[b] \in FrameSet /\ l2cap_buffers'[b].ch = "miot"
      /\ l2cap_buffers' = [b \in DOMAIN l2cap_buffers' |-> l2cap_buffers'[b]]
      /\ link'.handle \in DOMAIN l2cap_buffers' /\ l2cap_buffers'[link'.handle] = f
  <2>1. l2cap_buffers' = [b \in DOMAIN l2cap_buffers \cup {f.handle} |->
                            IF b = f.handle THEN f ELSE l2cap_buffers[b]]
    BY DEF FirstFragment, Begun, With
  <2>2. f.handle \in Handles
    BY <1>1, <1>2 DEF WorldOK
  <2>3. /\ DOMAIN l2cap_buffers \subseteq Handles
        /\ \A b \in DOMAIN l2cap_buffers :
              l2cap_buffers[b] \in FrameSet /\ l2cap_buffers[b].ch = "miot"
    BY <1>1 DEF AirOK
  <2>4. PICK S : S = DOMAIN l2cap_buffers \cup {f.handle}
    OBVIOUS
  <2>5. /\ DOMAIN l2cap_buffers' = S
        /\ \A b \in S : l2cap_buffers'[b] = IF b = f.handle THEN f
                                            ELSE l2cap_buffers[b]
        /\ l2cap_buffers' = [b \in S |-> l2cap_buffers'[b]]
    BY <2>1, <2>4
  <2> QED
    BY <1>2, <1>4, <2>2, <2>3, <2>4, <2>5
<1>10. \A d \in {"tx", "rx"} : Underway(d)' # Idle' =>
            d = dir /\ Underway(d)' = [message |-> k, next |-> 2]
  BY DEF SentNow, Idle
<1>11. Unsent(k, dir)' /\ messages'[k].parts = 2
  <2>1. messages'[k].parts = 2 /\ ~messages'[k].done
    BY <1>1, <1>3 DEF SentNow
  <2> QED
    BY <2>1 DEF PartStep, SentNow, Unsent
<1>12. ASSUME Login > 0
       PROVE  Active.t = [want |-> 2, got |-> <<>>, dir |-> dir]
  <2>1. Seen(dir)
    BY <1>1, <1>12, Zenon DEF TransfersOK, PartStep
  <2>2. PICK u, t : /\ u = Underway(dir) /\ u.message = k /\ u.next = n
                    /\ t = Active.t
    BY DEF PartStep
  <2>3. t.want = p /\ t.dir = dir /\ t.got = <<>>
    BY <1>1, <1>3, <2>1, <2>2, Zenon DEF Seen
  <2>4. t = [want |-> t.want, got |-> t.got, dir |-> t.dir]
    BY <1>1, <1>12, <2>2, Zenon DEF TransfersOK
  <2> QED
    BY <1>3, <2>2, <2>3, <2>4, Zenon
<1>13. ASSUME Login > 0
       PROVE  Flying(dir, k)'
  <2>1. f = Frame("miot", dir, "part", 1, k)'
    BY <1>3, <1>4 DEF Frame
  <2>2. Active'.t = [want |-> 2, got |-> <<>>, dir |-> dir]
    BY <1>5, <1>12, <1>13
  <2> QED
    BY <1>7, <1>9, <1>10, <1>11, <2>1, <2>2, Zenon DEF Flying
<1>14. AirOK'
  <2>1. ASSUME NEW d \in {"tx", "rx"}, air'[d] # NoFrame'
        PROVE  /\ link'.step = "ready" /\ air'[d].handle = link'.handle
               /\ air'[d].ch = "miot"
               /\ Login' > 0 => \E j \in DOMAIN messages' : Flying(d, j)'
    <3>1. d = dir
      BY <1>7, <2>1
    <3>2. k \in DOMAIN messages'
      BY <1>11 DEF Unsent
    <3>3. link'.step = "ready" /\ air'[d].handle = link'.handle /\ air'[d].ch = "miot"
      BY <1>2, <1>4, <1>7, <3>1 DEF PartStep
    <3> QED
      BY <1>4, <1>13, <3>1, <3>2, <3>3
  <2>2. air'["tx"] = NoFrame' \/ air'["rx"] = NoFrame'
    BY <1>1, <1>7
  <2> QED
    BY <1>7, <1>9, <2>1, <2>2, Zenon DEF AirOK
<1>15. TransfersOK'
  <2>1. SUFFICES ASSUME Login > 0
                 PROVE  TransfersOK'
    BY <1>4 DEF TransfersOK
  <2>2. FoundOK'
    <3>1. FoundOK /\ Active'.out = Active.out
      BY <1>1, <1>5, <2>1 DEF TransfersOK
    <3>2. \A j \in DOMAIN messages' : messages'[j].login = Login /\ messages'[j].done =>
                j \in DOMAIN messages /\ messages[j].done
      BY <1>3 DEF SentNow
    <3> QED
      BY <1>4, <3>1, <3>2, FoundKept
  <2>3. PICK b : b = Active' /\ b = Active
    BY <1>5
  <2>4. /\ b = [out |-> b.out, t |-> b.t]
        /\ b.t = [want |-> b.t.want, got |-> b.t.got, dir |-> b.t.dir]
    BY <1>1, <2>1, <2>3, Zenon DEF TransfersOK
  <2>5. PICK t : t = b.t /\ t.want = 2 /\ t.got = <<>> /\ t.dir = dir
    BY <1>12, <2>1, <2>3
  <2>6. ASSUME NEW d \in {"tx", "rx"}, Underway(d)' # Idle'
        PROVE  Seen(d)'
    <3>1. d = dir
      BY <1>10, <2>6
    <3>2. PICK w : w = Underway(d)' /\ w.message = k
      BY <1>10, <2>6
    <3>3. t.want = messages'[w.message].parts /\ t.dir = d
      BY <1>11, <2>5, <3>1, <3>2
    <3>4. air'[d] # NoFrame'
      BY <1>8, <3>1
    <3> QED
      BY <2>3, <2>5, <3>2, <3>3, <3>4, Zenon DEF Seen
  <2> QED
    BY <2>2, <2>3, <2>4, <2>6, Zenon DEF TransfersOK
<1> QED
  BY <1>4, <1>5, <1>6, <1>14, <1>15, ToolFollows

LEMMA PartOK ==
    ASSUME SentOK, FollowsOK, Duplex = FALSE, Part
    PROVE  ToolOK'
<1>1. Ready
  BY PartIs
<1>2. PICK dir, k, n, p : /\ PartStep(dir, k, n, p) /\ SentNow(dir, k, n, p)
                          /\ Send(Frame("miot", dir, "part", n, k))
  BY PartIs
<1>3. PICK f : f = Frame("miot", dir, "part", n, k)
  OBVIOUS
<1>4. Send(f)
  BY <1>2, <1>3, Zenon
<1>5. CASE _parse_att_frame(f) /\ UNCHANGED <<air, l2cap_buffers>>
  BY <1>1, <1>2, <1>3, <1>5, PartWholeOK
<1>6. CASE MaySplit(f) /\ FirstFragment(f) /\ air' = [air EXCEPT ![f.dir] = f]
  BY <1>1, <1>2, <1>3, <1>6, PartSplitOK
<1> QED
  BY <1>4, <1>5, <1>6, Zenon DEF Send

-----------------------------------------------------------------------------
(* The last fragment.                                                      *)

\* Nothing is in the air after it.
LEMMA AirGone ==
    ASSUME AirOK, NEW dir \in {"tx", "rx"}, air[dir] # NoFrame,
           air' = [air EXCEPT ![dir] = NoFrame], NEW S,
           S \subseteq DOMAIN l2cap_buffers,
           \/ l2cap_buffers' = l2cap_buffers
           \/ l2cap_buffers' = [h \in S |-> l2cap_buffers[h]]
    PROVE  AirOK' /\ \A d \in {"tx", "rx"} : air'[d] = NoFrame'
<1>1. /\ DOMAIN air = {"tx", "rx"}
      /\ \A d \in {"tx", "rx"} : d # dir => air[d] = NoFrame
  BY DEF AirOK
<1>2. /\ DOMAIN air' = {"tx", "rx"} /\ air' = [d \in {"tx", "rx"} |-> air'[d]]
      /\ \A d \in {"tx", "rx"} : air'[d] = NoFrame'
  BY <1>1 DEF NoFrame
<1>3. /\ DOMAIN l2cap_buffers' \subseteq Handles
      /\ \A b \in DOMAIN l2cap_buffers' :
            l2cap_buffers'[b] \in FrameSet /\ l2cap_buffers'[b].ch = "miot"
      /\ l2cap_buffers' = [b \in DOMAIN l2cap_buffers' |-> l2cap_buffers'[b]]
  <2>1. CASE l2cap_buffers' = l2cap_buffers
    BY <2>1 DEF AirOK
  <2>2. CASE l2cap_buffers' = [h \in S |-> l2cap_buffers[h]]
    BY <2>2 DEF AirOK
  <2> QED
    BY <2>1, <2>2
<1> QED
  BY <1>2, <1>3, Zenon DEF AirOK

LEMMA WorldSame ==
    ASSUME WorldOK, UNCHANGED <<link, tokens, messages, tx, rx>>
    PROVE  WorldOK'
<1>1. \A d : Underway(d)' = Underway(d)
  BY Zenon DEF Underway
<1>2. Login' = Login
  BY DEF Login
<1>3. \A j, d : Unsent(j, d)' = Unsent(j, d)
  BY <1>2, Zenon DEF Unsent
<1> QED
  BY <1>1, <1>2, <1>3 DEF WorldOK, Idle

LEMMA LastFragmentOK ==
    ASSUME SentOK, FollowsOK, NEW dir \in {"tx", "rx"}, LastFragment(dir)
    PROVE  ToolOK'
<1>1. PICK f : f = air[dir]
  OBVIOUS
<1>2. /\ Reading /\ f # NoFrame /\ FinalFragment(f)
      /\ air' = [air EXCEPT ![dir] = NoFrame]
      /\ UNCHANGED <<link, tokens, messages, tx, rx>>
  BY <1>1, Zenon DEF LastFragment
<1>3. WorldOK /\ AirOK /\ Started /\ TransfersOK
  BY DEF FollowsOK
<1>4. /\ link.step = "ready" /\ f.handle = link.handle /\ f.ch = "miot"
      /\ Login > 0 => \E k \in DOMAIN messages : Flying(dir, k)
  BY <1>1, <1>2, <1>3, Zenon DEF AirOK
<1>5. Ready
  BY <1>2, <1>4 DEF Ready
<1>6. Kept /\ Login' = Login
  BY <1>2, KeptSame
<1>7. PICK S : S = DOMAIN l2cap_buffers \ {f.handle}
  OBVIOUS
<1>8. \/ l2cap_buffers' = l2cap_buffers
      \/ l2cap_buffers' = [h \in S |-> l2cap_buffers[h]]
  BY <1>2, <1>7 DEF FinalFragment, Restrict
<1>9. AirOK' /\ \A d \in {"tx", "rx"} : air'[d] = NoFrame'
  <2>1. S \subseteq DOMAIN l2cap_buffers /\ air[dir] # NoFrame
    BY <1>1, <1>2, <1>7
  <2> QED
    BY <1>2, <1>3, <1>8, <2>1, AirGone
<1>10. WorldOK'
  BY <1>2, <1>3, WorldSame
<1>11. CASE ~(Login > 0)
  <2>1. TransfersOK'
    BY <1>6, <1>11 DEF TransfersOK
  <2>2. active = <<>>
    BY <1>3, <1>11, LoginNumber DEF Started
  <2>3. UNCHANGED <<active, tool>>
    <3>1. CASE f.handle \in DOMAIN l2cap_buffers
      <4>1. PICK first, b : first = l2cap_buffers[f.handle] /\ b = Joined(first, f)
        OBVIOUS
      <4>2. first \in FrameSet /\ first.ch = "miot"
        BY <1>3, <3>1, <4>1 DEF AirOK
      <4>3. b.ch = "miot"
        <5>1. CASE first = f
          BY <1>4, <4>1, <5>1 DEF Joined
        <5>2. CASE first # f
          <6>1. PICK a, d : d = f.dir /\ a = [first EXCEPT !.dir = d]
            OBVIOUS
          <6>2. a.ch = "miot" /\ a \in [handle : Handles,
                    ch : {"auth", "miot", "signalling"}, dir : {d},
                    kind : {"announce", "part", "inline", "control"}, n : Nat,
                    of : Nat]
            BY <4>2, <6>1 DEF FrameSet
          <6>3. b = [a EXCEPT !.of = 0]
            BY <4>1, <5>2, <6>1, Zenon DEF Joined
          <6> QED
            BY <6>2, <6>3
        <5> QED
          BY <5>1, <5>2
      <4>4. _parse_att_frame(b)
        BY <1>2, <3>1, <4>1, Zenon DEF FinalFragment
      <4>5. Observe(b) /\ ~IsLoginStart(b)
        BY <4>3, <4>4 DEF _parse_att_frame, IsLoginStart
      <4> QED
        BY <2>2, <4>5 DEF Observe
    <3>2. CASE f.handle \notin DOMAIN l2cap_buffers
      BY <1>2, <3>2 DEF FinalFragment, decrypt
    <3> QED
      BY <3>1, <3>2
  <2>4. Followed
    BY <1>3, <2>3, QuietFollows
  <2> QED
    BY <1>2, <1>5, <1>6, <1>9, <1>10, <2>1, <2>4, ToolFollows
<1>12. CASE Login > 0
  <2>1. PICK k \in DOMAIN messages : Flying(dir, k)
    BY <1>4, <1>12
  <2>2. k \in Nat /\ messages[k].parts = 2
    BY <2>1, MessageTypes DEF Flying
  <2>3. f = Frame("miot", dir, "part", 1, k)
    BY <1>1, <2>1 DEF Flying
  <2>4. /\ f \in FrameSet /\ f.dir = dir /\ f.kind = "part" /\ f.n = 1 /\ f.of = k
    <3>1. 1 \in Nat /\ "part" \in {"announce", "part", "inline"}
      OBVIOUS
    <3> QED
      BY <1>3, <2>2, <2>3, <3>1, MiotFrame
  <2>5. f.handle \in DOMAIN l2cap_buffers /\ l2cap_buffers[f.handle] = f
    BY <1>1, <1>4, <2>1 DEF Flying
  <2>6. _parse_att_frame(f)
    <3>1. _parse_att_frame(Joined(l2cap_buffers[f.handle], f))
      BY <1>2, <2>5, Zenon DEF FinalFragment
    <3>2. Joined(l2cap_buffers[f.handle], f) = f
      BY <2>5 DEF Joined
    <3> QED
      BY <3>1, <3>2, Zenon
  <2>7. tool'.verdict = "limit" \/ Sees(f)
    BY <1>4, <1>5, <2>4, <2>6, ReadySees
  <2>8. CASE tool'.verdict = "limit"
    BY <2>8, Stopped
  <2>9. CASE Sees(f)
    <3>1. PICK out, want, got, d, s :
            /\ out = Active.out /\ want = Active.t.want /\ got = Active.t.got
            /\ d = Active.t.dir /\ s = Active
      OBVIOUS
    <3>2. s = Holding(out, Transfer(want, got, d))
      BY <1>3, <1>12, <3>1, ActiveHolds
    <3>3. want = 2 /\ got = <<>> /\ d = dir
      <4>1. PICK t : t = Active.t /\ t = [want |-> 2, got |-> <<>>, dir |-> dir]
        BY <2>1, Zenon DEF Flying
      <4>2. t.want = 2 /\ t.got = <<>> /\ t.dir = dir
        BY <4>1
      <4> QED
        BY <3>1, <4>1, <4>2, Zenon
    <3>4. IsFirst(s, out, want, got, dir, f)
      BY <1>4, <2>4, <3>2, <3>3 DEF IsFirst
    <3>5. TakeFrame(s, f) = Holding(out, Transfer(want, FirstOnly(f), dir))
      BY <3>4, TakesFirst
    <3>6. PICK b, g, t : /\ b = Active' /\ g = FirstOnly(f)
                         /\ t = Transfer(want, g, dir) /\ b = Holding(out, t)
      BY <1>12, <2>9, <3>1, <3>5, Zenon DEF Sees
    <3>7. b.out = out /\ b.t = t /\ t.want = want /\ t.got = g /\ t.dir = dir
      BY <3>6, HoldingFields
    <3>8. FoundOK'
      <4>1. FoundOK
        BY <1>3, <1>12 DEF TransfersOK
      <4>2. Active'.out = Active.out
        BY <3>1, <3>6, <3>7, Zenon
      <4>3. \A j \in DOMAIN messages' :
                messages'[j].login = Login /\ messages'[j].done =>
                    j \in DOMAIN messages /\ messages[j].done
        BY <1>2
      <4> QED
        BY <1>6, <4>1, <4>2, <4>3, FoundKept
    <3>9. /\ b = [out |-> b.out, t |-> b.t]
          /\ b.t = [want |-> b.t.want, got |-> b.t.got, dir |-> b.t.dir]
      BY <3>6, <3>7, Zenon DEF Holding, Transfer
    <3>10. ASSUME NEW e \in {"tx", "rx"}, Underway(e)' # Idle'
           PROVE  Seen(e)'
      <4>1. Underway(e)' = Underway(e) /\ Idle' = Idle
        BY <1>2 DEF Underway, Idle
      <4>2. Underway(e) = [message |-> k, next |-> 2] /\ e = dir
        BY <2>1, <3>10, <4>1, Zenon DEF Flying
      <4>3. PICK w : w = Underway(e)' /\ w.message = k /\ w.next = 2
        BY <4>1, <4>2
      <4>4. \E h \in Handles : g = [i \in {1} |->
                [handle |-> h, ch |-> "miot", dir |-> e, kind |-> "part", n |-> 1,
                 of |-> w.message]]
        <5>1. link.handle \in Handles
          BY <1>3 DEF WorldOK
        <5>2. f = [handle |-> link.handle, ch |-> "miot", dir |-> e, kind |-> "part",
                   n |-> 1, of |-> w.message]
          BY <2>3, <4>2, <4>3 DEF Frame
        <5> QED
          BY <3>6, <5>1, <5>2, Zenon DEF FirstOnly
      <4>5. /\ b.t.want = messages'[w.message].parts /\ b.t.dir = e /\ b.t.got = g
        BY <1>2, <2>2, <3>3, <3>7, <4>2, <4>3
      <4>6. ~(w.next = 1 \/ air'[e] # NoFrame')
        BY <1>9, <4>3
      <4> QED
        BY <3>6, <4>3, <4>4, <4>5, <4>6, ZenonT(40) DEF Seen
    <3>11. TransfersOK'
      BY <3>6, <3>8, <3>9, <3>10, Zenon DEF TransfersOK
    <3>12. Followed
      BY <2>9 DEF Sees
    <3> QED
      BY <1>2, <1>5, <1>6, <1>9, <1>10, <3>11, <3>12, ToolFollows
  <2> QED
    BY <2>7, <2>8, <2>9
<1> QED
  BY <1>11, <1>12
-----------------------------------------------------------------------------
LEMMA ToolStep ==
    Duplex = FALSE /\ SentOK /\ ToolOK /\ [Next]_vars => ToolOK'
<1> SUFFICES ASSUME Duplex = FALSE, SentOK, ToolOK, [Next]_vars
             PROVE  ToolOK'
  OBVIOUS
<1>1. Reading => FollowsOK
  BY DEF ToolOK
<1>2. CASE Connect
  <2>1. Reading
    BY <1>2 DEF Connect
  <2> QED
    BY <1>1, <1>2, <2>1, ConnectOK
<1>3. CASE Signal
  BY <1>3, SignalOK
<1>4. CASE LoginStart
  <2>1. Reading
    BY <1>4 DEF LoginStart
  <2> QED
    BY <1>1, <1>4, <2>1, LoginStartOK
<1>5. CASE Exchange
  <2>1. Reading
    BY <1>5 DEF Exchange
  <2> QED
    BY <1>1, <1>5, <2>1, ExchangeOK
<1>6. CASE GiveUp
  <2>1. Reading
    BY <1>6 DEF GiveUp, Ready
  <2> QED
    BY <1>1, <1>6, <2>1, GiveUpOK
<1>7. CASE RequestAnnounce
  <2>1. Reading
    BY <1>7 DEF RequestAnnounce, Ready
  <2> QED
    BY <1>1, <1>7, <2>1, RequestAnnounceOK
<1>8. CASE AnswerInline
  <2>1. Reading
    BY <1>8 DEF AnswerInline, Ready
  <2> QED
    BY <1>1, <1>8, <2>1, AnswerInlineOK
<1>9. CASE AnswerAnnounce
  <2>1. Reading
    BY <1>9 DEF AnswerAnnounce, Ready
  <2> QED
    BY <1>1, <1>9, <2>1, AnswerAnnounceOK
<1>10. CASE Part
  <2>1. Reading
    BY <1>10 DEF Part, Ready
  <2> QED
    BY <1>1, <1>10, <2>1, PartOK
<1>11. ASSUME NEW dir \in {"tx", "rx"}, LastFragment(dir)
       PROVE  ToolOK'
  <2>1. Reading
    BY <1>11 DEF LastFragment
  <2> QED
    BY <1>1, <1>11, <2>1, LastFragmentOK
<1>12. CASE CaptureEnds
  <2>1. Reading
    BY <1>12 DEF CaptureEnds, Reading
  <2> QED
    BY <1>1, <1>12, <2>1, EndPrinted
<1>13. CASE UNCHANGED vars
  BY <1>13, ToolStutters
<1> QED
  BY <1>2, <1>3, <1>4, <1>5, <1>6, <1>7, <1>8, <1>9, <1>10, <1>11, <1>12, <1>13
     DEF Next

\* When the two ends send one frame and one transfer at a time, the rows that
\* decrypt_att_frames prints of a message it has the keys for are there, and are
\* the entries that the message has: however the capture is cut into frames,
\* fragments, logins and connections, and whatever was given up on the way.
THEOREM PrintedAsExchanged ==
    Duplex = FALSE => (Spec => []Decoded)
<1> SUFFICES ASSUME Duplex = FALSE
             PROVE  Spec => []Decoded
  OBVIOUS
<1>1. Init => SentOK /\ ToolOK
  BY SentInit, ToolInit
<1>2. (SentOK /\ ToolOK) /\ [Next]_vars => (SentOK /\ ToolOK)'
  BY SentStep, ToolStep
<1>3. SentOK /\ ToolOK => Decoded
  BY AllDecoded
<1> QED
  BY <1>1, <1>2, <1>3, PTL DEF Spec
=============================================================================
