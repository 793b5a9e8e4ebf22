------------------------- MODULE XiaomiCloudProofs -------------------------
(***************************************************************************)
(* Proofs about the choice of a token in the device list, for lists of any *)
(* length.  The loop over the list is a fold, and what it has found after  *)
(* each record is shown by induction.                                      *)
(***************************************************************************)
EXTENDS XiaomiCloudProperties, WellFoundedInduction, TLAPS

-----------------------------------------------------------------------------
(* Induction over the naturals.  The predicate is a set: provers cannot    *)
(* instantiate one that is an operator, as it is in NatInduction.          *)

\* Every set of naturals has a least element.
LEMMA LeastNatural ==
    ASSUME NEW T, T \subseteq Nat, T # {}
    PROVE  \E m \in T : \A k \in T : m <= k
<1> DEFINE R == OpToRel(<, Nat)
<1>1. IsWellFoundedOn(R, Nat)
  BY NatLessThanWellFounded
<1>2. \A a, b \in Nat : a < b => <<a, b>> \in R
  BY DEF OpToRel
<1> HIDE DEF R
<1>3. PICK m \in T : \A k \in T : <<k, m>> \notin R
  BY <1>1, WFMin
<1>4. \A k \in T : ~(k < m)
  BY <1>2, <1>3
<1> QED
  BY <1>4

\* A set that holds 0 and with each natural the next one holds them all.
LEMMA Induction ==
    ASSUME NEW P, 0 \in P, \A k \in Nat : k \in P => k + 1 \in P
    PROVE  \A k \in Nat : k \in P
<1> DEFINE T == {k \in Nat : k \notin P}
<1> SUFFICES ASSUME T # {} PROVE FALSE
  OBVIOUS
<1>1. PICK m \in T : \A k \in T : m <= k
  BY LeastNatural
<1>2. m \in Nat \ {0} /\ m \notin P
  BY <1>1
<1>3. m - 1 \in Nat /\ m - 1 \notin T
  BY <1>1, <1>2
<1>4. m - 1 \in P /\ (m - 1) + 1 = m
  BY <1>2, <1>3
<1> QED
  BY <1>2, <1>3, <1>4

-----------------------------------------------------------------------------
(* The loop of find_token_by_mac, which is a fold.                         *)

\* The recursion of the fold, over the sets of places in the list.
Body(devices, g, s) == IF s = {} THEN Unfound
                       ELSE Look(g[s \ {Max(s)}], devices[Max(s)])
Defines(devices, g, S) == g = [s \in SUBSET S |-> Body(devices, g, s)]

LEMMA Unfold ==
    ASSUME NEW devices
    PROVE  find_token_by_mac(devices) =
             (CHOOSE g : Defines(devices, g, DOMAIN devices))[DOMAIN devices]
BY DEF find_token_by_mac, FoldLeft, MapThenFoldSet, Defines, Body

LEMMA MaxOf ==
    ASSUME NEW k \in Nat, NEW s, s \subseteq 1..k + 1, k + 1 \in s
    PROVE  Max(s) = k + 1
<1>1. \A y \in s : k + 1 >= y
  OBVIOUS
<1>2. \A x \in s : (\A y \in s : x >= y) => x = k + 1
  OBVIOUS
<1> QED
  BY <1>1, <1>2 DEF Max

LEMMA BodyDefined ==
    ASSUME NEW devices, NEW k \in Nat
    PROVE  \E g : Defines(devices, g, 1..k)
<1> DEFINE P == {i \in Nat : \E g : Defines(devices, g, 1..i)}
<1>1. 0 \in P
  <2>1. PICK g : g = [s \in SUBSET (1..0) |-> Unfound]
    OBVIOUS
  <2>2. \A s \in SUBSET (1..0) : s = {}
    OBVIOUS
  <2>3. Defines(devices, g, 1..0)
    BY <2>1, <2>2 DEF Defines, Body
  <2> QED
    BY <2>3
<1>2. ASSUME NEW i \in Nat, i \in P
      PROVE  i + 1 \in P
  <2>1. PICK g : Defines(devices, g, 1..i)
    BY <1>2
  <2>2. PICK h : h = [s \in SUBSET (1..i + 1) |->
                         IF i + 1 \in s THEN Look(g[s \ {i + 1}], devices[i + 1])
                         ELSE g[s]]
    OBVIOUS
  <2>3. ASSUME NEW s \in SUBSET (1..i + 1)
        PROVE  h[s] = Body(devices, h, s)
    <3>1. CASE i + 1 \in s
      <4>1. Max(s) = i + 1
        BY <3>1, MaxOf
      <4>2. s \ {i + 1} \in SUBSET (1..i + 1) /\ s # {}
        BY <3>1
      <4>3. h[s \ {i + 1}] = g[s \ {i + 1}]
        BY <2>2, <4>2
      <4> QED
        BY <2>2, <3>1, <4>1, <4>2, <4>3 DEF Body
    <3>2. CASE i + 1 \notin s
      <4>1. s \in SUBSET (1..i)
        BY <3>2
      <4>2. h[s] = g[s]
        BY <2>2, <3>2
      <4>3. g[s] = Body(devices, g, s)
        BY <2>1, <4>1 DEF Defines
      <4>4. CASE s = {}
        BY <4>2, <4>3, <4>4 DEF Body
      <4>5. CASE s # {}
        <5>1. s \ {Max(s)} \in SUBSET (1..i + 1) /\ i + 1 \notin s \ {Max(s)}
          BY <3>2
        <5>2. h[s \ {Max(s)}] = g[s \ {Max(s)}]
          BY <2>2, <5>1
        <5> QED
          BY <4>2, <4>3, <4>5, <5>2 DEF Body
      <4> QED
        BY <4>4, <4>5
    <3> QED
      BY <3>1, <3>2
  <2>4. Defines(devices, h, 1..i + 1)
    BY <2>2, <2>3 DEF Defines
  <2> QED
    BY <2>4
<1> HIDE DEF P
<1>3. k \in P
  BY <1>1, <1>2, Induction
<1> QED
  BY <1>3 DEF P

\* What the loop has found after each record.
LEMMA LoopSteps ==
    ASSUME NEW devices, NEW n \in Nat, DOMAIN devices = 1..n
    PROVE  \E f : /\ f[0] = Unfound /\ f[n] = find_token_by_mac(devices)
                  /\ \A k \in 1..n : f[k] = Look(f[k - 1], devices[k])
<1>1. PICK g : /\ Defines(devices, g, 1..n)
               /\ find_token_by_mac(devices) = g[1..n]
  BY BodyDefined, Unfold
<1>2. PICK f : f = [k \in 0..n |-> g[1..k]]
  OBVIOUS
<1>3. \A s \in SUBSET (1..n) : g[s] = Body(devices, g, s)
  BY <1>1 DEF Defines
<1>4. f[0] = Unfound
  <2>1. 1..0 = {} /\ {} \in SUBSET (1..n) /\ 0 \in 0..n
    OBVIOUS
  <2> QED
    BY <1>2, <1>3, <2>1 DEF Body
<1>5. ASSUME NEW k \in 1..n
      PROVE  f[k] = Look(f[k - 1], devices[k])
  <2>1. k - 1 \in Nat /\ k \in 1..k /\ k \in 0..n /\ k - 1 \in 0..n
    OBVIOUS
  <2>2. 1..k \in SUBSET (1..n) /\ 1..k # {}
    BY <2>1
  <2>3. Max(1..k) = k
    BY <2>1, MaxOf
  <2>4. (1..k) \ {k} = 1..k - 1
    OBVIOUS
  <2> QED
    BY <1>2, <1>3, <2>1, <2>2, <2>3, <2>4 DEF Body
<1>6. f[n] = find_token_by_mac(devices)
  BY <1>1, <1>2
<1> QED
  BY <1>4, <1>5, <1>6

-----------------------------------------------------------------------------
(* What it finds.                                                          *)

Finds == [token : {"", "t12", "u12"}, invalid : BOOLEAN]

\* What it has found in the first k records.
FoundIn(devices, found, k) ==
    /\ found \in Finds
    /\ found.token # "" =>
          \E i \in 1..k : /\ Good(devices[i])
                          /\ \A j \in 1..k : Good(devices[j]) => i <= j
                          /\ found.token = First24(devices[i].token)
    /\ found.token = "" =>
          /\ \A j \in 1..k : ~Good(devices[j])
          /\ found.invalid <=> \E j \in 1..k : Ours(devices[j])

\* A record that counts, and one that does not.
LEMMA Forms ==
    ASSUME NEW dev
    PROVE  /\ Good(dev) <=> /\ normalize_mac(dev.mac) = target
                            /\ TokenLength(dev.token) \in {24, 32}
                            /\ Hex(dev.token)
           /\ Good(dev) => First24(dev.token) \in {"t12", "u12"}
<1>1. /\ TokenLength(dev.token) \in {24, 32} <=>
            dev.token \in {"t12", "u12", "z12", "t16"}
      /\ Hex(dev.token) <=> dev.token # "z12"
  BY DEF TokenLength, Hex
<1>2. Good(dev) => First24(dev.token) \in {"t12", "u12"}
  BY DEF Good, First24
<1> QED
  BY <1>1, <1>2 DEF Good, Ours

LEMMA LookStep ==
    ASSUME NEW devices, NEW k \in Nat \ {0}, NEW found,
           FoundIn(devices, found, k - 1)
    PROVE  FoundIn(devices, Look(found, devices[k]), k)
<1>1. PICK dev : dev = devices[k]
  OBVIOUS
<1>2. PICK next : next = Look(found, dev)
  OBVIOUS
<1>3. found \in Finds
  BY DEF FoundIn
<1>4. \A i : i \in 1..k <=> i \in 1..k - 1 \/ i = k
  OBVIOUS
<1>5. CASE found.token # ""
  <2>1. next = found
    BY <1>2, <1>5 DEF Look
  <2>2. PICK i \in 1..k - 1 : /\ Good(devices[i])
                              /\ \A j \in 1..k - 1 : Good(devices[j]) => i <= j
                              /\ found.token = First24(devices[i].token)
    BY <1>5 DEF FoundIn
  <2>3. i \in 1..k /\ i <= k
    BY <2>2
  <2>4. \A j \in 1..k : Good(devices[j]) => i <= j
    BY <1>4, <2>2, <2>3
  <2> QED
    BY <1>1, <1>2, <1>3, <1>5, <2>1, <2>2, <2>3, <2>4 DEF FoundIn
<1>6. CASE found.token = ""
  <2>1. /\ \A j \in 1..k - 1 : ~Good(devices[j])
        /\ found.invalid <=> \E j \in 1..k - 1 : Ours(devices[j])
    BY <1>6 DEF FoundIn
  <2>2. CASE ~Ours(dev)
    <3>1. next = found
      BY <1>2, <2>2 DEF Look, Ours
    <3>2. ~Good(dev)
      BY <2>2 DEF Good
    <3>3. \A j \in 1..k : ~Good(devices[j])
      BY <1>1, <1>4, <2>1, <3>2
    <3>4. (\E j \in 1..k : Ours(devices[j])) <=> \E j \in 1..k - 1 : Ours(devices[j])
      BY <1>1, <1>4, <2>2
    <3> QED
      BY <1>1, <1>2, <1>3, <1>6, <2>1, <3>1, <3>3, <3>4 DEF FoundIn
  <2>3. CASE Good(dev)
    <3>1. /\ normalize_mac(dev.mac) = target
          /\ TokenLength(dev.token) \in {24, 32} /\ Hex(dev.token)
          /\ First24(dev.token) \in {"t12", "u12"}
      BY <2>3, Forms
    <3>2. next = [found EXCEPT !.token = First24(dev.token)]
      BY <1>2, <1>6, <3>1 DEF Look
    <3>3. next \in Finds /\ next.token = First24(dev.token) /\ next.token # ""
      BY <1>3, <3>1, <3>2 DEF Finds
    <3>4. k \in 1..k /\ \A j \in 1..k : Good(devices[j]) => k <= j
      BY <1>4, <2>1
    <3> QED
      BY <1>1, <1>2, <2>3, <3>3, <3>4 DEF FoundIn
  <2>4. CASE Ours(dev) /\ ~Good(dev)
    <3>1. normalize_mac(dev.mac) = target
      BY <2>4 DEF Ours
    <3>2. next = [found EXCEPT !.invalid = TRUE]
      BY <1>2, <1>6, <2>4, <3>1, Forms DEF Look
    <3>3. next \in Finds /\ next.token = "" /\ next.invalid
      BY <1>3, <1>6, <3>2 DEF Finds
    <3>4. \A j \in 1..k : ~Good(devices[j])
      BY <1>1, <1>4, <2>1, <2>4
    <3>5. k \in 1..k /\ Ours(devices[k])
      BY <1>1, <2>4
    <3> QED
      BY <1>1, <1>2, <3>3, <3>4, <3>5 DEF FoundIn
  <2> QED
    BY <2>2, <2>3, <2>4 DEF Good
<1> QED
  BY <1>5, <1>6

\* find_token_by_mac returns the token of the first good record of the charger.
LEMMA TokenFound ==
    ASSUME NEW devices \in Devices
    PROVE  FoundIn(devices, find_token_by_mac(devices), Len(devices))
<1>1. PICK n \in Nat : n = Len(devices) /\ DOMAIN devices = 1..n
  BY CloudConstants
<1>2. PICK f : /\ f[0] = Unfound /\ f[n] = find_token_by_mac(devices)
               /\ \A k \in 1..n : f[k] = Look(f[k - 1], devices[k])
  BY <1>1, LoopSteps
<1> DEFINE P == {k \in Nat : k <= n => FoundIn(devices, f[k], k)}
<1>3. 0 \in P
  <2>1. Unfound \in Finds /\ Unfound.token = "" /\ ~Unfound.invalid
    BY DEF Unfound, Finds
  <2>2. \A j : j \notin 1..0
    OBVIOUS
  <2> QED
    BY <1>2, <2>1, <2>2 DEF FoundIn
<1>4. ASSUME NEW k \in Nat, k \in P
      PROVE  k + 1 \in P
  <2>1. ASSUME k + 1 <= n
        PROVE  FoundIn(devices, f[k + 1], k + 1)
    <3>1. k + 1 \in 1..n /\ (k + 1) - 1 = k /\ k <= n /\ k + 1 \in Nat \ {0}
      BY <2>1
    <3>2. f[k + 1] = Look(f[k], devices[k + 1])
      BY <1>2, <3>1
    <3>3. FoundIn(devices, f[k], k)
      BY <1>4, <3>1
    <3> QED
      BY <3>1, <3>2, <3>3, LookStep
  <2> QED
    BY <2>1
<1> HIDE DEF P
<1>5. n \in P
  BY <1>3, <1>4, Induction
<1> QED
  BY <1>1, <1>2, <1>5 DEF P

-----------------------------------------------------------------------------
(* The token.                                                              *)

LEMMA Named ==
    /\ Nothing.kind = "none"
    /\ \A why : Error(why).kind = "error" /\ Error(why).token = why
BY DEF Nothing, Error

\* The steps that leave the result, or give another than a token or a list
\* without one.
LEMMA OtherSteps ==
    ASSUME Next, ~Listed
    PROVE  \/ UNCHANGED <<listed, result>>
           \/ result'.kind \in {"none", "auth"}
           \/ \E why : result' = Error(why) /\ why # "invalid token"
<1>1. ASSUME NEW why, Fail(why), why # "invalid token"
      PROVE  \E w : result' = Error(w) /\ w # "invalid token"
  BY <1>1 DEF Fail
<1>2. CASE Tick \/ Scan \/ QrIssued \/ PauseEnds
  BY <1>2 DEF Tick, Scan, QrIssued, PauseEnds
<1>3. CASE start_qr_login
  BY <1>3, Named DEF start_qr_login
<1>4. CASE RequestFails
  <2>1. Fail(phase) /\ phase # "invalid token"
    BY <1>4 DEF RequestFails
  <2> QED
    BY <1>1, <2>1
<1>5. CASE Unreadable
  <2>1. Fail("list")
    BY <1>5 DEF Unreadable
  <2> QED
    BY <1>1, <2>1
<1>6. CASE list_devices
  <2>1. CASE Fail("signing")
    BY <1>1, <2>1
  <2>2. CASE UNCHANGED result
    BY <1>6, <2>2 DEF list_devices
  <2> QED
    BY <1>6, <2>1, <2>2 DEF list_devices
<1>7. CASE PollReply
  <2>1. PICK reply : TakePoll(reply) /\ UNCHANGED listed
    BY <1>7 DEF PollReply
  <2>2. CASE Fail("poll")
    BY <1>1, <2>2
  <2>3. CASE Fail("timed out")
    BY <1>1, <2>3
  <2>4. CASE UNCHANGED result
    BY <2>1, <2>4
  <2> QED
    BY <2>1, <2>2, <2>3, <2>4 DEF TakePoll
<1>8. CASE Redirected
  <2>1. PICK cookie : cookie = jar'
    OBVIOUS
  <2>2. \/ Fail("no cookie")
        \/ result' = [Nothing EXCEPT !.kind = "auth", !.keys = login,
                                     !.cookie = cookie]
    BY <1>8, <2>1 DEF Redirected
  <2>3. CASE Fail("no cookie")
    BY <1>1, <2>3
  <2>4. ASSUME result' = [Nothing EXCEPT !.kind = "auth", !.keys = login,
                                         !.cookie = cookie]
        PROVE  result'.kind = "auth"
    BY <2>4 DEF Nothing
  <2> QED
    BY <2>2, <2>3, <2>4
<1> QED
  BY <1>2, <1>3, <1>4, <1>5, <1>6, <1>7, <1>8 DEF Next, Replied

\* The result that the token found, or none, leads to.
Chosen(found) ==
    result' = IF found.token # ""
              THEN [Nothing EXCEPT !.kind = "token", !.token = found.token]
              ELSE IF found.invalid THEN Error("invalid token")
              ELSE [Nothing EXCEPT !.kind = "not found"]

LEMMA ListedStep ==
    ASSUME Listed
    PROVE  TokenIsOurs'
<1>0. PICK devices \in Devices :
        listed' = devices /\ Chosen(find_token_by_mac(devices))
  BY DEF Listed, Chosen
<1>1. PICK found : found = find_token_by_mac(devices) /\ listed' = devices
                   /\ Chosen(found)
  BY <1>0
<1>2. FoundIn(devices, found, Len(devices))
  BY <1>1, TokenFound
<1>3. DOMAIN devices = 1..Len(devices)
  BY CloudConstants
<1>4. \A i : i \in GoodAt' <=> i \in 1..Len(devices) /\ Good(devices[i])
  BY <1>1, <1>3 DEF GoodAt, Good, Ours
<1>5. CASE found.token # ""
  <2>1. result'.kind = "token" /\ result'.token = found.token
    BY <1>1, <1>5 DEF Nothing, Chosen
  <2>2. PICK i \in 1..Len(devices) :
          /\ Good(devices[i])
          /\ \A j \in 1..Len(devices) : Good(devices[j]) => i <= j
          /\ found.token = First24(devices[i].token)
    BY <1>2, <1>5 DEF FoundIn
  <2>3. i \in GoodAt' /\ \A j \in GoodAt' : i <= j
    BY <1>4, <2>2
  <2>4. \E x \in GoodAt' : /\ \A j \in GoodAt' : x <= j
                           /\ result'.token = First24(listed'[x].token)
    BY <1>1, <2>1, <2>2, <2>3
  <2> QED
    BY <2>1, <2>4, Named DEF TokenIsOurs, First24
<1>6. CASE found.token = "" /\ found.invalid
  <2>1. result' = Error("invalid token")
    BY <1>1, <1>6 DEF Chosen
  <2>2. GoodAt' = {} /\ \E i \in DOMAIN listed' : Ours(listed'[i])
    BY <1>1, <1>2, <1>3, <1>4, <1>6 DEF FoundIn
  <2> QED
    BY <2>1, <2>2, Named DEF TokenIsOurs, Ours
<1>7. CASE found.token = "" /\ ~found.invalid
  <2>1. result'.kind = "not found"
    BY <1>1, <1>7 DEF Nothing, Chosen
  <2>2. ~\E i \in DOMAIN listed' : Ours(listed'[i])
    BY <1>1, <1>2, <1>3, <1>7 DEF FoundIn
  <2> QED
    BY <2>1, <2>2, Named DEF TokenIsOurs, Ours
<1> QED
  BY <1>5, <1>6, <1>7

LEMMA TokenStep == TokenIsOurs /\ [Next]_vars => TokenIsOurs'
<1> SUFFICES ASSUME TokenIsOurs, [Next]_vars PROVE TokenIsOurs'
  OBVIOUS
<1>1. CASE UNCHANGED <<listed, result>>
  BY <1>1 DEF TokenIsOurs, GoodAt, Good, Ours
<1>2. CASE result'.kind \in {"none", "auth"}
  BY <1>2, Named DEF TokenIsOurs
<1>3. ASSUME NEW why, result' = Error(why), why # "invalid token"
      PROVE  TokenIsOurs'
  <2>1. result'.kind = "error" /\ result'.token = why
    BY <1>3, Named
  <2>2. Error("invalid token").token = "invalid token"
    BY Named
  <2>3. result' # Error("invalid token")
    BY <1>3, <2>1, <2>2
  <2> QED
    BY <2>1, <2>3 DEF TokenIsOurs
<1> QED
  BY <1>1, <1>2, <1>3, ListedStep, OtherSteps DEF vars

\* Whatever lists the cloud holds, of any length and with any notation of MACs
\* and tokens, the token that the login returns is that of the first good
\* record of this charger, and it reports a bad or a missing one only if there
\* is no good one.
THEOREM RightToken == Spec => []TokenIsOurs
<1>1. Init => TokenIsOurs
  BY Named DEF Init, TokenIsOurs
<1> QED
  BY <1>1, TokenStep, PTL DEF Spec

-----------------------------------------------------------------------------
(* Types.                                                                  *)

LEMMA Results ==
    /\ Nothing.kind = "none" /\ Nothing.keys = 0 /\ Nothing.cookie = 0
    /\ \A why : /\ Error(why).kind = "error"
                /\ Error(why).keys = 0 /\ Error(why).cookie = 0
    /\ \A token : LET r == [Nothing EXCEPT !.kind = "token", !.token = token]
                  IN r.kind = "token" /\ r.keys = 0 /\ r.cookie = 0
    /\ LET r == [Nothing EXCEPT !.kind = "not found"]
       IN r.kind = "not found" /\ r.keys = 0 /\ r.cookie = 0
    /\ \A keys, cookie :
          LET r == [Nothing EXCEPT !.kind = "auth", !.keys = keys,
                                   !.cookie = cookie]
          IN r.kind = "auth" /\ r.keys = keys /\ r.cookie = cookie
BY DEF Nothing, Error

\* What a result may be while the logins go on.
ResultOK(r, logins) ==
    r.kind \in Kinds /\ r.keys \in 0..logins /\ r.cookie \in 0..logins

LEMMA ResultForms ==
    ASSUME NEW logins \in Nat
    PROVE  /\ ResultOK(Nothing, logins)
           /\ \A why : ResultOK(Error(why), logins)
           /\ \A token :
                 ResultOK([Nothing EXCEPT !.kind = "token", !.token = token], logins)
           /\ ResultOK([Nothing EXCEPT !.kind = "not found"], logins)
           /\ \A keys, cookie \in 0..logins :
                 ResultOK([Nothing EXCEPT !.kind = "auth", !.keys = keys,
                                          !.cookie = cookie], logins)
<1>1. 0 \in 0..logins
  OBVIOUS
<1>2. /\ "none" \in Kinds /\ "auth" \in Kinds /\ "token" \in Kinds
      /\ "not found" \in Kinds /\ "error" \in Kinds
  BY DEF Kinds
<1>3. ASSUME NEW why PROVE ResultOK(Error(why), logins)
  BY <1>1, <1>2 DEF ResultOK, Error, Nothing
<1>4. ASSUME NEW token
      PROVE  ResultOK([Nothing EXCEPT !.kind = "token", !.token = token], logins)
  BY <1>1, <1>2 DEF ResultOK, Error, Nothing
<1>5. ASSUME NEW keys \in 0..logins, NEW cookie \in 0..logins
      PROVE  ResultOK([Nothing EXCEPT !.kind = "auth", !.keys = keys,
                                      !.cookie = cookie], logins)
  BY <1>1, <1>2 DEF ResultOK, Error, Nothing
<1> QED
  <2>1. /\ ResultOK(Nothing, logins)
        /\ ResultOK([Nothing EXCEPT !.kind = "not found"], logins)
    BY <1>1, <1>2 DEF ResultOK, Nothing
  <2> QED
    BY <1>3, <1>4, <1>5, <2>1

LEMMA Limits ==
    /\ DOMAIN LimitOf = {"starting", "poll", "redirect", "pause", "list"}
    /\ \A p \in DOMAIN LimitOf : LimitOf[p] \in Nat
    /\ LimitOf["poll"] = PollLimit /\ LimitOf["pause"] = PAUSE
BY CloudConstants DEF LimitOf, PAUSE

LEMMA InitType == Init => TypeOK
<1> SUFFICES ASSUME Init PROVE TypeOK
  OBVIOUS
<1>1. phase = "idle" /\ ~Waiting
  BY Limits DEF Init, Waiting
<1>2. login \in 0..MaxLogins /\ jar \in 0..login /\ waited \in Nat
      /\ faults \in 0..MaxFaults
  BY CloudConstants DEF Init
<1>3. ResultOK(result, login)
  BY <1>2, Results DEF Init, ResultOK, Kinds
<1> QED
  BY <1>1, <1>2, <1>3 DEF Init, TypeOK, ResultOK

\* A step into another phase starts its request anew.
LEMMA EnterType ==
    ASSUME NEW p, p \in {"idle", "auth", "over"} \cup DOMAIN LimitOf, Enter(p)
    PROVE  /\ phase' \in {"idle", "auth", "over"} \cup DOMAIN LimitOf
           /\ Waiting' => spent' \in 0..LimitOf[phase']
BY Limits DEF Enter, Waiting, LimitOf

LEMMA FailType ==
    ASSUME NEW why, Fail(why), login \in Nat
    PROVE  /\ phase' = "over" /\ ~Waiting'
           /\ ResultOK(result', login)
<1>1. result' = Error(why) /\ phase' = "over"
  BY DEF Fail, Enter
<1>2. ~Waiting'
  BY <1>1, Limits DEF Waiting, LimitOf
<1> QED
  BY <1>1, <1>2, ResultForms

LEMMA FaultyType ==
    ASSUME faults \in 0..MaxFaults, Faulty
    PROVE  faults' \in 0..MaxFaults
BY CloudConstants DEF Faulty

\* A step of one request: only the phase, its clock, the faults and the result
\* change.
LEMMA RequestType ==
    ASSUME TypeOK, UNCHANGED <<login, waited, scan>>,
           phase' \in {"idle", "auth", "over"} \cup DOMAIN LimitOf,
           Waiting' => spent' \in 0..LimitOf[phase'],
           jar' \in 0..login, deadline' \in Timeouts \cup {0},
           faults' \in 0..MaxFaults, listed' \in Devices \cup {<<>>},
           ResultOK(result', login)
    PROVE  TypeOK'
<1>1. LimitOf' = LimitOf
  BY DEF LimitOf, PAUSE
<1> QED
  BY <1>1 DEF TypeOK, ResultOK, Waiting

LEMMA StepType == TypeOK /\ [Next]_vars => TypeOK'
<1> SUFFICES ASSUME TypeOK, [Next]_vars PROVE TypeOK'
  OBVIOUS
<1>1. /\ login \in 0..MaxLogins /\ login \in Nat /\ jar \in 0..login
      /\ faults \in 0..MaxFaults /\ deadline \in Timeouts \cup {0}
      /\ waited \in Nat /\ listed \in Devices \cup {<<>>}
      /\ ResultOK(result, login)
  BY CloudConstants DEF TypeOK, ResultOK
<1>2. PICK p : p = phase /\ p \in {"idle", "auth", "over"} \cup DOMAIN LimitOf
  BY DEF TypeOK
<1>3. ASSUME NEW why, Fail(why), UNCHANGED <<login, waited, scan>>,
             jar' \in 0..login, deadline' = deadline, listed' = listed,
             faults' \in 0..MaxFaults
      PROVE  TypeOK'
  BY <1>1, <1>3, FailType, RequestType
<1>4. ASSUME NEW q \in {"idle", "auth", "over"} \cup DOMAIN LimitOf, Enter(q),
             UNCHANGED <<login, jar, waited, scan, listed>>,
             deadline' \in Timeouts \cup {0},
             faults' \in 0..MaxFaults, ResultOK(result', login)
      PROVE  TypeOK'
  BY <1>1, <1>4, EnterType, RequestType
<1>5. CASE UNCHANGED vars
  BY <1>5 DEF vars, TypeOK, Waiting
<1>6. CASE Tick
  <2>1. spent \in 0..LimitOf[p] /\ spent < LimitOf[p] /\ p \in DOMAIN LimitOf
    BY <1>2, <1>6 DEF Tick, TypeOK, Waiting
  <2>2. spent + 1 \in 0..LimitOf[p]
    BY <2>1, Limits
  <2>3. waited' \in Nat
    BY <1>1, <1>6 DEF Tick
  <2> QED
    BY <1>2, <1>6, <2>2, <2>3 DEF Tick, TypeOK, Waiting
<1>7. CASE Scan
  BY <1>7 DEF Scan, TypeOK, Waiting
<1>8. CASE start_qr_login
  <2>1. login' \in 0..MaxLogins /\ jar' \in 0..login' /\ waited' \in Nat
    BY <1>1, <1>8, CloudConstants DEF start_qr_login, NewJar
  <2>2. ResultOK(result', login')
    <3>1. login' \in Nat /\ result' = Nothing
      BY <1>1, <1>8 DEF start_qr_login
    <3> QED
      BY <3>1, ResultForms
  <2>3. /\ phase' \in {"idle", "auth", "over"} \cup DOMAIN LimitOf
        /\ Waiting' => spent' \in 0..LimitOf[phase']
    BY <1>8, Limits, EnterType DEF start_qr_login
  <2> QED
    BY <1>1, <1>8, <2>1, <2>2, <2>3 DEF start_qr_login, TypeOK, ResultOK, Waiting
<1>9. CASE QrIssued
  <2>1. Enter("poll") /\ deadline' \in Timeouts
    BY <1>9 DEF QrIssued
  <2> QED
    BY <1>1, <1>4, <1>9, <2>1, Limits DEF QrIssued
<1>10. CASE RequestFails
  BY <1>1, <1>3, <1>10, FaultyType DEF RequestFails
<1>11. CASE PollReply
  <2>1. PICK reply : TakePoll(reply)
    BY <1>11 DEF PollReply
  <2>2. faults' \in 0..MaxFaults
    BY <1>1, <1>11, FaultyType DEF PollReply
  <2>3. UNCHANGED <<login, jar, waited, deadline, scan, listed>>
    BY <1>11 DEF PollReply
  <2>4. CASE Fail("poll") \/ Fail("timed out")
    BY <1>1, <1>3, <2>2, <2>3, <2>4
  <2>5. CASE (Enter("pause") \/ Enter("redirect")) /\ UNCHANGED result
    BY <1>1, <1>4, <2>2, <2>3, <2>5, Limits
  <2> QED
    BY <2>1, <2>4, <2>5 DEF TakePoll
<1>12. CASE Redirected
  <2>1. /\ jar' \in 0..login /\ faults' \in 0..MaxFaults
        /\ UNCHANGED <<login, waited, deadline, scan, listed>>
    <3>1. jar' = login \/ jar' = jar
      BY <1>12 DEF Redirected
    <3>2. jar' \in 0..login
      BY <1>1, <3>1
    <3>3. faults' \in 0..MaxFaults
      BY <1>1, <1>12, FaultyType DEF Redirected
    <3> QED
      BY <1>12, <3>2, <3>3 DEF Redirected
  <2>2. CASE Fail("no cookie")
    BY <1>1, <1>3, <2>1, <2>2
  <2>3. CASE Enter("auth") /\ result' = [Nothing EXCEPT !.kind = "auth",
                                        !.keys = login, !.cookie = jar']
    <3>1. PICK cookie \in 0..login : cookie = jar'
      BY <2>1
    <3>2. result' = [Nothing EXCEPT !.kind = "auth", !.keys = login,
                                    !.cookie = cookie]
      BY <2>3, <3>1
    <3>3. ResultOK(result', login)
      <4>1. login \in Nat /\ login \in 0..login
        BY <1>1
      <4> QED
        BY <3>2, <4>1, ResultForms
    <3>4. /\ phase' \in {"idle", "auth", "over"} \cup DOMAIN LimitOf
          /\ Waiting' => spent' \in 0..LimitOf[phase']
      BY <2>3, EnterType
    <3> QED
      BY <1>1, <2>1, <3>3, <3>4, RequestType
  <2> QED
    BY <1>12, <2>2, <2>3 DEF Redirected
<1>13. CASE Listed
  <2>1. listed' \in Devices /\ \E found : Chosen(found)
    BY <1>13 DEF Listed, Chosen
  <2>2. ResultOK(result', login)
    BY <1>1, <2>1, ResultForms DEF Chosen
  <2>3. Enter("over") /\ UNCHANGED <<login, jar, waited, deadline, scan, faults>>
    BY <1>13 DEF Listed
  <2>4. /\ phase' \in {"idle", "auth", "over"} \cup DOMAIN LimitOf
        /\ Waiting' => spent' \in 0..LimitOf[phase']
    BY <2>3, EnterType
  <2> QED
    BY <1>1, <2>1, <2>2, <2>3, <2>4, RequestType
<1>14. CASE Unreadable
  BY <1>1, <1>3, <1>14, FaultyType DEF Unreadable
<1>15. CASE PauseEnds
  BY <1>1, <1>4, <1>15, Limits DEF PauseEnds
<1>16. CASE list_devices
  <2>1. UNCHANGED <<login, jar, waited, deadline, scan, listed>>
    BY <1>16 DEF list_devices
  <2>2. CASE Enter("list") /\ UNCHANGED <<faults, result>>
    BY <1>1, <1>4, <2>1, <2>2, Limits
  <2>3. CASE Faulty /\ Fail("signing")
    BY <1>1, <1>3, <2>1, <2>3, FaultyType
  <2> QED
    BY <1>16, <2>2, <2>3 DEF list_devices
<1> QED
  BY <1>5, <1>6, <1>7, <1>8, <1>9, <1>10, <1>11, <1>12, <1>13, <1>14, <1>15, <1>16
     DEF Next, Replied

\* Every variable keeps its type, and no request outlives its timeout, whatever
\* the timeouts, the lifetimes of the codes and the lists.
THEOREM CloudTypeCorrect == Spec => []TypeOK
BY InitType, StepType, PTL DEF Spec

-----------------------------------------------------------------------------
(* The cookie.                                                             *)

\* The session holds no cookie but of the present login.
JarOwn == jar \in {0, login}

LEMMA CookieStep ==
    TypeOK /\ JarOwn /\ OwnCookie /\ [Next]_vars => JarOwn' /\ OwnCookie'
<1> SUFFICES ASSUME TypeOK, JarOwn, OwnCookie, [Next]_vars
             PROVE  JarOwn' /\ OwnCookie'
  OBVIOUS
<1>1. ASSUME UNCHANGED <<login, jar>>, phase' \notin {"auth", "list"}
      PROVE  JarOwn' /\ OwnCookie'
  BY <1>1 DEF JarOwn, OwnCookie
<1>2. ASSUME UNCHANGED <<phase, login, jar, result>>
      PROVE  JarOwn' /\ OwnCookie'
  BY <1>2 DEF JarOwn, OwnCookie
<1>3. \A why : Fail(why) => phase' = "over"
  BY DEF Fail, Enter
<1>4. CASE UNCHANGED vars \/ Tick \/ Scan
  BY <1>2, <1>4 DEF vars, Tick, Scan
<1>5. CASE QrIssued \/ PauseEnds \/ RequestFails \/ Unreadable \/ Listed
  BY <1>1, <1>3, <1>5 DEF QrIssued, PauseEnds, RequestFails, Unreadable, Listed,
                         Enter
<1>6. CASE start_qr_login
  BY <1>6 DEF start_qr_login, NewJar, Enter, JarOwn, OwnCookie
<1>7. CASE PollReply
  <2>1. PICK reply : TakePoll(reply) /\ UNCHANGED <<login, jar>>
    BY <1>7 DEF PollReply
  <2> QED
    BY <1>1, <1>3, <2>1 DEF TakePoll, Enter
<1>8. CASE Redirected
  <2>1. JarOwn' /\ login' = login
    BY <1>8 DEF Redirected, JarOwn
  <2>2. CASE Fail("no cookie")
    BY <1>3, <2>1, <2>2 DEF OwnCookie
  <2>3. CASE jar' # 0 /\ result' = [Nothing EXCEPT !.kind = "auth", !.keys = login,
                                                   !.cookie = jar']
    <3>1. jar' = login
      BY <2>1, <2>3 DEF JarOwn
    <3>2. result' = [Nothing EXCEPT !.kind = "auth", !.keys = login,
                                    !.cookie = login]
      BY <2>3, <3>1
    <3>3. result'.kind = "auth" /\ result'.keys = login /\ result'.cookie = login
      BY <3>2, Results
    <3> QED
      BY <2>1, <3>3 DEF OwnCookie
  <2> QED
    BY <1>8, <2>2, <2>3 DEF Redirected
<1>9. CASE list_devices
  <2>1. CASE Fail("signing")
    BY <1>1, <1>3, <1>9, <2>1 DEF list_devices
  <2>2. CASE UNCHANGED result
    BY <1>9, <2>2 DEF list_devices, JarOwn, OwnCookie
  <2> QED
    BY <1>9, <2>1, <2>2 DEF list_devices
<1> QED
  BY <1>4, <1>5, <1>6, <1>7, <1>8, <1>9 DEF Next, Replied

\* Whatever fails, runs late or sets no cookie, the device list is asked for
\* with the keys and the cookie of the present login.
THEOREM CookieOfLogin == Spec => []OwnCookie
<1>1. Init => JarOwn /\ OwnCookie
  BY DEF Init, JarOwn, OwnCookie
<1> QED
  BY <1>1, CookieStep, InitType, StepType, PTL DEF Spec

=============================================================================
