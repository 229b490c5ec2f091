------------------------ MODULE CompanionLimitsProofs ------------------------
(***************************************************************************)
(* Theorems about CompanionLimits, for every set of clients and every      *)
(* number of requests a client has at a time, every limit, window and      *)
(* delay, with their proofs.                                               *)
(*                                                                         *)
(* The inductive invariant LimitsIInv compares each deque with the history *)
(* it is the end of: what was popped is out of the window (RateOK,         *)
(* FailureOK).  For failures it also counts the requests that have passed  *)
(* the check and may still add one to the deque (CountOK).                 *)
(***************************************************************************)
EXTENDS CompanionLimits, FiniteSetTheorems, SequenceTheorems, TLAPS

\* The entry that was made last but k - 1.
Ago(deque, k) == deque[Len(deque) + 1 - k]

\* The deque r of a rate limit is the end of the history h.
RateOK(r, h) ==
    /\ Len(r) <= Len(h)
    /\ Len(h) <= Limit
    /\ \A k \in 1..Len(h) :
          IF k <= Len(r) THEN Ago(h, k) = Ago(r, k) ELSE Ago(h, k) > Window

\* The deque a of a source is the end of the history h.  Its timestamps are up
\* to MaxDelay older than the failures.
FailureOK(a, h, max) ==
    /\ Len(a) <= Len(h)
    /\ Len(h) <= max
    /\ \A k \in 1..Len(h) :
          Ago(h, k) <= FailWindow - MaxDelay
             => k <= Len(a) /\ Ago(a, k) <= Ago(h, k) + MaxDelay

MayFail == {"verifying", "failing"}

Pending(c) == {i \in Slots[c] : requests[c][i].stage \in MayFail}

CountOK(c) == Len(failedAuth[c]) + Cardinality(Pending(c)) <= MaxFailures(c)

LimitsIInv ==
    /\ LimitsTypeOK
    /\ \A c \in Clients :
          /\ RateOK(rates[c], served[c])
          /\ FailureOK(failedAuth[c], failures[c], MaxFailures(c))
          /\ CountOK(c)

-----------------------------------------------------------------------------
(* Deques and histories *)

\* What is left when n entries are popped.
LEMMA RestFacts ==
    ASSUME NEW S, NEW d \in Seq(S), NEW n \in 0..Len(d)
    PROVE  /\ Rest(d, n) \in Seq(S)
           /\ Len(Rest(d, n)) = Len(d) - n
           /\ \A k \in 1..Len(d) - n : Ago(Rest(d, n), k) = Ago(d, k)
<1>1. Len(d) \in Nat /\ \A k \in 1..Len(d) : d[k] \in S
  BY LenProperties, ElementOfSeq
<1>2. /\ SubSeq(d, n + 1, Len(d)) \in Seq(S)
      /\ Len(SubSeq(d, n + 1, Len(d)))
            = IF n + 1 <= Len(d) THEN Len(d) - (n + 1) + 1 ELSE 0
      /\ \A k \in 1..Len(d) - (n + 1) + 1 :
            SubSeq(d, n + 1, Len(d))[k] = d[n + 1 + k - 1]
  BY <1>1, SubSeqProperties
<1>3. Len(Rest(d, n)) = Len(d) - n /\ Rest(d, n) \in Seq(S)
  BY <1>1, <1>2 DEF Rest
<1>4. ASSUME NEW k \in 1..Len(d) - n PROVE Ago(Rest(d, n), k) = Ago(d, k)
  <2>1. Len(d) - n + 1 - k \in 1..Len(d) - (n + 1) + 1
    BY <1>1
  <2>2. Rest(d, n)[Len(d) - n + 1 - k] = d[Len(d) + 1 - k]
    BY <1>1, <1>2, <2>1 DEF Rest
  <2> QED
    BY <1>1, <1>3, <2>2 DEF Ago
<1> QED
  BY <1>3, <1>4

\* An entry is added.
LEMMA AppendFacts ==
    ASSUME NEW S, NEW d \in Seq(S), NEW x \in S
    PROVE  /\ Append(d, x) \in Seq(S)
           /\ Len(Append(d, x)) = Len(d) + 1
           /\ Ago(Append(d, x), 1) = x
           /\ \A k \in 1..Len(d) : Ago(Append(d, x), k + 1) = Ago(d, k)
BY LenProperties DEF Ago

\* A history has its last max entries.
LEMMA RememberFacts ==
    ASSUME NEW S, 0 \in S, NEW h \in Seq(S), NEW max \in Nat \ {0}, Len(h) <= max
    PROVE  /\ Remember(h, max) \in Seq(S)
           /\ Len(Remember(h, max)) = IF Len(h) < max THEN Len(h) + 1 ELSE max
           /\ Ago(Remember(h, max), 1) = 0
           /\ \A k \in 1..Len(Remember(h, max)) - 1 :
                 Ago(Remember(h, max), k + 1) = Ago(h, k)
<1>1. Len(h) \in Nat
  BY LenProperties
<1>2. CASE Len(h) < max
  BY <1>1, <1>2, AppendFacts DEF Remember
<1>3. CASE ~(Len(h) < max)
  <2>1. Len(h) = max /\ 1 \in 0..Len(h)
    BY <1>1, <1>3
  <2>2. /\ Rest(h, 1) \in Seq(S) /\ Len(Rest(h, 1)) = max - 1
        /\ \A k \in 1..max - 1 : Ago(Rest(h, 1), k) = Ago(h, k)
    BY <2>1, RestFacts
  <2>3. Remember(h, max) = Append(Rest(h, 1), 0)
    BY <1>3 DEF Remember
  <2> QED
    BY <1>3, <2>2, <2>3, AppendFacts
<1> QED
  BY <1>2, <1>3

\* Time passes.
LEMMA OlderFacts ==
    ASSUME NEW d \in Seq(Nat), NEW oldest \in Nat
    PROVE  /\ Older(d, oldest) \in Seq(0..oldest)
           /\ Len(Older(d, oldest)) = Len(d)
           /\ \A k \in 1..Len(d) :
                 /\ Ago(d, k) \in Nat
                 /\ Ago(Older(d, oldest), k)
                       = IF Ago(d, k) < oldest THEN Ago(d, k) + 1 ELSE oldest
<1>1. Len(d) \in Nat /\ DOMAIN d = 1..Len(d) /\ \A k \in 1..Len(d) : d[k] \in Nat
  BY LenProperties, ElementOfSeq
<1>2. Older(d, oldest) \in [1..Len(d) -> 0..oldest]
  BY <1>1 DEF Older
<1>3. Older(d, oldest) \in Seq(0..oldest)
  BY <1>1, <1>2, SeqDef
<1>4. Len(Older(d, oldest)) = Len(d)
  <2>1. DOMAIN Older(d, oldest) = 1..Len(d)
    BY <1>1 DEF Older
  <2>2. DOMAIN Older(d, oldest) = 1..Len(Older(d, oldest))
    BY <1>3, LenProperties
  <2> QED
    BY <1>1, <1>3, <2>1, <2>2, LenProperties
<1>5. ASSUME NEW k \in 1..Len(d)
      PROVE  /\ Ago(d, k) \in Nat
             /\ Ago(Older(d, oldest), k)
                   = IF Ago(d, k) < oldest THEN Ago(d, k) + 1 ELSE oldest
  <2>1. Len(d) + 1 - k \in 1..Len(d)
    BY <1>1
  <2> QED
    BY <1>1, <1>4, <2>1 DEF Older, Ago
<1> QED
  BY <1>3, <1>4, <1>5

LEMMA AgesFacts ==
    /\ RateAges \subseteq Nat /\ FailAges \subseteq Nat
    /\ 0 \in RateAges /\ 0 \in FailAges /\ 0..MaxDelay \subseteq FailAges
    /\ Window \in Nat /\ FailWindow \in Nat /\ MaxDelay \in Nat
    /\ FailWindow - MaxDelay \in Nat
    /\ Limit \in Nat \ {0} /\ FailLimit \in Nat \ {0}
BY LimitsAssumption, DelayAssumption DEF RateAges, FailAges

\* Popped entries are the last ones, and out of the window.
LEMMA PopsFacts ==
    ASSUME NEW d \in Seq(Nat), NEW window, NEW n, Pops(d, window, n)
    PROVE  /\ n \in 0..Len(d)
           /\ \A k \in 1..Len(d) : k > Len(d) - n => Ago(d, k) > window
<1>1. Len(d) \in Nat /\ n \in 0..Len(d) /\ \A k \in 1..n : d[k] > window
  BY LenProperties DEF Pops
<1>2. ASSUME NEW k \in 1..Len(d), k > Len(d) - n PROVE Ago(d, k) > window
  <2>1. Len(d) + 1 - k \in 1..n
    BY <1>1, <1>2
  <2> QED
    BY <1>1, <2>1 DEF Ago
<1> QED
  BY <1>1, <1>2

LEMMA RatePopped ==
    ASSUME NEW r \in Seq(RateAges), NEW h \in Seq(RateAges), NEW n,
           RateOK(r, h), Pops(r, Window, n)
    PROVE  RateOK(Rest(r, n), h)
<1>1. Len(r) \in Nat /\ Len(h) \in Nat
  BY LenProperties
<1>2. r \in Seq(Nat)
  BY AgesFacts, SeqMonotonic
<1>3. n \in 0..Len(r) /\ \A k \in 1..Len(r) : k > Len(r) - n => Ago(r, k) > Window
  BY <1>2, PopsFacts
<1>4. /\ Len(Rest(r, n)) = Len(r) - n
      /\ \A k \in 1..Len(r) - n : Ago(Rest(r, n), k) = Ago(r, k)
  BY <1>3, RestFacts
<1>5. Len(Rest(r, n)) <= Len(h) /\ Len(h) <= Limit
  BY <1>1, <1>3, <1>4 DEF RateOK
<1>6. ASSUME NEW k \in 1..Len(h)
      PROVE  IF k <= Len(Rest(r, n)) THEN Ago(h, k) = Ago(Rest(r, n), k)
             ELSE Ago(h, k) > Window
  <2>1. IF k <= Len(r) THEN Ago(h, k) = Ago(r, k) ELSE Ago(h, k) > Window
    BY DEF RateOK
  <2>2. CASE k <= Len(r) - n
    BY <1>1, <1>3, <1>4, <2>1, <2>2
  <2>3. CASE ~(k <= Len(r) - n) /\ k <= Len(r)
    BY <1>1, <1>3, <1>4, <2>1, <2>3
  <2>4. CASE ~(k <= Len(r))
    BY <1>1, <1>3, <1>4, <2>1, <2>4
  <2> QED
    BY <2>2, <2>3, <2>4
<1> QED
  BY <1>5, <1>6 DEF RateOK

\* The limit leaves room for another entry, so that the oldest of a full
\* history has been popped.
LEMMA RateServed ==
    ASSUME NEW r \in Seq(RateAges), NEW h \in Seq(RateAges),
           RateOK(r, h), Len(r) < Limit
    PROVE  /\ RateOK(Append(r, 0), Remember(h, Limit))
           /\ Len(h) = Limit => h[1] > Window
<1> DEFINE a == Append(r, 0)
           m == Remember(h, Limit)
<1>1. Len(r) \in Nat /\ Len(h) \in Nat /\ Limit \in Nat \ {0} /\ Len(h) <= Limit
      /\ Len(r) <= Len(h)
  BY LenProperties, AgesFacts DEF RateOK
<1>2. /\ Len(a) = Len(r) + 1 /\ Ago(a, 1) = 0
      /\ \A k \in 1..Len(r) : Ago(a, k + 1) = Ago(r, k)
  BY AgesFacts, AppendFacts
<1>3. /\ Len(m) = IF Len(h) < Limit THEN Len(h) + 1 ELSE Limit
      /\ Ago(m, 1) = 0
      /\ \A k \in 1..Len(m) - 1 : Ago(m, k + 1) = Ago(h, k)
  BY <1>1, AgesFacts, RememberFacts
<1> HIDE DEF a, m
<1>4. Len(a) <= Len(m) /\ Len(m) <= Limit
  BY <1>1, <1>2, <1>3
<1>5. ASSUME NEW k \in 1..Len(m)
      PROVE  IF k <= Len(a) THEN Ago(m, k) = Ago(a, k) ELSE Ago(m, k) > Window
  <2>1. CASE k = 1
    BY <1>1, <1>2, <1>3, <2>1
  <2>2. CASE k # 1
    <3>1. /\ k - 1 \in 1..Len(h) /\ k - 1 \in 1..Len(m) - 1 /\ k \in Nat
          /\ (k - 1) + 1 = k
      BY <1>1, <1>3, <2>2
    <3>2. Ago(m, k) = Ago(h, k - 1)
      BY <1>3, <3>1
    <3>3. IF k - 1 <= Len(r) THEN Ago(h, k - 1) = Ago(r, k - 1) ELSE Ago(h, k - 1) > Window
      BY <3>1 DEF RateOK
    <3>4. k <= Len(a) => k - 1 \in 1..Len(r) /\ Ago(a, k) = Ago(r, k - 1)
      BY <1>1, <1>2, <3>1
    <3>5. ~(k <= Len(a)) => ~(k - 1 <= Len(r))
      BY <1>1, <1>2, <3>1
    <3>6. k - 1 \in 1..Len(r) => k - 1 <= Len(r)
      BY <1>1
    <3> QED
      BY <3>2, <3>3, <3>4, <3>5, <3>6
  <2> QED
    BY <2>1, <2>2
<1>6. Len(h) = Limit => h[1] > Window
  <2> SUFFICES ASSUME Len(h) = Limit PROVE h[1] > Window
    OBVIOUS
  <2>1. Limit \in 1..Len(h) /\ ~(Limit <= Len(r)) /\ Len(h) + 1 - Limit = 1
    BY <1>1
  <2>2. Ago(h, Limit) > Window
    BY <2>1 DEF RateOK
  <2> QED
    BY <2>1, <2>2 DEF Ago
<1> QED
  BY <1>4, <1>5, <1>6 DEF RateOK, a, m

LEMMA RateOlder ==
    ASSUME NEW r \in Seq(RateAges), NEW h \in Seq(RateAges), RateOK(r, h)
    PROVE  RateOK(Older(r, Window + 1), Older(h, Window + 1))
<1> DEFINE a == Older(r, Window + 1)
           m == Older(h, Window + 1)
<1>1. r \in Seq(Nat) /\ h \in Seq(Nat) /\ Window \in Nat /\ Window + 1 \in Nat
  <2>1. r \in Seq(Nat) /\ h \in Seq(Nat)
    BY AgesFacts, SeqMonotonic
  <2> QED
    BY <2>1, AgesFacts
<1>2. Len(r) \in Nat /\ Len(h) \in Nat
  BY LenProperties
<1>3. /\ Len(a) = Len(r)
      /\ \A k \in 1..Len(r) :
            /\ Ago(r, k) \in Nat
            /\ Ago(a, k) = IF Ago(r, k) < Window + 1 THEN Ago(r, k) + 1 ELSE Window + 1
  BY <1>1, OlderFacts
<1>4. /\ Len(m) = Len(h)
      /\ \A k \in 1..Len(h) :
            /\ Ago(h, k) \in Nat
            /\ Ago(m, k) = IF Ago(h, k) < Window + 1 THEN Ago(h, k) + 1 ELSE Window + 1
  BY <1>1, OlderFacts
<1> HIDE DEF a, m
<1>5. ASSUME NEW k \in 1..Len(h)
      PROVE  IF k <= Len(a) THEN Ago(m, k) = Ago(a, k) ELSE Ago(m, k) > Window
  <2>1. IF k <= Len(r) THEN Ago(h, k) = Ago(r, k) ELSE Ago(h, k) > Window
    BY DEF RateOK
  <2>2. CASE k <= Len(r)
    <3>1. k \in 1..Len(r)
      BY <1>2, <2>2
    <3> QED
      BY <1>3, <1>4, <2>1, <2>2, <3>1
  <2>3. CASE ~(k <= Len(r))
    BY <1>1, <1>3, <1>4, <2>1, <2>3
  <2> QED
    BY <2>2, <2>3
<1> QED
  BY <1>2, <1>3, <1>4, <1>5 DEF RateOK, a, m

LEMMA FailurePopped ==
    ASSUME NEW a \in Seq(FailAges), NEW h \in Seq(FailAges), NEW max \in Nat,
           NEW delay \in 0..MaxDelay, NEW n,
           FailureOK(a, h, max), Pops(a, FailWindow + delay, n)
    PROVE  FailureOK(Rest(a, n), h, max)
<1>1. Len(a) \in Nat /\ Len(h) \in Nat
  BY LenProperties
<1>2. a \in Seq(Nat) /\ h \in Seq(Nat)
  BY AgesFacts, SeqMonotonic
<1>3. /\ n \in 0..Len(a)
      /\ \A k \in 1..Len(a) : k > Len(a) - n => Ago(a, k) > FailWindow + delay
  BY <1>2, PopsFacts
<1>4. /\ Len(Rest(a, n)) = Len(a) - n
      /\ \A k \in 1..Len(a) - n : Ago(Rest(a, n), k) = Ago(a, k)
  BY <1>3, RestFacts
<1>5. Len(Rest(a, n)) <= Len(h) /\ Len(h) <= max
  BY <1>1, <1>3, <1>4 DEF FailureOK
<1>6. ASSUME NEW k \in 1..Len(h), Ago(h, k) <= FailWindow - MaxDelay
      PROVE  k <= Len(Rest(a, n)) /\ Ago(Rest(a, n), k) <= Ago(h, k) + MaxDelay
  <2>1. k <= Len(a) /\ Ago(a, k) <= Ago(h, k) + MaxDelay
    BY <1>6 DEF FailureOK
  <2>2. k \in 1..Len(a) /\ Ago(a, k) \in Nat /\ Ago(h, k) \in Nat
    <3>1. k \in 1..Len(a)
      BY <1>1, <2>1
    <3>2. Len(a) + 1 - k \in 1..Len(a) /\ Len(h) + 1 - k \in 1..Len(h)
      BY <1>1, <3>1
    <3> QED
      BY <1>2, <3>1, <3>2, ElementOfSeq DEF Ago
  <2>3. ~(Ago(a, k) > FailWindow + delay)
    BY <1>6, <2>1, <2>2, AgesFacts
  <2>4. k \in 1..Len(a) - n
    BY <1>1, <1>3, <2>2, <2>3
  <2> QED
    BY <1>1, <1>3, <1>4, <2>1, <2>4
<1> QED
  BY <1>5, <1>6 DEF FailureOK

\* A failure is recorded that has the place of a request that waited: the
\* oldest of a full history is out of the window.
LEMMA FailureRecorded ==
    ASSUME NEW a \in Seq(FailAges), NEW h \in Seq(FailAges), NEW max \in Nat \ {0},
           NEW x \in 0..MaxDelay, FailureOK(a, h, max), Len(a) < max
    PROVE  /\ FailureOK(Append(a, x), Remember(h, max), max)
           /\ Len(h) = max => h[1] > FailWindow - MaxDelay
<1> DEFINE b == Append(a, x)
           m == Remember(h, max)
<1>1. Len(a) \in Nat /\ Len(h) \in Nat /\ Len(h) <= max /\ Len(a) <= Len(h)
  BY LenProperties DEF FailureOK
<1>2. /\ Len(b) = Len(a) + 1 /\ Ago(b, 1) = x
      /\ \A k \in 1..Len(a) : Ago(b, k + 1) = Ago(a, k)
  BY AgesFacts, AppendFacts
<1>3. /\ Len(m) = IF Len(h) < max THEN Len(h) + 1 ELSE max
      /\ Ago(m, 1) = 0
      /\ \A k \in 1..Len(m) - 1 : Ago(m, k + 1) = Ago(h, k)
  BY <1>1, AgesFacts, RememberFacts
<1> HIDE DEF b, m
<1>4. Len(b) <= Len(m) /\ Len(m) <= max
  BY <1>1, <1>2, <1>3
<1>5. ASSUME NEW k \in 1..Len(m), Ago(m, k) <= FailWindow - MaxDelay
      PROVE  k <= Len(b) /\ Ago(b, k) <= Ago(m, k) + MaxDelay
  <2>1. CASE k = 1
    BY <1>1, <1>2, <1>3, <2>1, AgesFacts
  <2>2. CASE k # 1
    <3>1. /\ k - 1 \in 1..Len(h) /\ k - 1 \in 1..Len(m) - 1 /\ k \in Nat
          /\ (k - 1) + 1 = k
      BY <1>1, <1>3, <2>2
    <3>2. Ago(m, k) = Ago(h, k - 1)
      BY <1>3, <3>1
    <3>3. k - 1 <= Len(a) /\ Ago(a, k - 1) <= Ago(h, k - 1) + MaxDelay
      BY <1>5, <3>1, <3>2 DEF FailureOK
    <3>4. k - 1 \in 1..Len(a) /\ k <= Len(b)
      BY <1>1, <1>2, <3>1, <3>3
    <3>5. Ago(b, k) = Ago(a, k - 1)
      BY <1>2, <3>1, <3>4
    <3> QED
      BY <3>2, <3>3, <3>4, <3>5
  <2> QED
    BY <2>1, <2>2
<1>6. Len(h) = max => h[1] > FailWindow - MaxDelay
  <2> SUFFICES ASSUME Len(h) = max PROVE h[1] > FailWindow - MaxDelay
    OBVIOUS
  <2>1. max \in 1..Len(h) /\ ~(max <= Len(a)) /\ Len(h) + 1 - max = 1
    BY <1>1
  <2>2. ~(Ago(h, max) <= FailWindow - MaxDelay)
    BY <2>1 DEF FailureOK
  <2>3. h[1] \in Nat
    <3>1. 1 \in 1..Len(h)
      BY <1>1
    <3>2. h[1] \in FailAges
      BY <3>1, ElementOfSeq
    <3> QED
      BY <3>2, AgesFacts
  <2> QED
    BY <2>1, <2>2, <2>3, AgesFacts DEF Ago
<1> QED
  BY <1>4, <1>5, <1>6 DEF FailureOK, b, m

LEMMA FailureOlder ==
    ASSUME NEW a \in Seq(FailAges), NEW h \in Seq(FailAges), NEW max, FailureOK(a, h, max)
    PROVE  FailureOK(Older(a, FailWindow + MaxDelay + 1),
                     Older(h, FailWindow - MaxDelay + 1), max)
<1> DEFINE top == FailWindow + MaxDelay + 1
           low == FailWindow - MaxDelay + 1
           b == Older(a, top)
           m == Older(h, low)
<1>1. a \in Seq(Nat) /\ h \in Seq(Nat)
  BY AgesFacts, SeqMonotonic
<1>2. /\ Len(a) \in Nat /\ Len(h) \in Nat /\ top \in Nat /\ low \in Nat
      /\ low + MaxDelay <= top /\ FailWindow - MaxDelay < low /\ MaxDelay \in Nat
  BY LenProperties, AgesFacts
<1>3. /\ Len(b) = Len(a)
      /\ \A k \in 1..Len(a) :
            /\ Ago(a, k) \in Nat
            /\ Ago(b, k) = IF Ago(a, k) < top THEN Ago(a, k) + 1 ELSE top
  BY <1>1, <1>2, OlderFacts
<1>4. /\ Len(m) = Len(h)
      /\ \A k \in 1..Len(h) :
            /\ Ago(h, k) \in Nat
            /\ Ago(m, k) = IF Ago(h, k) < low THEN Ago(h, k) + 1 ELSE low
  BY <1>1, <1>2, OlderFacts
<1>5. ASSUME NEW k \in 1..Len(h), Ago(m, k) <= FailWindow - MaxDelay
      PROVE  k <= Len(b) /\ Ago(b, k) <= Ago(m, k) + MaxDelay
  <2>1. Ago(h, k) \in Nat /\ Ago(m, k) = Ago(h, k) + 1
    BY <1>2, <1>4, <1>5, AgesFacts
  <2>2. Ago(h, k) <= FailWindow - MaxDelay
    BY <1>5, <2>1, AgesFacts
  <2>3. k <= Len(a) /\ Ago(a, k) <= Ago(h, k) + MaxDelay
    BY <2>2 DEF FailureOK
  <2>4. k \in 1..Len(a)
    BY <1>2, <2>3
  <2>5. Ago(b, k) <= Ago(a, k) + 1 /\ Ago(a, k) \in Nat /\ Ago(b, k) \in Nat
    BY <1>2, <1>3, <2>4
  <2> QED
    BY <1>2, <1>3, <2>1, <2>3, <2>5
<1> HIDE DEF b, m
<1>6. Len(b) <= Len(m) /\ Len(m) <= max
  BY <1>3, <1>4 DEF FailureOK
<1> QED
  BY <1>4, <1>5, <1>6 DEF FailureOK, b, m

-----------------------------------------------------------------------------
(* Requests *)

LEMMA TypeFields ==
    ASSUME LimitsTypeOK, NEW c \in Clients
    PROVE  /\ rates[c] \in Seq(RateAges) /\ served[c] \in Seq(RateAges)
           /\ failedAuth[c] \in Seq(FailAges) /\ failures[c] \in Seq(FailAges)
           /\ requests[c] \in [Slots[c] -> Request]
           /\ \A i \in Slots[c] : requests[c][i].delay \in 0..MaxDelay
           /\ Len(rates[c]) \in Nat /\ Len(served[c]) \in Nat
           /\ Len(failedAuth[c]) \in Nat /\ Len(failures[c]) \in Nat
<1>1. /\ rates[c] \in Seq(RateAges) /\ served[c] \in Seq(RateAges)
      /\ failedAuth[c] \in Seq(FailAges) /\ failures[c] \in Seq(FailAges)
      /\ requests[c] \in [Slots[c] -> Request]
  BY DEF LimitsTypeOK
<1>2. \A i \in Slots[c] : requests[c][i].delay \in 0..MaxDelay
  BY <1>1 DEF Request
<1> QED
  BY <1>1, <1>2, LenProperties

LEMMA PendingFacts ==
    ASSUME NEW c \in Clients
    PROVE  /\ IsFiniteSet(Pending(c)) /\ Cardinality(Pending(c)) \in Nat
           /\ Cardinality(Pending(c)) <= Cardinality(Slots[c])
           /\ Cardinality(Slots[c]) \in Nat
<1>1. IsFiniteSet(Slots[c]) /\ Pending(c) \subseteq Slots[c]
  BY SetsAssumption DEF Pending
<1> QED
  BY <1>1, FS_Subset, FS_CardinalityType

LEMMA OnePendingLess ==
    ASSUME NEW c \in Clients, NEW i
    PROVE  /\ Cardinality(Pending(c) \ {i}) \in Nat
           /\ Cardinality(Pending(c) \ {i})
                 = Cardinality(Pending(c)) - (IF i \in Pending(c) THEN 1 ELSE 0)
<1>1. IsFiniteSet(Pending(c)) /\ Cardinality(Pending(c)) \in Nat
  BY PendingFacts
<1>2. /\ IsFiniteSet(Pending(c) \ {i})
      /\ Cardinality(Pending(c) \ {i})
            = IF i \in Pending(c) THEN Cardinality(Pending(c)) - 1 ELSE Cardinality(Pending(c))
  BY <1>1, FS_RemoveElement
<1>3. Cardinality(Pending(c) \ {i}) \in Nat
  BY <1>2, FS_CardinalityType
<1> QED
  BY <1>1, <1>2, <1>3

\* A request goes on to a stage.
LEMMA GotoFacts ==
    ASSUME LimitsTypeOK, NEW c \in Clients, NEW i \in Slots[c], NEW stage \in Stages,
           Goto(c, i, stage)
    PROVE  /\ DOMAIN requests' = Clients
           /\ \A d \in Clients : requests'[d] \in [Slots[d] -> Request]
           /\ \A d \in Clients \ {c} : Pending(d)' = Pending(d)
           /\ stage \in MayFail => Pending(c)' = Pending(c) \cup {i}
           /\ stage \notin MayFail => Pending(c)' = Pending(c) \ {i}
<1> DEFINE r == [stage |-> stage, delay |-> 0]
<1>1. r \in Request /\ r.stage = stage
  BY AgesFacts DEF Request
<1>2. requests' = [requests EXCEPT ![c] = [requests[c] EXCEPT ![i] = r]]
  BY DEF Goto
<1> HIDE DEF r
<1>3. DOMAIN requests = Clients /\ \A d \in Clients : requests[d] \in [Slots[d] -> Request]
  BY DEF LimitsTypeOK
<1>4. /\ DOMAIN requests' = Clients
      /\ requests'[c] = [requests[c] EXCEPT ![i] = r]
      /\ \A d \in Clients \ {c} : requests'[d] = requests[d]
  BY <1>2, <1>3
<1>5. /\ requests'[c] \in [Slots[c] -> Request]
      /\ requests'[c][i] = r
      /\ \A j \in Slots[c] \ {i} : requests'[c][j] = requests[c][j]
  BY <1>1, <1>3, <1>4
<1>6. \A d \in Clients : requests'[d] \in [Slots[d] -> Request]
  BY <1>3, <1>4, <1>5
<1>7. \A d \in Clients \ {c} : Pending(d)' = Pending(d)
  BY <1>4 DEF Pending
<1>8. stage \in MayFail => Pending(c)' = Pending(c) \cup {i}
  BY <1>1, <1>5 DEF Pending
<1>9. stage \notin MayFail => Pending(c)' = Pending(c) \ {i}
  BY <1>1, <1>5 DEF Pending
<1> QED
  BY <1>4, <1>6, <1>7, <1>8, <1>9

LEMMA InitInvariant == LimitsInit => LimitsIInv
<1> SUFFICES ASSUME LimitsInit PROVE LimitsIInv
  OBVIOUS
<1>1. \A c \in Clients : /\ rates[c] = <<>> /\ failedAuth[c] = <<>>
                         /\ served[c] = <<>> /\ failures[c] = <<>>
                         /\ requests[c] = [i \in Slots[c] |-> NoRequest]
  BY DEF LimitsInit
<1>2. NoRequest \in Request /\ NoRequest.stage \notin MayFail
  BY AgesFacts DEF NoRequest, Request, Stages, MayFail
<1>3. LimitsTypeOK
  <2>1. Sources(failedAuth) = {}
    BY <1>1 DEF Sources
  <2>2. Cardinality(Sources(failedAuth)) <= MaxSources
    BY <2>1, FS_EmptySet, LimitsAssumption
  <2>3. \A c \in Clients : requests[c] \in [Slots[c] -> Request]
    BY <1>1, <1>2
  <2>4. \A S : <<>> \in Seq(S)
    BY EmptySeq
  <2>5. /\ rates \in [Clients -> Seq(RateAges)] /\ served \in [Clients -> Seq(RateAges)]
        /\ failedAuth \in [Clients -> Seq(FailAges)] /\ failures \in [Clients -> Seq(FailAges)]
    BY <2>4 DEF LimitsInit
  <2> QED
    BY <2>2, <2>3, <2>5 DEF LimitsInit, LimitsTypeOK
<1>4. ASSUME NEW c \in Clients
      PROVE  /\ RateOK(rates[c], served[c])
             /\ FailureOK(failedAuth[c], failures[c], MaxFailures(c))
             /\ CountOK(c)
  <2>1. Len(<<>>) = 0
    BY EmptySeq
  <2>2. MaxFailures(c) \in Nat /\ Limit \in Nat
    BY PendingFacts, AgesFacts DEF MaxFailures
  <2>3. Pending(c) = {}
    BY <1>1, <1>2 DEF Pending
  <2>4. Cardinality(Pending(c)) = 0
    BY <2>3, FS_EmptySet
  <2>5. /\ Len(rates[c]) = 0 /\ Len(served[c]) = 0
        /\ Len(failedAuth[c]) = 0 /\ Len(failures[c]) = 0
    BY <1>1, <2>1
  <2>6. RateOK(rates[c], served[c])
    BY <2>2, <2>5 DEF RateOK
  <2>7. FailureOK(failedAuth[c], failures[c], MaxFailures(c))
    BY <2>2, <2>5 DEF FailureOK
  <2> QED
    BY <2>2, <2>4, <2>5, <2>6, <2>7 DEF CountOK
<1> QED
  BY <1>3, <1>4 DEF LimitsIInv

\* A step that leaves the deques of the other clients alone.
LEMMA OthersStay ==
    ASSUME LimitsIInv, LimitsTypeOK', NEW c \in Clients,
           \A d \in Clients \ {c} :
              /\ rates'[d] = rates[d] /\ served'[d] = served[d]
              /\ failedAuth'[d] = failedAuth[d] /\ failures'[d] = failures[d]
              /\ Pending(d)' = Pending(d),
           RateOK(rates'[c], served'[c]),
           FailureOK(failedAuth'[c], failures'[c], MaxFailures(c)),
           CountOK(c)'
    PROVE  LimitsIInv'
<1>1. ASSUME NEW d \in Clients
      PROVE  /\ RateOK(rates'[d], served'[d])
             /\ FailureOK(failedAuth'[d], failures'[d], MaxFailures(d))
             /\ CountOK(d)'
  <2>1. CASE d = c
    BY <2>1
  <2>2. CASE d # c
    BY <2>2 DEF LimitsIInv, CountOK, MaxFailures
  <2> QED
    BY <2>1, <2>2
<1>2. \A d \in Clients : MaxFailures(d)' = MaxFailures(d)
  BY DEF MaxFailures
<1> QED
  BY <1>1, <1>2 DEF LimitsIInv, RateOK, FailureOK, Ago

LEMMA MaxFailuresType ==
    ASSUME NEW c \in Clients PROVE MaxFailures(c) \in Nat
BY PendingFacts, AgesFacts DEF MaxFailures

\* Arrive and Authenticate
LEMMA GoOnInvariant ==
    ASSUME LimitsIInv, NEW c \in Clients, NEW i \in Slots[c],
           Arrive(c, i) \/ Authenticate(c, i)
    PROVE  LimitsIInv'
<1>1. PICK stage \in Stages :
         /\ Goto(c, i, stage)
         /\ stage \in MayFail => i \in Pending(c)
         /\ UNCHANGED <<valid, rates, failedAuth, served, failures>>
  <2>1. CASE Arrive(c, i)
    BY <2>1 DEF Arrive, Stages, MayFail
  <2>2. CASE Authenticate(c, i)
    BY <2>2 DEF Authenticate, In, Stages, MayFail, Pending
  <2> QED
    BY <2>1, <2>2
<1>2. LimitsTypeOK
  BY DEF LimitsIInv
<1>3. LimitsTypeOK'
  BY <1>1, <1>2, GotoFacts DEF LimitsTypeOK, Sources
<1>4. \A d \in Clients \ {c} : Pending(d)' = Pending(d)
  BY <1>1, <1>2, GotoFacts
<1>5. Pending(c)' = Pending(c) \/ Pending(c)' = Pending(c) \ {i}
  <2>1. CASE stage \in MayFail
    <3>1. Pending(c)' = Pending(c) \cup {i}
      BY <1>1, <1>2, <2>1, GotoFacts
    <3> QED
      BY <1>1, <2>1, <3>1
  <2>2. CASE stage \notin MayFail
    BY <1>1, <1>2, <2>2, GotoFacts
  <2> QED
    BY <2>1, <2>2
<1>6. Cardinality(Pending(c)') <= Cardinality(Pending(c)) /\ Cardinality(Pending(c)') \in Nat
  BY <1>5, PendingFacts, OnePendingLess
<1>7. CountOK(c)'
  <2>1. /\ CountOK(c) /\ MaxFailures(c)' = MaxFailures(c) /\ MaxFailures(c) \in Nat
        /\ Len(failedAuth[c]) \in Nat /\ Cardinality(Pending(c)) \in Nat
    BY <1>2, TypeFields, PendingFacts, MaxFailuresType DEF LimitsIInv, MaxFailures
  <2> QED
    BY <1>1, <1>6, <2>1 DEF CountOK
<1> QED
  BY <1>1, <1>3, <1>4, <1>7, OthersStay DEF LimitsIInv

\* What a check pops.
LEMMA PoppedSource ==
    ASSUME LimitsIInv, NEW c \in Clients, NEW delay \in 0..MaxDelay, NEW n,
           Pops(failedAuth[c], FailWindow + delay, n),
           failedAuth' = [failedAuth EXCEPT ![c] = Rest(@, n)]
    PROVE  /\ failedAuth' \in [Clients -> Seq(FailAges)]
           /\ Cardinality(Sources(failedAuth')) <= MaxSources
           /\ n \in 0..Len(failedAuth[c])
           /\ Len(failedAuth'[c]) = Len(failedAuth[c]) - n
           /\ FailureOK(failedAuth'[c], failures[c], MaxFailures(c))
           /\ \A d \in Clients \ {c} : failedAuth'[d] = failedAuth[d]
<1>1. /\ failedAuth \in [Clients -> Seq(FailAges)]
      /\ Cardinality(Sources(failedAuth)) <= MaxSources
      /\ failedAuth[c] \in Seq(FailAges) /\ failures[c] \in Seq(FailAges)
      /\ FailureOK(failedAuth[c], failures[c], MaxFailures(c))
      /\ Len(failedAuth[c]) \in Nat
  BY TypeFields DEF LimitsIInv, LimitsTypeOK
<1>2. n \in 0..Len(failedAuth[c])
  BY DEF Pops
<1>3. /\ Rest(failedAuth[c], n) \in Seq(FailAges)
      /\ Len(Rest(failedAuth[c], n)) = Len(failedAuth[c]) - n
  BY <1>1, <1>2, RestFacts
<1>4. /\ failedAuth'[c] = Rest(failedAuth[c], n)
      /\ \A d \in Clients \ {c} : failedAuth'[d] = failedAuth[d]
      /\ failedAuth' \in [Clients -> Seq(FailAges)]
  BY <1>1, <1>3
<1>5. FailureOK(failedAuth'[c], failures[c], MaxFailures(c))
  BY <1>1, <1>4, FailurePopped, MaxFailuresType
<1>6. Cardinality(Sources(failedAuth')) <= MaxSources
  <2>1. ASSUME failedAuth[c] = <<>> PROVE failedAuth'[c] = <<>>
    <3>1. Len(failedAuth'[c]) = 0
      <4>1. Len(failedAuth[c]) = 0
        BY <2>1, EmptySeq
      <4> QED
        BY <1>1, <1>2, <1>3, <1>4, <4>1
    <3> QED
      BY <1>3, <1>4, <3>1, EmptySeq
  <2>2. Sources(failedAuth') \subseteq Sources(failedAuth)
    BY <1>4, <2>1 DEF Sources
  <2>3. IsFiniteSet(Sources(failedAuth))
    BY SetsAssumption, FS_Subset DEF Sources
  <2>4. /\ Cardinality(Sources(failedAuth')) <= Cardinality(Sources(failedAuth))
        /\ Cardinality(Sources(failedAuth')) \in Nat
        /\ Cardinality(Sources(failedAuth)) \in Nat
    BY <2>2, <2>3, FS_Subset, FS_CardinalityType
  <2> QED
    BY <1>1, <2>4, LimitsAssumption
<1> QED
  BY <1>2, <1>3, <1>4, <1>5, <1>6

LEMMA CheckInvariant ==
    ASSUME LimitsIInv, NEW c \in Clients, NEW i \in Slots[c],
           PassSource(c, i) \/ RefuseSource(c, i)
    PROVE  LimitsIInv'
<1>0. LimitsTypeOK /\ Delay(c, i) \in 0..MaxDelay
  BY TypeFields DEF LimitsIInv, Delay
<1>1. PICK n \in 0..Len(failedAuth[c]), stage \in {"verifying", "idle"} :
         /\ Pops(failedAuth[c], FailWindow + Delay(c, i), n)
         /\ stage = "verifying" => Len(failedAuth[c]) - n < FailLimit
         /\ failedAuth' = [failedAuth EXCEPT ![c] = Rest(@, n)]
         /\ Goto(c, i, stage)
         /\ UNCHANGED <<valid, rates, served, failures>>
  BY DEF PassSource, RefuseSource
<1>2. /\ failedAuth' \in [Clients -> Seq(FailAges)]
      /\ Cardinality(Sources(failedAuth')) <= MaxSources
      /\ n \in 0..Len(failedAuth[c])
      /\ Len(failedAuth'[c]) = Len(failedAuth[c]) - n
      /\ FailureOK(failedAuth'[c], failures[c], MaxFailures(c))
      /\ \A d \in Clients \ {c} : failedAuth'[d] = failedAuth[d]
  BY <1>0, <1>1, PoppedSource
<1>3. stage \in Stages /\ (stage \in MayFail <=> stage = "verifying")
  BY DEF Stages, MayFail
<1>4. LimitsTypeOK'
  BY <1>0, <1>1, <1>2, <1>3, GotoFacts DEF LimitsTypeOK, Sources
<1>5. \A d \in Clients \ {c} : Pending(d)' = Pending(d)
  BY <1>0, <1>1, <1>3, GotoFacts
<1>6. CountOK(c)'
  <2>1. /\ CountOK(c) /\ MaxFailures(c)' = MaxFailures(c) /\ MaxFailures(c) \in Nat
        /\ Len(failedAuth[c]) \in Nat /\ Cardinality(Pending(c)) \in Nat
        /\ n \in Nat /\ n <= Len(failedAuth[c])
    BY <1>0, <1>2, TypeFields, PendingFacts, MaxFailuresType DEF LimitsIInv, MaxFailures
  <2>2. CASE stage = "verifying"
    <3>1. Len(failedAuth'[c]) <= FailLimit - 1
      BY <1>1, <1>2, <2>1, <2>2, AgesFacts
    <3>2. Pending(c)' \subseteq Slots[c] /\ IsFiniteSet(Slots[c])
      BY SetsAssumption DEF Pending
    <3>3. /\ Cardinality(Pending(c)') <= Cardinality(Slots[c])
          /\ Cardinality(Pending(c)') \in Nat /\ Cardinality(Slots[c]) \in Nat
      BY <3>2, FS_Subset, FS_CardinalityType
    <3>4. Len(failedAuth'[c]) \in Nat
      BY <1>2, <2>1
    <3> QED
      BY <3>1, <3>3, <3>4, <2>1, AgesFacts DEF CountOK, MaxFailures
  <2>3. CASE stage # "verifying"
    <3>1. Pending(c)' = Pending(c) \ {i}
      BY <1>0, <1>1, <1>3, <2>3, GotoFacts
    <3>2. Cardinality(Pending(c)') <= Cardinality(Pending(c)) /\ Cardinality(Pending(c)') \in Nat
      BY <3>1, PendingFacts, OnePendingLess
    <3> QED
      BY <1>2, <2>1, <3>2 DEF CountOK
  <2> QED
    BY <2>2, <2>3
<1> QED
  BY <1>1, <1>2, <1>4, <1>5, <1>6, OthersStay DEF LimitsIInv

\* Serve and Refuse
LEMMA ServeInvariant ==
    ASSUME LimitsIInv, NEW c \in Clients, NEW i \in Slots[c],
           Serve(c, i) \/ Refuse(c, i)
    PROVE  /\ LimitsIInv'
           /\ Serve(c, i) /\ Len(served[c]) = Limit => served[c][1] > Window
<1>0. /\ LimitsTypeOK /\ RateOK(rates[c], served[c]) /\ In(c, i, "allowed")
      /\ rates[c] \in Seq(RateAges) /\ served[c] \in Seq(RateAges)
      /\ Goto(c, i, "idle") /\ UNCHANGED <<valid, failedAuth, failures>>
      /\ Len(rates[c]) \in Nat /\ Len(served[c]) \in Nat
  BY TypeFields DEF LimitsIInv, Serve, Refuse
<1>1. PICK n \in 0..Len(rates[c]) :
         /\ Pops(rates[c], Window, n)
         /\ Serve(c, i) => Len(rates[c]) - n < Limit
         /\ rates' = [rates EXCEPT ![c] =
                         IF Serve(c, i) THEN Append(Rest(@, n), 0) ELSE Rest(@, n)]
         /\ served' = [served EXCEPT ![c] = IF Serve(c, i) THEN Remember(@, Limit) ELSE @]
  <2>1. CASE Serve(c, i)
    BY <2>1 DEF Serve
  <2>2. CASE ~Serve(c, i)
    <3>1. PICK n \in 0..Len(rates[c]) :
             /\ Pops(rates[c], Window, n)
             /\ rates' = [rates EXCEPT ![c] = Rest(@, n)]
      BY <2>2 DEF Refuse
    <3>2. served' = served
      BY <2>2 DEF Refuse
    <3>3. served' = [served EXCEPT ![c] = @]
      BY <1>0, <3>2 DEF LimitsTypeOK
    <3> QED
      BY <2>2, <3>1, <3>3
  <2> QED
    BY <2>1, <2>2
<1> DEFINE r == Rest(rates[c], n)
<1>2. r \in Seq(RateAges) /\ Len(r) = Len(rates[c]) - n /\ RateOK(r, served[c])
  BY <1>0, <1>1, RestFacts, RatePopped
<1>3. /\ rates'[c] = IF Serve(c, i) THEN Append(r, 0) ELSE r
      /\ served'[c] = IF Serve(c, i) THEN Remember(served[c], Limit) ELSE served[c]
      /\ \A d \in Clients \ {c} : rates'[d] = rates[d] /\ served'[d] = served[d]
  BY <1>0, <1>1 DEF LimitsTypeOK
<1> HIDE DEF r
<1>4. Serve(c, i) =>
         /\ RateOK(Append(r, 0), Remember(served[c], Limit))
         /\ Len(served[c]) = Limit => served[c][1] > Window
  BY <1>0, <1>1, <1>2, RateServed
<1>5. RateOK(rates'[c], served'[c])
  BY <1>2, <1>3, <1>4
<1>6. rates'[c] \in Seq(RateAges) /\ served'[c] \in Seq(RateAges)
  <2>1. Append(r, 0) \in Seq(RateAges)
    BY <1>2, AppendFacts, AgesFacts
  <2>2. Len(served[c]) <= Limit
    BY <1>0 DEF RateOK
  <2>3. Remember(served[c], Limit) \in Seq(RateAges)
    BY <1>0, <2>2, RememberFacts, AgesFacts
  <2> QED
    BY <1>0, <1>2, <1>3, <2>1, <2>3
<1>7. rates' \in [Clients -> Seq(RateAges)] /\ served' \in [Clients -> Seq(RateAges)]
  <2>1. /\ rates \in [Clients -> Seq(RateAges)] /\ served \in [Clients -> Seq(RateAges)]
        /\ rates' = [rates EXCEPT ![c] = rates'[c]]
        /\ served' = [served EXCEPT ![c] = served'[c]]
    BY <1>0, <1>1, <1>3 DEF LimitsTypeOK
  <2> QED
    BY <1>6, <2>1
<1>8. "idle" \in Stages /\ "idle" \notin MayFail
  BY DEF Stages, MayFail
<1>9. LimitsTypeOK'
  BY <1>0, <1>7, <1>8, GotoFacts DEF LimitsTypeOK, Sources
<1>10. /\ Pending(c)' = Pending(c) \ {i}
       /\ \A d \in Clients \ {c} : Pending(d)' = Pending(d)
  BY <1>0, <1>8, GotoFacts
<1>11. Pending(c)' = Pending(c)
  BY <1>0, <1>10 DEF Pending, In, MayFail
<1>12. CountOK(c)' /\ FailureOK(failedAuth'[c], failures'[c], MaxFailures(c))
  BY <1>0, <1>11 DEF LimitsIInv, CountOK, MaxFailures
<1> QED
  BY <1>0, <1>3, <1>4, <1>5, <1>9, <1>10, <1>12, OthersStay

\* What the players file says changes.
LEMMA RegistrationInvariant ==
    ASSUME LimitsIInv, NEW c \in Clients, Revoke(c) \/ Register(c)
    PROVE  LimitsIInv'
<1>0. LimitsTypeOK /\ UNCHANGED <<failedAuth, requests, failures>>
  BY DEF LimitsIInv, Revoke, Register
<1>1. /\ valid' \subseteq Clients
      /\ \/ UNCHANGED <<rates, served>>
         \/ /\ rates' = [rates EXCEPT ![c] = <<>>]
            /\ served' = [served EXCEPT ![c] = <<>>]
  BY <1>0 DEF LimitsTypeOK, Revoke, Register
<1>2. <<>> \in Seq(RateAges) /\ Len(<<>>) = 0
  BY EmptySeq
<1>3. /\ rates' \in [Clients -> Seq(RateAges)] /\ served' \in [Clients -> Seq(RateAges)]
      /\ \A d \in Clients \ {c} : rates'[d] = rates[d] /\ served'[d] = served[d]
      /\ \/ rates'[c] = rates[c] /\ served'[c] = served[c]
         \/ rates'[c] = <<>> /\ served'[c] = <<>>
  BY <1>0, <1>1, <1>2 DEF LimitsTypeOK
<1>4. LimitsTypeOK'
  BY <1>0, <1>1, <1>3 DEF LimitsTypeOK, Sources
<1>5. RateOK(<<>>, <<>>)
  BY <1>2, AgesFacts DEF RateOK
<1>6. RateOK(rates'[c], served'[c])
  BY <1>3, <1>5 DEF LimitsIInv
<1>7. \A d \in Clients : Pending(d)' = Pending(d)
  BY <1>0 DEF Pending
<1>8. CountOK(c)' /\ FailureOK(failedAuth'[c], failures'[c], MaxFailures(c))
  BY <1>0, <1>7 DEF LimitsIInv, CountOK, MaxFailures
<1> QED
  BY <1>0, <1>3, <1>4, <1>6, <1>7, <1>8, OthersStay

\* A failure adds one source at most, so that dropping the oldest one is enough.
LEMMA KeptFacts ==
    ASSUME NEW auth, NEW delay, NEW kept, Kept(auth, delay, kept),
           NEW before, before \subseteq Clients, Cardinality(before) <= MaxSources,
           NEW c \in Clients, Sources(auth) \subseteq before \cup {c}
    PROVE  kept \subseteq Sources(auth) /\ Cardinality(kept) <= MaxSources
<1> DEFINE fresh == {d \in Sources(auth) : Newest(auth[d]) <= FailWindow + delay}
<1>1. fresh \subseteq Sources(auth)
  OBVIOUS
<1>2. /\ IsFiniteSet(before) /\ IsFiniteSet(Sources(auth)) /\ IsFiniteSet(fresh)
      /\ Cardinality(fresh) <= Cardinality(Sources(auth))
  <2>1. IsFiniteSet(Sources(auth)) /\ IsFiniteSet(before)
    BY SetsAssumption, FS_Subset DEF Sources
  <2> QED
    BY <1>1, <2>1, FS_Subset
<1>3. Cardinality(Sources(auth)) <= MaxSources + 1
  <2>1. /\ IsFiniteSet(before \cup {c})
        /\ Cardinality(before \cup {c})
              = IF c \in before THEN Cardinality(before) ELSE Cardinality(before) + 1
    BY <1>2, FS_AddElement
  <2>2. Cardinality(Sources(auth)) <= Cardinality(before \cup {c})
    BY <2>1, FS_Subset
  <2>3. /\ Cardinality(before) \in Nat /\ Cardinality(before \cup {c}) \in Nat
        /\ Cardinality(Sources(auth)) \in Nat
    BY <1>2, <2>1, FS_CardinalityType
  <2> QED
    BY <2>1, <2>2, <2>3, LimitsAssumption
<1>4. Cardinality(fresh) \in Nat /\ Cardinality(Sources(auth)) \in Nat
  BY <1>2, FS_CardinalityType
<1>5. \/ Cardinality(Sources(auth)) <= MaxSources /\ kept = Sources(auth)
      \/ Cardinality(fresh) <= MaxSources /\ kept = fresh
      \/ \E oldest \in fresh : kept = fresh \ {oldest}
  BY DEF Kept
<1> HIDE DEF fresh
<1>6. CASE \E oldest \in fresh : kept = fresh \ {oldest}
  <2>1. PICK oldest \in fresh : kept = fresh \ {oldest}
    BY <1>6
  <2>2. Cardinality(kept) = Cardinality(fresh) - 1
    BY <1>2, <2>1, FS_RemoveElement
  <2> QED
    BY <1>1, <1>2, <1>3, <1>4, <2>1, <2>2, LimitsAssumption
<1> QED
  BY <1>1, <1>5, <1>6

LEMMA RecordInvariant ==
    ASSUME LimitsIInv, NEW c \in Clients, NEW i \in Slots[c], RecordFailure(c, i)
    PROVE  /\ LimitsIInv'
           /\ Len(failures[c]) = MaxFailures(c)
                 => failures[c][1] > FailWindow - MaxDelay
<1>0. /\ LimitsTypeOK /\ Delay(c, i) \in 0..MaxDelay /\ In(c, i, "failing")
      /\ failedAuth[c] \in Seq(FailAges) /\ failures[c] \in Seq(FailAges)
      /\ Len(failedAuth[c]) \in Nat /\ Len(failures[c]) \in Nat
      /\ Goto(c, i, "idle") /\ UNCHANGED <<valid, rates, served>>
      /\ FailureOK(failedAuth[c], failures[c], MaxFailures(c)) /\ CountOK(c)
      /\ MaxFailures(c) \in Nat
  BY TypeFields, MaxFailuresType DEF LimitsIInv, Delay, RecordFailure
<1>1. PICK n \in 0..Len(failedAuth[c]), kept \in SUBSET Clients :
         /\ Pops(failedAuth[c], FailWindow + Delay(c, i), n)
         /\ LET auth == [failedAuth EXCEPT ![c] = Append(Rest(@, n), Delay(c, i))]
                past == [failures EXCEPT ![c] = Remember(@, MaxFailures(c))]
            IN  /\ Kept(auth, Delay(c, i), kept)
                /\ failedAuth' = [d \in Clients |-> IF d \in kept THEN auth[d] ELSE <<>>]
                /\ failures' = [d \in Clients |-> IF d \in kept THEN past[d] ELSE <<>>]
  BY DEF RecordFailure
<1> DEFINE a == Rest(failedAuth[c], n)
           b == Append(a, Delay(c, i))
           m == Remember(failures[c], MaxFailures(c))
           auth == [failedAuth EXCEPT ![c] = b]
<1>2. a \in Seq(FailAges) /\ Len(a) = Len(failedAuth[c]) - n
  BY <1>0, RestFacts
<1>3. FailureOK(a, failures[c], MaxFailures(c))
  BY <1>0, <1>1, FailurePopped
\* One of the places that CountOK counts is this request's.
<1>4. Cardinality(Pending(c)) >= 1 /\ Cardinality(Pending(c)) \in Nat
  <2>1. i \in Pending(c)
    BY <1>0 DEF Pending, In, MayFail
  <2>2. Cardinality(Pending(c) \ {i}) = Cardinality(Pending(c)) - 1
        /\ Cardinality(Pending(c) \ {i}) \in Nat
    BY <2>1, OnePendingLess
  <2> QED
    BY <2>2, PendingFacts
<1>5. Len(a) < MaxFailures(c) /\ MaxFailures(c) \in Nat \ {0}
  BY <1>0, <1>2, <1>4 DEF CountOK
<1>6. /\ FailureOK(b, m, MaxFailures(c))
      /\ Len(failures[c]) = MaxFailures(c) => failures[c][1] > FailWindow - MaxDelay
  BY <1>0, <1>2, <1>3, <1>5, FailureRecorded
<1>7. /\ b \in Seq(FailAges) /\ Len(b) = Len(failedAuth[c]) - n + 1
      /\ Len(b) \in Nat /\ Len(b) <= Len(failedAuth[c]) + 1
  <2>1. Delay(c, i) \in FailAges
    BY <1>0, AgesFacts
  <2>2. b \in Seq(FailAges) /\ Len(b) = Len(a) + 1
    BY <1>2, <2>1, AppendFacts
  <2> QED
    BY <1>0, <1>2, <2>2
<1>8. m \in Seq(FailAges)
  <2>1. Len(failures[c]) <= MaxFailures(c)
    BY <1>0 DEF FailureOK
  <2> QED
    BY <1>0, <1>5, <2>1, RememberFacts, AgesFacts
<1>9. /\ auth \in [Clients -> Seq(FailAges)] /\ auth[c] = b
      /\ \A d \in Clients \ {c} : auth[d] = failedAuth[d]
  BY <1>0, <1>7 DEF LimitsTypeOK
<1>10. /\ Kept(auth, Delay(c, i), kept)
       /\ \A d \in Clients : failedAuth'[d] = IF d \in kept THEN auth[d] ELSE <<>>
       /\ failures'[c] = IF c \in kept THEN m ELSE <<>>
       /\ \A d \in Clients \ {c} : failures'[d] = IF d \in kept THEN failures[d] ELSE <<>>
       /\ DOMAIN failedAuth' = Clients /\ DOMAIN failures' = Clients
       /\ failedAuth' = [d \in Clients |-> failedAuth'[d]]
       /\ failures' = [d \in Clients |-> failures'[d]]
  BY <1>0, <1>1 DEF LimitsTypeOK
<1> HIDE DEF a, b, m, auth
<1>11. kept \subseteq Sources(auth) /\ Cardinality(kept) <= MaxSources
  <2>1. Sources(failedAuth) \subseteq Clients
        /\ Cardinality(Sources(failedAuth)) <= MaxSources
    BY <1>0 DEF LimitsTypeOK, Sources
  <2>2. Sources(auth) \subseteq Sources(failedAuth) \cup {c}
    BY <1>9 DEF Sources
  <2> QED
    BY <1>10, <2>1, <2>2, KeptFacts
<1>12. Cardinality(Sources(failedAuth')) <= MaxSources
  <2>1. Sources(failedAuth') \subseteq kept
    BY <1>10 DEF Sources
  <2>2. IsFiniteSet(kept)
    BY SetsAssumption, FS_Subset
  <2>3. /\ Cardinality(Sources(failedAuth')) <= Cardinality(kept)
        /\ IsFiniteSet(Sources(failedAuth'))
    BY <2>1, <2>2, FS_Subset
  <2>4. Cardinality(Sources(failedAuth')) \in Nat /\ Cardinality(kept) \in Nat
    BY <2>2, <2>3, FS_CardinalityType
  <2> QED
    BY <1>11, <2>3, <2>4, LimitsAssumption
<1>13. <<>> \in Seq(FailAges) /\ Len(<<>>) = 0
  BY EmptySeq
<1>14. /\ failedAuth' \in [Clients -> Seq(FailAges)]
       /\ failures' \in [Clients -> Seq(FailAges)]
  <2>1. \A d \in Clients : failedAuth'[d] \in Seq(FailAges)
    BY <1>9, <1>10, <1>13
  <2>2. \A d \in Clients : failures'[d] \in Seq(FailAges)
    BY <1>0, <1>8, <1>10, <1>13 DEF LimitsTypeOK
  <2> QED
    BY <1>10, <2>1, <2>2
<1>15. "idle" \in Stages /\ "idle" \notin MayFail
  BY DEF Stages, MayFail
<1>16. LimitsTypeOK'
  BY <1>0, <1>12, <1>14, <1>15, GotoFacts DEF LimitsTypeOK, Sources
<1>17. /\ Pending(c)' = Pending(c) \ {i}
       /\ \A d \in Clients \ {c} : Pending(d)' = Pending(d)
  BY <1>0, <1>15, GotoFacts
<1>18. ASSUME NEW d \in Clients
       PROVE  FailureOK(failedAuth'[d], failures'[d], MaxFailures(d))
  <2>1. CASE d \notin kept
    <3>1. failedAuth'[d] = <<>> /\ failures'[d] = <<>>
      BY <1>10, <2>1
    <3> QED
      BY <1>13, <3>1, MaxFailuresType DEF FailureOK
  <2>2. CASE d \in kept /\ d = c
    BY <1>6, <1>9, <1>10, <2>2
  <2>3. CASE d \in kept /\ d # c
    BY <1>9, <1>10, <2>3 DEF LimitsIInv
  <2> QED
    BY <2>1, <2>2, <2>3
<1>19. ASSUME NEW d \in Clients PROVE CountOK(d)'
  <2>1. /\ CountOK(d) /\ MaxFailures(d)' = MaxFailures(d) /\ MaxFailures(d) \in Nat
        /\ Cardinality(Pending(d)) \in Nat /\ Len(failedAuth[d]) \in Nat
        /\ Cardinality(Pending(d)) <= MaxFailures(d)
    <3>1. CountOK(d) /\ Len(failedAuth[d]) \in Nat
      BY <1>0, TypeFields DEF LimitsIInv
    <3>2. Cardinality(Pending(d)) \in Nat /\ MaxFailures(d) \in Nat
      BY PendingFacts, MaxFailuresType
    <3> QED
      BY <3>1, <3>2 DEF CountOK, MaxFailures
  <2>2. CASE d = c
    <3>1. Cardinality(Pending(c)') = Cardinality(Pending(c)) - 1
      <4>1. i \in Pending(c)
        BY <1>0 DEF Pending, In, MayFail
      <4> QED
        BY <1>17, <4>1, OnePendingLess
    <3>2. Len(failedAuth'[c]) <= Len(failedAuth[c]) + 1 /\ Len(failedAuth'[c]) \in Nat
      BY <1>0, <1>7, <1>9, <1>10, <1>13
    <3> QED
      BY <1>0, <1>4, <2>1, <2>2, <3>1, <3>2 DEF CountOK
  <2>3. CASE d # c
    <3>1. Cardinality(Pending(d)') = Cardinality(Pending(d))
      BY <1>17, <2>3
    <3>2. Len(failedAuth'[d]) <= Len(failedAuth[d]) /\ Len(failedAuth'[d]) \in Nat
      BY <1>9, <1>10, <1>13, <2>1, <2>3
    <3> QED
      BY <2>1, <3>1, <3>2 DEF CountOK
  <2> QED
    BY <2>2, <2>3
<1>20. \A d \in Clients : RateOK(rates'[d], served'[d]) /\ MaxFailures(d)' = MaxFailures(d)
  BY <1>0 DEF LimitsIInv, MaxFailures
<1> QED
  BY <1>6, <1>16, <1>18, <1>19, <1>20 DEF LimitsIInv, RateOK, FailureOK, Ago

\* The requests that wait for the lock have read the clock a tick earlier.
LEMMA TickRequests ==
    ASSUME LimitsTypeOK, LimitsTick
    PROVE  /\ DOMAIN requests' = Clients
           /\ \A c \in Clients : /\ requests'[c] \in [Slots[c] -> Request]
                                 /\ Pending(c)' = Pending(c)
<1>1. requests' = [c \in Clients |-> [i \in Slots[c] |->
                      IF requests[c][i].stage \in Timed
                      THEN [requests[c][i] EXCEPT !.delay = @ + 1]
                      ELSE requests[c][i]]]
  BY DEF LimitsTick
<1>2. ASSUME NEW c \in Clients, NEW i \in Slots[c]
      PROVE  /\ requests'[c][i] \in Request
             /\ requests'[c][i].stage = requests[c][i].stage
  <2>1. requests[c][i] \in Request
    BY DEF LimitsTypeOK
  <2>2. CASE requests[c][i].stage \in Timed
    <3>1. requests'[c][i] = [requests[c][i] EXCEPT !.delay = @ + 1]
      BY <1>1, <2>2
    <3>2. requests[c][i].delay \in 0..MaxDelay /\ requests[c][i].delay < MaxDelay
      BY <2>1, <2>2 DEF LimitsTick, Delay, Request
    <3>3. requests[c][i].delay + 1 \in 0..MaxDelay
      BY <3>2, AgesFacts
    <3> QED
      BY <2>1, <3>1, <3>3 DEF Request
  <2>3. CASE requests[c][i].stage \notin Timed
    BY <1>1, <2>1, <2>3
  <2> QED
    BY <2>2, <2>3
<1>3. ASSUME NEW c \in Clients
      PROVE  requests'[c] \in [Slots[c] -> Request] /\ Pending(c)' = Pending(c)
  <2>1. requests'[c] = [i \in Slots[c] |-> requests'[c][i]]
    BY <1>1
  <2>2. requests'[c] \in [Slots[c] -> Request]
    BY <1>2, <2>1
  <2> QED
    BY <1>2, <2>2 DEF Pending
<1>4. DOMAIN requests' = Clients
  BY <1>1
<1> QED
  BY <1>3, <1>4

LEMMA TickInvariant ==
    ASSUME LimitsIInv, LimitsTick
    PROVE  LimitsIInv'
<1>0. LimitsTypeOK
  BY DEF LimitsIInv
<1>1. /\ rates' = [c \in Clients |-> Older(rates[c], Window + 1)]
      /\ failedAuth' = [c \in Clients |-> Older(failedAuth[c], FailWindow + MaxDelay + 1)]
      /\ served' = [c \in Clients |-> Older(served[c], Window + 1)]
      /\ failures' = [c \in Clients |-> Older(failures[c], FailWindow - MaxDelay + 1)]
      /\ valid' = valid
  BY DEF LimitsTick
<1>2. /\ Window + 1 \in Nat /\ FailWindow + MaxDelay + 1 \in Nat
      /\ FailWindow - MaxDelay + 1 \in Nat
      /\ 0..Window + 1 = RateAges /\ 0..FailWindow + MaxDelay + 1 = FailAges
      /\ 0..FailWindow - MaxDelay + 1 \subseteq FailAges
  BY AgesFacts DEF RateAges, FailAges
<1>3. ASSUME NEW c \in Clients
      PROVE  /\ rates[c] \in Seq(Nat) /\ served[c] \in Seq(Nat)
             /\ failedAuth[c] \in Seq(Nat) /\ failures[c] \in Seq(Nat)
  BY <1>0, TypeFields, AgesFacts, SeqMonotonic
<1>4. ASSUME NEW c \in Clients
      PROVE  /\ Older(rates[c], Window + 1) \in Seq(RateAges)
             /\ Older(served[c], Window + 1) \in Seq(RateAges)
             /\ Older(failedAuth[c], FailWindow + MaxDelay + 1) \in Seq(FailAges)
             /\ Older(failures[c], FailWindow - MaxDelay + 1) \in Seq(FailAges)
             /\ Len(Older(failedAuth[c], FailWindow + MaxDelay + 1)) = Len(failedAuth[c])
  <2>1. /\ Older(rates[c], Window + 1) \in Seq(0..Window + 1)
        /\ Older(served[c], Window + 1) \in Seq(0..Window + 1)
    BY <1>2, <1>3, OlderFacts
  <2>2. /\ Older(failedAuth[c], FailWindow + MaxDelay + 1) \in Seq(0..FailWindow + MaxDelay + 1)
        /\ Len(Older(failedAuth[c], FailWindow + MaxDelay + 1)) = Len(failedAuth[c])
    BY <1>2, <1>3, OlderFacts
  <2>3. Older(failures[c], FailWindow - MaxDelay + 1) \in Seq(0..FailWindow - MaxDelay + 1)
    BY <1>2, <1>3, OlderFacts
  <2>4. Older(failures[c], FailWindow - MaxDelay + 1) \in Seq(FailAges)
    BY <1>2, <2>3, SeqMonotonic
  <2> QED
    BY <1>2, <2>1, <2>2, <2>4
<1>5. Sources(failedAuth') = Sources(failedAuth)
  <2>1. ASSUME NEW c \in Clients
        PROVE  failedAuth'[c] = <<>> <=> failedAuth[c] = <<>>
    <3>1. /\ failedAuth'[c] \in Seq(FailAges) /\ failedAuth[c] \in Seq(FailAges)
          /\ Len(failedAuth'[c]) = Len(failedAuth[c])
      BY <1>0, <1>1, <1>4, TypeFields
    <3> QED
      BY <3>1, EmptySeq
  <2> QED
    BY <2>1 DEF Sources
<1>6. LimitsTypeOK'
  <2>1. /\ rates' \in [Clients -> Seq(RateAges)] /\ served' \in [Clients -> Seq(RateAges)]
        /\ failedAuth' \in [Clients -> Seq(FailAges)]
        /\ failures' \in [Clients -> Seq(FailAges)]
    BY <1>1, <1>4
  <2>2. /\ DOMAIN requests' = Clients
        /\ \A c \in Clients : requests'[c] \in [Slots[c] -> Request]
    BY <1>0, TickRequests
  <2>3. Cardinality(Sources(failedAuth)') <= MaxSources
    BY <1>0, <1>5 DEF LimitsTypeOK, Sources
  <2> QED
    BY <1>0, <1>1, <2>1, <2>2, <2>3 DEF LimitsTypeOK
<1>7. ASSUME NEW c \in Clients
      PROVE  /\ RateOK(rates'[c], served'[c])
             /\ FailureOK(failedAuth'[c], failures'[c], MaxFailures(c))
             /\ CountOK(c)'
  <2>1. RateOK(rates[c], served[c]) /\ CountOK(c)
        /\ FailureOK(failedAuth[c], failures[c], MaxFailures(c))
    BY DEF LimitsIInv
  <2>2. RateOK(rates'[c], served'[c])
    BY <1>0, <1>1, <2>1, TypeFields, RateOlder
  <2>3. FailureOK(failedAuth'[c], failures'[c], MaxFailures(c))
    BY <1>0, <1>1, <2>1, TypeFields, FailureOlder
  <2>4. CountOK(c)'
    <3>1. Len(failedAuth'[c]) = Len(failedAuth[c]) /\ Pending(c)' = Pending(c)
      BY <1>0, <1>1, <1>4, TickRequests
    <3> QED
      BY <2>1, <3>1 DEF CountOK, MaxFailures
  <2> QED
    BY <2>2, <2>3, <2>4
<1>8. \A c \in Clients : MaxFailures(c)' = MaxFailures(c)
  BY DEF MaxFailures
<1> QED
  BY <1>6, <1>7, <1>8 DEF LimitsIInv, RateOK, FailureOK, Ago

LEMMA NextInvariant == LimitsIInv /\ [LimitsNext]_limitVars => LimitsIInv'
<1> SUFFICES ASSUME LimitsIInv, [LimitsNext]_limitVars PROVE LimitsIInv'
  OBVIOUS
<1>1. ASSUME NEW c \in Clients, NEW i \in Slots[c], Arrive(c, i) \/ Proceed(c, i)
      PROVE  LimitsIInv'
  BY <1>1, GoOnInvariant, CheckInvariant, RecordInvariant, ServeInvariant DEF Proceed
<1>2. ASSUME NEW c \in Clients, Revoke(c) \/ Register(c) PROVE LimitsIInv'
  BY <1>2, RegistrationInvariant
<1>3. CASE LimitsTick
  BY <1>3, TickInvariant
<1>4. CASE UNCHANGED limitVars
  BY <1>4 DEF limitVars, LimitsIInv, LimitsTypeOK, Sources, CountOK, MaxFailures, Pending,
              RateOK, FailureOK, Ago
<1> QED
  BY <1>1, <1>2, <1>3, <1>4 DEF LimitsNext

-----------------------------------------------------------------------------
\* The inductive invariant holds.
THEOREM LimitsInductive == LimitsSpec => []LimitsIInv
  BY InitInvariant, NextInvariant, PTL DEF LimitsSpec

\* Every variable has its type, and the map of record_auth_failure its bound:
\* no more than MaxSources sources are kept.
THEOREM LimitsTypeCorrect == LimitsSpec => []LimitsTypeOK
<1>1. LimitsIInv => LimitsTypeOK
  BY DEF LimitsIInv
<1> QED
  BY <1>1, LimitsInductive, PTL

\* _enforce_rate_locked, enforce_auth_source and record_auth_failure: however
\* many requests of a client are served at a time, no window has more requests
\* served than the limit, nor more failures than the limit and the requests
\* that passed the check together.
THEOREM WindowsRespectedHolds == LimitsSpec => WindowsRespected
<1>1. ASSUME LimitsIInv, NEW c \in Clients
      PROVE  ServedSpacing(c) /\ FailureSpacing(c)
  <2>1. ServedSpacing(c)
    BY <1>1, ServeInvariant DEF ServedSpacing
  <2>2. FailureSpacing(c)
    BY <1>1, RecordInvariant DEF FailureSpacing
  <2> QED
    BY <2>1, <2>2
<1>2. LimitsIInv => [\A c \in Clients : ServedSpacing(c) /\ FailureSpacing(c)]_limitVars
  BY <1>1
<1> QED
  BY <1>2, LimitsInductive, PTL DEF WindowsRespected
=============================================================================
