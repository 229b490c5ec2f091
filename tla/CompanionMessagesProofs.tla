---------------------- MODULE CompanionMessagesProofs -----------------------
(***************************************************************************)
(* Proofs about CompanionMessages, for every number of players, lobbies,   *)
(* messages and restarts, and for every retention, window and list size.   *)
(*                                                                         *)
(* What a client shows went through three bounded sequences: the deque of  *)
(* the server, the reply and the list.  The lemmas on Newest and Selected  *)
(* say what each of them keeps, and how many newer messages there are when *)
(* it drops one.                                                           *)
(***************************************************************************)
EXTENDS CompanionMessages, FunctionTheorems, FiniteSetTheorems,
        SequenceTheorems, TLAPS

-----------------------------------------------------------------------------
(* The invariant. *)

Ascending(s) == \A i, j \in 1..Len(s) : i < j => s[i] < s[j]

Elements(s) == {s[i] : i \in 1..Len(s)}

Newer(n, S) == Cardinality({m \in S : m > n})

\* The messages of either kind numbered up to c, those that p may see, and
\* those of lobby l.
ChatUpTo(c) == {n \in 1..c : IsChat(n)}
RoomUpTo(c) == {n \in 1..c : ~IsChat(n)}
MineUpTo(p, c) == {n \in ChatUpTo(c) : Visible(p, n)}
LobbyUpTo(l, c) == {n \in RoomUpTo(c) : sent[n].target = l}

\* A deque has the messages of its kind but for those pushed out.
DequeSane(queue, all) ==
    /\ Ascending(queue)
    /\ Elements(queue) \subseteq all
    /\ \A n \in all \ Elements(queue) : Newer(n, all) >= Retention

ServerInv ==
    /\ DequeSane(messages, ChatUpTo(Len(sent)))
    /\ DequeSane(lobbyMessages, RoomUpTo(Len(sent)))
    /\ \A p \in Watchers : joined[p] <= Len(sent)

\* A list of a client that has seen everything up to cursor.
ListSane(items, of, cursor) ==
    /\ Increasing(items)
    /\ \A i \in 1..Len(items) : items[i].of = of /\ items[i].number <= cursor

ClientInv(p) ==
    LET c == client[p]
    IN  /\ c.instance # None => c.instance <= instance
        /\ c.instance = None \/ c.step = "refetching"
              => c.cursor = 0 /\ c.list = << >> /\ c.room = << >>
        /\ c.instance = instance => c.cursor <= Len(sent)
        /\ ListSane(c.list, c.instance, c.cursor)
        /\ ListSane(c.room, c.instance, c.cursor)

\* Messages in a reply are newer than what the client has seen.
PartSane(numbers, since, sequence) ==
    /\ Ascending(numbers)
    /\ \A n \in Elements(numbers) : since < n /\ n <= sequence

ReplyInv(p) ==
    LET r == reply[p]
        c == client[p]
    IN  r # None =>
            /\ r.instance <= instance
            /\ r.instance = instance => r.sequence <= Len(sent)
            /\ c.instance = r.instance => c.cursor <= r.sequence
            /\ PartSane(r.chat, c.cursor, r.sequence)
            /\ PartSane(r.room, c.cursor, r.sequence)

OrderInv ==
    /\ TypeOK
    /\ ServerInv
    /\ \A p \in Watchers : ClientInv(p) /\ ReplyInv(p)

-----------------------------------------------------------------------------
(* What a reply leaves out, and what a client does not show. *)

LeftOut(n, all, mine) == \/ Newer(n, all) >= Retention
                         \/ Newer(n, mine) >= Window

\* A reply has all of mine that is newer than since, but for what is left out.
PartComplete(numbers, since, all, mine) ==
    /\ Elements(numbers) \subseteq mine
    /\ \A n \in mine \ Elements(numbers) : n > since => LeftOut(n, all, mine)

\* A list has all of mine that is newer than since, but for what was pushed
\* out.
ListComplete(items, since, all, mine) ==
    /\ NumbersOf(items) \subseteq mine
    /\ \A n \in mine \ NumbersOf(items) : n > since => PushedOut(n, all, mine)

ReplyChat(p) ==
    LET r == reply[p]
    IN  r # None /\ r.instance = instance =>
            PartComplete(r.chat, client[p].cursor,
                         ChatUpTo(r.sequence), MineUpTo(p, r.sequence))

ClientChat(p) ==
    LET c == client[p]
    IN  c.instance = instance =>
            ListComplete(c.list, 0, ChatUpTo(c.cursor), MineUpTo(p, c.cursor))

ChatInv == \A p \in Watchers : ReplyChat(p) /\ ClientChat(p)

\* A player that is in another lobby than the one in a reply, or the one its
\* client shows, entered it later.
ReplyRoom(p) ==
    LET r == reply[p]
    IN  r # None /\ r.instance = instance =>
            /\ PartComplete(r.room, client[p].cursor, RoomUpTo(r.sequence),
                            LobbyUpTo(r.lobby, r.sequence))
            /\ playerLobby[p] \notin {None, r.lobby} => joined[p] >= r.sequence

ClientRoom(p) ==
    LET c    == client[p]
        mine == LobbyUpTo(c.lobby, c.cursor)
    IN  c.instance = instance =>
            /\ NumbersOf(c.room) \subseteq mine
            /\ c.lobby # None /\ c.lobby = playerLobby[p] =>
                  ListComplete(c.room, joined[p], RoomUpTo(c.cursor), mine)
            /\ playerLobby[p] \notin {None, c.lobby} => joined[p] >= c.cursor

RoomInv == \A p \in Watchers : ReplyRoom(p) /\ ClientRoom(p)

-----------------------------------------------------------------------------
(***************************************************************************)
(* What Newest keeps, and how much is newer than what it drops.            *)
(***************************************************************************)
LEMMA NewestProps ==
    ASSUME NEW S, NEW s \in Seq(S), NEW size \in Nat \ {0}
    PROVE  LET r == Newest(size, s)
               d == Len(s) - Len(r)
           IN  /\ r \in Seq(S) /\ d \in Nat
               /\ Len(r) <= size
               /\ \A i \in 1..Len(r) : r[i] = s[i + d]
               /\ Len(r) = IF Len(s) <= size THEN Len(s) ELSE size
  <1>1. CASE Len(s) <= size
    BY <1>1 DEF Newest
  <1>2. CASE ~(Len(s) <= size)
    <2> DEFINE m == Len(s) - size + 1
               r == SubSeq(s, m, Len(s))
    <2>1. Newest(size, s) = r
      BY <1>2 DEF Newest
    <2>2. Len(s) \in Nat /\ m \in Int /\ m >= 1 /\ m <= Len(s)
      BY <1>2, LenProperties
    <2>3. \A i \in m..Len(s) : s[i] \in S
      BY <2>2, ElementOfSeq
    <2>4. /\ r \in Seq(S) /\ Len(r) = size
          /\ \A i \in 1..(Len(s) - m + 1) : r[i] = s[m + i - 1]
      BY <2>2, <2>3, SubSeqProperties
    <2> HIDE DEF r
    <2>5. \A i \in 1..Len(r) : r[i] = s[i + (Len(s) - Len(r))]
      BY <2>2, <2>4
    <2>6. QED
      BY <1>2, <2>1, <2>2, <2>4, <2>5
  <1>3. QED
    BY <1>1, <1>2

\* As many newer numbers as there are in an ascending sequence of them.
LEMMA AscendingCount ==
    ASSUME NEW s \in Seq(Nat), Ascending(s), NEW T, IsFiniteSet(T),
           Elements(s) \subseteq T
    PROVE  Len(s) <= Cardinality(T)
  <1>1. Len(s) \in Nat /\ s \in [1..Len(s) -> Nat]
    BY LenProperties
  <1>2. s \in [1..Len(s) -> T]
    BY <1>1 DEF Elements
  <1>3. ASSUME NEW i \in 1..Len(s), NEW j \in 1..Len(s), s[i] = s[j]
        PROVE  i = j
    <2>1. s[i] \in Nat /\ s[j] \in Nat
      BY <1>1
    <2>2. ~(i < j)
      BY <1>3, <2>1 DEF Ascending
    <2>3. ~(j < i)
      BY <1>3, <2>1 DEF Ascending
    <2>4. QED
      BY <1>1, <2>2, <2>3
  <1>4. s \in Injection(1..Len(s), T)
    BY <1>2, <1>3, Fun_IsInj
  <1>5. Cardinality(1..Len(s)) <= Cardinality(T)
    BY <1>4, FS_Injection
  <1>6. Cardinality(1..Len(s)) = Len(s)
    <2>1. 1 \in Int /\ Len(s) \in Int
      BY <1>1
    <2>2. Cardinality(1..Len(s)) = IF 1 > Len(s) THEN 0 ELSE Len(s) - 1 + 1
      BY <2>1, FS_Interval
    <2>3. QED
      BY <1>1, <2>2
  <1>7. QED
    BY <1>5, <1>6

LEMMA NewestDrops ==
    ASSUME NEW s \in Seq(Nat), Ascending(s), NEW size \in Nat \ {0}
    PROVE  LET r == Newest(size, s)
           IN  /\ r \in Seq(Nat) /\ Len(r) <= size
               /\ Ascending(r)
               /\ Elements(r) \subseteq Elements(s)
               /\ \A all : IsFiniteSet(all) /\ Elements(s) \subseteq all =>
                     \A n \in Elements(s) \ Elements(r) : Newer(n, all) >= size
  <1> DEFINE r == Newest(size, s)
             d == Len(s) - Len(r)
  <1>1. /\ r \in Seq(Nat) /\ d \in Nat /\ Len(r) <= size
        /\ \A i \in 1..Len(r) : r[i] = s[i + d]
        /\ d > 0 => Len(r) = size
    <2>1. /\ r \in Seq(Nat) /\ d \in Nat /\ Len(r) <= size
          /\ \A i \in 1..Len(r) : r[i] = s[i + d]
          /\ Len(r) = IF Len(s) <= size THEN Len(s) ELSE size
      BY NewestProps
    <2>2. Len(s) \in Nat
      BY LenProperties
    <2> HIDE DEF r
    <2>3. d > 0 => Len(r) = size
      BY <2>1, <2>2
    <2>4. QED
      BY <2>1, <2>3
  <1>2. Len(s) \in Nat /\ Len(r) \in Nat /\ s \in [1..Len(s) -> Nat]
    BY <1>1, LenProperties
  <1> HIDE DEF r
  <1>i. ASSUME NEW i \in 1..Len(r)
        PROVE  i + d \in 1..Len(s) /\ r[i] = s[i + d]
    BY <1>1, <1>2
  <1> HIDE DEF d
  <1>3. Ascending(r)
    <2>1. ASSUME NEW i \in 1..Len(r), NEW j \in 1..Len(r), i < j
          PROVE  r[i] < r[j]
      <3>1. i + d < j + d
        BY <1>1, <1>2, <2>1
      <3>2. s[i + d] < s[j + d]
        BY <1>i, <3>1 DEF Ascending
      <3>3. QED
        BY <1>i, <3>2
    <2>2. QED
      BY <2>1 DEF Ascending
  <1>4. Elements(r) \subseteq Elements(s)
    BY <1>i DEF Elements
  <1>5. ASSUME NEW all, IsFiniteSet(all), Elements(s) \subseteq all,
               NEW n \in Elements(s) \ Elements(r)
        PROVE  Newer(n, all) >= size
    <2>1. PICK i \in 1..Len(s) : n = s[i]
      BY DEF Elements
    <2>2. i <= d
      <3>1. SUFFICES ASSUME i > d PROVE FALSE
        BY <1>1, <1>2
      <3>2. i - d \in 1..Len(r) /\ (i - d) + d = i
        BY <1>1, <1>2, <3>1 DEF d
      <3>3. r[i - d] = s[i]
        BY <1>i, <3>2
      <3>4. QED
        BY <2>1, <3>2, <3>3 DEF Elements
    <2>3. Len(r) = size
      BY <1>1, <2>2
    <2> DEFINE T == {m \in all : m > n}
    <2>4. Elements(r) \subseteq T
      <3>1. ASSUME NEW j \in 1..Len(r)
            PROVE  r[j] \in all /\ r[j] > n
        <4>1. j + d \in 1..Len(s) /\ r[j] = s[j + d]
          BY <1>i
        <4>2. i < j + d
          BY <1>1, <1>2, <2>2
        <4>3. s[i] < s[j + d] /\ s[j + d] \in all
          BY <1>5, <4>1, <4>2 DEF Ascending, Elements
        <4>4. QED
          BY <1>2, <2>1, <4>1, <4>3
      <3>2. QED
        BY <3>1 DEF Elements
    <2>5. IsFiniteSet(T)
      BY <1>5, FS_Subset
    <2>6. Len(r) <= Cardinality(T)
      BY <1>1, <1>3, <2>4, <2>5, AscendingCount
    <2>7. QED
      BY <2>3, <2>6 DEF Newer
  <1>6. QED
    BY <1>1, <1>3, <1>4, <1>5 DEF r

LEMMA AscendingConcat ==
    ASSUME NEW s \in Seq(Nat), NEW t \in Seq(Nat), Ascending(s), Ascending(t),
           \A m \in Elements(s), n \in Elements(t) : m < n
    PROVE  /\ s \o t \in Seq(Nat) /\ Ascending(s \o t)
           /\ Elements(s \o t) = Elements(s) \cup Elements(t)
  <1> DEFINE u == s \o t
  <1>1. /\ u \in Seq(Nat) /\ Len(u) = Len(s) + Len(t)
        /\ \A i \in 1..(Len(s) + Len(t)) :
              u[i] = IF i <= Len(s) THEN s[i] ELSE t[i - Len(s)]
    BY ConcatProperties
  <1>2. Len(s) \in Nat /\ Len(t) \in Nat
    BY LenProperties
  <1>l. ASSUME NEW i \in 1..Len(s)
        PROVE  i \in 1..Len(u) /\ u[i] = s[i]
    BY <1>1, <1>2
  <1>r. ASSUME NEW i \in 1..Len(t)
        PROVE  i + Len(s) \in 1..Len(u) /\ u[i + Len(s)] = t[i]
    <2>1. /\ i + Len(s) \in 1..(Len(s) + Len(t))
          /\ ~(i + Len(s) <= Len(s))
          /\ (i + Len(s)) - Len(s) = i
      BY <1>2
    <2>2. QED
      BY <1>1, <2>1
  <1>c. ASSUME NEW i \in 1..Len(u)
        PROVE  \/ i \in 1..Len(s) /\ u[i] = s[i]
               \/ /\ i - Len(s) \in 1..Len(t) /\ i > Len(s)
                  /\ u[i] = t[i - Len(s)]
    <2>1. i \in 1..(Len(s) + Len(t))
      BY <1>1
    <2>2. CASE i <= Len(s)
      BY <1>1, <1>2, <2>1, <2>2
    <2>3. CASE ~(i <= Len(s))
      BY <1>1, <1>2, <2>1, <2>3
    <2>4. QED
      BY <2>2, <2>3
  <1> HIDE DEF u
  <1>3. ASSUME NEW i \in 1..Len(u), NEW j \in 1..Len(u), i < j
        PROVE  u[i] < u[j]
    <2>1. CASE j \in 1..Len(s) /\ u[j] = s[j]
      <3>1. i \in 1..Len(s) /\ u[i] = s[i]
        BY <1>c, <1>2, <1>3, <2>1
      <3>2. QED
        BY <1>3, <2>1, <3>1 DEF Ascending
    <2>2. CASE i - Len(s) \in 1..Len(t) /\ i > Len(s) /\ u[i] = t[i - Len(s)]
      <3>1. j - Len(s) \in 1..Len(t) /\ u[j] = t[j - Len(s)]
        BY <1>c, <1>2, <1>3, <2>2
      <3>2. i - Len(s) < j - Len(s)
        BY <1>2, <1>3
      <3>3. QED
        BY <2>2, <3>1, <3>2 DEF Ascending
    <2>3. CASE /\ i \in 1..Len(s) /\ u[i] = s[i]
               /\ j - Len(s) \in 1..Len(t) /\ u[j] = t[j - Len(s)]
      BY <2>3 DEF Elements
    <2>4. QED
      BY <1>c, <2>1, <2>2, <2>3
  <1>4. Elements(u) = Elements(s) \cup Elements(t)
    <2>1. Elements(s) \subseteq Elements(u)
      BY <1>l DEF Elements
    <2>2. Elements(t) \subseteq Elements(u)
      BY <1>r DEF Elements
    <2>3. Elements(u) \subseteq Elements(s) \cup Elements(t)
      BY <1>c DEF Elements
    <2>4. QED
      BY <2>1, <2>2, <2>3
  <1>5. QED
    BY <1>1, <1>3, <1>4 DEF Ascending, u

LEMMA SeqOfElements ==
    ASSUME NEW S, NEW T, NEW s \in Seq(S), Elements(s) \subseteq T
    PROVE  s \in Seq(T)
  <1>1. Len(s) \in Nat /\ s \in [1..Len(s) -> S]
    BY LenProperties
  <1>2. s \in [1..Len(s) -> T]
    BY <1>1 DEF Elements
  <1>3. QED
    BY <1>1, <1>2, SeqDef

(***************************************************************************)
(* Ranks in a finite set of numbers: the elements of a set at are numbered *)
(* from 1 in their order, and each rank is taken.                          *)
(***************************************************************************)
Rank(at, i) == Cardinality({j \in at : j <= i})

LEMMA RankProps ==
    ASSUME NEW at \in SUBSET Nat, IsFiniteSet(at)
    PROVE  /\ Cardinality(at) \in Nat
           /\ \A i \in at : Rank(at, i) \in 1..Cardinality(at)
           /\ \A i, j \in at : i < j => Rank(at, i) < Rank(at, j)
           /\ \A k \in 1..Cardinality(at) : \E i \in at : Rank(at, i) = k
  <1> DEFINE Upto(i) == {j \in at : j <= i}
  <1>1. \A i \in at : /\ IsFiniteSet(Upto(i)) /\ Cardinality(Upto(i)) \in Nat
                      /\ Cardinality(Upto(i)) <= Cardinality(at)
    <2> SUFFICES ASSUME NEW i \in at
                 PROVE  /\ IsFiniteSet(Upto(i)) /\ Cardinality(Upto(i)) \in Nat
                        /\ Cardinality(Upto(i)) <= Cardinality(at)
      OBVIOUS
    <2>1. Upto(i) \in SUBSET at
      OBVIOUS
    <2> HIDE DEF Upto
    <2>2. QED
      BY <2>1, FS_Subset, FS_CardinalityType
  <1>2. Cardinality(at) \in Nat
    BY FS_CardinalityType
  <1>3. \A i \in at : Rank(at, i) \in 1..Cardinality(at)
    <2> SUFFICES ASSUME NEW i \in at PROVE Rank(at, i) \in 1..Cardinality(at)
      OBVIOUS
    <2>1. i \in Upto(i)
      OBVIOUS
    <2>2. Cardinality(Upto(i)) # 0
      BY <1>1, <2>1, FS_EmptySet
    <2>3. Rank(at, i) = Cardinality(Upto(i))
      BY DEF Rank
    <2> HIDE DEF Upto
    <2>4. QED
      BY <1>1, <1>2, <2>2, <2>3
  <1>4. \A i, j \in at : i < j => Rank(at, i) < Rank(at, j)
    <2> SUFFICES ASSUME NEW i \in at, NEW j \in at, i < j
                 PROVE  Rank(at, i) < Rank(at, j)
      OBVIOUS
    <2>1. Upto(i) \in SUBSET Upto(j) /\ j \in Upto(j) /\ j \notin Upto(i)
      <3>1. i \in Nat /\ j \in Nat /\ j <= j /\ ~(j <= i)
        OBVIOUS
      <3>2. ASSUME NEW m \in at, m <= i PROVE m <= j
        BY <3>1, <3>2
      <3>3. QED
        BY <3>1, <3>2
    <2>2. Rank(at, i) = Cardinality(Upto(i)) /\ Rank(at, j) = Cardinality(Upto(j))
      BY DEF Rank
    <2>3. /\ IsFiniteSet(Upto(j)) /\ Cardinality(Upto(i)) \in Nat
          /\ Cardinality(Upto(j)) \in Nat
      BY <1>1
    <2> HIDE DEF Upto
    <2>4. /\ Cardinality(Upto(i)) <= Cardinality(Upto(j))
          /\ Cardinality(Upto(j)) # Cardinality(Upto(i))
      BY <2>1, <2>3, FS_Subset
    <2>5. QED
      BY <2>2, <2>3, <2>4
  <1>5. \A k \in 1..Cardinality(at) : \E i \in at : Rank(at, i) = k
    <2> DEFINE f == [i \in at |-> Rank(at, i)]
               K == 1..Cardinality(at)
    <2>1. f \in [at -> K]
      BY <1>3
    <2>2. ASSUME NEW i \in at, NEW j \in at, f[i] = f[j]
          PROVE  i = j
      <3>1. Rank(at, i) = Rank(at, j) /\ Rank(at, i) \in Nat
        BY <1>2, <1>3, <2>2
      <3>2. ~(i < j) /\ ~(j < i)
        BY <1>4, <3>1
      <3>3. QED
        BY <3>2
    <2>3. f \in Injection(at, K)
      <3> HIDE DEF f, K
      <3> QED BY <2>1, <2>2, Fun_IsInj
    <2>4. IsFiniteSet(K) /\ Cardinality(K) = Cardinality(at)
      <3>1. 1 \in Int /\ Cardinality(at) \in Int
        BY <1>2
      <3>2. /\ IsFiniteSet(1..Cardinality(at))
            /\ Cardinality(1..Cardinality(at))
                 = IF 1 > Cardinality(at) THEN 0 ELSE Cardinality(at) - 1 + 1
        BY <3>1, FS_Interval
      <3>3. QED
        BY <1>2, <3>2
    <2>5. f \in Surjection(at, K)
      <3> HIDE DEF f, K
      <3> QED BY <2>3, <2>4, FS_Injection
    <2>6. \A k \in K : \E i \in at : f[i] = k
      <3> HIDE DEF f, K
      <3> QED BY <2>5, Fun_SurjectionProperties
    <2>7. QED
      BY <2>6
  <1>6. QED
    BY <1>2, <1>3, <1>4, <1>5

\* What is selected from an ascending sequence ascends too, and is exactly
\* what is wanted of it.
LEMMA SelectedProps ==
    ASSUME NEW s \in Seq(Nat), Ascending(s), NEW wanted
    PROVE  LET r == Selected(s, wanted)
           IN  /\ r \in Seq(Nat) /\ Ascending(r)
               /\ Elements(r) = Elements(s) \cap wanted
  <1> DEFINE at == {i \in 1..Len(s) : s[i] \in wanted}
             g(k) == CHOOSE i \in at : Rank(at, i) = k
             r == Selected(s, wanted)
  <1>1. Len(s) \in Nat /\ s \in [1..Len(s) -> Nat]
    BY LenProperties
  <1>2. at \in SUBSET Nat /\ IsFiniteSet(at)
    <2>1. 1 \in Int /\ Len(s) \in Int
      BY <1>1
    <2>2. IsFiniteSet(1..Len(s)) /\ at \in SUBSET (1..Len(s))
      BY <2>1, FS_Interval
    <2>3. IsFiniteSet(at)
      BY <2>2, FS_Subset
    <2>4. QED
      BY <1>1, <2>3
  <1>3. r = [k \in 1..Cardinality(at) |-> s[g(k)]]
    BY DEF Selected, Rank
  <1>4. \A i \in at : i \in 1..Len(s) /\ s[i] \in wanted
    OBVIOUS
  <1>5. \A i \in 1..Len(s) : s[i] \in wanted => i \in at
    OBVIOUS
  <1> HIDE DEF at, r
  <1>6. /\ Cardinality(at) \in Nat
        /\ \A i \in at : Rank(at, i) \in 1..Cardinality(at)
        /\ \A i, j \in at : i < j => Rank(at, i) < Rank(at, j)
        /\ \A k \in 1..Cardinality(at) : \E i \in at : Rank(at, i) = k
    BY <1>2, RankProps
  <1>7. ASSUME NEW k \in 1..Cardinality(at)
        PROVE  g(k) \in at /\ Rank(at, g(k)) = k
    BY <1>6
  <1>8. ASSUME NEW k \in 1..Cardinality(at)
        PROVE  r[k] = s[g(k)] /\ g(k) \in 1..Len(s)
    BY <1>3, <1>4, <1>7
  <1> HIDE DEF g
  <1>9. r \in Seq(Nat) /\ Len(r) = Cardinality(at)
    <2>1. r \in [1..Cardinality(at) -> Nat]
      <3>1. DOMAIN r = 1..Cardinality(at) /\ r = [k \in DOMAIN r |-> r[k]]
        BY <1>3
      <3>2. \A k \in 1..Cardinality(at) : r[k] \in Nat
        BY <1>1, <1>8
      <3>3. QED
        BY <3>1, <3>2
    <2>2. r \in Seq(Nat)
      BY <1>6, <2>1, SeqDef
    <2>3. QED
      BY <1>6, <2>1, <2>2, LenProperties
  <1>10. Ascending(r)
    <2>1. ASSUME NEW k \in 1..Len(r), NEW l \in 1..Len(r), k < l
          PROVE  r[k] < r[l]
      <3>1. /\ g(k) \in at /\ g(l) \in at
            /\ Rank(at, g(k)) = k /\ Rank(at, g(l)) = l
            /\ r[k] = s[g(k)] /\ r[l] = s[g(l)]
            /\ g(k) \in 1..Len(s) /\ g(l) \in 1..Len(s)
        BY <1>7, <1>8, <1>9
      <3>2. ~(g(l) < g(k)) /\ g(k) # g(l)
        <4>1. k \in Nat /\ l \in Nat
          BY <1>6, <1>9
        <4>2. ~(l < k) /\ k # l
          BY <2>1, <4>1
        <4>3. QED
          BY <1>6, <3>1, <4>2
      <3>3. g(k) < g(l)
        BY <1>1, <3>1, <3>2
      <3>4. QED
        BY <3>1, <3>3 DEF Ascending
    <2>2. QED
      BY <2>1 DEF Ascending
  <1>11. Elements(r) \subseteq Elements(s) \cap wanted
    BY <1>4, <1>7, <1>8, <1>9 DEF Elements
  <1>12. ASSUME NEW i \in 1..Len(s), s[i] \in wanted
         PROVE  s[i] \in Elements(r)
    <2>1. i \in at
      BY <1>5, <1>12
    <2> DEFINE k == Rank(at, i)
    <2>2. k \in 1..Cardinality(at)
      BY <1>6, <2>1
    <2> HIDE DEF k
    <2>3. g(k) \in at /\ Rank(at, g(k)) = k /\ r[k] = s[g(k)]
      BY <1>7, <1>8, <2>2
    <2>4. g(k) = i
      <3>1. i \in Nat /\ g(k) \in Nat /\ k \in Nat
        <4>1. i \in Nat /\ g(k) \in Nat
          BY <1>2, <2>1, <2>3
        <4>2. k \in Nat
          BY <1>6, <2>2
        <4>3. QED
          BY <4>1, <4>2
      <3>2. ~(k < k)
        BY <3>1
      <3>3. ~(g(k) < i) /\ ~(i < g(k))
        BY <1>6, <2>1, <2>3, <3>2 DEF k
      <3>4. QED
        BY <3>1, <3>3
    <2>5. QED
      BY <1>9, <2>2, <2>3, <2>4 DEF Elements
  <1>13. Elements(s) \cap wanted \subseteq Elements(r)
    BY <1>12 DEF Elements
  <1>14. QED
    BY <1>9, <1>10, <1>11, <1>13 DEF r

-----------------------------------------------------------------------------
(***************************************************************************)
(* What a push, the choice of a reply, and a list that shows it keep.      *)
(***************************************************************************)
LEMMA NewerGrows ==
    ASSUME NEW S, NEW T, S \subseteq T, IsFiniteSet(T), NEW n
    PROVE  /\ Newer(n, S) \in Nat /\ Newer(n, T) \in Nat
           /\ Newer(n, S) <= Newer(n, T)
  <1> DEFINE A == {m \in S : m > n}
             B == {m \in T : m > n}
  <1>1. A \in SUBSET B /\ B \in SUBSET T
    OBVIOUS
  <1>2. Newer(n, S) = Cardinality(A) /\ Newer(n, T) = Cardinality(B)
    BY DEF Newer
  <1> HIDE DEF A, B
  <1>3. IsFiniteSet(B)
    BY <1>1, FS_Subset
  <1>4. IsFiniteSet(A) /\ Cardinality(A) <= Cardinality(B)
    BY <1>1, <1>3, FS_Subset
  <1>5. QED
    BY <1>2, <1>3, <1>4, FS_CardinalityType

LEMMA PushSane ==
    ASSUME NEW queue \in Seq(Nat), NEW all \in SUBSET Nat, IsFiniteSet(all),
           DequeSane(queue, all), NEW n \in Nat, \A m \in all : m < n
    PROVE  /\ Push(queue, n) \in Seq(Nat)
           /\ Len(Push(queue, n)) <= Retention
           /\ DequeSane(Push(queue, n), all \cup {n})
  <1> DEFINE one == <<n>>
             u == Append(queue, n)
             r == Newest(Retention, u)
             more == all \cup {n}
  <1>1. one \in Seq(Nat) /\ Ascending(one) /\ Elements(one) = {n}
    <2>1. one \in Seq(Nat) /\ Len(one) = 1 /\ one[1] = n
      OBVIOUS
    <2> HIDE DEF one
    <2>2. \A i \in 1..Len(one) : i = 1
      BY <2>1
    <2>3. Ascending(one)
      BY <2>2 DEF Ascending
    <2>4. Elements(one) = {n}
      BY <2>1, <2>2 DEF Elements
    <2>5. QED
      BY <2>1, <2>3, <2>4
  <1>2. u = queue \o one
    BY AppendIsConcat
  <1>3. Elements(queue) \subseteq all /\ Ascending(queue)
    BY DEF DequeSane
  <1> HIDE DEF one, u
  <1>4. u \in Seq(Nat) /\ Ascending(u) /\ Elements(u) = Elements(queue) \cup {n}
    <2>1. \A m \in Elements(queue), k \in Elements(one) : m < k
      BY <1>1, <1>3
    <2>2. /\ queue \o one \in Seq(Nat) /\ Ascending(queue \o one)
          /\ Elements(queue \o one) = Elements(queue) \cup Elements(one)
      BY <1>1, <1>3, <2>1, AscendingConcat
    <2>3. QED
      BY <1>1, <1>2, <2>2
  <1>5. IsFiniteSet(more)
    BY FS_AddElement
  <1>6. Elements(u) \subseteq more
    BY <1>3, <1>4
  <1>7. Retention \in Nat \ {0}
    BY SizeAssumption
  <1>8. /\ r \in Seq(Nat) /\ Len(r) <= Retention /\ Ascending(r)
        /\ Elements(r) \subseteq Elements(u)
        /\ \A x \in Elements(u) \ Elements(r) : Newer(x, more) >= Retention
    BY <1>4, <1>5, <1>6, <1>7, NewestDrops
  <1>9. ASSUME NEW x \in more \ Elements(r)
        PROVE  Newer(x, more) >= Retention
    <2>1. CASE x \in Elements(u)
      BY <1>8, <1>9, <2>1
    <2>2. CASE x \notin Elements(u)
      <3>1. x \in all \ Elements(queue)
        BY <1>4, <1>9, <2>2
      <3>2. Newer(x, all) >= Retention
        BY <3>1 DEF DequeSane
      <3>3. /\ Newer(x, all) \in Nat /\ Newer(x, more) \in Nat
            /\ Newer(x, all) <= Newer(x, more)
        BY <1>5, NewerGrows
      <3>4. QED
        BY <1>7, <3>2, <3>3
    <2>3. QED
      BY <2>1, <2>2
  <1>10. Push(queue, n) = r
    BY DEF Push, u
  <1> HIDE DEF r
  <1>11. DequeSane(r, more)
    BY <1>6, <1>8, <1>9 DEF DequeSane
  <1>12. QED
    BY <1>8, <1>10, <1>11

LEMMA ReplyPart ==
    ASSUME NEW queue \in Seq(Nat), Ascending(queue), NEW wanted
    PROVE  LET r == Newest(Window, Selected(queue, wanted))
           IN  /\ r \in Seq(Nat) /\ Ascending(r)
               /\ Elements(r) \subseteq Elements(queue) \cap wanted
               /\ \A mine : IsFiniteSet(mine)
                              /\ Elements(queue) \cap wanted \subseteq mine =>
                     \A n \in (Elements(queue) \cap wanted) \ Elements(r) :
                        Newer(n, mine) >= Window
  <1> DEFINE s == Selected(queue, wanted)
  <1>1. /\ s \in Seq(Nat) /\ Ascending(s)
        /\ Elements(s) = Elements(queue) \cap wanted
    BY SelectedProps
  <1>2. Window \in Nat \ {0}
    BY SizeAssumption
  <1> HIDE DEF s
  <1>3. QED
    BY <1>1, <1>2, NewestDrops DEF s

\* The numbers of a list, as a sequence.
Numbering(items) == [i \in 1..Len(items) |-> items[i].number]

LEMMA NumbersAreNat == Numbers \subseteq Nat
  BY SizeAssumption DEF Numbers

LEMMA NumberingProps ==
    ASSUME NEW items \in Seq(Item)
    PROVE  LET s == Numbering(items)
           IN  /\ s \in Seq(Nat) /\ Len(s) = Len(items)
               /\ \A i \in 1..Len(items) : s[i] = items[i].number
               /\ Elements(s) = NumbersOf(items)
               /\ Ascending(s) <=> Increasing(items)
  <1> DEFINE s == Numbering(items)
  <1>1. Len(items) \in Nat /\ \A i \in 1..Len(items) : items[i] \in Item
    BY LenProperties, ElementOfSeq
  <1>2. \A i \in 1..Len(items) : items[i].number \in Nat
    BY <1>1, NumbersAreNat DEF Item
  <1>3. /\ s \in [1..Len(items) -> Nat]
        /\ \A i \in 1..Len(items) : s[i] = items[i].number
    BY <1>2 DEF Numbering
  <1> HIDE DEF s
  <1>4. s \in Seq(Nat)
    BY <1>1, <1>3, SeqDef
  <1>5. Len(s) = Len(items)
    BY <1>1, <1>3, <1>4, LenProperties
  <1>6. Elements(s) = NumbersOf(items)
    BY <1>3, <1>5 DEF Elements, NumbersOf
  <1>7. Ascending(s) <=> Increasing(items)
    BY <1>3, <1>5 DEF Ascending, Increasing
  <1>8. QED
    BY <1>3, <1>4, <1>5, <1>6, <1>7 DEF s

LEMMA NumberingNewest ==
    ASSUME NEW items \in Seq(Item), NEW size \in Nat \ {0}
    PROVE  /\ Newest(size, items) \in Seq(Item)
           /\ Numbering(Newest(size, items)) = Newest(size, Numbering(items))
  <1> DEFINE r == Newest(size, items)
             s == Numbering(items)
             a == Numbering(r)
             b == Newest(size, s)
             d == Len(items) - Len(r)
  <1>1. /\ s \in Seq(Nat) /\ Len(s) = Len(items)
        /\ \A i \in 1..Len(items) : s[i] = items[i].number
    BY NumberingProps
  <1>2. /\ r \in Seq(Item) /\ d \in Nat
        /\ \A i \in 1..Len(r) : r[i] = items[i + d]
        /\ Len(r) = IF Len(items) <= size THEN Len(items) ELSE size
    BY NewestProps
  <1> HIDE DEF s, r
  <1>3. /\ b \in Seq(Nat)
        /\ \A i \in 1..Len(b) : b[i] = s[i + (Len(s) - Len(b))]
        /\ Len(b) = IF Len(s) <= size THEN Len(s) ELSE size
    BY <1>1, NewestProps
  <1>4. /\ a \in Seq(Nat) /\ Len(a) = Len(r)
        /\ \A i \in 1..Len(r) : a[i] = r[i].number
    BY <1>2, NumberingProps
  <1>5. Len(b) = Len(r) /\ Len(s) - Len(b) = d
    BY <1>1, <1>2, <1>3
  <1> HIDE DEF a, b
  <1>6. ASSUME NEW i \in 1..Len(a)
        PROVE  a[i] = b[i]
    <2>1. i \in 1..Len(r) /\ i \in 1..Len(b)
      BY <1>4, <1>5
    <2>2. i + d \in 1..Len(items)
      <3>1. Len(items) \in Nat /\ Len(r) \in Nat
        BY <1>2, LenProperties
      <3>2. QED
        BY <1>2, <2>1, <3>1
    <2>3. a[i] = items[i + d].number /\ b[i] = s[i + d]
      BY <1>2, <1>3, <1>4, <1>5, <2>1
    <2>4. QED
      BY <1>1, <2>2, <2>3
  <1>7. a = b
    BY <1>3, <1>4, <1>5, <1>6, SeqEqual
  <1>8. QED
    BY <1>2, <1>7 DEF a, b, r, s

LEMMA NumberingConcat ==
    ASSUME NEW items \in Seq(Item), NEW new \in Seq(Item)
    PROVE  /\ items \o new \in Seq(Item)
           /\ Numbering(items \o new) = Numbering(items) \o Numbering(new)
  <1> DEFINE u == items \o new
             v == Numbering(items) \o Numbering(new)
             w == Numbering(u)
  <1>1. /\ u \in Seq(Item) /\ Len(u) = Len(items) + Len(new)
        /\ \A i \in 1..(Len(items) + Len(new)) :
              u[i] = IF i <= Len(items) THEN items[i] ELSE new[i - Len(items)]
    BY ConcatProperties
  <1>2. Len(items) \in Nat /\ Len(new) \in Nat
    BY LenProperties
  <1>3. /\ Numbering(items) \in Seq(Nat) /\ Len(Numbering(items)) = Len(items)
        /\ \A i \in 1..Len(items) : Numbering(items)[i] = items[i].number
        /\ Numbering(new) \in Seq(Nat) /\ Len(Numbering(new)) = Len(new)
        /\ \A i \in 1..Len(new) : Numbering(new)[i] = new[i].number
    BY NumberingProps
  <1>4. /\ v \in Seq(Nat) /\ Len(v) = Len(items) + Len(new)
        /\ \A i \in 1..(Len(items) + Len(new)) :
              v[i] = IF i <= Len(items) THEN Numbering(items)[i]
                     ELSE Numbering(new)[i - Len(items)]
    BY <1>3, ConcatProperties
  <1> HIDE DEF u, v
  <1>5. /\ w \in Seq(Nat) /\ Len(w) = Len(u)
        /\ \A i \in 1..Len(u) : w[i] = u[i].number
    BY <1>1, NumberingProps
  <1> HIDE DEF w
  <1>6. ASSUME NEW i \in 1..Len(w)
        PROVE  w[i] = v[i]
    <2>1. i \in 1..(Len(items) + Len(new)) /\ w[i] = u[i].number
      BY <1>1, <1>5
    <2>2. CASE i <= Len(items)
      <3>1. i \in 1..Len(items)
        BY <1>2, <2>1, <2>2
      <3>2. u[i] = items[i] /\ v[i] = Numbering(items)[i]
        BY <1>1, <1>4, <2>1, <2>2
      <3>3. QED
        BY <1>3, <2>1, <3>1, <3>2
    <2>3. CASE ~(i <= Len(items))
      <3>1. i - Len(items) \in 1..Len(new)
        BY <1>2, <2>1, <2>3
      <3>2. /\ u[i] = new[i - Len(items)]
            /\ v[i] = Numbering(new)[i - Len(items)]
        BY <1>1, <1>4, <2>1, <2>3
      <3>3. QED
        BY <1>3, <2>1, <3>1, <3>2
    <2>4. QED
      BY <2>2, <2>3
  <1>7. w = v
    BY <1>1, <1>4, <1>5, <1>6, SeqEqual
  <1>8. QED
    BY <1>1, <1>7 DEF u, v, w

\* The items a reply adds to a list have its numbers and its instance.
Added(of, numbers) ==
    [i \in 1..Len(numbers) |-> [of |-> of, number |-> numbers[i]]]

LEMMA AddedProps ==
    ASSUME NEW of \in 0..MaxRestarts, NEW numbers \in Seq(Numbers)
    PROVE  /\ Added(of, numbers) \in Seq(Item)
           /\ Numbering(Added(of, numbers)) = numbers
           /\ \A i \in 1..Len(Added(of, numbers)) : Added(of, numbers)[i].of = of
  <1> DEFINE new == Added(of, numbers)
  <1>1. Len(numbers) \in Nat /\ \A i \in 1..Len(numbers) : numbers[i] \in Numbers
    BY LenProperties, ElementOfSeq
  <1>2. /\ new \in [1..Len(numbers) -> Item]
        /\ \A i \in 1..Len(numbers) :
              new[i].of = of /\ new[i].number = numbers[i]
    BY <1>1 DEF Added, Item
  <1> HIDE DEF new
  <1>3. new \in Seq(Item) /\ Len(new) = Len(numbers)
    <2>1. new \in Seq(Item)
      BY <1>1, <1>2, SeqDef
    <2>2. QED
      BY <1>1, <1>2, <2>1, LenProperties
  <1>4. /\ Numbering(new) \in Seq(Nat) /\ Len(Numbering(new)) = Len(new)
        /\ \A i \in 1..Len(new) : Numbering(new)[i] = new[i].number
    BY <1>3, NumberingProps
  <1>5. numbers \in Seq(Nat)
    BY NumbersAreNat, SeqMonotonic
  <1>6. Numbering(new) = numbers
    <2>1. \A i \in 1..Len(Numbering(new)) : Numbering(new)[i] = numbers[i]
      BY <1>2, <1>3, <1>4
    <2> DEFINE s == Numbering(new)
    <2>2. s \in Seq(Nat) /\ Len(s) = Len(numbers)
      BY <1>3, <1>4
    <2> HIDE DEF s
    <2>3. s = numbers
      BY <1>5, <2>1, <2>2, SeqEqual DEF s
    <2>4. QED
      BY <2>3 DEF s
  <1>7. QED
    BY <1>2, <1>3, <1>6 DEF new

\* Newer messages shown in a list, which keeps the newest of all.
LEMMA ShownProps ==
    ASSUME NEW items \in Seq(Item), Increasing(items),
           NEW of \in 0..MaxRestarts,
           \A i \in 1..Len(items) : items[i].of = of,
           NEW numbers \in Seq(Numbers), Ascending(numbers),
           \A m \in NumbersOf(items), n \in Elements(numbers) : m < n
    PROVE  LET r == Shown(items, of, numbers)
               both == NumbersOf(items) \cup Elements(numbers)
           IN  /\ r \in Seq(Item) /\ Increasing(r)
               /\ \A i \in 1..Len(r) : r[i].of = of
               /\ NumbersOf(r) \subseteq both
               /\ \A all : IsFiniteSet(all) /\ both \subseteq all =>
                     \A n \in both \ NumbersOf(r) : Newer(n, all) >= ListSize
  <1> DEFINE new == Added(of, numbers)
             u == items \o new
             r == Newest(ListSize, u)
             both == NumbersOf(items) \cup Elements(numbers)
             s == Numbering(items) \o numbers
             t == Newest(ListSize, s)
  <1>1. ListSize \in Nat \ {0} /\ numbers \in Seq(Nat)
    BY SizeAssumption, NumbersAreNat, SeqMonotonic
  <1>2. /\ new \in Seq(Item) /\ Numbering(new) = numbers
        /\ \A i \in 1..Len(new) : new[i].of = of
    BY AddedProps
  <1>3. /\ Numbering(items) \in Seq(Nat) /\ Ascending(Numbering(items))
        /\ Elements(Numbering(items)) = NumbersOf(items)
    BY NumberingProps
  <1> HIDE DEF new
  <1>4. u \in Seq(Item) /\ Numbering(u) = s
    BY <1>2, NumberingConcat
  <1>5. s \in Seq(Nat) /\ Ascending(s) /\ Elements(s) = both
    BY <1>1, <1>3, AscendingConcat
  <1>6. \A i \in 1..Len(u) : u[i].of = of
    <2>1. /\ Len(u) = Len(items) + Len(new)
          /\ \A i \in 1..(Len(items) + Len(new)) :
                u[i] = IF i <= Len(items) THEN items[i] ELSE new[i - Len(items)]
      BY <1>2, ConcatProperties
    <2>2. Len(items) \in Nat /\ Len(new) \in Nat
      BY <1>2, LenProperties
    <2> HIDE DEF u
    <2>3. SUFFICES ASSUME NEW i \in 1..(Len(items) + Len(new))
                   PROVE  u[i].of = of
      BY <2>1
    <2>4. CASE i <= Len(items)
      <3>1. i \in 1..Len(items) /\ u[i] = items[i]
        BY <2>1, <2>2, <2>4
      <3>2. QED
        BY <3>1
    <2>5. CASE ~(i <= Len(items))
      <3>1. i - Len(items) \in 1..Len(new)
        BY <2>2, <2>5
      <3>2. u[i] = new[i - Len(items)]
        BY <2>1, <2>5
      <3>3. QED
        BY <1>2, <3>1, <3>2
    <2>6. QED
      BY <2>4, <2>5
  <1> HIDE DEF u, s
  <1>7. r \in Seq(Item) /\ Numbering(r) = t
    BY <1>1, <1>4, NumberingNewest
  <1>8. \A i \in 1..Len(r) : r[i].of = of
    <2> DEFINE d == Len(u) - Len(r)
    <2>1. d \in Nat /\ \A i \in 1..Len(r) : r[i] = u[i + d]
      BY <1>1, <1>4, NewestProps
    <2>2. Len(u) \in Nat /\ Len(r) \in Nat
      BY <1>4, <1>7, LenProperties
    <2> HIDE DEF r
    <2>3. \A i \in 1..Len(r) : i + d \in 1..Len(u)
      BY <2>1, <2>2
    <2>4. QED
      BY <1>6, <2>1, <2>3
  <1>9. /\ t \in Seq(Nat) /\ Ascending(t) /\ Elements(t) \subseteq both
        /\ \A all : IsFiniteSet(all) /\ both \subseteq all =>
              \A n \in both \ Elements(t) : Newer(n, all) >= ListSize
    BY <1>1, <1>5, NewestDrops
  <1> HIDE DEF r, t
  <1>10. /\ Elements(Numbering(r)) = NumbersOf(r)
         /\ Ascending(Numbering(r)) <=> Increasing(r)
    BY <1>7, NumberingProps
  <1>11. Shown(items, of, numbers) = r
    BY DEF Shown, Added, r, u, new
  <1>12. QED
    BY <1>7, <1>8, <1>9, <1>10, <1>11

-----------------------------------------------------------------------------
(***************************************************************************)
(* OrderInv is inductive: the server's side.                               *)
(***************************************************************************)
LEMMA FiniteUpTo ==
    ASSUME NEW c \in Nat
    PROVE  IsFiniteSet(1..c)
  <1>1. 1 \in Int /\ c \in Int
    OBVIOUS
  <1>2. QED
    BY <1>1, FS_Interval

LEMMA UpToFacts ==
    ASSUME NEW c \in Nat, NEW p, NEW l
    PROVE  /\ IsFiniteSet(ChatUpTo(c)) /\ ChatUpTo(c) \subseteq 1..c
           /\ IsFiniteSet(RoomUpTo(c)) /\ RoomUpTo(c) \subseteq 1..c
           /\ IsFiniteSet(MineUpTo(p, c)) /\ MineUpTo(p, c) \subseteq ChatUpTo(c)
           /\ IsFiniteSet(LobbyUpTo(l, c)) /\ LobbyUpTo(l, c) \subseteq RoomUpTo(c)
  <1>1. IsFiniteSet(1..c)
    BY FiniteUpTo
  <1>2. /\ ChatUpTo(c) \in SUBSET (1..c) /\ RoomUpTo(c) \in SUBSET (1..c)
        /\ MineUpTo(p, c) \in SUBSET ChatUpTo(c)
        /\ LobbyUpTo(l, c) \in SUBSET RoomUpTo(c)
    BY DEF ChatUpTo, RoomUpTo, MineUpTo, LobbyUpTo
  <1>3. IsFiniteSet(ChatUpTo(c)) /\ IsFiniteSet(RoomUpTo(c))
    BY <1>1, <1>2, FS_Subset
  <1>4. IsFiniteSet(MineUpTo(p, c)) /\ IsFiniteSet(LobbyUpTo(l, c))
    BY <1>2, <1>3, FS_Subset
  <1>5. QED
    BY <1>2, <1>3, <1>4

\* Numbering a message changes nothing about the messages before it.
LEMMA NumberFacts ==
    ASSUME sent \in Seq(Message),
           NEW sender \in Players \cup {None}, NEW target \in Targets \cup Lobbies,
           Number(sender, target)
    PROVE  /\ sent' \in Seq(Message) /\ Len(sent) \in Nat
           /\ Len(sent') = Len(sent) + 1 /\ Len(sent') <= MaxSent
           /\ \A n \in 1..Len(sent) : sent'[n] = sent[n]
           /\ sent'[Len(sent) + 1] = [sender |-> sender, target |-> target]
  <1> DEFINE m == [sender |-> sender, target |-> target]
  <1>1. m \in Message
    BY DEF Message
  <1>2. sent' = Append(sent, m) /\ Len(sent) < MaxSent
    BY DEF Number
  <1>3. Len(sent) \in Nat
    BY LenProperties
  <1> HIDE DEF m
  <1>4. /\ Append(sent, m) \in Seq(Message)
        /\ Len(Append(sent, m)) = Len(sent) + 1
        /\ \A n \in 1..Len(sent) : Append(sent, m)[n] = sent[n]
        /\ Append(sent, m)[Len(sent) + 1] = m
    BY <1>1, AppendProperties
  <1>5. MaxSent \in Nat
    BY SizeAssumption
  <1>6. QED
    BY <1>2, <1>3, <1>4, <1>5 DEF m

LEMMA NumberKeeps ==
    ASSUME sent \in Seq(Message),
           NEW sender \in Players \cup {None}, NEW target \in Targets \cup Lobbies,
           Number(sender, target), NEW c \in 0..Len(sent), NEW p, NEW l
    PROVE  /\ ChatUpTo(c)' = ChatUpTo(c) /\ MineUpTo(p, c)' = MineUpTo(p, c)
           /\ RoomUpTo(c)' = RoomUpTo(c) /\ LobbyUpTo(l, c)' = LobbyUpTo(l, c)
  <1>1. Len(sent) \in Nat /\ \A n \in 1..Len(sent) : sent'[n] = sent[n]
    BY NumberFacts
  <1>2. \A n \in 1..c : sent'[n] = sent[n]
    BY <1>1
  <1>3. ChatUpTo(c)' = ChatUpTo(c) /\ RoomUpTo(c)' = RoomUpTo(c)
    BY <1>2 DEF ChatUpTo, RoomUpTo, IsChat
  <1>4. \A n \in ChatUpTo(c) \cup RoomUpTo(c) : n \in 1..c
    BY DEF ChatUpTo, RoomUpTo
  <1>5. MineUpTo(p, c)' = MineUpTo(p, c)
    BY <1>2, <1>3, <1>4 DEF MineUpTo, Visible
  <1>6. LobbyUpTo(l, c)' = LobbyUpTo(l, c)
    BY <1>2, <1>3, <1>4 DEF LobbyUpTo
  <1>7. QED
    BY <1>3, <1>5, <1>6

LEMMA NumberAdds ==
    ASSUME sent \in Seq(Message),
           NEW sender \in Players \cup {None}, NEW target \in Targets \cup Lobbies,
           Number(sender, target)
    PROVE  /\ target \in Targets =>
                 /\ ChatUpTo(Len(sent))' = ChatUpTo(Len(sent)) \cup {Len(sent')}
                 /\ RoomUpTo(Len(sent))' = RoomUpTo(Len(sent))
           /\ target \in Lobbies =>
                 /\ ChatUpTo(Len(sent))' = ChatUpTo(Len(sent))
                 /\ RoomUpTo(Len(sent))' = RoomUpTo(Len(sent)) \cup {Len(sent')}
  <1> DEFINE c == Len(sent)
  <1>1. /\ c \in Nat /\ Len(sent') = c + 1
        /\ \A n \in 1..c : sent'[n] = sent[n]
        /\ sent'[c + 1].target = target
    <2>1. /\ c \in Nat /\ Len(sent') = c + 1
          /\ \A n \in 1..c : sent'[n] = sent[n]
          /\ sent'[c + 1] = [sender |-> sender, target |-> target]
      BY NumberFacts
    <2>2. QED
      BY <2>1
  <1>2. 1..(c + 1) = (1..c) \cup {c + 1}
    BY <1>1
  <1>3. \A n \in 1..c : IsChat(n)' <=> IsChat(n)
    BY <1>1 DEF IsChat
  <1>4. (sent'[c + 1].target \in Targets) <=> target \in Targets
    BY <1>1
  <1>5. target \in Lobbies => target \notin Targets
    BY LobbyAssumption DEF Targets, Everyone
  <1>6. /\ ChatUpTo(Len(sent))' =
              {n \in 1..(c + 1) : sent'[n].target \in Targets}
        /\ RoomUpTo(Len(sent))' =
              {n \in 1..(c + 1) : ~(sent'[n].target \in Targets)}
        /\ ChatUpTo(Len(sent)) = {n \in 1..c : sent[n].target \in Targets}
        /\ RoomUpTo(Len(sent)) = {n \in 1..c : ~(sent[n].target \in Targets)}
    BY <1>1 DEF ChatUpTo, RoomUpTo, IsChat
  <1> HIDE DEF c
  <1>7. CASE target \in Targets
    BY <1>1, <1>2, <1>4, <1>5, <1>6, <1>7
  <1>8. CASE target \in Lobbies
    BY <1>1, <1>2, <1>4, <1>5, <1>6, <1>8
  <1>9. QED
    BY <1>7, <1>8

LEMMA DequeNumbers ==
    ASSUME TypeOK
    PROVE  /\ messages \in Seq(Nat) /\ lobbyMessages \in Seq(Nat)
           /\ Len(sent) \in Nat
  BY NumbersAreNat, SeqMonotonic, LenProperties DEF TypeOK

\* Every message numbered is pushed to the deque of its kind.
LEMMA SendingOrder ==
    ASSUME TypeOK, ServerInv,
           NEW sender \in Players \cup {None}, NEW target \in Targets \cup Lobbies,
           Number(sender, target),
           \/ /\ target \in Targets /\ messages' = Push(messages, Len(sent'))
              /\ UNCHANGED lobbyMessages
           \/ /\ target \in Lobbies
              /\ lobbyMessages' = Push(lobbyMessages, Len(sent'))
              /\ UNCHANGED messages,
           joined' \in [Watchers -> 0..MaxSent],
           \A p \in Watchers : joined'[p] <= Len(sent)
    PROVE  /\ ServerInv'
           /\ sent' \in Seq(Message) /\ Len(sent') <= MaxSent
           /\ Len(sent') = Len(sent) + 1
           /\ messages' \in Seq(Numbers) /\ Len(messages') <= Retention
           /\ lobbyMessages' \in Seq(Numbers) /\ Len(lobbyMessages') <= Retention
  <1> DEFINE c == Len(sent)
             chat == ChatUpTo(c)
             room == RoomUpTo(c)
             n == Len(sent')
  <1>1. /\ sent' \in Seq(Message) /\ c \in Nat /\ n = c + 1 /\ n <= MaxSent
    BY NumberFacts DEF TypeOK
  <1>2. messages \in Seq(Nat) /\ lobbyMessages \in Seq(Nat)
    BY DequeNumbers
  <1>3. /\ IsFiniteSet(chat) /\ chat \subseteq 1..c
        /\ IsFiniteSet(room) /\ room \subseteq 1..c
    BY <1>1, UpToFacts
  <1>4. /\ DequeSane(messages, chat) /\ DequeSane(lobbyMessages, room)
        /\ messages \in Seq(Numbers) /\ Len(messages) <= Retention
        /\ lobbyMessages \in Seq(Numbers) /\ Len(lobbyMessages) <= Retention
    BY DEF ServerInv, TypeOK
  <1>5. /\ target \in Targets =>
              chat' = chat \cup {n} /\ room' = room
        /\ target \in Lobbies =>
              chat' = chat /\ room' = room \cup {n}
    BY NumberAdds DEF TypeOK
  <1>6. \A p \in Watchers : joined'[p] <= n
    BY <1>1
  <1>7. n \in Nat /\ n \in Numbers /\ chat \in SUBSET Nat /\ room \in SUBSET Nat
        /\ chat \subseteq Numbers /\ room \subseteq Numbers
    BY <1>1, <1>3, SizeAssumption DEF Numbers
  <1>8. (\A m \in chat : m < n) /\ (\A m \in room : m < n)
    BY <1>1, <1>3
  <1>9. ServerInv' <=> /\ DequeSane(messages, chat)'
                       /\ DequeSane(lobbyMessages, room)'
                       /\ \A p \in Watchers : joined'[p] <= n
    BY DEF ServerInv
  <1> HIDE DEF c, chat, room, n
  <1>10. CASE /\ target \in Targets /\ messages' = Push(messages, n)
              /\ UNCHANGED lobbyMessages
    <2> DEFINE q == Push(messages, n)
    <2>1. /\ q \in Seq(Nat) /\ Len(q) <= Retention
          /\ DequeSane(q, chat \cup {n})
      BY <1>2, <1>3, <1>4, <1>7, <1>8, PushSane
    <2>2. q \in Seq(Numbers)
      BY <1>7, <2>1, SeqOfElements DEF DequeSane
    <2>3. DequeSane(messages, chat)' /\ DequeSane(lobbyMessages, room)'
      BY <1>4, <1>5, <1>10, <2>1 DEF DequeSane
    <2>4. QED
      BY <1>1, <1>4, <1>6, <1>9, <1>10, <2>1, <2>2, <2>3 DEF c, n
  <1>11. CASE /\ target \in Lobbies /\ lobbyMessages' = Push(lobbyMessages, n)
              /\ UNCHANGED messages
    <2> DEFINE q == Push(lobbyMessages, n)
    <2>1. /\ q \in Seq(Nat) /\ Len(q) <= Retention
          /\ DequeSane(q, room \cup {n})
      BY <1>2, <1>3, <1>4, <1>7, <1>8, PushSane
    <2>2. q \in Seq(Numbers)
      BY <1>7, <2>1, SeqOfElements DEF DequeSane
    <2>3. DequeSane(messages, chat)' /\ DequeSane(lobbyMessages, room)'
      BY <1>4, <1>5, <1>11, <2>1 DEF DequeSane
    <2>4. QED
      BY <1>1, <1>4, <1>6, <1>9, <1>11, <2>1, <2>2, <2>3 DEF c, n
  <1>12. QED
    BY <1>10, <1>11 DEF n

LEMMA ServerStepOrder ==
    ASSUME OrderInv, UNCHANGED <<instance, client, reply>>,
           Len(sent') \in Nat, Len(sent') >= Len(sent)
    PROVE  \A p \in Watchers : ClientInv(p)' /\ ReplyInv(p)'
  <1> SUFFICES ASSUME NEW p \in Watchers
               PROVE  ClientInv(p)' /\ ReplyInv(p)'
    OBVIOUS
  <1>1. ClientInv(p) /\ ReplyInv(p) /\ Len(sent) \in Nat
    BY DequeNumbers DEF OrderInv
  <1>2. /\ client[p].cursor \in Nat
        /\ reply[p] # None => reply[p].sequence \in Nat
    BY DEF OrderInv, TypeOK, Client, Reply
  <1>3. ClientInv(p)'
    <2>1. client[p].instance = instance => client[p].cursor <= Len(sent')
      BY <1>1, <1>2 DEF ClientInv
    <2>2. QED
      BY <1>1, <2>1 DEF ClientInv, ListSane
  <1>4. ReplyInv(p)'
    <2>1. reply[p] # None /\ reply[p].instance = instance
            => reply[p].sequence <= Len(sent')
      BY <1>1, <1>2 DEF ReplyInv
    <2>2. QED
      BY <1>1, <2>1 DEF ReplyInv
  <1>5. QED
    BY <1>3, <1>4

LEMMA ToLobbyOrder ==
    ASSUME OrderInv, NEW sender \in Players \cup {None}, NEW l \in Lobbies,
           Number(sender, l), lobbyMessages' = Push(lobbyMessages, Len(sent')),
           playerLobby' \in [Players -> Lobbies \cup {None}],
           joined' \in [Watchers -> 0..MaxSent],
           \A p \in Watchers : joined'[p] <= Len(sent),
           UNCHANGED <<instance, opened, messages, client, reply>>
    PROVE  OrderInv'
  <1>1. TypeOK /\ ServerInv
    BY DEF OrderInv
  <1>2. /\ ServerInv'
        /\ sent' \in Seq(Message) /\ Len(sent') <= MaxSent
        /\ Len(sent') = Len(sent) + 1
        /\ messages' \in Seq(Numbers) /\ Len(messages') <= Retention
        /\ lobbyMessages' \in Seq(Numbers) /\ Len(lobbyMessages') <= Retention
    BY <1>1, SendingOrder
  <1>3. TypeOK'
    BY <1>1, <1>2 DEF TypeOK
  <1>4. Len(sent) \in Nat
    BY <1>1, DequeNumbers
  <1>5. \A p \in Watchers : ClientInv(p)' /\ ReplyInv(p)'
    BY <1>2, <1>4, ServerStepOrder
  <1>6. QED
    BY <1>2, <1>3, <1>5 DEF OrderInv

LEMMA SendMessageOrder ==
    ASSUME OrderInv, NEW p \in Players, NEW to \in Targets, SendMessage(p, to)
    PROVE  OrderInv'
  <1>1. /\ TypeOK /\ ServerInv /\ Number(p, to)
        /\ messages' = Push(messages, Len(sent'))
        /\ UNCHANGED <<instance, playerLobby, opened, lobbyMessages, joined,
                       client, reply>>
    BY DEF OrderInv, SendMessage, clientVars
  <1>2. /\ joined' \in [Watchers -> 0..MaxSent]
        /\ \A q \in Watchers : joined'[q] <= Len(sent)
    BY <1>1 DEF TypeOK, ServerInv
  <1>3. /\ ServerInv'
        /\ sent' \in Seq(Message) /\ Len(sent') <= MaxSent
        /\ Len(sent') = Len(sent) + 1
        /\ messages' \in Seq(Numbers) /\ Len(messages') <= Retention
        /\ lobbyMessages' \in Seq(Numbers) /\ Len(lobbyMessages') <= Retention
    BY <1>1, <1>2, SendingOrder
  <1>4. TypeOK'
    BY <1>1, <1>3 DEF TypeOK
  <1>5. Len(sent) \in Nat
    BY <1>1, DequeNumbers
  <1>6. \A q \in Watchers : ClientInv(q)' /\ ReplyInv(q)'
    BY <1>1, <1>3, <1>5, ServerStepOrder
  <1>7. QED
    BY <1>3, <1>4, <1>6 DEF OrderInv

LEMMA SendLobbyMessageOrder ==
    ASSUME OrderInv, NEW p \in Players, SendLobbyMessage(p)
    PROVE  OrderInv'
  <1>1. /\ TypeOK /\ ServerInv /\ Number(p, playerLobby[p])
        /\ playerLobby[p] # None
        /\ lobbyMessages' = Push(lobbyMessages, Len(sent'))
        /\ UNCHANGED <<instance, playerLobby, opened, messages, joined,
                       client, reply>>
    BY DEF OrderInv, SendLobbyMessage, clientVars
  <1>2. /\ playerLobby[p] \in Lobbies
        /\ playerLobby' \in [Players -> Lobbies \cup {None}]
        /\ joined' \in [Watchers -> 0..MaxSent]
        /\ \A q \in Watchers : joined'[q] <= Len(sent)
    BY <1>1 DEF TypeOK, ServerInv
  <1>3. QED
    BY <1>1, <1>2, ToLobbyOrder

\* A player that enters a lobby has joined at the last message.
LEMMA EnterFacts ==
    ASSUME TypeOK, ServerInv, NEW p \in Players, NEW l \in Lobbies,
           playerLobby' = [playerLobby EXCEPT ![p] = l],
           joined' = [q \in Watchers |-> IF q = p THEN Len(sent) ELSE joined[q]]
    PROVE  /\ playerLobby' \in [Players -> Lobbies \cup {None}]
           /\ joined' \in [Watchers -> 0..MaxSent]
           /\ \A q \in Watchers : joined'[q] <= Len(sent)
  <1>1. Len(sent) \in 0..MaxSent
    BY DequeNumbers, SizeAssumption DEF TypeOK
  <1>2. Len(sent) <= Len(sent)
    BY <1>1
  <1>3. QED
    BY <1>1, <1>2 DEF TypeOK, ServerInv

LEMMA OpenOrder ==
    ASSUME OrderInv, NEW p \in Players, NEW l \in Lobbies, Open(p, l)
    PROVE  OrderInv'
  <1>1. /\ TypeOK /\ ServerInv
        /\ opened' = opened \cup {l}
        /\ playerLobby' = [playerLobby EXCEPT ![p] = l]
        /\ joined' = [q \in Watchers |-> IF q = p THEN Len(sent) ELSE joined[q]]
        /\ UNCHANGED <<instance, sent, messages, lobbyMessages, client, reply>>
    BY DEF OrderInv, Open, clientVars
  <1>2. /\ playerLobby' \in [Players -> Lobbies \cup {None}]
        /\ joined' \in [Watchers -> 0..MaxSent]
        /\ \A q \in Watchers : joined'[q] <= Len(sent)
    BY <1>1, EnterFacts
  <1>3. TypeOK'
    BY <1>1, <1>2 DEF TypeOK
  <1>4. ServerInv'
    BY <1>1, <1>2 DEF ServerInv, DequeSane, ChatUpTo, RoomUpTo, IsChat
  <1>5. Len(sent') \in Nat /\ Len(sent') >= Len(sent)
    BY <1>1, DequeNumbers
  <1>6. \A q \in Watchers : ClientInv(q)' /\ ReplyInv(q)'
    BY <1>1, <1>5, ServerStepOrder
  <1>7. QED
    BY <1>3, <1>4, <1>6 DEF OrderInv

LEMMA JoinOrder ==
    ASSUME OrderInv, NEW p \in Players, NEW l \in Lobbies, Join(p, l)
    PROVE  OrderInv'
  <1>1. /\ TypeOK /\ ServerInv /\ Number(None, l)
        /\ lobbyMessages' = Push(lobbyMessages, Len(sent'))
        /\ playerLobby' = [playerLobby EXCEPT ![p] = l]
        /\ joined' = [q \in Watchers |-> IF q = p THEN Len(sent) ELSE joined[q]]
        /\ UNCHANGED <<instance, opened, messages, client, reply>>
    BY DEF OrderInv, Join, AppendLobbyEvent, clientVars
  <1>2. /\ playerLobby' \in [Players -> Lobbies \cup {None}]
        /\ joined' \in [Watchers -> 0..MaxSent]
        /\ \A q \in Watchers : joined'[q] <= Len(sent)
    BY <1>1, EnterFacts
  <1>3. None \in Players \cup {None}
    OBVIOUS
  <1>4. QED
    BY <1>1, <1>2, <1>3, ToLobbyOrder

LEMMA LeaveOrder ==
    ASSUME OrderInv, NEW p \in Players, Leave(p)
    PROVE  OrderInv'
  <1>1. /\ TypeOK /\ ServerInv /\ Number(None, playerLobby[p])
        /\ playerLobby[p] # None
        /\ lobbyMessages' = Push(lobbyMessages, Len(sent'))
        /\ playerLobby' = [playerLobby EXCEPT ![p] = None]
        /\ UNCHANGED <<instance, opened, messages, joined, client, reply>>
    BY DEF OrderInv, Leave, AppendLobbyEvent, clientVars
  <1>2. /\ playerLobby[p] \in Lobbies
        /\ playerLobby' \in [Players -> Lobbies \cup {None}]
        /\ joined' \in [Watchers -> 0..MaxSent]
        /\ \A q \in Watchers : joined'[q] <= Len(sent)
    BY <1>1 DEF TypeOK, ServerInv
  <1>3. None \in Players \cup {None}
    OBVIOUS
  <1>4. QED
    BY <1>1, <1>2, <1>3, ToLobbyOrder

LEMMA AnnounceOrder ==
    ASSUME OrderInv, NEW l \in Lobbies, Announce(l)
    PROVE  OrderInv'
  <1>1. /\ TypeOK /\ ServerInv /\ Number(None, l)
        /\ lobbyMessages' = Push(lobbyMessages, Len(sent'))
        /\ UNCHANGED <<instance, playerLobby, opened, messages, joined, client,
                       reply>>
    BY DEF OrderInv, Announce, AppendLobbyEvent, clientVars
  <1>2. /\ playerLobby' \in [Players -> Lobbies \cup {None}]
        /\ joined' \in [Watchers -> 0..MaxSent]
        /\ \A q \in Watchers : joined'[q] <= Len(sent)
    BY <1>1 DEF TypeOK, ServerInv
  <1>3. None \in Players \cup {None}
    OBVIOUS
  <1>4. QED
    BY <1>1, <1>2, <1>3, ToLobbyOrder

LEMMA CloseOrder ==
    ASSUME OrderInv, NEW l \in Lobbies, Close(l)
    PROVE  OrderInv'
  <1>1. /\ TypeOK /\ ServerInv
        /\ playerLobby' = [p \in Players |->
                             IF playerLobby[p] = l THEN None ELSE playerLobby[p]]
        /\ UNCHANGED <<instance, opened, sent, messages, lobbyMessages, joined,
                       client, reply>>
    BY DEF OrderInv, Close, clientVars
  <1>2. playerLobby' \in [Players -> Lobbies \cup {None}]
    BY <1>1 DEF TypeOK
  <1>3. TypeOK'
    BY <1>1, <1>2 DEF TypeOK
  <1>4. ServerInv'
    BY <1>1 DEF ServerInv, DequeSane, ChatUpTo, RoomUpTo, IsChat
  <1>5. Len(sent') \in Nat /\ Len(sent') >= Len(sent)
    BY <1>1, DequeNumbers
  <1>6. \A q \in Watchers : ClientInv(q)' /\ ReplyInv(q)'
    BY <1>1, <1>5, ServerStepOrder
  <1>7. QED
    BY <1>3, <1>4, <1>6 DEF OrderInv

LEMMA EmptySane ==
    ASSUME NEW all, \A n : n \notin all
    PROVE  /\ DequeSane(<< >>, all) /\ Elements(<< >>) = {}
           /\ NumbersOf(<< >>) = {}
           /\ Increasing(<< >>)
  BY DEF DequeSane, Ascending, Elements, Increasing, NumbersOf

LEMMA RestartOrder ==
    ASSUME OrderInv, Restart
    PROVE  OrderInv'
  <1>1. /\ TypeOK /\ instance < MaxRestarts /\ instance' = instance + 1
        /\ playerLobby' = [p \in Players |-> None]
        /\ sent' = << >> /\ messages' = << >> /\ lobbyMessages' = << >>
        /\ joined' = [p \in Watchers |-> 0]
        /\ UNCHANGED <<opened, client, reply>>
    BY DEF OrderInv, Restart, clientVars
  <1>2. instance \in Nat /\ instance' \in 0..MaxRestarts /\ Len(sent') = 0
    BY <1>1, SizeAssumption DEF TypeOK
  <1>3. TypeOK'
    <2>1. /\ sent' \in Seq(Message) /\ messages' \in Seq(Numbers)
          /\ lobbyMessages' \in Seq(Numbers)
          /\ Len(messages') = 0 /\ Len(lobbyMessages') = 0
      BY <1>1
    <2>2. 0 <= MaxSent /\ 0 <= Retention /\ 0 \in 0..MaxSent
      BY SizeAssumption
    <2>3. joined' \in [Watchers -> 0..MaxSent]
      BY <1>1, <2>2
    <2>4. playerLobby' \in [Players -> Lobbies \cup {None}]
      BY <1>1
    <2>5. QED
      BY <1>1, <1>2, <2>1, <2>2, <2>3, <2>4 DEF TypeOK
  <1>4. ServerInv'
    <2>1. ChatUpTo(Len(sent))' = {} /\ RoomUpTo(Len(sent))' = {}
      BY <1>2 DEF ChatUpTo, RoomUpTo
    <2>2. DequeSane(<< >>, {})
      BY EmptySane
    <2>3. /\ DequeSane(messages, ChatUpTo(Len(sent)))'
          /\ DequeSane(lobbyMessages, RoomUpTo(Len(sent)))'
      BY <1>1, <2>1, <2>2 DEF DequeSane
    <2>4. \A p \in Watchers : joined'[p] <= Len(sent')
      BY <1>1, <1>2
    <2>5. QED
      BY <2>3, <2>4 DEF ServerInv
  <1>5. ASSUME NEW p \in Watchers
        PROVE  ClientInv(p)' /\ ReplyInv(p)'
    <2>1. ClientInv(p) /\ ReplyInv(p)
      BY DEF OrderInv
    <2>2. /\ client[p].instance \in Nat \cup {None}
          /\ reply[p] # None => reply[p].instance \in Nat
      BY <1>1 DEF TypeOK, Client, Reply
    <2>3. /\ client[p].instance # None =>
                client[p].instance <= instance' /\ client[p].instance # instance'
          /\ instance' # None
      BY <1>1, <1>2, <2>1, <2>2, NoneAssumption DEF ClientInv
    <2>4. reply[p] # None =>
              reply[p].instance <= instance' /\ reply[p].instance # instance'
      BY <1>1, <1>2, <2>1, <2>2 DEF ReplyInv
    <2>5. ClientInv(p)'
      BY <1>1, <2>1, <2>3 DEF ClientInv, ListSane
    <2>6. ReplyInv(p)'
      BY <1>1, <2>1, <2>4 DEF ReplyInv
    <2>7. QED
      BY <2>5, <2>6
  <1>6. QED
    BY <1>3, <1>4, <1>5 DEF OrderInv

-----------------------------------------------------------------------------
(***************************************************************************)
(* OrderInv is inductive: the clients' side.                               *)
(***************************************************************************)
LEMMA ClientStepOrder ==
    ASSUME OrderInv, NEW p \in Watchers, UNCHANGED serverVars,
           NEW c \in Client, client' = [client EXCEPT ![p] = c],
           NEW r \in Reply \cup {None}, reply' = [reply EXCEPT ![p] = r],
           ClientInv(p)', ReplyInv(p)'
    PROVE  OrderInv'
  <1>1. /\ TypeOK /\ ServerInv
        /\ UNCHANGED <<instance, playerLobby, opened, sent, messages,
                       lobbyMessages, joined>>
    BY DEF OrderInv, serverVars
  <1>2. TypeOK'
    <2>1. client' \in [Watchers -> Client]
      BY <1>1 DEF TypeOK
    <2>2. reply' \in [Watchers -> Reply \cup {None}]
      BY <1>1 DEF TypeOK
    <2>3. QED
      BY <1>1, <2>1, <2>2 DEF TypeOK
  <1>3. ServerInv'
    BY <1>1 DEF ServerInv, DequeSane, ChatUpTo, RoomUpTo, IsChat
  <1>4. ASSUME NEW q \in Watchers, q # p
        PROVE  ClientInv(q)' /\ ReplyInv(q)'
    <2>1. client'[q] = client[q] /\ reply'[q] = reply[q]
      BY <1>1, <1>4 DEF TypeOK
    <2>2. ClientInv(q) /\ ReplyInv(q)
      BY DEF OrderInv
    <2>3. QED
      BY <1>1, <2>1, <2>2 DEF ClientInv, ReplyInv, ListSane
  <1>5. \A q \in Watchers : ClientInv(q)' /\ ReplyInv(q)'
    BY <1>4
  <1>6. QED
    BY <1>2, <1>3, <1>5 DEF OrderInv

\* What Snapshot chooses from a deque.
LEMMA VisibleFacts ==
    ASSUME OrderInv, NEW p \in Watchers, NEW since \in Nat
    PROVE  /\ VisibleMessages(p, since) \in Seq(Numbers)
           /\ PartSane(VisibleMessages(p, since), since, Len(sent))
           /\ VisibleLobbyMessages(p, since) \in Seq(Numbers)
           /\ PartSane(VisibleLobbyMessages(p, since), since, Len(sent))
  <1>1. /\ messages \in Seq(Nat) /\ lobbyMessages \in Seq(Nat)
        /\ Len(sent) \in Nat /\ Len(sent) <= MaxSent
        /\ Ascending(messages) /\ Ascending(lobbyMessages)
    BY DequeNumbers DEF OrderInv, ServerInv, DequeSane, TypeOK
  <1>2. ASSUME NEW queue \in Seq(Nat), Ascending(queue),
               NEW wanted, \A n \in wanted : n \in 1..Len(sent) /\ n > since,
               NEW r, r = Newest(Window, Selected(queue, wanted))
        PROVE  r \in Seq(Numbers) /\ PartSane(r, since, Len(sent))
    <2>1. /\ r \in Seq(Nat) /\ Ascending(r)
          /\ Elements(r) \subseteq Elements(queue) \cap wanted
      BY <1>2, ReplyPart
    <2>2. Elements(r) \subseteq Numbers
      BY <1>1, <1>2, <2>1, SizeAssumption DEF Numbers
    <2>3. r \in Seq(Numbers)
      BY <2>1, <2>2, SeqOfElements
    <2>4. \A n \in Elements(r) : since < n /\ n <= Len(sent)
      BY <1>1, <1>2, <2>1
    <2>5. QED
      BY <2>1, <2>3, <2>4 DEF PartSane
  <1> DEFINE mine == {n \in 1..Len(sent) : n > since /\ Visible(p, n)}
             lobby == {n \in 1..Len(sent) : /\ n > since
                                            /\ sent[n].target = playerLobby[p]}
  <1>3. /\ \A n \in mine : n \in 1..Len(sent) /\ n > since
        /\ \A n \in lobby : n \in 1..Len(sent) /\ n > since
    OBVIOUS
  <1>4. /\ VisibleMessages(p, since) = Newest(Window, Selected(messages, mine))
        /\ VisibleLobbyMessages(p, since)
              = Newest(Window, Selected(lobbyMessages, lobby))
    BY DEF VisibleMessages, VisibleLobbyMessages
  <1> HIDE DEF mine, lobby
  <1>5. QED
    BY <1>1, <1>2, <1>3, <1>4

LEMMA SnapshotOrder ==
    ASSUME OrderInv, NEW p \in Watchers, Snapshot(p)
    PROVE  OrderInv'
  <1> DEFINE r == [instance |-> instance,
                   sequence |-> Len(sent),
                   lobby    |-> playerLobby[p],
                   chat     |-> VisibleMessages(p, client[p].cursor),
                   room     |-> VisibleLobbyMessages(p, client[p].cursor)]
             c == client[p]
  <1>1. /\ TypeOK /\ reply' = [reply EXCEPT ![p] = r]
        /\ UNCHANGED <<serverVars, client>>
    BY DEF OrderInv, Snapshot
  <1>2. /\ c \in Client /\ c.cursor \in Nat /\ instance \in 0..MaxRestarts
        /\ playerLobby[p] \in Lobbies \cup {None}
    BY <1>1, SizeAssumption DEF TypeOK, Client
  <1>3. Len(sent) \in 0..MaxSent /\ instance \in Nat
    BY <1>1, DequeNumbers, SizeAssumption DEF TypeOK
  <1>4. /\ r.chat \in Seq(Numbers) /\ PartSane(r.chat, c.cursor, Len(sent))
        /\ r.room \in Seq(Numbers) /\ PartSane(r.room, c.cursor, Len(sent))
    BY <1>2, VisibleFacts
  <1>5. r \in Reply
    BY <1>2, <1>3, <1>4 DEF Reply
  <1>6. client' = [client EXCEPT ![p] = c]
    BY <1>1 DEF TypeOK
  <1>7. ClientInv(p) /\ (c.instance = instance => c.cursor <= Len(sent))
    BY DEF OrderInv, ClientInv
  <1>8. UNCHANGED <<instance, sent>>
    BY <1>1 DEF serverVars
  <1>9. ClientInv(p)'
    BY <1>1, <1>7, <1>8 DEF ClientInv, ListSane
  <1>10. /\ r.instance <= instance /\ r.sequence <= Len(sent)
         /\ r.instance = instance /\ r.sequence = Len(sent)
    BY <1>3
  <1> HIDE DEF r
  <1>11. reply'[p] = r
    BY <1>1 DEF TypeOK
  <1>12. ReplyInv(p)'
    BY <1>1, <1>4, <1>7, <1>8, <1>10, <1>11 DEF ReplyInv, PartSane
  <1>13. QED
    BY <1>1, <1>2, <1>5, <1>6, <1>9, <1>12, ClientStepOrder

\* A client that has no request out, and shows nothing or what it showed.
LEMMA QuietOrder ==
    ASSUME OrderInv, NEW p \in Watchers, UNCHANGED serverVars,
           NEW c \in Client, client' = [client EXCEPT ![p] = c],
           reply' = [reply EXCEPT ![p] = None],
           \/ /\ c.cursor = 0 /\ c.list = << >> /\ c.room = << >>
              /\ c.instance \in {client[p].instance, None}
           \/ /\ c = [client[p] EXCEPT !.step = "polling"]
    PROVE  OrderInv'
  <1>1. /\ TypeOK /\ ClientInv(p) /\ client'[p] = c /\ reply'[p] = None
        /\ UNCHANGED <<instance, sent>>
    BY DEF OrderInv, TypeOK, serverVars
  <1>2. Len(sent) \in Nat /\ instance \in Nat /\ instance # None
    BY <1>1, DequeNumbers, NoneAssumption DEF TypeOK
  <1>3. ReplyInv(p)'
    BY <1>1 DEF ReplyInv
  <1>4. CASE /\ c.cursor = 0 /\ c.list = << >> /\ c.room = << >>
             /\ c.instance \in {client[p].instance, None}
    <2>1. ListSane(<< >>, c.instance, 0)
      BY DEF ListSane, Increasing
    <2>2. c.instance # None => c.instance <= instance
      BY <1>1, <1>4 DEF ClientInv
    <2>3. 0 <= Len(sent)
      BY <1>2
    <2>4. ClientInv(p)'
      BY <1>1, <1>4, <2>1, <2>2, <2>3 DEF ClientInv
    <2>5. QED
      BY <1>3, <2>4, ClientStepOrder
  <1>5. CASE c = [client[p] EXCEPT !.step = "polling"]
    <2>1. client[p] \in Client
      BY <1>1 DEF TypeOK
    <2>2. /\ c.cursor = client[p].cursor /\ c.list = client[p].list
          /\ c.room = client[p].room /\ c.instance = client[p].instance
          /\ c.step = "polling"
      BY <1>5, <2>1 DEF Client
    <2>3. ClientInv(p)'
      BY <1>1, <2>2 DEF ClientInv
    <2>4. QED
      BY <1>3, <2>3, ClientStepOrder
  <1>6. QED
    BY <1>4, <1>5

LEMMA NoticeRestartOrder ==
    ASSUME OrderInv, NEW p \in Watchers, NoticeRestart(p)
    PROVE  OrderInv'
  <1> DEFINE c == Forgotten(client[p])
  <1>1. /\ TypeOK /\ UNCHANGED serverVars
        /\ client' = [client EXCEPT ![p] = c]
        /\ reply' = [reply EXCEPT ![p] = None]
    BY DEF OrderInv, NoticeRestart
  <1>2. client[p] \in Client
    BY <1>1 DEF TypeOK
  <1>3. 0 \in 0..MaxSent /\ << >> \in Seq(Item)
    BY SizeAssumption
  <1>4. /\ c \in Client /\ c.cursor = 0 /\ c.list = << >> /\ c.room = << >>
        /\ c.instance = client[p].instance
    BY <1>2, <1>3 DEF Forgotten, Client
  <1> HIDE DEF c
  <1>5. QED
    BY <1>1, <1>4, QuietOrder

LEMMA FreshFacts ==
    Fresh \in Client
  <1>1. 0 \in 0..MaxSent /\ << >> \in Seq(Item)
    BY SizeAssumption
  <1>2. QED
    BY <1>1 DEF Fresh, Client

LEMMA LaunchOrder ==
    ASSUME OrderInv, NEW p \in Watchers, Launch(p)
    PROVE  OrderInv'
  <1>1. /\ UNCHANGED serverVars
        /\ client' = [client EXCEPT ![p] = Fresh]
        /\ reply' = [reply EXCEPT ![p] = None]
    BY DEF Launch
  <1>2. /\ Fresh.cursor = 0 /\ Fresh.list = << >> /\ Fresh.room = << >>
        /\ Fresh.instance = None
    BY DEF Fresh
  <1>3. QED
    BY <1>1, <1>2, FreshFacts, QuietOrder

LEMMA LoseOrder ==
    ASSUME OrderInv, NEW p \in Watchers, Lose(p)
    PROVE  OrderInv'
  <1> DEFINE c == [client[p] EXCEPT !.step = "polling"]
  <1>1. /\ TypeOK /\ UNCHANGED serverVars
        /\ client' = [client EXCEPT ![p] = c]
        /\ reply' = [reply EXCEPT ![p] = None]
    BY DEF OrderInv, Lose
  <1>2. client[p] \in Client
    BY <1>1 DEF TypeOK
  <1>3. c \in Client
    BY <1>2 DEF Client
  <1>4. c = [client[p] EXCEPT !.step = "polling"]
    OBVIOUS
  <1> HIDE DEF c
  <1>5. QED
    BY <1>1, <1>3, <1>4, QuietOrder

\* A client that takes a reply shows nothing, or messages of the instance of
\* the reply and older than its cursor.
LEMMA TakenFacts ==
    ASSUME OrderInv, NEW p \in Watchers, reply[p] # None,
           client[p].step = "refetching"
              \/ client[p].instance \in {None, reply[p].instance}
    PROVE  /\ client[p] \in Client /\ reply[p] \in Reply
           /\ client[p].cursor <= reply[p].sequence
           /\ \/ client[p].instance = reply[p].instance
              \/ /\ client[p].cursor = 0
                 /\ client[p].list = << >> /\ client[p].room = << >>
           /\ PartSane(reply[p].chat, client[p].cursor, reply[p].sequence)
           /\ PartSane(reply[p].room, client[p].cursor, reply[p].sequence)
  <1>1. client[p] \in Client /\ reply[p] \in Reply
    BY DEF OrderInv, TypeOK
  <1>2. ClientInv(p) /\ ReplyInv(p)
    BY DEF OrderInv
  <1>3. \/ client[p].instance = reply[p].instance
        \/ /\ client[p].cursor = 0
           /\ client[p].list = << >> /\ client[p].room = << >>
    BY <1>2 DEF ClientInv
  <1>4. client[p].cursor <= reply[p].sequence
    BY <1>1, <1>2, <1>3, SizeAssumption DEF ReplyInv, Reply
  <1>5. QED
    BY <1>1, <1>2, <1>3, <1>4 DEF ReplyInv

LEMMA ShownList ==
    ASSUME OrderInv, NEW p \in Watchers, reply[p] # None,
           client[p].step = "refetching"
              \/ client[p].instance \in {None, reply[p].instance},
           NEW items \in {client[p].list, client[p].room, << >>},
           NEW numbers \in {reply[p].chat, reply[p].room}
    PROVE  LET s == Shown(items, reply[p].instance, numbers)
               both == NumbersOf(items) \cup Elements(numbers)
           IN  /\ s \in Seq(Item)
               /\ ListSane(s, reply[p].instance, reply[p].sequence)
               /\ NumbersOf(s) \subseteq both
               /\ \A all : IsFiniteSet(all) /\ both \subseteq all =>
                     \A n \in both \ NumbersOf(s) : Newer(n, all) >= ListSize
               /\ \A n \in NumbersOf(items) : n <= client[p].cursor
               /\ \A n \in Elements(numbers) : n > client[p].cursor
  <1> DEFINE c == client[p]
             r == reply[p]
             s == Shown(items, r.instance, numbers)
             both == NumbersOf(items) \cup Elements(numbers)
  <1>1. /\ c \in Client /\ r \in Reply
        /\ c.cursor <= r.sequence
        /\ \/ c.instance = r.instance
           \/ c.list = << >> /\ c.room = << >>
        /\ PartSane(numbers, c.cursor, r.sequence)
    BY TakenFacts
  <1>2. ClientInv(p)
    BY DEF OrderInv
  <1>3. /\ c.cursor \in Nat /\ r.sequence \in Nat
        /\ r.instance \in 0..MaxRestarts
        /\ numbers \in Seq(Numbers) /\ items \in Seq(Item)
    <2>1. c.cursor \in Nat /\ r.sequence \in Nat /\ r.instance \in 0..MaxRestarts
      BY <1>1, SizeAssumption DEF Client, Reply
    <2>2. r.chat \in Seq(Numbers) /\ r.room \in Seq(Numbers)
      BY <1>1 DEF Reply
    <2>3. c.list \in Seq(Item) /\ c.room \in Seq(Item) /\ << >> \in Seq(Item)
      BY <1>1 DEF Client
    <2>4. QED
      BY <2>1, <2>2, <2>3
  <1>4. ListSane(items, r.instance, c.cursor)
    <2>1. ListSane(<< >>, r.instance, c.cursor)
      BY DEF ListSane, Increasing
    <2>2. QED
      BY <1>1, <1>2, <2>1 DEF ClientInv
  <1>5. /\ Ascending(numbers)
        /\ \A n \in Elements(numbers) : c.cursor < n /\ n <= r.sequence
    BY <1>1 DEF PartSane
  <1>6. Increasing(items) /\ \A i \in 1..Len(items) : items[i].of = r.instance
    BY <1>4 DEF ListSane
  <1>7. \A n \in NumbersOf(items) : n <= c.cursor
    BY <1>4 DEF ListSane, NumbersOf
  <1>8. NumbersOf(items) \subseteq Nat /\ Elements(numbers) \subseteq Nat
    <2>1. \A i \in 1..Len(items) : items[i].number \in Nat
      <3>1. \A i \in 1..Len(items) : items[i] \in Item
        BY <1>3, ElementOfSeq
      <3>2. QED
        BY <3>1, NumbersAreNat DEF Item
    <2>2. \A i \in 1..Len(numbers) : numbers[i] \in Nat
      BY <1>3, ElementOfSeq, NumbersAreNat
    <2>3. QED
      BY <2>1, <2>2 DEF NumbersOf, Elements
  <1>9. \A m \in NumbersOf(items), n \in Elements(numbers) : m < n
    BY <1>3, <1>5, <1>7, <1>8
  <1> HIDE DEF c, r
  <1>10. /\ s \in Seq(Item) /\ Increasing(s)
         /\ \A i \in 1..Len(s) : s[i].of = r.instance
         /\ NumbersOf(s) \subseteq both
         /\ \A all : IsFiniteSet(all) /\ both \subseteq all =>
               \A n \in both \ NumbersOf(s) : Newer(n, all) >= ListSize
    BY <1>3, <1>5, <1>6, <1>9, ShownProps
  <1> HIDE DEF s
  <1>11. \A n \in both : n <= r.sequence
    BY <1>1, <1>3, <1>5, <1>7, <1>8
  <1>12. \A i \in 1..Len(s) : s[i].number \in NumbersOf(s)
    BY DEF NumbersOf
  <1> HIDE DEF both
  <1>13. \A i \in 1..Len(s) : s[i].number <= r.sequence
    BY <1>10, <1>11, <1>12
  <1>14. ListSane(s, r.instance, r.sequence)
    BY <1>10, <1>13 DEF ListSane
  <1>15. \A n \in Elements(numbers) : n > c.cursor
    BY <1>3, <1>5, <1>8
  <1>16. QED
    BY <1>7, <1>10, <1>14, <1>15 DEF s, both, r, c

LEMMA ShowOrder ==
    ASSUME OrderInv, NEW p \in Watchers, Show(p)
    PROVE  OrderInv'
  <1> DEFINE r == reply[p]
             room == RoomOf(client[p], r.lobby)
             c == [step     |-> "polling",
                   instance |-> r.instance,
                   cursor   |-> r.sequence,
                   lobby    |-> r.lobby,
                   list     |-> Shown(client[p].list, r.instance, r.chat),
                   room     |-> Shown(room, r.instance, r.room)]
  <1>1. /\ TypeOK /\ r # None /\ UNCHANGED serverVars
        /\ client[p].step = "refetching"
              \/ client[p].instance \in {None, r.instance}
        /\ client' = [client EXCEPT ![p] = c]
        /\ reply' = [reply EXCEPT ![p] = None]
    BY DEF OrderInv, Show
  <1>2. r \in Reply /\ room \in {client[p].room, << >>}
    BY <1>1 DEF TypeOK, RoomOf
  <1>3. c.list \in Seq(Item) /\ ListSane(c.list, r.instance, r.sequence)
    BY <1>1, ShownList
  <1>4. c.room \in Seq(Item) /\ ListSane(c.room, r.instance, r.sequence)
    BY <1>1, <1>2, ShownList
  <1>5. /\ c.step = "polling" /\ c.instance = r.instance /\ c.cursor = r.sequence
        /\ r.instance \in Nat /\ r.instance # None
    BY <1>2, NoneAssumption DEF Reply
  <1>6. c \in Client
    BY <1>2, <1>3, <1>4 DEF Client, Reply
  <1>7. /\ r.instance <= instance
        /\ r.instance = instance => r.sequence <= Len(sent)
    BY <1>1 DEF OrderInv, ReplyInv
  <1>8. UNCHANGED <<instance, sent>>
    BY <1>1 DEF serverVars
  <1> HIDE DEF c
  <1>9. client'[p] = c /\ reply'[p] = None
    BY <1>1 DEF TypeOK
  <1>10. ClientInv(p)'
    BY <1>3, <1>4, <1>5, <1>7, <1>8, <1>9 DEF ClientInv
  <1>11. ReplyInv(p)'
    BY <1>9 DEF ReplyInv
  <1>12. QED
    BY <1>1, <1>6, <1>10, <1>11, ClientStepOrder

LEMMA InitOrder ==
    ASSUME Init
    PROVE  OrderInv
  <1>1. TypeOK
    <2>1. /\ 0 \in 0..MaxRestarts /\ 0 \in 0..MaxSent /\ 0 <= MaxSent
          /\ 0 <= Retention
      BY SizeAssumption
    <2>2. /\ sent \in Seq(Message) /\ messages \in Seq(Numbers)
          /\ lobbyMessages \in Seq(Numbers) /\ Len(sent) = 0
          /\ Len(messages) = 0 /\ Len(lobbyMessages) = 0
      BY DEF Init
    <2>3. client \in [Watchers -> Client]
      BY FreshFacts DEF Init
    <2>4. QED
      BY <2>1, <2>2, <2>3 DEF Init, TypeOK
  <1>2. ServerInv
    <2>1. Len(sent) = 0
      BY DEF Init
    <2>2. ChatUpTo(Len(sent)) = {} /\ RoomUpTo(Len(sent)) = {}
      BY <2>1 DEF ChatUpTo, RoomUpTo
    <2>3. DequeSane(<< >>, {})
      BY EmptySane
    <2>4. /\ messages = << >> /\ lobbyMessages = << >>
          /\ \A p \in Watchers : joined[p] <= Len(sent)
      BY <2>1 DEF Init
    <2>5. QED
      BY <2>2, <2>3, <2>4 DEF ServerInv
  <1>3. ASSUME NEW p \in Watchers
        PROVE  ClientInv(p) /\ ReplyInv(p)
    <2>1. /\ client[p].instance = None /\ client[p].cursor = 0
          /\ client[p].list = << >> /\ client[p].room = << >>
          /\ reply[p] = None /\ instance \in Nat /\ Len(sent) = 0
      BY DEF Init, Fresh
    <2>2. ListSane(<< >>, None, 0)
      BY DEF ListSane, Increasing
    <2>3. QED
      BY <2>1, <2>2, NoneAssumption DEF ClientInv, ReplyInv
  <1>4. QED
    BY <1>1, <1>2, <1>3 DEF OrderInv

LEMMA StutterOrder ==
    ASSUME OrderInv, UNCHANGED vars
    PROVE  OrderInv'
  <1>1. UNCHANGED <<instance, playerLobby, opened, sent, messages,
                    lobbyMessages, joined, client, reply>>
    BY DEF vars, serverVars, clientVars
  <1>2. TypeOK'
    BY <1>1 DEF OrderInv, TypeOK
  <1>3. ServerInv'
    BY <1>1 DEF OrderInv, ServerInv, DequeSane, ChatUpTo, RoomUpTo, IsChat
  <1>4. Len(sent') \in Nat /\ Len(sent') >= Len(sent)
    BY <1>1, DequeNumbers DEF OrderInv
  <1>5. \A p \in Watchers : ClientInv(p)' /\ ReplyInv(p)'
    BY <1>1, <1>4, ServerStepOrder
  <1>6. QED
    BY <1>2, <1>3, <1>5 DEF OrderInv

LEMMA OrderStep ==
    ASSUME OrderInv, [Next]_vars
    PROVE  OrderInv'
  <1>1. ASSUME NEW p \in Players, NEW to \in Targets, SendMessage(p, to)
        PROVE  OrderInv'
    BY <1>1, SendMessageOrder
  <1>2. ASSUME NEW p \in Players, SendLobbyMessage(p) PROVE OrderInv'
    BY <1>2, SendLobbyMessageOrder
  <1>3. ASSUME NEW p \in Players, NEW l \in Lobbies, Open(p, l) PROVE OrderInv'
    BY <1>3, OpenOrder
  <1>4. ASSUME NEW p \in Players, NEW l \in Lobbies, Join(p, l) PROVE OrderInv'
    BY <1>4, JoinOrder
  <1>5. ASSUME NEW p \in Players, Leave(p) PROVE OrderInv'
    BY <1>5, LeaveOrder
  <1>6. ASSUME NEW l \in Lobbies, Announce(l) PROVE OrderInv'
    BY <1>6, AnnounceOrder
  <1>7. ASSUME NEW l \in Lobbies, Close(l) PROVE OrderInv'
    BY <1>7, CloseOrder
  <1>8. CASE Restart
    BY <1>8, RestartOrder
  <1>9. ASSUME NEW p \in Watchers, Snapshot(p) PROVE OrderInv'
    BY <1>9, SnapshotOrder
  <1>10. ASSUME NEW p \in Watchers, Receive(p) PROVE OrderInv'
    BY <1>10, NoticeRestartOrder, ShowOrder DEF Receive
  <1>11. ASSUME NEW p \in Watchers, Lose(p) PROVE OrderInv'
    BY <1>11, LoseOrder
  <1>12. ASSUME NEW p \in Watchers, Launch(p) PROVE OrderInv'
    BY <1>12, LaunchOrder
  <1>13. CASE UNCHANGED vars
    BY <1>13, StutterOrder
  <1>14. QED
    BY <1>1, <1>2, <1>3, <1>4, <1>5, <1>6, <1>7, <1>8, <1>9, <1>10, <1>11,
       <1>12, <1>13 DEF Next

(***************************************************************************)
(* The server's deques, a reply and what a client shows stay in order,     *)
(* instance by instance, whatever is lost, restarted or closed.            *)
(***************************************************************************)
THEOREM OrderInductive == Spec => []OrderInv
  <1>1. Init => OrderInv
    BY InitOrder
  <1>2. OrderInv /\ [Next]_vars => OrderInv'
    BY OrderStep
  <1>3. QED
    BY <1>1, <1>2, PTL DEF Spec

(***************************************************************************)
(* The deques never hold more than message_retention messages, the client  *)
(* knows an instance only by number, and every value is one of its type.   *)
(***************************************************************************)
THEOREM MessagesTypeCorrect == Spec => []TypeOK
  <1>1. OrderInv => TypeOK
    BY DEF OrderInv
  <1>2. QED
    BY <1>1, OrderInductive, PTL

(***************************************************************************)
(* Add-ChatMessage adds to what a client shows only newer messages of the  *)
(* instance shown: none comes twice, none of an earlier process stays, and *)
(* the order on the screen is the order in which they were numbered.       *)
(***************************************************************************)
THEOREM ShownOnceInOrderHolds == Spec => []ShownOnceInOrder
  <1>1. OrderInv => ShownOnceInOrder
    BY DEF OrderInv, ClientInv, ListSane, ShownOnceInOrder
  <1>2. QED
    BY <1>1, OrderInductive, PTL

-----------------------------------------------------------------------------
(***************************************************************************)
(* What steps of the server leave alone: messages numbered before, and the *)
(* lobby of a player unless it leaves, or enters one after all of them.    *)
(***************************************************************************)
ServerStep ==
    \/ \E p \in Players :
          \/ \E to \in Targets : SendMessage(p, to)
          \/ SendLobbyMessage(p)
          \/ \E l \in Lobbies : Open(p, l) \/ Join(p, l)
          \/ Leave(p)
    \/ \E l \in Lobbies : Announce(l) \/ Close(l)
    \/ UNCHANGED vars

PastKept ==
    \A c \in 0..Len(sent), p \in Watchers, l \in Lobbies \cup {None} :
        /\ ChatUpTo(c)' = ChatUpTo(c) /\ MineUpTo(p, c)' = MineUpTo(p, c)
        /\ RoomUpTo(c)' = RoomUpTo(c) /\ LobbyUpTo(l, c)' = LobbyUpTo(l, c)

EnteredLate ==
    \A p \in Watchers :
        \/ playerLobby'[p] \in {None, playerLobby[p]} /\ joined'[p] = joined[p]
        \/ joined'[p] = Len(sent)

Undisturbed == UNCHANGED <<instance, client, reply>> /\ PastKept /\ EnteredLate

LEMMA SameSent ==
    ASSUME UNCHANGED sent
    PROVE  PastKept
  BY DEF PastKept, ChatUpTo, MineUpTo, RoomUpTo, LobbyUpTo, IsChat, Visible

LEMMA MoreSent ==
    ASSUME TypeOK,
           NEW sender \in Players \cup {None}, NEW target \in Targets \cup Lobbies,
           Number(sender, target)
    PROVE  PastKept
  <1>1. sent \in Seq(Message)
    BY DEF TypeOK
  <1>2. QED
    BY <1>1, NumberKeeps DEF PastKept

LEMMA ServerStepUndisturbed ==
    ASSUME TypeOK, ServerStep
    PROVE  Undisturbed
  <1> USE DEF clientVars
  <1>0. \A p \in Watchers : p \in Players
    BY SizeAssumption
  <1>l. ASSUME NEW p \in Players, playerLobby[p] # None
        PROVE  playerLobby[p] \in Lobbies
    BY <1>l DEF TypeOK
  <1>n. None \in Players \cup {None}
    OBVIOUS
  <1>1. ASSUME NEW p \in Players, NEW to \in Targets, SendMessage(p, to)
        PROVE  Undisturbed
    <2>1. PastKept
      BY <1>1, MoreSent DEF SendMessage
    <2>2. QED
      BY <1>1, <2>1 DEF SendMessage, Undisturbed, EnteredLate
  <1>2. ASSUME NEW p \in Players, SendLobbyMessage(p) PROVE Undisturbed
    <2>1. playerLobby[p] \in Lobbies /\ Number(p, playerLobby[p])
      BY <1>2, <1>l DEF SendLobbyMessage
    <2>2. PastKept
      BY <2>1, MoreSent
    <2>3. QED
      BY <1>2, <2>2 DEF SendLobbyMessage, Undisturbed, EnteredLate
  <1>3. ASSUME NEW p \in Players, NEW l \in Lobbies, Open(p, l)
        PROVE  Undisturbed
    <2>1. PastKept
      BY <1>3, SameSent DEF Open
    <2>2. EnteredLate
      BY <1>3, <1>0 DEF Open, EnteredLate, TypeOK
    <2>3. QED
      BY <1>3, <2>1, <2>2 DEF Open, Undisturbed
  <1>4. ASSUME NEW p \in Players, NEW l \in Lobbies, Join(p, l)
        PROVE  Undisturbed
    <2>1. PastKept
      BY <1>4, <1>n, MoreSent DEF Join, AppendLobbyEvent
    <2>2. EnteredLate
      BY <1>4, <1>0 DEF Join, EnteredLate, TypeOK
    <2>3. QED
      BY <1>4, <2>1, <2>2 DEF Join, Undisturbed
  <1>5. ASSUME NEW p \in Players, Leave(p) PROVE Undisturbed
    <2>1. playerLobby[p] \in Lobbies /\ Number(None, playerLobby[p])
      BY <1>5, <1>l DEF Leave, AppendLobbyEvent
    <2>2. PastKept
      BY <2>1, <1>n, MoreSent
    <2>3. EnteredLate
      BY <1>5, <1>0 DEF Leave, EnteredLate, TypeOK
    <2>4. QED
      BY <1>5, <2>2, <2>3 DEF Leave, Undisturbed
  <1>6. ASSUME NEW l \in Lobbies, Announce(l) PROVE Undisturbed
    <2>1. PastKept
      BY <1>6, <1>n, MoreSent DEF Announce, AppendLobbyEvent
    <2>2. QED
      BY <1>6, <2>1 DEF Announce, Undisturbed, EnteredLate
  <1>7. ASSUME NEW l \in Lobbies, Close(l) PROVE Undisturbed
    <2>1. PastKept
      BY <1>7, SameSent DEF Close
    <2>2. EnteredLate
      BY <1>7, <1>0 DEF Close, EnteredLate
    <2>3. QED
      BY <1>7, <2>1, <2>2 DEF Close, Undisturbed
  <1>8. CASE UNCHANGED vars
    <2>1. PastKept
      BY <1>8, SameSent DEF vars, serverVars
    <2>2. QED
      BY <1>8, <2>1 DEF vars, serverVars, Undisturbed, EnteredLate
  <1>9. QED
    BY <1>1, <1>2, <1>3, <1>4, <1>5, <1>6, <1>7, <1>8 DEF ServerStep

LEMMA NextCases ==
    ASSUME [Next]_vars
    PROVE  \/ ServerStep
           \/ Restart
           \/ \E p \in Watchers : Snapshot(p) \/ Receive(p) \/ Lose(p) \/ Launch(p)
  BY DEF Next, ServerStep

-----------------------------------------------------------------------------
(***************************************************************************)
(* What Snapshot leaves out, and what Show pushes out.                     *)
(***************************************************************************)
LEMMA SnapshotComplete ==
    ASSUME NEW queue \in Seq(Nat), NEW all, DequeSane(queue, all),
           NEW mine, IsFiniteSet(mine), mine \subseteq all,
           NEW since, NEW wanted, all \cap wanted \subseteq mine,
           \A n \in mine : n > since => n \in wanted
    PROVE  PartComplete(Newest(Window, Selected(queue, wanted)), since, all, mine)
  <1> DEFINE r == Newest(Window, Selected(queue, wanted))
  <1>1. Ascending(queue) /\ Elements(queue) \subseteq all
    BY DEF DequeSane
  <1>2. Elements(queue) \cap wanted \subseteq mine
    BY <1>1
  <1>3. /\ Elements(r) \subseteq Elements(queue) \cap wanted
        /\ \A n \in (Elements(queue) \cap wanted) \ Elements(r) :
              Newer(n, mine) >= Window
    BY <1>1, <1>2, ReplyPart
  <1> HIDE DEF r
  <1>4. ASSUME NEW n \in mine \ Elements(r), n > since
        PROVE  LeftOut(n, all, mine)
    <2>1. n \in wanted /\ n \in all
      BY <1>4
    <2>2. CASE n \in Elements(queue)
      BY <1>3, <2>1, <2>2 DEF LeftOut
    <2>3. CASE n \notin Elements(queue)
      BY <2>1, <2>3 DEF LeftOut, DequeSane
    <2>4. QED
      BY <2>2, <2>3
  <1>5. QED
    BY <1>2, <1>3, <1>4 DEF PartComplete, r

LEMMA PushedOutNewer ==
    ASSUME NEW n, NEW all, NEW mine
    PROVE  PushedOut(n, all, mine) <=>
               \/ Newer(n, all) >= Retention
               \/ Newer(n, mine) >= Window
               \/ Newer(n, mine) >= ListSize
  BY DEF PushedOut, Newer

LEMMA PushedOutGrows ==
    ASSUME NEW n, NEW all, NEW mine, PushedOut(n, all, mine),
           NEW more, all \subseteq more, IsFiniteSet(more),
           NEW others, mine \subseteq others, IsFiniteSet(others)
    PROVE  PushedOut(n, more, others)
  <1>1. /\ Newer(n, all) \in Nat /\ Newer(n, more) \in Nat
        /\ Newer(n, all) <= Newer(n, more)
    BY NewerGrows
  <1>2. /\ Newer(n, mine) \in Nat /\ Newer(n, others) \in Nat
        /\ Newer(n, mine) <= Newer(n, others)
    BY NewerGrows
  <1>3. Retention \in Nat /\ Window \in Nat /\ ListSize \in Nat
    BY SizeAssumption
  <1>4. \/ Newer(n, all) >= Retention
        \/ Newer(n, mine) >= Window
        \/ Newer(n, mine) >= ListSize
    BY PushedOutNewer
  <1>5. \/ Newer(n, more) >= Retention
        \/ Newer(n, others) >= Window
        \/ Newer(n, others) >= ListSize
    BY <1>1, <1>2, <1>3, <1>4
  <1>6. QED
    BY <1>5, PushedOutNewer

LEMMA ShowComplete ==
    ASSUME OrderInv, NEW p \in Watchers, reply[p] # None,
           client[p].step = "refetching"
              \/ client[p].instance \in {None, reply[p].instance},
           NEW items \in {client[p].list, client[p].room, << >>},
           NEW numbers \in {reply[p].chat, reply[p].room},
           NEW all, NEW mine, IsFiniteSet(mine), mine \subseteq Nat,
           PartComplete(numbers, client[p].cursor, all, mine),
           NumbersOf(items) \subseteq mine, NEW since,
           \A n \in mine \ NumbersOf(items) :
              n > since /\ n <= client[p].cursor => PushedOut(n, all, mine)
    PROVE  ListComplete(Shown(items, reply[p].instance, numbers), since, all, mine)
  <1> DEFINE s == Shown(items, reply[p].instance, numbers)
             both == NumbersOf(items) \cup Elements(numbers)
             cursor == client[p].cursor
  <1>1. both \subseteq mine
    BY DEF PartComplete
  <1>2. /\ NumbersOf(s) \subseteq both
        /\ \A n \in both \ NumbersOf(s) : Newer(n, mine) >= ListSize
    BY <1>1, ShownList
  <1>3. cursor \in Nat
    BY TakenFacts, SizeAssumption DEF Client
  <1> HIDE DEF s, cursor
  <1>4. ASSUME NEW n \in mine \ NumbersOf(s), n > since
        PROVE  PushedOut(n, all, mine)
    <2>1. CASE n \in both
      BY <1>2, <1>4, <2>1, PushedOutNewer
    <2>2. CASE n \notin both /\ n > cursor
      <3>1. LeftOut(n, all, mine)
        BY <1>4, <2>2 DEF PartComplete, cursor
      <3>2. QED
        BY <3>1, PushedOutNewer DEF LeftOut
    <2>3. CASE n \notin both /\ n <= cursor
      BY <1>4, <2>3 DEF cursor
    <2>4. QED
      BY <1>3, <1>4, <2>1, <2>2, <2>3
  <1>5. QED
    BY <1>1, <1>2, <1>4 DEF ListComplete, s

-----------------------------------------------------------------------------
(***************************************************************************)
(* ChatInv is inductive.                                                   *)
(***************************************************************************)
LEMMA SeenFacts ==
    ASSUME OrderInv, NEW p \in Watchers
    PROVE  /\ client[p].cursor \in Nat
           /\ client[p].instance = instance => client[p].cursor \in 0..Len(sent)
           /\ reply[p] # None =>
                 /\ reply[p].sequence \in Nat
                 /\ reply[p].lobby \in Lobbies \cup {None}
                 /\ reply[p].instance = instance =>
                       reply[p].sequence \in 0..Len(sent)
           /\ client[p].lobby \in Lobbies \cup {None}
           /\ instance # None
  <1>1. Len(sent) \in Nat
    BY DequeNumbers DEF OrderInv
  <1>2. /\ client[p].cursor \in Nat /\ client[p].lobby \in Lobbies \cup {None}
        /\ reply[p] # None => /\ reply[p].sequence \in Nat
                              /\ reply[p].lobby \in Lobbies \cup {None}
    BY DEF OrderInv, TypeOK, Client, Reply
  <1>3. ClientInv(p) /\ ReplyInv(p)
    BY DEF OrderInv
  <1>4. client[p].instance = instance => client[p].cursor \in 0..Len(sent)
    BY <1>1, <1>2, <1>3 DEF ClientInv
  <1>5. reply[p] # None /\ reply[p].instance = instance
           => reply[p].sequence \in 0..Len(sent)
    BY <1>1, <1>2, <1>3 DEF ReplyInv
  <1>6. instance # None
    BY NoneAssumption DEF OrderInv, TypeOK
  <1>7. QED
    BY <1>2, <1>4, <1>5, <1>6

\* After a restart nothing is of the new instance yet.
LEMMA RestartFacts ==
    ASSUME OrderInv, Restart, NEW p \in Watchers
    PROVE  /\ client'[p].instance # instance'
           /\ reply'[p] # None => reply'[p].instance # instance'
  <1>1. /\ TypeOK /\ instance' = instance + 1 /\ UNCHANGED <<client, reply>>
    BY DEF OrderInv, Restart, clientVars
  <1>2. ClientInv(p) /\ ReplyInv(p)
    BY DEF OrderInv
  <1>3. /\ instance \in Nat /\ instance' # None
        /\ client[p].instance \in Nat \cup {None}
        /\ reply[p] # None => reply[p].instance \in Nat
    BY <1>1, NoneAssumption DEF TypeOK, Client, Reply
  <1>4. client[p].instance # None => client[p].instance <= instance
    BY <1>2 DEF ClientInv
  <1>5. reply[p] # None => reply[p].instance <= instance
    BY <1>2 DEF ReplyInv
  <1>6. QED
    BY <1>1, <1>3, <1>4, <1>5

\* A step of one client: everything else stays.
LEMMA ClientFrame ==
    ASSUME OrderInv, NEW p \in Watchers,
           Snapshot(p) \/ Receive(p) \/ Lose(p) \/ Launch(p)
    PROVE  /\ UNCHANGED <<instance, playerLobby, sent, joined>> /\ PastKept
           /\ \A q \in Watchers :
                 q # p => client'[q] = client[q] /\ reply'[q] = reply[q]
  <1>1. UNCHANGED serverVars
    BY DEF Snapshot, Receive, NoticeRestart, Show, Lose, Launch
  <1>2. PastKept
    BY <1>1, SameSent DEF serverVars
  <1>3. client \in [Watchers -> Client] /\ reply \in [Watchers -> Reply \cup {None}]
    BY DEF OrderInv, TypeOK
  <1>4. ASSUME NEW q \in Watchers, q # p
        PROVE  client'[q] = client[q] /\ reply'[q] = reply[q]
    <2>1. CASE Snapshot(p)
      BY <1>3, <1>4, <2>1 DEF Snapshot
    <2>2. CASE Receive(p)
      BY <1>3, <1>4, <2>2 DEF Receive, NoticeRestart, Show
    <2>3. CASE Lose(p)
      BY <1>3, <1>4, <2>3 DEF Lose
    <2>4. CASE Launch(p)
      BY <1>3, <1>4, <2>4 DEF Launch
    <2>5. QED
      BY <2>1, <2>2, <2>3, <2>4
  <1>5. QED
    BY <1>1, <1>2, <1>4 DEF serverVars

\* What a client has after a step that ends its request without showing
\* anything.
LEMMA QuietFacts ==
    ASSUME OrderInv, NEW p \in Watchers, NoticeRestart(p) \/ Lose(p) \/ Launch(p)
    PROVE  /\ reply'[p] = None
           /\ \/ client'[p].instance = None
              \/ /\ client'[p].cursor = 0
                 /\ client'[p].list = << >> /\ client'[p].room = << >>
              \/ /\ client'[p].instance = client[p].instance
                 /\ client'[p].cursor = client[p].cursor
                 /\ client'[p].lobby = client[p].lobby
                 /\ client'[p].list = client[p].list
                 /\ client'[p].room = client[p].room
  <1>1. client \in [Watchers -> Client] /\ reply \in [Watchers -> Reply \cup {None}]
    BY DEF OrderInv, TypeOK
  <1>2. client[p] \in Client
    BY <1>1
  <1>3. CASE NoticeRestart(p)
    <2>1. client'[p] = Forgotten(client[p]) /\ reply'[p] = None
      BY <1>1, <1>3 DEF NoticeRestart
    <2>2. QED
      BY <1>2, <2>1 DEF Forgotten, Client
  <1>4. CASE Lose(p)
    <2>1. client'[p] = [client[p] EXCEPT !.step = "polling"] /\ reply'[p] = None
      BY <1>1, <1>4 DEF Lose
    <2>2. QED
      BY <1>2, <2>1 DEF Client
  <1>5. CASE Launch(p)
    <2>1. client'[p] = Fresh /\ reply'[p] = None
      BY <1>1, <1>5 DEF Launch
    <2>2. QED
      BY <2>1 DEF Fresh
  <1>6. QED
    BY <1>3, <1>4, <1>5

\* The reply of a snapshot.
LEMMA SnapshotFacts ==
    ASSUME OrderInv, NEW p \in Watchers, Snapshot(p)
    PROVE  /\ client' = client
           /\ reply'[p].instance = instance /\ reply'[p].sequence = Len(sent)
           /\ reply'[p].lobby = playerLobby[p]
           /\ reply'[p].chat = VisibleMessages(p, client[p].cursor)
           /\ reply'[p].room = VisibleLobbyMessages(p, client[p].cursor)
  BY DEF OrderInv, TypeOK, Snapshot

\* What a client has after a reply is shown.
LEMMA ShowFacts ==
    ASSUME OrderInv, NEW p \in Watchers, Show(p)
    PROVE  /\ reply[p] # None /\ reply'[p] = None
           /\ client[p].step = "refetching"
                 \/ client[p].instance \in {None, reply[p].instance}
           /\ client'[p].instance = reply[p].instance
           /\ client'[p].cursor = reply[p].sequence
           /\ client'[p].lobby = reply[p].lobby
           /\ client'[p].list =
                 Shown(client[p].list, reply[p].instance, reply[p].chat)
           /\ client'[p].room =
                 Shown(RoomOf(client[p], reply[p].lobby), reply[p].instance,
                       reply[p].room)
  BY DEF OrderInv, TypeOK, Show

LEMMA EmptyComplete ==
    ASSUME NEW since, NEW all
    PROVE  ListComplete(<< >>, since, all, {})
  <1>1. NumbersOf(<< >>) = {}
    BY DEF NumbersOf
  <1>2. QED
    BY <1>1 DEF ListComplete

LEMMA UpToGrows ==
    ASSUME NEW c \in Nat, NEW d \in Nat, c <= d, NEW p, NEW l
    PROVE  /\ ChatUpTo(c) \subseteq ChatUpTo(d) /\ RoomUpTo(c) \subseteq RoomUpTo(d)
           /\ MineUpTo(p, c) \subseteq MineUpTo(p, d)
           /\ LobbyUpTo(l, c) \subseteq LobbyUpTo(l, d)
           /\ \A n \in MineUpTo(p, d) : n <= c => n \in MineUpTo(p, c)
           /\ \A n \in LobbyUpTo(l, d) : n <= c => n \in LobbyUpTo(l, c)
  <1>1. \A n \in 1..c : n \in 1..d
    OBVIOUS
  <1>2. \A n \in 1..d : n <= c => n \in 1..c
    OBVIOUS
  <1>3. QED
    BY <1>1, <1>2 DEF ChatUpTo, RoomUpTo, MineUpTo, LobbyUpTo

LEMMA ChatServerStep ==
    ASSUME OrderInv, ChatInv, Undisturbed
    PROVE  ChatInv'
  <1> SUFFICES ASSUME NEW p \in Watchers
               PROVE  ReplyChat(p)' /\ ClientChat(p)'
    BY DEF ChatInv
  <1>1. /\ UNCHANGED <<instance, client, reply>>
        /\ \A c \in 0..Len(sent) :
              ChatUpTo(c)' = ChatUpTo(c) /\ MineUpTo(p, c)' = MineUpTo(p, c)
    BY DEF Undisturbed, PastKept
  <1>2. ReplyChat(p) /\ ClientChat(p)
    BY DEF ChatInv
  <1>3. ReplyChat(p)'
    <2> SUFFICES ASSUME reply[p] # None, reply[p].instance = instance
                 PROVE  ReplyChat(p)'
      BY <1>1 DEF ReplyChat
    <2> DEFINE s == reply[p].sequence
    <2>1. s \in 0..Len(sent)
      BY SeenFacts
    <2>2. ChatUpTo(s)' = ChatUpTo(s) /\ MineUpTo(p, s)' = MineUpTo(p, s)
      BY <1>1, <2>1 DEF ChatUpTo, MineUpTo
    <2>3. QED
      BY <1>1, <1>2, <2>2 DEF ReplyChat, PartComplete, LeftOut
  <1>4. ClientChat(p)'
    <2> SUFFICES ASSUME client[p].instance = instance
                 PROVE  ClientChat(p)'
      BY <1>1 DEF ClientChat
    <2> DEFINE s == client[p].cursor
    <2>1. s \in 0..Len(sent)
      BY SeenFacts
    <2>2. ChatUpTo(s)' = ChatUpTo(s) /\ MineUpTo(p, s)' = MineUpTo(p, s)
      BY <1>1, <2>1 DEF ChatUpTo, MineUpTo
    <2>3. QED
      BY <1>1, <1>2, <2>2 DEF ClientChat, ListComplete
  <1>5. QED
    BY <1>3, <1>4

LEMMA ChatSnapshot ==
    ASSUME OrderInv, ChatInv, NEW p \in Watchers, Snapshot(p)
    PROVE  ReplyChat(p)' /\ ClientChat(p)'
  <1> DEFINE s == Len(sent)
             all == ChatUpTo(s)
             mine == MineUpTo(p, s)
             since == client[p].cursor
             wanted == {n \in 1..Len(sent) : n > since /\ Visible(p, n)}
             part == VisibleMessages(p, since)
  <1>1. /\ client' = client /\ UNCHANGED <<instance, sent>> /\ PastKept
        /\ reply'[p].sequence = s /\ reply'[p].chat = part
    BY SnapshotFacts, ClientFrame
  <1>2. /\ messages \in Seq(Nat) /\ s \in Nat /\ DequeSane(messages, all)
    BY DequeNumbers DEF OrderInv, ServerInv
  <1>3. IsFiniteSet(mine) /\ mine \subseteq all
    BY <1>2, UpToFacts
  <1>4. all \cap wanted \subseteq mine
    BY DEF MineUpTo
  <1>5. \A n \in mine : n > since => n \in wanted
    BY DEF MineUpTo, ChatUpTo
  <1>6. part = Newest(Window, Selected(messages, wanted))
    BY DEF VisibleMessages
  <1> HIDE DEF all, mine, wanted, part, since
  <1>7. PartComplete(part, since, all, mine)
    BY <1>2, <1>3, <1>4, <1>5, <1>6, SnapshotComplete
  <1>8. s \in 0..Len(sent)
    BY <1>2
  <1>9. all' = all /\ mine' = mine
    BY <1>1, <1>8 DEF PastKept, all, mine, ChatUpTo, MineUpTo, IsChat, Visible
  <1>10. ChatUpTo(reply[p].sequence)' = all /\ MineUpTo(p, reply[p].sequence)' = mine
    BY <1>1, <1>9 DEF all, mine, ChatUpTo, MineUpTo
  <1>11. ReplyChat(p)'
    BY <1>1, <1>7, <1>10 DEF ReplyChat, PartComplete, LeftOut, since
  <1>12. ClientChat(p)'
    <2>1. ClientChat(p)
      BY DEF ChatInv
    <2> SUFFICES ASSUME client[p].instance = instance
                 PROVE  ClientChat(p)'
      BY <1>1 DEF ClientChat
    <2> DEFINE c == client[p].cursor
    <2>2. ChatUpTo(c)' = ChatUpTo(c) /\ MineUpTo(p, c)' = MineUpTo(p, c)
      BY <1>1 DEF ChatUpTo, MineUpTo, IsChat, Visible
    <2>3. QED
      BY <1>1, <2>1, <2>2 DEF ClientChat, ListComplete
  <1>13. QED
    BY <1>11, <1>12

LEMMA ChatQuiet ==
    ASSUME OrderInv, ChatInv, NEW p \in Watchers,
           NoticeRestart(p) \/ Lose(p) \/ Launch(p)
    PROVE  ReplyChat(p)' /\ ClientChat(p)'
  <1>1. UNCHANGED <<instance, sent>>
    BY ClientFrame DEF Receive
  <1>2. reply'[p] = None
    BY QuietFacts
  <1>3. ReplyChat(p)'
    BY <1>2 DEF ReplyChat
  <1>4. ClientChat(p)'
    <2>1. CASE client'[p].instance = None
      BY <1>1, <2>1, SeenFacts DEF ClientChat
    <2>2. CASE client'[p].cursor = 0 /\ client'[p].list = << >>
      <3>1. ListComplete(<< >>, 0, ChatUpTo(client[p].cursor)', {})
        BY EmptyComplete
      <3>2. MineUpTo(p, client[p].cursor)' = {}
        BY <2>2 DEF MineUpTo, ChatUpTo
      <3>3. QED
        BY <2>2, <3>1, <3>2 DEF ClientChat, ListComplete
    <2>3. CASE /\ client'[p].instance = client[p].instance
               /\ client'[p].cursor = client[p].cursor
               /\ client'[p].list = client[p].list
      <3>1. ClientChat(p)
        BY DEF ChatInv
      <3>2. /\ ChatUpTo(client[p].cursor)' = ChatUpTo(client[p].cursor)
            /\ MineUpTo(p, client[p].cursor)' = MineUpTo(p, client[p].cursor)
        BY <1>1, <2>3 DEF ChatUpTo, MineUpTo, IsChat, Visible
      <3>3. QED
        BY <1>1, <2>3, <3>1, <3>2 DEF ClientChat, ListComplete
    <2>4. QED
      BY <2>1, <2>2, <2>3, QuietFacts
  <1>5. QED
    BY <1>3, <1>4

LEMMA ChatShow ==
    ASSUME OrderInv, ChatInv, NEW p \in Watchers, Show(p)
    PROVE  ReplyChat(p)' /\ ClientChat(p)'
  <1> DEFINE r == reply[p]
             c == client[p]
             s == r.sequence
             all == ChatUpTo(s)
             mine == MineUpTo(p, s)
  <1>1. /\ r # None /\ reply'[p] = None
        /\ c.step = "refetching" \/ c.instance \in {None, r.instance}
        /\ client'[p].instance = r.instance /\ client'[p].cursor = s
        /\ client'[p].list = Shown(c.list, r.instance, r.chat)
    BY ShowFacts
  <1>2. UNCHANGED <<instance, sent>>
    BY ClientFrame DEF Receive
  <1>3. ReplyChat(p)'
    BY <1>1 DEF ReplyChat
  <1>4. ASSUME r.instance = instance
        PROVE  ListComplete(Shown(c.list, r.instance, r.chat), 0, all, mine)
    <2>1. PartComplete(r.chat, c.cursor, all, mine)
      BY <1>1, <1>4 DEF ChatInv, ReplyChat
    <2>2. /\ s \in Nat /\ c.cursor \in Nat /\ c.cursor <= s
          /\ \/ c.instance = r.instance
             \/ c.cursor = 0 /\ c.list = << >>
      BY <1>1, SeenFacts, TakenFacts
    <2>3. /\ IsFiniteSet(mine) /\ mine \subseteq all /\ IsFiniteSet(all)
          /\ all \subseteq 1..s
      BY <2>2, UpToFacts
    <2>4. /\ ChatUpTo(c.cursor) \subseteq all
          /\ MineUpTo(p, c.cursor) \subseteq mine
          /\ \A n \in mine : n <= c.cursor => n \in MineUpTo(p, c.cursor)
      BY <2>2, UpToGrows
    <2>5. NumbersOf(<< >>) = {}
      BY DEF NumbersOf
    <2>6. c.instance = r.instance =>
             ListComplete(c.list, 0, ChatUpTo(c.cursor), MineUpTo(p, c.cursor))
      BY <1>4 DEF ChatInv, ClientChat
    <2>7. NumbersOf(c.list) \subseteq mine
      BY <2>2, <2>4, <2>5, <2>6 DEF ListComplete
    <2>8. ASSUME NEW n \in mine \ NumbersOf(c.list), n > 0, n <= c.cursor
          PROVE  PushedOut(n, all, mine)
      <3>1. c.instance = r.instance
        BY <2>2, <2>3, <2>8
      <3>2. PushedOut(n, ChatUpTo(c.cursor), MineUpTo(p, c.cursor))
        BY <2>4, <2>6, <2>8, <3>1 DEF ListComplete
      <3>3. QED
        BY <2>3, <2>4, <3>2, PushedOutGrows
    <2>9. c.list \in {c.list, c.room, << >>} /\ r.chat \in {r.chat, r.room}
          /\ mine \subseteq Nat
      BY <2>3
    <2> HIDE DEF all, mine
    <2>10. QED
      BY <1>1, <2>1, <2>3, <2>7, <2>8, <2>9, ShowComplete
  <1>5. ClientChat(p)'
    <2> SUFFICES ASSUME client'[p].instance = instance'
                 PROVE  ClientChat(p)'
      BY DEF ClientChat
    <2>1. r.instance = instance
      BY <1>1, <1>2
    <2>2. ListComplete(Shown(c.list, r.instance, r.chat), 0, all, mine)
      BY <1>4, <2>1
    <2>3. ChatUpTo(client[p].cursor)' = all /\ MineUpTo(p, client[p].cursor)' = mine
      BY <1>1, <1>2 DEF ChatUpTo, MineUpTo, IsChat, Visible
    <2>4. QED
      BY <1>1, <2>2, <2>3 DEF ClientChat, ListComplete
  <1>6. QED
    BY <1>3, <1>5

\* A client that another client's step leaves alone.
LEMMA ChatOthers ==
    ASSUME OrderInv, ChatInv, NEW q \in Watchers, UNCHANGED <<instance, sent>>,
           client'[q] = client[q], reply'[q] = reply[q]
    PROVE  ReplyChat(q)' /\ ClientChat(q)'
  <1>1. ReplyChat(q) /\ ClientChat(q)
    BY DEF ChatInv
  <1>2. /\ ChatUpTo(client[q].cursor)' = ChatUpTo(client[q].cursor)
        /\ MineUpTo(q, client[q].cursor)' = MineUpTo(q, client[q].cursor)
        /\ ChatUpTo(reply[q].sequence)' = ChatUpTo(reply[q].sequence)
        /\ MineUpTo(q, reply[q].sequence)' = MineUpTo(q, reply[q].sequence)
    BY DEF ChatUpTo, MineUpTo, IsChat, Visible
  <1>3. QED
    BY <1>1, <1>2 DEF ReplyChat, ClientChat, PartComplete, ListComplete, LeftOut

LEMMA ChatStep ==
    ASSUME OrderInv, ChatInv, [Next]_vars
    PROVE  ChatInv'
  <1>1. CASE ServerStep
    BY <1>1, ServerStepUndisturbed, ChatServerStep DEF OrderInv
  <1>2. CASE Restart
    BY <1>2, RestartFacts DEF ChatInv, ReplyChat, ClientChat
  <1>3. ASSUME NEW p \in Watchers,
               Snapshot(p) \/ Receive(p) \/ Lose(p) \/ Launch(p)
        PROVE  ChatInv'
    <2>1. ReplyChat(p)' /\ ClientChat(p)'
      BY <1>3, ChatSnapshot, ChatQuiet, ChatShow DEF Receive
    <2>2. /\ UNCHANGED <<instance, sent>>
          /\ \A q \in Watchers :
                q # p => client'[q] = client[q] /\ reply'[q] = reply[q]
      BY <1>3, ClientFrame
    <2>3. ASSUME NEW q \in Watchers, q # p
          PROVE  ReplyChat(q)' /\ ClientChat(q)'
      BY <2>2, <2>3, ChatOthers
    <2>4. QED
      BY <2>1, <2>3 DEF ChatInv
  <1>4. QED
    BY <1>1, <1>2, <1>3, NextCases

LEMMA InitChat ==
    ASSUME Init
    PROVE  ChatInv
  <1>1. instance # None
    BY NoneAssumption DEF Init
  <1>2. QED
    BY <1>1 DEF Init, Fresh, ChatInv, ReplyChat, ClientChat

(***************************************************************************)
(* Of the public and private messages for a player, a reply leaves out and *)
(* a client drops only those that the deque, the reply or the list had no  *)
(* room for.                                                               *)
(***************************************************************************)
THEOREM ChatInductive == Spec => [](OrderInv /\ ChatInv)
  <1>1. Init => OrderInv /\ ChatInv
    BY InitOrder, InitChat
  <1>2. OrderInv /\ ChatInv /\ [Next]_vars => OrderInv' /\ ChatInv'
    BY OrderStep, ChatStep
  <1>3. QED
    BY <1>1, <1>2, PTL DEF Spec

(***************************************************************************)
(* Refresh-CompanionState shows every message for its player that          *)
(* message_retention, the window of a reply and the length of the list     *)
(* leave room for, and private messages to sender and target only.         *)
(***************************************************************************)
THEOREM ChatCompleteHolds == Spec => []ChatComplete
  <1>1. OrderInv /\ ChatInv => ChatComplete
    <2> SUFFICES ASSUME OrderInv, ChatInv, NEW p \in Watchers,
                        client[p].instance = instance
                 PROVE  LET chat == {n \in 1..client[p].cursor : IsChat(n)}
                            mine == {n \in chat : Visible(p, n)}
                            list == NumbersOf(client[p].list)
                        IN  /\ list \subseteq mine
                            /\ \A n \in mine \ list : PushedOut(n, chat, mine)
      BY DEF ChatComplete
    <2> DEFINE c == client[p].cursor
    <2>1. ListComplete(client[p].list, 0, ChatUpTo(c), MineUpTo(p, c))
      BY DEF ChatInv, ClientChat
    <2>2. c \in Nat
      BY SeenFacts
    <2>3. \A n \in MineUpTo(p, c) : n > 0
      BY <2>2 DEF MineUpTo, ChatUpTo
    <2>4. /\ NumbersOf(client[p].list) \subseteq MineUpTo(p, c)
          /\ \A n \in MineUpTo(p, c) \ NumbersOf(client[p].list) :
                PushedOut(n, ChatUpTo(c), MineUpTo(p, c))
      BY <2>1, <2>3 DEF ListComplete
    <2>5. QED
      BY <2>4 DEF MineUpTo, ChatUpTo
  <1>2. QED
    BY <1>1, ChatInductive, PTL

-----------------------------------------------------------------------------
(***************************************************************************)
(* RoomInv is inductive.                                                   *)
(***************************************************************************)
LEMMA JoinedFacts ==
    ASSUME OrderInv, NEW p \in Watchers
    PROVE  joined[p] \in 0..Len(sent) /\ Len(sent) \in Nat
  <1>1. joined[p] \in Nat /\ joined[p] <= Len(sent)
    BY DEF OrderInv, TypeOK, ServerInv
  <1>2. Len(sent) \in Nat
    BY DequeNumbers DEF OrderInv
  <1>3. QED
    BY <1>1, <1>2

LEMMA RoomServerStep ==
    ASSUME OrderInv, RoomInv, Undisturbed
    PROVE  RoomInv'
  <1> SUFFICES ASSUME NEW p \in Watchers
               PROVE  ReplyRoom(p)' /\ ClientRoom(p)'
    BY DEF RoomInv
  <1>1. /\ UNCHANGED <<instance, client, reply>>
        /\ \A c \in 0..Len(sent), l \in Lobbies \cup {None} :
              RoomUpTo(c)' = RoomUpTo(c) /\ LobbyUpTo(l, c)' = LobbyUpTo(l, c)
        /\ \/ playerLobby'[p] \in {None, playerLobby[p]} /\ joined'[p] = joined[p]
           \/ joined'[p] = Len(sent)
    BY DEF Undisturbed, PastKept, EnteredLate
  <1>2. ReplyRoom(p) /\ ClientRoom(p)
    BY DEF RoomInv
  <1>3. Len(sent) \in Nat
    BY JoinedFacts
  <1>4. ReplyRoom(p)'
    <2> SUFFICES ASSUME reply[p] # None, reply[p].instance = instance
                 PROVE  ReplyRoom(p)'
      BY <1>1 DEF ReplyRoom
    <2> DEFINE s == reply[p].sequence
               l == reply[p].lobby
    <2>1. s \in 0..Len(sent) /\ l \in Lobbies \cup {None}
      BY SeenFacts
    <2>2. RoomUpTo(s)' = RoomUpTo(s) /\ LobbyUpTo(l, s)' = LobbyUpTo(l, s)
      <3>1. ASSUME NEW i, NEW k, i = s, k = l
            PROVE  RoomUpTo(s)' = RoomUpTo(s) /\ LobbyUpTo(l, s)' = LobbyUpTo(l, s)
        <4>1. RoomUpTo(i)' = RoomUpTo(i) /\ LobbyUpTo(k, i)' = LobbyUpTo(k, i)
          BY <1>1, <2>1, <3>1
        <4>2. i = reply'[p].sequence /\ k = reply'[p].lobby
          BY <1>1, <3>1
        <4>3. QED
          BY <3>1, <4>1, <4>2 DEF RoomUpTo, LobbyUpTo
      <3>2. QED
        BY <3>1
    <2>3. /\ PartComplete(reply[p].room, client[p].cursor, RoomUpTo(s),
                          LobbyUpTo(l, s))
          /\ playerLobby[p] \notin {None, l} => joined[p] >= s
      BY <1>2 DEF ReplyRoom
    <2>4. playerLobby'[p] \notin {None, l} => joined'[p] >= s
      <3>1. Len(sent) >= s
        BY <1>3, <2>1
      <3>2. QED
        BY <1>1, <2>3, <3>1
    <2>5. QED
      BY <1>1, <2>2, <2>3, <2>4 DEF ReplyRoom, PartComplete, LeftOut
  <1>5. ClientRoom(p)'
    <2> SUFFICES ASSUME client[p].instance = instance
                 PROVE  ClientRoom(p)'
      BY <1>1 DEF ClientRoom
    <2> DEFINE c == client[p].cursor
               l == client[p].lobby
               room == client[p].room
    <2>1. c \in 0..Len(sent) /\ l \in Lobbies \cup {None} /\ c <= Len(sent)
      BY SeenFacts
    <2>2. RoomUpTo(c)' = RoomUpTo(c) /\ LobbyUpTo(l, c)' = LobbyUpTo(l, c)
      <3>1. ASSUME NEW i, NEW k, i = c, k = l
            PROVE  RoomUpTo(c)' = RoomUpTo(c) /\ LobbyUpTo(l, c)' = LobbyUpTo(l, c)
        <4>1. RoomUpTo(i)' = RoomUpTo(i) /\ LobbyUpTo(k, i)' = LobbyUpTo(k, i)
          BY <1>1, <2>1, <3>1
        <4>2. i = client'[p].cursor /\ k = client'[p].lobby
          BY <1>1, <3>1
        <4>3. QED
          BY <3>1, <4>1, <4>2 DEF RoomUpTo, LobbyUpTo
      <3>2. QED
        BY <3>1
    <2>3. /\ NumbersOf(room) \subseteq LobbyUpTo(l, c)
          /\ l # None /\ l = playerLobby[p] =>
                ListComplete(room, joined[p], RoomUpTo(c), LobbyUpTo(l, c))
          /\ playerLobby[p] \notin {None, l} => joined[p] >= c
      BY <1>2 DEF ClientRoom
    <2>4. playerLobby'[p] \notin {None, l} => joined'[p] >= c
      <3>1. Len(sent) >= c
        BY <1>3, <2>1
      <3>2. QED
        BY <1>1, <2>3, <3>1
    <2>5. ASSUME l # None, l = playerLobby'[p]
          PROVE  ListComplete(room, joined'[p], RoomUpTo(c), LobbyUpTo(l, c))
      <3>1. CASE joined'[p] = Len(sent)
        <4>1. \A n \in LobbyUpTo(l, c) : ~(n > Len(sent))
          BY <1>3, <2>1 DEF LobbyUpTo, RoomUpTo
        <4>2. QED
          BY <2>3, <3>1, <4>1 DEF ListComplete
      <3>2. CASE /\ playerLobby'[p] \in {None, playerLobby[p]}
                 /\ joined'[p] = joined[p]
        BY <2>3, <2>5, <3>2
      <3>3. QED
        BY <1>1, <3>1, <3>2
    <2>6. QED
      BY <1>1, <2>2, <2>3, <2>4, <2>5 DEF ClientRoom, ListComplete
  <1>6. QED
    BY <1>4, <1>5

LEMMA RoomSnapshot ==
    ASSUME OrderInv, RoomInv, NEW p \in Watchers, Snapshot(p)
    PROVE  ReplyRoom(p)' /\ ClientRoom(p)'
  <1> DEFINE s == Len(sent)
             l == playerLobby[p]
             all == RoomUpTo(s)
             mine == LobbyUpTo(l, s)
             since == client[p].cursor
             wanted == {n \in 1..Len(sent) : /\ n > since
                                             /\ sent[n].target = playerLobby[p]}
             part == VisibleLobbyMessages(p, since)
  <1>1. /\ client' = client /\ UNCHANGED <<instance, playerLobby, sent, joined>>
        /\ reply'[p].sequence = s /\ reply'[p].room = part
        /\ reply'[p].lobby = l
    BY SnapshotFacts, ClientFrame
  <1>2. /\ lobbyMessages \in Seq(Nat) /\ s \in Nat
        /\ DequeSane(lobbyMessages, all)
    BY DequeNumbers DEF OrderInv, ServerInv
  <1>3. IsFiniteSet(mine) /\ mine \subseteq all
    BY <1>2, UpToFacts
  <1>4. all \cap wanted \subseteq mine
    BY DEF LobbyUpTo
  <1>5. \A n \in mine : n > since => n \in wanted
    BY DEF LobbyUpTo, RoomUpTo
  <1>6. part = Newest(Window, Selected(lobbyMessages, wanted))
    BY DEF VisibleLobbyMessages
  <1> HIDE DEF all, mine, wanted, part, since
  <1>7. PartComplete(part, since, all, mine)
    BY <1>2, <1>3, <1>4, <1>5, <1>6, SnapshotComplete
  <1>8. /\ RoomUpTo(reply[p].sequence)' = all
        /\ LobbyUpTo(reply[p].lobby, reply[p].sequence)' = mine
    BY <1>1 DEF all, mine, RoomUpTo, LobbyUpTo, IsChat
  <1>9. ReplyRoom(p)'
    BY <1>1, <1>7, <1>8 DEF ReplyRoom, PartComplete, LeftOut, since
  <1>10. ClientRoom(p)'
    <2>1. ClientRoom(p)
      BY DEF RoomInv
    <2> DEFINE c == client[p].cursor
               k == client[p].lobby
    <2>2. RoomUpTo(c)' = RoomUpTo(c) /\ LobbyUpTo(k, c)' = LobbyUpTo(k, c)
      BY <1>1 DEF RoomUpTo, LobbyUpTo, IsChat
    <2>3. QED
      BY <1>1, <2>1, <2>2 DEF ClientRoom, ListComplete
  <1>11. QED
    BY <1>9, <1>10

LEMMA RoomQuiet ==
    ASSUME OrderInv, RoomInv, NEW p \in Watchers,
           NoticeRestart(p) \/ Lose(p) \/ Launch(p)
    PROVE  ReplyRoom(p)' /\ ClientRoom(p)'
  <1>1. UNCHANGED <<instance, playerLobby, sent, joined>>
    BY ClientFrame DEF Receive
  <1>2. reply'[p] = None
    BY QuietFacts
  <1>3. ReplyRoom(p)'
    BY <1>2 DEF ReplyRoom
  <1>4. ClientRoom(p)'
    <2>1. CASE client'[p].instance = None
      BY <1>1, <2>1, SeenFacts DEF ClientRoom
    <2>2. CASE client'[p].cursor = 0 /\ client'[p].room = << >>
      <3>1. ListComplete(<< >>, joined'[p], RoomUpTo(client[p].cursor)', {})
        BY EmptyComplete
      <3>2. LobbyUpTo(client[p].lobby, client[p].cursor)' = {}
        BY <2>2 DEF LobbyUpTo, RoomUpTo
      <3>3. joined'[p] >= 0
        BY <1>1, JoinedFacts
      <3>4. QED
        BY <2>2, <3>1, <3>2, <3>3 DEF ClientRoom, ListComplete
    <2>3. CASE /\ client'[p].instance = client[p].instance
               /\ client'[p].cursor = client[p].cursor
               /\ client'[p].lobby = client[p].lobby
               /\ client'[p].room = client[p].room
      <3>1. ClientRoom(p)
        BY DEF RoomInv
      <3>2. /\ RoomUpTo(client[p].cursor)' = RoomUpTo(client[p].cursor)
            /\ LobbyUpTo(client[p].lobby, client[p].cursor)'
                  = LobbyUpTo(client[p].lobby, client[p].cursor)
        BY <1>1, <2>3 DEF RoomUpTo, LobbyUpTo, IsChat
      <3>3. QED
        BY <1>1, <2>3, <3>1, <3>2 DEF ClientRoom, ListComplete
    <2>4. QED
      BY <2>1, <2>2, <2>3, QuietFacts
  <1>5. QED
    BY <1>3, <1>4

\* The messages of a lobby that stay on the screen when the reply is shown,
\* and why those not on it are gone.
LEMMA RoomBefore ==
    ASSUME OrderInv, RoomInv, NEW p \in Watchers, reply[p] # None,
           client[p].step = "refetching"
              \/ client[p].instance \in {None, reply[p].instance},
           reply[p].instance = instance
    PROVE  LET l    == reply[p].lobby
               s    == reply[p].sequence
               room == RoomOf(client[p], l)
               mine == LobbyUpTo(l, s)
           IN  /\ NumbersOf(room) \subseteq mine
               /\ l # None /\ l = playerLobby[p] =>
                     \A n \in mine \ NumbersOf(room) :
                        n > joined[p] /\ n <= client[p].cursor
                           => PushedOut(n, RoomUpTo(s), mine)
  <1> DEFINE c == client[p]
             l == reply[p].lobby
             s == reply[p].sequence
             room == RoomOf(c, l)
             mine == LobbyUpTo(l, s)
  <1>1. /\ s \in Nat /\ c.cursor \in Nat /\ c.cursor <= s
        /\ \/ c.instance = instance
           \/ c.cursor = 0 /\ c.room = << >>
    BY SeenFacts, TakenFacts
  <1>2. /\ IsFiniteSet(mine) /\ mine \subseteq RoomUpTo(s)
        /\ IsFiniteSet(RoomUpTo(s)) /\ RoomUpTo(s) \subseteq 1..s
    BY <1>1, UpToFacts
  <1>3. /\ RoomUpTo(c.cursor) \subseteq RoomUpTo(s)
        /\ LobbyUpTo(l, c.cursor) \subseteq mine
        /\ \A n \in mine : n <= c.cursor => n \in LobbyUpTo(l, c.cursor)
    <2>1. c.cursor \in Nat /\ s \in Nat /\ c.cursor <= s
      BY <1>1
    <2> HIDE DEF c, s, l
    <2>2. QED
      BY <2>1, UpToGrows DEF mine
  <1>4. NumbersOf(<< >>) = {}
    BY DEF NumbersOf
  <1>5. ClientRoom(p)
    BY DEF RoomInv
  <1>6. CASE c.instance # instance
    <2>1. c.cursor = 0 /\ room = << >>
      BY <1>1, <1>6 DEF RoomOf
    <2>2. \A n \in mine : ~(n <= c.cursor)
      BY <1>1, <1>2, <2>1
    <2>3. QED
      BY <1>4, <2>1, <2>2
  <1>7. CASE c.instance = instance /\ l = c.lobby
    <2>1. /\ room = c.room
          /\ NumbersOf(c.room) \subseteq LobbyUpTo(l, c.cursor)
          /\ l # None /\ l = playerLobby[p] =>
                ListComplete(c.room, joined[p], RoomUpTo(c.cursor),
                             LobbyUpTo(l, c.cursor))
      BY <1>5, <1>7 DEF ClientRoom, RoomOf
    <2>2. NumbersOf(room) \subseteq mine
      BY <1>3, <2>1
    <2>3. ASSUME l # None, l = playerLobby[p],
                 NEW n \in mine \ NumbersOf(room), n > joined[p], n <= c.cursor
          PROVE  PushedOut(n, RoomUpTo(s), mine)
      <3>1. PushedOut(n, RoomUpTo(c.cursor), LobbyUpTo(l, c.cursor))
        BY <1>3, <2>1, <2>3 DEF ListComplete
      <3>2. QED
        BY <1>2, <1>3, <3>1, PushedOutGrows
    <2>4. QED
      BY <2>2, <2>3
  <1>8. CASE c.instance = instance /\ l # c.lobby
    <2>1. room = << >>
      BY <1>8 DEF RoomOf
    <2>2. ASSUME l # None, l = playerLobby[p], NEW n \in mine, n > joined[p],
                 n <= c.cursor
          PROVE  FALSE
      <3>1. joined[p] >= c.cursor
        BY <1>5, <1>8, <2>2 DEF ClientRoom
      <3>2. joined[p] \in Nat /\ n \in Nat
        BY <1>2, JoinedFacts
      <3>3. QED
        BY <1>1, <2>2, <3>1, <3>2
    <2>3. QED
      BY <1>4, <2>1, <2>2
  <1>9. QED
    BY <1>6, <1>7, <1>8

LEMMA RoomShow ==
    ASSUME OrderInv, RoomInv, NEW p \in Watchers, Show(p)
    PROVE  ReplyRoom(p)' /\ ClientRoom(p)'
  <1> DEFINE r == reply[p]
             c == client[p]
             s == r.sequence
             l == r.lobby
             all == RoomUpTo(s)
             mine == LobbyUpTo(l, s)
             before == RoomOf(c, l)
             room == Shown(before, r.instance, r.room)
  <1>1. /\ r # None /\ reply'[p] = None
        /\ c.step = "refetching" \/ c.instance \in {None, r.instance}
        /\ client'[p].instance = r.instance /\ client'[p].cursor = s
        /\ client'[p].lobby = l /\ client'[p].room = room
    BY ShowFacts
  <1>2. UNCHANGED <<instance, playerLobby, sent, joined>>
    BY ClientFrame DEF Receive
  <1>3. ReplyRoom(p)'
    BY <1>1 DEF ReplyRoom
  <1>4. s \in Nat
    BY <1>1, SeenFacts
  <1>5. IsFiniteSet(mine) /\ mine \subseteq Nat
    <2>1. mine \subseteq all /\ all \subseteq 1..s /\ IsFiniteSet(mine)
      BY <1>4, UpToFacts
    <2>2. QED
      BY <2>1
  <1>6. before \in {c.list, c.room, << >>} /\ r.room \in {r.chat, r.room}
    BY DEF RoomOf
  <1>7. ASSUME r.instance = instance
        PROVE  /\ NumbersOf(room) \subseteq mine
               /\ l # None /\ l = playerLobby[p] =>
                     ListComplete(room, joined[p], all, mine)
               /\ playerLobby[p] \notin {None, l} => joined[p] >= s
    <2>1. /\ PartComplete(r.room, c.cursor, all, mine)
          /\ playerLobby[p] \notin {None, l} => joined[p] >= s
      BY <1>1, <1>7 DEF RoomInv, ReplyRoom
    <2>2. /\ NumbersOf(before) \subseteq mine
          /\ l # None /\ l = playerLobby[p] =>
                \A n \in mine \ NumbersOf(before) :
                   n > joined[p] /\ n <= c.cursor => PushedOut(n, all, mine)
      BY <1>1, <1>7, RoomBefore
    <2>3. NumbersOf(room) \subseteq mine
      <3>1. NumbersOf(room) \subseteq NumbersOf(before) \cup Elements(r.room)
        BY <1>1, <1>6, ShownList
      <3>2. QED
        BY <2>1, <2>2, <3>1 DEF PartComplete
    <2> HIDE DEF all, mine, before
    <2>4. ASSUME l # None, l = playerLobby[p]
          PROVE  ListComplete(room, joined[p], all, mine)
      <3>1. \A n \in mine \ NumbersOf(before) :
               n > joined[p] /\ n <= c.cursor => PushedOut(n, all, mine)
        BY <2>2, <2>4
      <3>2. QED
        BY <1>1, <1>5, <1>6, <2>1, <2>2, <3>1, ShowComplete
    <2>5. QED
      BY <2>1, <2>3, <2>4
  <1>8. ClientRoom(p)'
    <2> SUFFICES ASSUME client'[p].instance = instance'
                 PROVE  ClientRoom(p)'
      BY DEF ClientRoom
    <2>1. r.instance = instance
      BY <1>1, <1>2
    <2>2. /\ NumbersOf(room) \subseteq mine
          /\ l # None /\ l = playerLobby[p] =>
                ListComplete(room, joined[p], all, mine)
          /\ playerLobby[p] \notin {None, l} => joined[p] >= s
      BY <1>7, <2>1
    <2>3. /\ RoomUpTo(client[p].cursor)' = all
          /\ LobbyUpTo(client[p].lobby, client[p].cursor)' = mine
      BY <1>1, <1>2 DEF RoomUpTo, LobbyUpTo, IsChat
    <2> HIDE DEF all, mine, room
    <2>4. QED
      BY <1>1, <1>2, <2>2, <2>3 DEF ClientRoom, ListComplete
  <1>9. QED
    BY <1>3, <1>8

LEMMA RoomOthers ==
    ASSUME OrderInv, RoomInv, NEW q \in Watchers,
           UNCHANGED <<instance, playerLobby, sent, joined>>,
           client'[q] = client[q], reply'[q] = reply[q]
    PROVE  ReplyRoom(q)' /\ ClientRoom(q)'
  <1>1. ReplyRoom(q) /\ ClientRoom(q)
    BY DEF RoomInv
  <1>2. /\ RoomUpTo(client[q].cursor)' = RoomUpTo(client[q].cursor)
        /\ LobbyUpTo(client[q].lobby, client[q].cursor)'
              = LobbyUpTo(client[q].lobby, client[q].cursor)
        /\ RoomUpTo(reply[q].sequence)' = RoomUpTo(reply[q].sequence)
        /\ LobbyUpTo(reply[q].lobby, reply[q].sequence)'
              = LobbyUpTo(reply[q].lobby, reply[q].sequence)
    BY DEF RoomUpTo, LobbyUpTo, IsChat
  <1>3. QED
    BY <1>1, <1>2 DEF ReplyRoom, ClientRoom, PartComplete, ListComplete, LeftOut

LEMMA RoomStep ==
    ASSUME OrderInv, RoomInv, [Next]_vars
    PROVE  RoomInv'
  <1>1. CASE ServerStep
    BY <1>1, ServerStepUndisturbed, RoomServerStep DEF OrderInv
  <1>2. CASE Restart
    BY <1>2, RestartFacts DEF RoomInv, ReplyRoom, ClientRoom
  <1>3. ASSUME NEW p \in Watchers,
               Snapshot(p) \/ Receive(p) \/ Lose(p) \/ Launch(p)
        PROVE  RoomInv'
    <2>1. ReplyRoom(p)' /\ ClientRoom(p)'
      BY <1>3, RoomSnapshot, RoomQuiet, RoomShow DEF Receive
    <2>2. /\ UNCHANGED <<instance, playerLobby, sent, joined>>
          /\ \A q \in Watchers :
                q # p => client'[q] = client[q] /\ reply'[q] = reply[q]
      BY <1>3, ClientFrame
    <2>3. ASSUME NEW q \in Watchers, q # p
          PROVE  ReplyRoom(q)' /\ ClientRoom(q)'
      BY <2>2, <2>3, RoomOthers
    <2>4. QED
      BY <2>1, <2>3 DEF RoomInv
  <1>4. QED
    BY <1>1, <1>2, <1>3, NextCases

LEMMA InitRoom ==
    ASSUME Init
    PROVE  RoomInv
  <1>1. instance # None
    BY NoneAssumption DEF Init
  <1>2. QED
    BY <1>1 DEF Init, Fresh, RoomInv, ReplyRoom, ClientRoom

(***************************************************************************)
(* Of the messages of a player's lobby, a reply leaves out and a client    *)
(* drops only those there was no room for; and whatever was said before    *)
(* the player entered the lobby it is in.                                  *)
(***************************************************************************)
THEOREM RoomInductive == Spec => [](OrderInv /\ RoomInv)
  <1>1. Init => OrderInv /\ RoomInv
    BY InitOrder, InitRoom
  <1>2. OrderInv /\ RoomInv /\ [Next]_vars => OrderInv' /\ RoomInv'
    BY OrderStep, RoomStep
  <1>3. QED
    BY <1>1, <1>2, PTL DEF Spec

(***************************************************************************)
(* A client that shows the lobby its player is in has all its messages     *)
(* since the player entered that there was room for, and none of another   *)
(* lobby, though the player may have left and come back between two polls. *)
(***************************************************************************)
THEOREM RoomCompleteHolds == Spec => []RoomComplete
  <1>1. RoomInv => RoomComplete
    BY DEF RoomInv, ClientRoom, RoomComplete, ListComplete, RoomUpTo, LobbyUpTo
  <1>2. QED
    BY <1>1, RoomInductive, PTL
=============================================================================
