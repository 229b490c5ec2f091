-------------------------- MODULE PlayersFileProofs --------------------------
(***************************************************************************)
(* Theorems about PlayersFile, for every set of players, tokens, writers   *)
(* and inodes, with their proofs.                                          *)
(*                                                                         *)
(* The inductive invariant FileIInv says who may replace the file and with *)
(* what (SoleWriter, WriterOK), and how many files of one timestamp there  *)
(* can be (DraftOK, ClockOK, SignatureOK): a signature the server took and *)
(* a file of the same timestamp but of another inode are two of them, so   *)
(* that no third one brings the inode back under that timestamp.           *)
(***************************************************************************)
EXTENDS PlayersFile, FiniteSetTheorems, TLAPS

Locked(w) == writers[w].task \in Locking

SoleWriter == \A v, w \in Writers : Locked(v) /\ Locked(w) => v = w

\* A step of the registry.
Prepared(r) ==
    /\ r.base = file.entries
    /\ \/ r.token = None /\ file.entries[r.player] # None
       \/ /\ r.token \in Tokens /\ file.entries[r.player] = None
          /\ \A q \in Players : file.entries[q] # r.token

WriterOK(w) ==
    /\ writers[w].task # "idle" => writers[w].player \in Players
    /\ Locked(w) => Prepared(writers[w])

\* The new file of a writer, next to the one it replaces.
DraftOK(w) ==
    writers[w].draft # None =>
        /\ Locked(w)
        /\ writers[w].draft.inode # file.inode
        /\ file.mtime <= writers[w].draft.mtime
        /\ writers[w].draft.mtime <= clock
        /\ writers[w].draft.mtime = clock =>
              written >= (IF file.mtime = clock THEN 2 ELSE 1)
        /\ writers[w].draft.entries =
              [file.entries EXCEPT ![writers[w].player] = writers[w].token]

ClockOK ==
    /\ file.mtime <= clock
    /\ file.mtime = clock => written >= 1

\* A signature the server took, next to the file and the one to replace it.
SignatureOK(s) ==
    s # None =>
        /\ s.mtime <= file.mtime
        /\ s.mtime = clock /\ s.inode # file.inode => written >= 2
        /\ \A w \in Writers :
              writers[w].draft # None /\ writers[w].draft.mtime = s.mtime
                  => s.inode = file.inode

CacheOK ==
    cache.signature # None =>
        (cache.signature.mtime = file.mtime /\ cache.signature.inode = file.inode
            => cache.entries = file.entries)

FileIInv ==
    /\ FileTypeOK
    /\ SoleWriter
    /\ \A w \in Writers : WriterOK(w) /\ DraftOK(w)
    /\ ClockOK
    /\ SignatureOK(cache.signature)
    /\ SignatureOK(loading)
    /\ CacheOK

-----------------------------------------------------------------------------
(* Types *)

LEMMA NoEntriesType == NoEntries \in Entries
BY DEF NoEntries, Entries

LEMMA NoTaskType == NoTask \in Writer
BY NoEntriesType DEF NoTask, Writer, Tasks

LEMMA SignatureType ==
    ASSUME NEW f \in Files
    PROVE  /\ Signature(f) \in Signatures
           /\ Signature(f).inode = f.inode
           /\ Signature(f).mtime = f.mtime
           /\ Signature(f) # None
<1>1. f.entries \in Entries /\ f.inode \in Inodes /\ f.mtime \in Times
  BY DEF Files
<1>2. IsFiniteSet(Present(f.entries)) /\ Cardinality(Present(f.entries)) \in Nat
  BY PlayersAssumption, FS_Subset, FS_CardinalityType DEF Present
<1>3. Signature(f) \in Signatures
  BY <1>1, <1>2 DEF Signature, Signatures
<1> QED
  BY <1>3, NullAssumption DEF Signature

\* A writer goes to r, the others stay where they are.
LEMMA WriterMoves ==
    ASSUME FileTypeOK, NEW w \in Writers, NEW r \in Writer,
           writers' = [writers EXCEPT ![w] = r]
    PROVE  /\ writers' \in [Writers -> Writer]
           /\ writers'[w] = r
           /\ \A v \in Writers \ {w} : writers'[v] = writers[v]
BY DEF FileTypeOK

LEMMA WriterFields ==
    ASSUME FileTypeOK, NEW w \in Writers
    PROVE  /\ writers[w] \in Writer
           /\ writers[w].task \in Tasks
           /\ writers[w].player \in Players \cup {None}
           /\ writers[w].token \in Tokens \cup {None}
           /\ writers[w].base \in Entries
           /\ writers[w].draft \in Files \cup {None}
           /\ writers[w].draft # None =>
                 writers[w].draft.mtime \in Nat /\ writers[w].draft.inode \in Inodes
BY TimeAssumption DEF FileTypeOK, Writer, Files, Times

LEMMA FileFields ==
    ASSUME FileTypeOK
    PROVE  /\ file.mtime \in Nat /\ clock \in Nat /\ written \in Nat
           /\ file.inode \in Inodes /\ file.entries \in Entries
           /\ cache.signature # None => cache.signature.mtime \in Nat
           /\ loading # None => loading.mtime \in Nat
           /\ written <= 2
BY TimeAssumption, PerTickAssumption DEF FileTypeOK, Files, Times, Signatures

LEMMA InitInvariant == FileInit => FileIInv
<1> SUFFICES ASSUME FileInit PROVE FileIInv
  OBVIOUS
<1>1. /\ file \in Files /\ clock \in Times /\ written \in 0..MaxPerTick
      /\ file.mtime = 0 /\ clock = 0 /\ written = 1
  BY NoEntriesType, TimeAssumption, PerTickAssumption DEF FileInit, Files, Times
<1>2. /\ writers \in [Writers -> Writer]
      /\ \A w \in Writers : writers[w] = NoTask
  BY NoTaskType DEF FileInit
<1>3. /\ cache \in [entries : Entries, signature : Signatures \cup {None}]
      /\ cache.signature = None /\ loading = None
  BY NoEntriesType DEF FileInit
<1>4. FileTypeOK
  BY <1>1, <1>2, <1>3 DEF FileInit, FileTypeOK
<1>5. \A w \in Writers : ~Locked(w) /\ WriterOK(w) /\ DraftOK(w)
  BY <1>2 DEF NoTask, Locked, Locking, WriterOK, DraftOK
<1>6. SoleWriter
  BY <1>5 DEF SoleWriter
<1> QED
  BY <1>1, <1>3, <1>4, <1>5, <1>6 DEF FileIInv, ClockOK, SignatureOK, CacheOK

-----------------------------------------------------------------------------
(* The writers *)

\* A writer that takes the lock and reads the document keeps the invariant.
LEMMA BeginInvariant ==
    ASSUME FileIInv, drawn' \subseteq Tokens,
           NEW w \in Writers, ~Locked(w), NEW p \in Players,
           NEW t \in Tokens \cup {None}, NEW task \in Locking,
           Begin(w, task, p, t),
           \/ t = None /\ file.entries[p] # None
           \/ t \in Tokens /\ Unregistered(p, t)
    PROVE  FileIInv'
<1> DEFINE r == [task |-> task, player |-> p, token |-> t,
                 base |-> file.entries, draft |-> None]
<1>0. FileTypeOK
  BY DEF FileIInv
<1>1. r \in Writer
  BY <1>0, FileFields DEF Writer, Tasks, Locking
<1>2. /\ r.task = task /\ r.player = p /\ r.token = t
      /\ r.base = file.entries /\ r.draft = None
  OBVIOUS
<1>3. /\ writers' = [writers EXCEPT ![w] = r] /\ LockFree
      /\ file' = file /\ clock' = clock /\ written' = written
      /\ cache' = cache /\ loading' = loading
  BY DEF Begin
<1> HIDE DEF r
<1>4. /\ writers' \in [Writers -> Writer] /\ writers'[w] = r
      /\ \A v \in Writers \ {w} : writers'[v] = writers[v]
  BY <1>0, <1>1, <1>3, WriterMoves
<1>5. FileTypeOK'
  BY <1>0, <1>3, <1>4 DEF FileTypeOK
<1>6. \A v \in Writers : ~Locked(v)
  BY <1>3 DEF LockFree, Locked
<1>7. SoleWriter'
  BY <1>4, <1>6 DEF SoleWriter, Locked
<1>8. WriterOK(w)' /\ DraftOK(w)'
  <2>1. Prepared(writers[w])'
    BY <1>2, <1>3, <1>4 DEF Prepared, Unregistered
  <2> QED
    BY <1>2, <1>4, <2>1 DEF WriterOK, DraftOK, Locked
<1>9. ASSUME NEW v \in Writers \ {w} PROVE WriterOK(v)' /\ DraftOK(v)'
  BY <1>3, <1>4, <1>6, <1>9 DEF FileIInv, WriterOK, DraftOK, Locked
<1>10. ClockOK' /\ CacheOK'
  BY <1>3 DEF FileIInv, ClockOK, CacheOK
<1>11. SignatureOK(cache.signature)' /\ SignatureOK(loading)'
  BY <1>2, <1>3, <1>4 DEF FileIInv, SignatureOK
<1> QED
  BY <1>5, <1>7, <1>8, <1>9, <1>10, <1>11 DEF FileIInv

LEMMA BeginTasks ==
    ASSUME FileIInv, NEW w \in Writers, NEW p \in Players,
           \/ \E t \in Tokens : IssuePlayer(w, p, t) \/ EnsureRegistration(w, p, t)
           \/ RemovePlayer(w, p)
    PROVE  FileIInv' /\ file' = file
<1>1. Does(w, "idle") => ~Locked(w)
  BY DEF Does, Locked, Locking
<1>2. drawn \subseteq Tokens /\ None \notin Tokens
  BY NoneAssumption DEF FileIInv, FileTypeOK
<1>3. CASE \E t \in Tokens : IssuePlayer(w, p, t)
  <2>1. PICK t \in Tokens : IssuePlayer(w, p, t)
    BY <1>3
  <2>2. /\ Begin(w, "issue", p, t) /\ drawn' \subseteq Tokens
        /\ ~Locked(w) /\ Unregistered(p, t) /\ file' = file
    BY <1>1, <1>2, <2>1 DEF IssuePlayer, Begin
  <2> QED
    BY <2>2, BeginInvariant DEF Locking
<1>4. CASE \E t \in Tokens : EnsureRegistration(w, p, t)
  <2>1. PICK t \in Tokens : EnsureRegistration(w, p, t)
    BY <1>4
  <2>2. /\ Begin(w, "ensure", p, t) /\ drawn' \subseteq Tokens
        /\ ~Locked(w) /\ Unregistered(p, t) /\ file' = file
    BY <1>1, <1>2, <2>1 DEF EnsureRegistration, Begin
  <2> QED
    BY <2>2, BeginInvariant DEF Locking
<1>5. CASE RemovePlayer(w, p)
  <2>1. /\ Begin(w, "remove", p, None) /\ drawn' \subseteq Tokens
        /\ ~Locked(w) /\ file.entries[p] # None /\ file' = file
    BY <1>1, <1>2, <1>5 DEF RemovePlayer, Begin
  <2> QED
    BY <2>1, BeginInvariant DEF Locking
<1> QED
  BY <1>3, <1>4, <1>5

LEMMA TakeBackInvariant ==
    ASSUME FileIInv, NEW w \in Writers, TakeBack(w)
    PROVE  FileIInv' /\ file' = file
<1>1. writers[w].player \in Players /\ ~Locked(w)
  BY DEF TakeBack, Does, FileIInv, WriterOK, Locked, Locking
<1>2. /\ Begin(w, "remove", writers[w].player, None) /\ drawn' \subseteq Tokens
      /\ file.entries[writers[w].player] # None /\ file' = file
  BY DEF TakeBack, Begin, FileIInv, FileTypeOK
<1> QED
  BY <1>1, <1>2, BeginInvariant DEF Locking

\* The new file has another inode, and not the timestamp of a signature the
\* server took, unless that is the signature of the file it replaces: there
\* would be three files of that timestamp.
LEMMA WriteDraftInvariant ==
    ASSUME FileIInv, NEW w \in Writers, WriteDraft(w)
    PROVE  FileIInv' /\ file' = file
<1>0. FileTypeOK /\ SoleWriter /\ ClockOK
  BY DEF FileIInv
<1>1. PICK i \in Inodes \ {file.inode} :
         writers' = [writers EXCEPT ![w].draft =
                        [inode |-> i, mtime |-> clock,
                         entries |-> [writers[w].base EXCEPT
                                         ![writers[w].player] = writers[w].token]]]
  BY DEF WriteDraft
<1> DEFINE d == [inode |-> i, mtime |-> clock,
                 entries |-> [writers[w].base EXCEPT
                                 ![writers[w].player] = writers[w].token]]
           r == [writers[w] EXCEPT !.draft = d]
<1>2. /\ Locked(w) /\ writers[w].draft = None
      /\ written < MaxPerTick /\ written' = written + 1
      /\ UNCHANGED <<file, clock, drawn, cache, loading>>
      /\ writers' = [writers EXCEPT ![w] = r]
  BY <1>1 DEF WriteDraft, Locked
<1>3. d \in Files
  <2>1. d.entries \in Entries
    BY <1>0, WriterFields DEF Entries
  <2> QED
    BY <1>0, <2>1 DEF FileTypeOK, Files
<1>4. r \in Writer /\ r.draft = d /\ r.task = writers[w].task
      /\ r.player = writers[w].player /\ r.token = writers[w].token
      /\ r.base = writers[w].base
  BY <1>0, <1>3, WriterFields DEF Writer
<1>5. d.mtime = clock /\ d.inode # file.inode /\ d # None
  BY <1>3, NullAssumption
<1>6. d.entries = [file.entries EXCEPT ![writers[w].player] = writers[w].token]
  BY <1>2 DEF FileIInv, WriterOK, Prepared
<1> HIDE DEF d, r
<1>7. /\ writers' \in [Writers -> Writer] /\ writers'[w] = r
      /\ \A v \in Writers \ {w} : writers'[v] = writers[v]
  BY <1>0, <1>2, <1>4, WriterMoves
<1>8. /\ written' \in 0..MaxPerTick /\ written \in Nat
      /\ written' = written + 1 /\ written <= 1 /\ clock \in Nat
      /\ file.mtime <= clock /\ file.mtime \in Nat
      /\ file.mtime = clock => written = 1
  BY <1>0, <1>2, FileFields, PerTickAssumption DEF FileTypeOK, ClockOK
<1>9. FileTypeOK'
  BY <1>0, <1>2, <1>7, <1>8 DEF FileTypeOK
<1>10. SoleWriter'
  BY <1>0, <1>4, <1>7 DEF SoleWriter, Locked
<1>11. WriterOK(w)'
  <2>1. WriterOK(w)
    BY DEF FileIInv
  <2> QED
    BY <1>2, <1>4, <1>7, <2>1 DEF WriterOK, Prepared, Locked
<1>12. DraftOK(w)'
  <2>1. writers'[w].draft = d /\ Locked(w)'
    BY <1>2, <1>4, <1>7 DEF Locked
  <2>2. d.mtime <= clock /\ file.mtime <= d.mtime
    BY <1>5, <1>8
  <2>3. written' >= IF file.mtime = clock THEN 2 ELSE 1
    BY <1>8
  <2>4. writers'[w].player = writers[w].player /\ writers'[w].token = writers[w].token
    BY <1>4, <1>7
  <2> QED
    BY <1>2, <1>5, <1>6, <2>1, <2>2, <2>3, <2>4 DEF DraftOK
<1>13. ASSUME NEW v \in Writers \ {w} PROVE WriterOK(v)' /\ DraftOK(v)'
  <2>1. WriterOK(v) /\ DraftOK(v) /\ ~Locked(v)
    BY <1>0, <1>2 DEF FileIInv, SoleWriter
  <2> QED
    BY <1>2, <1>7, <1>13, <2>1 DEF WriterOK, DraftOK, Locked
<1>14. ClockOK' /\ CacheOK'
  BY <1>2, <1>8 DEF FileIInv, ClockOK, CacheOK
<1>15. ASSUME NEW s, SignatureOK(s), s # None => s.mtime \in Nat,
              s' = s
       PROVE  SignatureOK(s)'
  <2> SUFFICES ASSUME s # None PROVE SignatureOK(s)'
    BY <1>15 DEF SignatureOK
  <2>1. s.mtime = clock => s.inode = file.inode
    BY <1>8, <1>15 DEF SignatureOK
  <2>2. ASSUME NEW v \in Writers, writers'[v].draft # None, writers'[v].draft.mtime = s.mtime
        PROVE  s.inode = file.inode
    <3>1. CASE v = w
      BY <1>4, <1>5, <1>7, <2>1, <2>2, <3>1
    <3>2. CASE v # w
      BY <1>7, <1>15, <2>2, <3>2 DEF SignatureOK
    <3> QED
      BY <3>1, <3>2
  <2> QED
    BY <1>2, <1>15, <2>1, <2>2 DEF SignatureOK
<1>16. SignatureOK(cache.signature)' /\ SignatureOK(loading)'
  BY <1>0, <1>2, <1>15, FileFields DEF FileIInv
<1> QED
  BY <1>2, <1>9, <1>10, <1>11, <1>12, <1>13, <1>14, <1>16 DEF FileIInv

\* The renaming is one step of the registry; the new file is not one the
\* server has a signature of.
LEMMA ReplaceInvariant ==
    ASSUME FileIInv, NEW w \in Writers, Replace(w)
    PROVE  /\ FileIInv'
           /\ \E p \in Players :
                 \/ Registry!Remove(p)
                 \/ \E t \in Tokens : Registry!Register(p, t)
<1> DEFINE r == IF Does(w, "issue")
                THEN [writers[w] EXCEPT !.task = "issued", !.draft = None]
                ELSE NoTask
           d == writers[w].draft
<1>0. FileTypeOK /\ SoleWriter /\ ClockOK
  BY DEF FileIInv
<1>1. /\ Locked(w) /\ d # None /\ file' = d
      /\ writers' = [writers EXCEPT ![w] = r]
      /\ UNCHANGED <<clock, written, drawn, cache, loading>>
  BY DEF Replace, Locked
<1>2. /\ d \in Files /\ d.inode # file.inode /\ file.mtime <= d.mtime
      /\ d.mtime <= clock /\ d.mtime \in Nat
      /\ d.mtime = clock => written >= 1
      /\ d.mtime = clock /\ file.mtime = clock => written >= 2
      /\ d.entries = [file.entries EXCEPT ![writers[w].player] = writers[w].token]
  <2>1. DraftOK(w) /\ written \in Nat
    BY <1>0, FileFields DEF FileIInv
  <2> QED
    BY <1>0, <1>1, <2>1, WriterFields DEF DraftOK
<1>3. /\ r \in Writer /\ r.draft = None /\ r.task \notin Locking
      /\ r.task # "idle" => r.player = writers[w].player
  <2>1. CASE Does(w, "issue")
    BY <1>0, <2>1, WriterFields DEF Writer, Tasks, Locking
  <2>2. CASE ~Does(w, "issue")
    BY <2>2, NoTaskType DEF NoTask, Locking
  <2> QED
    BY <2>1, <2>2
<1>4. writers[w].player \in Players /\ Prepared(writers[w])
  BY <1>1 DEF FileIInv, WriterOK, Locked, Locking
<1> HIDE DEF r, d
<1>5. /\ writers' \in [Writers -> Writer] /\ writers'[w] = r
      /\ \A v \in Writers \ {w} : writers'[v] = writers[v]
  BY <1>0, <1>1, <1>3, WriterMoves
<1>6. \A v \in Writers \ {w} : ~Locked(v) /\ writers[v].draft = None
  BY <1>0, <1>1 DEF SoleWriter, FileIInv, DraftOK
<1>7. FileTypeOK'
  BY <1>0, <1>1, <1>2, <1>5 DEF FileTypeOK
<1>8. \A v \in Writers : ~Locked(v)' /\ writers'[v].draft = None
  BY <1>3, <1>5, <1>6 DEF Locked
<1>9. SoleWriter'
  BY <1>8 DEF SoleWriter
<1>10. ASSUME NEW v \in Writers PROVE WriterOK(v)' /\ DraftOK(v)'
  <2>1. writers'[v].task # "idle" => writers'[v].player \in Players
    BY <1>3, <1>4, <1>5 DEF FileIInv, WriterOK
  <2> QED
    BY <1>8, <2>1 DEF WriterOK, DraftOK
<1>11. ClockOK'
  BY <1>1, <1>2 DEF ClockOK
<1>12. ASSUME NEW s, SignatureOK(s), s # None, s.mtime \in Nat
       PROVE  /\ SignatureOK(s)'
              /\ s.mtime = file'.mtime => s.inode # file'.inode
  <2>1. s.mtime <= file.mtime /\ file.mtime \in Nat /\ clock \in Nat
    BY <1>0, <1>12, FileFields DEF SignatureOK
  <2>2. s.mtime = d.mtime => file.mtime = s.mtime /\ s.inode = file.inode
    BY <1>1, <1>2, <1>12, <2>1 DEF SignatureOK, d
  <2>3. s.mtime = clock => d.mtime = clock
    BY <1>2, <2>1
  <2>4. s.mtime <= d.mtime
    BY <1>2, <1>12, <2>1
  <2>5. s.mtime = clock => written >= 2
    BY <1>2, <2>2, <2>3
  <2> QED
    BY <1>1, <1>2, <1>8, <1>12, <2>2, <2>4, <2>5 DEF SignatureOK
<1>13. SignatureOK(cache.signature)' /\ SignatureOK(loading)' /\ CacheOK'
  <2>1. /\ SignatureOK(cache.signature) /\ SignatureOK(loading)
        /\ cache' = cache /\ loading' = loading
        /\ cache.signature # None => cache.signature.mtime \in Nat
        /\ loading # None => loading.mtime \in Nat
    BY <1>0, <1>1, FileFields DEF FileIInv
  <2>2. SignatureOK(cache.signature)' /\ CacheOK'
    BY <1>12, <2>1 DEF SignatureOK, CacheOK
  <2>3. SignatureOK(loading)'
    BY <1>12, <2>1 DEF SignatureOK
  <2> QED
    BY <2>2, <2>3
<1>14. \E p \in Players :
          \/ Registry!Remove(p)
          \/ \E t \in Tokens : Registry!Register(p, t)
  <2>1. file'.entries = [file.entries EXCEPT ![writers[w].player] = writers[w].token]
    BY <1>1, <1>2
  <2>2. CASE writers[w].token = None /\ file.entries[writers[w].player] # None
    BY <1>4, <2>1, <2>2 DEF Registry!Remove
  <2>3. CASE /\ writers[w].token \in Tokens /\ file.entries[writers[w].player] = None
             /\ \A q \in Players : file.entries[q] # writers[w].token
    BY <1>4, <2>1, <2>3 DEF Registry!Register
  <2> QED
    BY <1>4, <2>2, <2>3 DEF Prepared
<1> QED
  BY <1>7, <1>9, <1>10, <1>11, <1>13, <1>14 DEF FileIInv

\* A writer that is done, or that goes on without the lock.
LEMMA LeaveInvariant ==
    ASSUME FileIInv, NEW w \in Writers, ClientFails(w) \/ End(w)
    PROVE  FileIInv' /\ file' = file
<1> DEFINE r == IF ClientFails(w) THEN [writers[w] EXCEPT !.task = "undo"] ELSE NoTask
<1>0. FileTypeOK /\ SoleWriter
  BY DEF FileIInv
<1>1. /\ writers' = [writers EXCEPT ![w] = r]
      /\ UNCHANGED <<file, clock, written, drawn, cache, loading>>
  BY DEF ClientFails, End
<1>2. /\ r \in Writer /\ r.draft = None /\ r.task \notin Locking
      /\ r.task # "idle" => r.player \in Players
  <2>1. CASE ClientFails(w)
    <3>1. writers[w].task = "issued" /\ writers[w].draft = None
          /\ writers[w].player \in Players
      BY <2>1 DEF ClientFails, Does, FileIInv, WriterOK, DraftOK, Locked, Locking
    <3> QED
      BY <1>0, <2>1, <3>1, WriterFields DEF Writer, Tasks, Locking
  <2>2. CASE ~ClientFails(w)
    BY <2>2, NoTaskType DEF NoTask, Locking
  <2> QED
    BY <2>1, <2>2
<1> HIDE DEF r
<1>3. /\ writers' \in [Writers -> Writer] /\ writers'[w] = r
      /\ \A v \in Writers \ {w} : writers'[v] = writers[v]
  BY <1>0, <1>1, <1>2, WriterMoves
<1>4. FileTypeOK'
  BY <1>0, <1>1, <1>3 DEF FileTypeOK
<1>5. SoleWriter'
  BY <1>0, <1>2, <1>3 DEF SoleWriter, Locked
<1>6. WriterOK(w)' /\ DraftOK(w)'
  BY <1>2, <1>3 DEF WriterOK, DraftOK, Locked
<1>7. ASSUME NEW v \in Writers \ {w} PROVE WriterOK(v)' /\ DraftOK(v)'
  BY <1>1, <1>3 DEF FileIInv, WriterOK, DraftOK, Locked, Prepared
<1>8. ClockOK' /\ CacheOK'
  BY <1>1 DEF FileIInv, ClockOK, CacheOK
<1>9. SignatureOK(cache.signature)' /\ SignatureOK(loading)'
  BY <1>1, <1>2, <1>3 DEF FileIInv, SignatureOK
<1> QED
  BY <1>1, <1>4, <1>5, <1>6, <1>7, <1>8, <1>9 DEF FileIInv

LEMMA WriteInvariant ==
    ASSUME FileIInv, NEW w \in Writers, Write(w)
    PROVE  /\ FileIInv'
           /\ \/ file' = file
              \/ \E p \in Players :
                    \/ Registry!Remove(p)
                    \/ \E t \in Tokens : Registry!Register(p, t)
<1>1. ASSUME NEW p \in Players,
             \/ \E t \in Tokens : IssuePlayer(w, p, t) \/ EnsureRegistration(w, p, t)
             \/ RemovePlayer(w, p)
      PROVE  FileIInv' /\ file' = file
  BY <1>1, BeginTasks
<1> QED
  BY <1>1, WriteDraftInvariant, ReplaceInvariant, LeaveInvariant, TakeBackInvariant
     DEF Write

-----------------------------------------------------------------------------
(* The server and the clock *)

LEMMA ServerInvariant ==
    ASSUME FileIInv, StatFile \/ ReadFile \/ Restart
    PROVE  FileIInv' /\ file' = file
<1>0. FileTypeOK
  BY DEF FileIInv
<1>1. UNCHANGED <<file, clock, written, drawn, writers>>
  BY DEF StatFile, ReadFile, Restart
<1>2. SoleWriter' /\ ClockOK' /\ \A w \in Writers : WriterOK(w)' /\ DraftOK(w)'
  BY <1>1 DEF FileIInv, SoleWriter, ClockOK, WriterOK, DraftOK, Locked, Prepared
<1>3. SignatureOK(Signature(file))
  <2>1. Signature(file).mtime = file.mtime /\ Signature(file).inode = file.inode
    BY <1>0, SignatureType DEF FileTypeOK
  <2> QED
    BY <1>0, <2>1, FileFields DEF SignatureOK
<1>4. ASSUME NEW s, SignatureOK(s) PROVE SignatureOK(s)'
  BY <1>1, <1>4 DEF SignatureOK
<1>5. SignatureOK(None)
  BY DEF SignatureOK
<1>6. Signature(file) \in Signatures
  BY <1>0, SignatureType DEF FileTypeOK
<1>7. CASE StatFile
  <2>1. loading' = Signature(file) /\ cache' = cache
    BY <1>7 DEF StatFile
  <2>2. SignatureOK(loading)' /\ SignatureOK(cache.signature)' /\ CacheOK'
    BY <1>1, <1>3, <1>4, <2>1 DEF FileIInv, CacheOK
  <2>3. FileTypeOK'
    BY <1>0, <1>1, <1>6, <2>1 DEF FileTypeOK
  <2> QED
    BY <1>1, <1>2, <2>2, <2>3 DEF FileIInv
<1>8. CASE ReadFile
  <2>1. /\ cache' = [entries |-> file.entries, signature |-> loading]
        /\ loading' = None
    BY <1>8 DEF ReadFile
  <2>2. cache'.signature = loading /\ cache'.entries = file.entries
    BY <2>1
  <2>3. SignatureOK(loading)' /\ SignatureOK(cache.signature)' /\ CacheOK'
    BY <1>1, <1>4, <1>5, <2>1, <2>2 DEF FileIInv, CacheOK
  <2>4. FileTypeOK'
    BY <1>0, <1>1, <2>1, FileFields DEF FileTypeOK
  <2> QED
    BY <1>1, <1>2, <2>3, <2>4 DEF FileIInv
<1>9. CASE Restart
  <2>1. /\ cache' = [entries |-> NoEntries, signature |-> None]
        /\ loading' = None
    BY <1>9 DEF Restart
  <2>2. cache'.signature = None
    BY <2>1
  <2>3. SignatureOK(loading)' /\ SignatureOK(cache.signature)' /\ CacheOK'
    BY <2>1, <2>2 DEF SignatureOK, CacheOK
  <2>4. FileTypeOK'
    BY <1>0, <1>1, <2>1, NoEntriesType DEF FileTypeOK
  <2> QED
    BY <1>1, <1>2, <2>3, <2>4 DEF FileIInv
<1> QED
  BY <1>7, <1>8, <1>9

LEMMA TickInvariant ==
    ASSUME FileIInv, FileTick
    PROVE  FileIInv' /\ file' = file
<1>0. FileTypeOK /\ ClockOK
  BY DEF FileIInv
<1>1. /\ clock' = clock + 1 /\ clock < MaxTime /\ written' = 0
      /\ UNCHANGED <<file, drawn, writers, cache, loading>>
  BY DEF FileTick
<1>2. /\ clock' \in Times /\ written' \in 0..MaxPerTick
      /\ clock \in Nat /\ clock' \in Nat /\ file.mtime \in Nat
      /\ file.mtime <= clock /\ file.mtime # clock'
  BY <1>0, <1>1, FileFields, TimeAssumption, PerTickAssumption DEF Times, ClockOK
<1>3. FileTypeOK'
  BY <1>0, <1>1, <1>2 DEF FileTypeOK
<1>4. SoleWriter' /\ CacheOK' /\ \A w \in Writers : WriterOK(w)'
  BY <1>1 DEF FileIInv, SoleWriter, CacheOK, WriterOK, Locked, Prepared
<1>5. ASSUME NEW w \in Writers PROVE DraftOK(w)'
  <2> SUFFICES ASSUME writers[w].draft # None PROVE DraftOK(w)'
    BY <1>1 DEF DraftOK
  <2>1. DraftOK(w) /\ writers[w].draft.mtime \in Nat
    BY <1>0, <1>5, WriterFields DEF FileIInv
  <2>2. writers[w].draft.mtime <= clock' /\ writers[w].draft.mtime # clock'
    BY <1>1, <1>2, <2>1 DEF DraftOK
  <2> QED
    BY <1>1, <2>1, <2>2 DEF DraftOK, Locked
<1>6. ClockOK'
  BY <1>1, <1>2 DEF ClockOK
<1>7. ASSUME NEW s, SignatureOK(s), s # None => s.mtime \in Nat
      PROVE  SignatureOK(s)'
  <2> SUFFICES ASSUME s # None PROVE SignatureOK(s)'
    BY DEF SignatureOK
  <2>1. s.mtime # clock'
    BY <1>1, <1>2, <1>7 DEF SignatureOK
  <2> QED
    BY <1>1, <1>7, <2>1 DEF SignatureOK
<1>8. SignatureOK(cache.signature)' /\ SignatureOK(loading)'
  BY <1>0, <1>1, <1>7, FileFields DEF FileIInv
<1> QED
  BY <1>1, <1>3, <1>4, <1>5, <1>6, <1>8 DEF FileIInv

LEMMA NextInvariant ==
    FileIInv /\ [FileNext]_fileVars
        => FileIInv' /\ [Registry!Next]_(file.entries)
<1> SUFFICES ASSUME FileIInv, [FileNext]_fileVars
             PROVE  FileIInv' /\ [Registry!Next]_(file.entries)
  OBVIOUS
<1>1. CASE \E w \in Writers : Write(w)
  BY <1>1, WriteInvariant DEF Registry!Next
<1>2. CASE StatFile \/ ReadFile \/ Restart \/ FileTick
  BY <1>2, ServerInvariant, TickInvariant
<1>3. CASE UNCHANGED fileVars
  BY <1>3 DEF fileVars, FileIInv, FileTypeOK, SoleWriter, WriterOK, DraftOK, ClockOK,
              SignatureOK, CacheOK, Locked, Prepared
<1> QED
  BY <1>1, <1>2, <1>3 DEF FileNext

-----------------------------------------------------------------------------
\* The inductive invariant holds.
THEOREM FileInductive == FileSpec => []FileIInv
<1>1. FileIInv /\ [FileNext]_fileVars => FileIInv'
  BY NextInvariant
<1> QED
  BY <1>1, InitInvariant, PTL DEF FileSpec

\* Every variable has its type.
THEOREM FileTypeCorrect == FileSpec => []FileTypeOK
<1>1. FileIInv => FileTypeOK
  BY DEF FileIInv
<1> QED
  BY <1>1, FileInductive, PTL

\* _reload_players: what the server has is what the file says whenever the
\* signature it knows is the file's.
THEOREM CacheIsCurrentHolds == FileSpec => []CacheIsCurrent
<1>1. FileIInv => CacheIsCurrent
  <2> SUFFICES ASSUME FileIInv, cache.signature = Signature(file)
               PROVE  cache.entries = file.entries
    BY DEF CacheIsCurrent, Changed
  <2>1. /\ Signature(file).inode = file.inode /\ Signature(file).mtime = file.mtime
        /\ Signature(file) # None
    BY SignatureType DEF FileIInv, FileTypeOK
  <2> QED
    BY <2>1 DEF FileIInv, CacheOK
<1> QED
  BY <1>1, FileInductive, PTL

\* update_player_registration, ensure_player_registration and issue_player:
\* the file implements the registry, whoever else writes, fails or is killed.
THEOREM RegistryImplemented == FileSpec => ImplementsRegistry
<1>1. FileInit => Registry!Init
  <2> SUFFICES ASSUME FileInit PROVE Registry!Init
    OBVIOUS
  <2>1. file.entries = NoEntries
    BY DEF FileInit
  <2> QED
    BY <2>1 DEF NoEntries, Registry!Init
<1>2. FileIInv /\ [FileNext]_fileVars => [Registry!Next]_(file.entries)
  BY NextInvariant
<1> QED
  BY <1>1, <1>2, FileInductive, PTL DEF FileSpec, ImplementsRegistry, Registry!Spec
=============================================================================
