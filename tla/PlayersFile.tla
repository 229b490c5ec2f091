----------------------------- MODULE PlayersFile -----------------------------
(***************************************************************************)
(* The players file of assets/lan-party-companion.py: the processes that   *)
(* write it (issue-player, remove-player and the administration tool,      *)
(* which calls the same functions) and the Companion server, which keeps a *)
(* copy of it.                                                             *)
(*                                                                         *)
(* A writer holds the flock of the lock file from the read of the document *)
(* to its replacement: it writes a new file and renames it.  The server    *)
(* takes no lock: it reads the file when its signature (inode, mtime,      *)
(* size) is another than the one it knows.                                 *)
(*                                                                         *)
(* A token stands for the hash the file has of it.  All entries are of the *)
(* same length, so that the size of the file tells no more than their      *)
(* number.                                                                 *)
(***************************************************************************)
EXTENDS Naturals, FiniteSets

CONSTANTS
    Players,        \* player names
    Tokens,         \* bound: tokens that are drawn
    Writers,        \* processes that may write the file at the same time
    Inodes,         \* inodes the file system may give a file
    MaxPerTick,     \* files written under one timestamp
    MaxTime,        \* bound: timestamps
    None

ASSUME PlayersAssumption == IsFiniteSet(Players)

ASSUME NoneAssumption == None \notin Players \cup Tokens

\* A file takes its writer a lock, a read and a wait for the disk, so that the
\* granularity of mtime has room for two at most.
ASSUME PerTickAssumption == MaxPerTick \in {1, 2}

ASSUME TimeAssumption == MaxTime \in Nat

VARIABLES
    file,       \* players.json: inode, mtime and entries
    clock,      \* the timestamp of a file written now
    written,    \* files written under this timestamp
    drawn,      \* tokens drawn so far
    writers,    \* progress of the writing processes
    cache,      \* the server's players_by_hash and players_signature
    loading     \* signature taken by a reload under way, None otherwise

fileVars == <<file, clock, written, drawn, writers, cache, loading>>

-----------------------------------------------------------------------------
Entries == [Players -> Tokens \cup {None}]

Times == 0..MaxTime

Files == [inode : Inodes, mtime : Times, entries : Entries]

\* "issue", "ensure" and "remove" hold the lock.
Tasks == {"idle", "issue", "issued", "undo", "ensure", "remove"}

\* base is the document as read, draft the new file before its renaming.
Writer == [task   : Tasks,
           player : Players \cup {None},
           token  : Tokens \cup {None},
           base   : Entries,
           draft  : Files \cup {None}]

NoEntries == [p \in Players |-> None]

NoTask == [task |-> "idle", player |-> None, token |-> None,
           base |-> NoEntries, draft |-> None]

Present(entries) == {p \in Players : entries[p] # None}

\* current_signature
Signature(f) == [inode |-> f.inode, mtime |-> f.mtime,
                 size |-> Cardinality(Present(f.entries))]

Signatures == [inode : Inodes, mtime : Times, size : Nat]

ASSUME NullAssumption == None \notin Files /\ None \notin Signatures

FileTypeOK ==
    /\ file \in Files
    /\ clock \in Times
    /\ written \in 0..MaxPerTick
    /\ drawn \subseteq Tokens
    /\ writers \in [Writers -> Writer]
    /\ cache \in [entries : Entries, signature : Signatures \cup {None}]
    /\ loading \in Signatures \cup {None}

\* The installer has just written the empty document.
FileInit ==
    /\ \E i \in Inodes : file = [inode |-> i, mtime |-> 0, entries |-> NoEntries]
    /\ clock = 0
    /\ written = 1
    /\ drawn = {}
    /\ writers = [w \in Writers |-> NoTask]
    /\ cache = [entries |-> NoEntries, signature |-> None]
    /\ loading = None

-----------------------------------------------------------------------------
(* The writers *)

Locking == {"issue", "ensure", "remove"}
\* Mutant of LockFree: nobody waits for the lock.
LockIgnored == TRUE

LockFree == \A w \in Writers : writers[w].task \notin Locking

Does(w, task) == writers[w].task = task

\* The writer takes the lock and reads the document.
Begin(w, task, p, t) ==
    /\ LockFree
    /\ writers' = [writers EXCEPT ![w] =
                      [task |-> task, player |-> p, token |-> t,
                       base |-> file.entries, draft |-> None]]
    /\ UNCHANGED <<file, clock, written, cache, loading>>

Unregistered(p, t) ==
    /\ file.entries[p] = None
    /\ \A q \in Players : file.entries[q] # t

\* issue_player, with a token drawn for it
IssuePlayer(w, p, t) ==
    /\ Does(w, "idle")
    /\ t \notin drawn
    /\ Unregistered(p, t)
    /\ Begin(w, "issue", p, t)
    /\ drawn' = drawn \cup {t}

\* ensure_player_registration, with the token of an enrolment, which may come
\* again
EnsureRegistration(w, p, t) ==
    /\ Does(w, "idle")
    /\ Unregistered(p, t)
    /\ Begin(w, "ensure", p, t)
    /\ drawn' = drawn \cup {t}

\* update_player_registration without a token: remove-player, offboard
RemovePlayer(w, p) ==
    /\ Does(w, "idle")
    /\ file.entries[p] # None
    /\ Begin(w, "remove", p, None)
    /\ UNCHANGED drawn

\* write_json_atomic: the new file has an inode of its own.
WriteDraft(w) ==
    /\ writers[w].task \in Locking /\ writers[w].draft = None
    /\ written < MaxPerTick
    /\ \E i \in Inodes \ {file.inode} :
          writers' = [writers EXCEPT ![w].draft =
                         [inode |-> i, mtime |-> clock,
                          entries |-> [writers[w].base EXCEPT
                                          ![writers[w].player] = writers[w].token]]]
    /\ written' = written + 1
    /\ UNCHANGED <<file, clock, drawn, cache, loading>>

\* os.replace; the lock is released.
Replace(w) ==
    /\ writers[w].task \in Locking /\ writers[w].draft # None
    /\ file' = writers[w].draft
    /\ writers' = [writers EXCEPT ![w] =
                      IF Does(w, "issue")
                      THEN [@ EXCEPT !.task = "issued", !.draft = None]
                      ELSE NoTask]
    /\ UNCHANGED <<clock, written, drawn, cache, loading>>

\* The client file of issue_player cannot be written.
ClientFails(w) ==
    /\ Does(w, "issued")
    /\ writers' = [writers EXCEPT ![w].task = "undo"]
    /\ UNCHANGED <<file, clock, written, drawn, cache, loading>>

\* issue_player takes the player's registration back, whatever its token.
TakeBack(w) ==
    /\ Does(w, "undo")
    /\ file.entries[writers[w].player] # None
    /\ Begin(w, "remove", writers[w].player, None)
    /\ UNCHANGED drawn

\* The command ends: the client file is written, nothing is left to take back,
\* the document cannot be written, or the process is killed.
End(w) ==
    /\ ~Does(w, "idle")
    /\ writers' = [writers EXCEPT ![w] = NoTask]
    /\ UNCHANGED <<file, clock, written, drawn, cache, loading>>

-----------------------------------------------------------------------------
(* The server: _reload_players, under the lock of its state *)
\* Mutant of Changed: the inode and the size say whether a file changed.
ChangedInode ==
    IF cache.signature = None THEN TRUE
    ELSE \/ cache.signature.inode # file.inode
         \/ cache.signature.size # Signature(file).size

Changed == cache.signature # Signature(file)

\* The signature is taken before the file is read.
StatFile ==
    /\ loading = None
    /\ Changed
    /\ loading' = Signature(file)
    /\ UNCHANGED <<file, clock, written, drawn, writers, cache>>

ReadFile ==
    /\ loading # None
    /\ cache' = [entries |-> file.entries, signature |-> loading]
    /\ loading' = None
    /\ UNCHANGED <<file, clock, written, drawn, writers>>

\* A server that starts knows no signature.
Restart ==
    /\ cache' = [entries |-> NoEntries, signature |-> None]
    /\ loading' = None
    /\ UNCHANGED <<file, clock, written, drawn, writers>>

FileTick ==
    /\ clock < MaxTime
    /\ clock' = clock + 1
    /\ written' = 0
    /\ UNCHANGED <<file, drawn, writers, cache, loading>>

Write(w) ==
    \/ \E p \in Players :
          \/ \E t \in Tokens : IssuePlayer(w, p, t) \/ EnsureRegistration(w, p, t)
          \/ RemovePlayer(w, p)
    \/ WriteDraft(w) \/ Replace(w)
    \/ ClientFails(w) \/ TakeBack(w) \/ End(w)

FileNext ==
    \/ \E w \in Writers : Write(w)
    \/ StatFile \/ ReadFile \/ Restart
    \/ FileTick

FileSpec == FileInit /\ [][FileNext]_fileVars
-----------------------------------------------------------------------------
\* When the server finds the signature it knows and therefore does not read
\* the file, it has what the file says, however often and by whomever the file
\* was replaced since it was read, and also while it was being read.
CacheIsCurrent ==
    loading = None /\ ~Changed => cache.entries = file.entries

Registry == INSTANCE PlayerRegistry WITH registered <- file.entries

\* The file changes by one entry at a time, whoever writes at the same time,
\* fails or is killed: no registration gets lost and none replaces another.
ImplementsRegistry == Registry!Spec
=============================================================================
