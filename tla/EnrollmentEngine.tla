-------------------------- MODULE EnrollmentEngine --------------------------
(***************************************************************************)
(* The root-owned enrolment store of assets/vpn-player-enrollment.py.      *)
(*                                                                         *)
(* Every command runs under one exclusive flock (Store.locked), reads the  *)
(* files, and then performs up to four separate writes, in this order: the *)
(* credential registry, the verification snapshot that OpenVPN's           *)
(* tls-crypt-v2 verifier reads, the group of that snapshot, and the        *)
(* enrolment file.  Each write is atomic (temporary file, fsync, rename),  *)
(* their sequence is not: tx is the command that holds the lock, and       *)
(* Interrupt drops it between any two writes (the process is killed, an    *)
(* external tool or a write fails).  The verifier never takes the lock.    *)
(*                                                                         *)
(* An enrolment id stands for everything create and approve draw afresh    *)
(* for it: enrollment_id, credential_id, the pki_name, the serial and kid. *)
(***************************************************************************)
CONSTANTS
    Enrollments,    \* enrolment ids that may be drawn
    Players,        \* player names
    PlayerIds,      \* values of uuid4() for player_id
    Modes,          \* security modes: high-assurance, compatible
    Keys,           \* SPKI SHA-256 fingerprints of client keys
    None            \* absent JSON field

ASSUME NoneAssumption == None \notin Enrollments \cup Players \cup PlayerIds
                                     \cup Modes \cup Keys

VARIABLES
    items,          \* enrollments/<id>.json
    registry,       \* credential-registry.json: player ids, credential states
    snapshot,       \* the verification registry OpenVPN reads
    issued,         \* certificates of the Easy-RSA PKI: id -> certified key
    expired,        \* enrolments whose expires_at has passed
    tx              \* the command holding the flock and its remaining writes

vars == <<items, registry, snapshot, issued, expired, tx>>

-----------------------------------------------------------------------------
States == {"created", "csr-submitted", "approved", "collected",
           "rejected", "revoking", "revoked"}
Terminal == {"rejected", "revoked"}
CredentialStates == {"none", "active", "revoking", "revoked"}

\* A bearer token is known by what it was issued for; "void" digests match
\* no token anybody holds.
Tokens == {"invitation", "collection", "void"}

Item == [state     : States \cup {"absent"},
         player    : Players \cup {None},
         playerId  : PlayerIds \cup {None},
         mode      : Modes \cup {None},
         spki      : Keys \cup {None},
         token     : Tokens,
         pki       : BOOLEAN,
         confirmed : BOOLEAN]

Absent == [state |-> "absent", player |-> None, playerId |-> None,
           mode |-> None, spki |-> None, token |-> "void",
           pki |-> FALSE, confirmed |-> FALSE]

Registry == [players     : [Players -> PlayerIds \cup {None}],
             credentials : [Enrollments -> CredentialStates]]

Steps == {"idle", "sign", "registry", "snapshot", "chown", "item"}

Transaction == [step : Steps, id : Enrollments \cup {None},
                item : Item, registry : Registry]

EmptyRegistry == [players     |-> [p \in Players |-> None],
                  credentials |-> [e \in Enrollments |-> "none"]]

Idle == [step |-> "idle", id |-> None, item |-> Absent,
         registry |-> EmptyRegistry]

TypeOK ==
    /\ items \in [Enrollments -> Item]
    /\ registry \in Registry
    /\ snapshot \in [credentials : [Enrollments -> CredentialStates],
                     readable    : BOOLEAN]
    /\ issued \in [Enrollments -> Keys \cup {None}]
    /\ expired \in SUBSET Enrollments
    /\ tx \in Transaction

Init ==
    /\ items = [e \in Enrollments |-> Absent]
    /\ registry = EmptyRegistry
    /\ snapshot = [credentials |-> EmptyRegistry.credentials,
                   readable    |-> TRUE]
    /\ issued = [e \in Enrollments |-> None]
    /\ expired = {}
    /\ tx = Idle

-----------------------------------------------------------------------------
Live(item) == item.state \notin Terminal \cup {"absent"}

\* Mutant of RequireState: the expiry alone is checked.
RequireUnexpired(e, s) == Live(items[e]) /\ e \notin expired

\* require_state: the recorded state, and the invitation not yet expired.
RequireState(e, s) == items[e].state = s /\ e \notin expired

\* uuid4() never repeats an id that is recorded somewhere.
Fresh(pid) ==
    /\ \A p \in Players : registry.players[p] # pid
    /\ \A e \in Enrollments : items[e].playerId # pid

\* Take the flock, having read the files, and commit to the writes to come.
Begin(step, id, item, reg) ==
    /\ tx.step = "idle"
    /\ tx' = [step |-> step, id |-> id, item |-> item, registry |-> reg]
    /\ UNCHANGED <<items, registry, snapshot, issued, expired>>

SaveItem(e, item) == Begin("item", e, item, registry)

\* Write the credential's new state to the registry, then the enrolment.
SaveCredential(e, item, s) ==
    Begin("registry", e, item, [registry EXCEPT !.credentials[e] = s])

-----------------------------------------------------------------------------
\* Mutant of Create: the scan for another security mode is dropped.
CreateInAnyMode(e, p, m) ==
    /\ items[e].state = "absent"
    /\ \E pid \in PlayerIds :
          /\ registry.players[p] \in {pid, None}
          /\ registry.players[p] = None => Fresh(pid)
          /\ Begin("registry", e,
                   [Absent EXCEPT !.state = "created", !.player = p,
                       !.playerId = pid, !.mode = m, !.token = "invitation"],
                   [registry EXCEPT !.players[p] = pid])

Create(e, p, m) ==
    /\ items[e].state = "absent"
    /\ \A f \in Enrollments :
          items[f].player = p /\ Live(items[f]) => items[f].mode = m
    /\ \E pid \in PlayerIds :
          LET item == [Absent EXCEPT !.state = "created", !.player = p,
                          !.playerId = pid, !.mode = m,
                          !.token = "invitation"]
          IN  \/ /\ registry.players[p] = pid
                 /\ SaveItem(e, item)
              \/ /\ registry.players[p] = None
                 /\ Fresh(pid)
                 /\ Begin("registry", e, item,
                          [registry EXCEPT !.players[p] = pid])

\* Mutant of AcceptRequest: only approved keys count as used.
AcceptUnapprovedKey(e, k) ==
    /\ RequireState(e, "created")
    /\ \A f \in Enrollments : items[f].state = "approved" => items[f].spki # k
    /\ SaveItem(e, [items[e] EXCEPT !.state = "csr-submitted", !.spki = k])

\* The CSR checks that submit and import_portal_submission share.
AcceptRequest(e, k) ==
    /\ RequireState(e, "created")
    /\ \A f \in Enrollments : Live(items[f]) => items[f].spki # k
    /\ SaveItem(e, [items[e] EXCEPT !.state = "csr-submitted", !.spki = k])

Submit(e, token, k) == token = items[e].token /\ AcceptRequest(e, k)

ImportPortalSubmission(e, k) == AcceptRequest(e, k)

ApprovedItem(e, pki) ==
    [items[e] EXCEPT !.state = "approved", !.pki = pki,
                     !.token = "collection"]

\* approve: with a PKI directory the certificate is signed by Easy-RSA and
\* stays there; otherwise openssl signs it into a temporary directory.
Approve(e, pki) ==
    /\ RequireState(e, "csr-submitted")
    /\ Begin(IF pki THEN "sign" ELSE "item", e, ApprovedItem(e, pki), registry)

CollectedItem(e) ==
    [items[e] EXCEPT !.state = "collected", !.token = "void"]

Collect(e, token) ==
    /\ RequireState(e, "approved")
    /\ token = items[e].token
    /\ SaveCredential(e, CollectedItem(e), "active")

\* Mutant of FinalizePublication: a revocation in progress is not noticed.
FinalizeWhileRevoking(e) ==
    /\ items[e].state \in {"approved", "revoking"}
    /\ SaveCredential(e, CollectedItem(e), "active")

FinalizePublication(e) ==
    /\ RequireState(e, "approved")
    /\ SaveCredential(e, CollectedItem(e), "active")

TerminalItem(e, target) ==
    [items[e] EXCEPT !.state = target, !.token = "void"]

Reject(e) ==
    /\ items[e].state \in {"created", "csr-submitted"}
    /\ SaveItem(e, TerminalItem(e, "rejected"))

\* Mutant of Withdraw: an enrolment that is only approved is taken to have
\* no activated credential.
WithdrawUnlessApproved(e, item, s) ==
    IF items[e].state = "approved"
    THEN SaveItem(e, item)
    ELSE SaveCredential(e, item, s)

\* Mark the credential, when it was ever activated, and the enrolment.
Withdraw(e, item, s) ==
    IF registry.credentials[e] = "none"
    THEN SaveItem(e, item)
    ELSE SaveCredential(e, item, s)

Revoke(e) ==
    /\ items[e].state \in {"approved", "collected"}
    /\ Withdraw(e, TerminalItem(e, "revoked"), "revoked")

BeginRevoke(e) ==
    /\ items[e].state \in {"approved", "collected"}
    /\ items[e].pki
    /\ Withdraw(e, [items[e] EXCEPT !.state = "revoking"], "revoking")

FinalizeRevoke(e) ==
    /\ items[e].state = "revoking"
    /\ Withdraw(e, TerminalItem(e, "revoked"), "revoked")

ConfirmConnection(e) ==
    /\ items[e].state = "collected"
    /\ SaveItem(e, [items[e] EXCEPT !.confirmed = TRUE])

\* Mutant of RetirePlayer: only usable credentials hold a player back.
RetireUnlessUsable(p) ==
    /\ \A e \in Enrollments :
          items[e].player = p => items[e].state \notin {"approved", "collected"}
    /\ Begin("registry", None, Absent, [registry EXCEPT !.players[p] = None])

RetirePlayer(p) ==
    /\ \A e \in Enrollments : items[e].player = p => ~Live(items[e])
    /\ Begin("registry", None, Absent, [registry EXCEPT !.players[p] = None])

-----------------------------------------------------------------------------
\* approve: sign-req, unless an interrupted approval already issued it.
Sign ==
    /\ tx.step = "sign"
    /\ issued' = IF issued[tx.id] = None
                 THEN [issued EXCEPT ![tx.id] = items[tx.id].spki]
                 ELSE issued
    /\ tx' = [tx EXCEPT !.step = "item"]
    /\ UNCHANGED <<items, registry, snapshot, expired>>

\* Mutant of WriteRegistry: the verification snapshot is not rewritten.
WriteRegistryOnly ==
    /\ tx.step = "registry"
    /\ registry' = tx.registry
    /\ tx' = IF tx.id = None THEN Idle ELSE [tx EXCEPT !.step = "item"]
    /\ UNCHANGED <<items, snapshot, issued, expired>>

WriteRegistry ==
    /\ tx.step = "registry"
    /\ registry' = tx.registry
    /\ tx' = [tx EXCEPT !.step = "snapshot"]
    /\ UNCHANGED <<items, snapshot, issued, expired>>

\* The renamed file belongs to root's group until the chown.
WriteSnapshot ==
    /\ tx.step = "snapshot"
    /\ snapshot' = [credentials |-> tx.registry.credentials,
                    readable    |-> FALSE]
    /\ tx' = [tx EXCEPT !.step = "chown"]
    /\ UNCHANGED <<items, registry, issued, expired>>

ChownSnapshot ==
    /\ tx.step = "chown"
    /\ snapshot' = [snapshot EXCEPT !.readable = TRUE]
    /\ tx' = IF tx.id = None THEN Idle ELSE [tx EXCEPT !.step = "item"]
    /\ UNCHANGED <<items, registry, issued, expired>>

WriteItem ==
    /\ tx.step = "item"
    /\ items' = [items EXCEPT ![tx.id] = tx.item]
    /\ tx' = Idle
    /\ UNCHANGED <<registry, snapshot, issued, expired>>

\* The lock holder dies, or one of its external tools or writes fails.
Interrupt ==
    /\ tx.step # "idle"
    /\ tx' = Idle
    /\ UNCHANGED <<items, registry, snapshot, issued, expired>>

Expire(e) ==
    /\ items[e].state # "absent"
    /\ e \notin expired
    /\ expired' = expired \cup {e}
    /\ UNCHANGED <<items, registry, snapshot, issued, tx>>

Command(e) ==
    \/ \E p \in Players, m \in Modes : Create(e, p, m)
    \/ \E t \in Tokens, k \in Keys : Submit(e, t, k)
    \/ \E k \in Keys : ImportPortalSubmission(e, k)
    \/ \E pki \in BOOLEAN : Approve(e, pki)
    \/ \E t \in Tokens : Collect(e, t)
    \/ FinalizePublication(e)
    \/ Reject(e)
    \/ Revoke(e)
    \/ BeginRevoke(e)
    \/ FinalizeRevoke(e)
    \/ ConfirmConnection(e)

Write == Sign \/ WriteRegistry \/ WriteSnapshot \/ ChownSnapshot \/ WriteItem

Next ==
    \/ \E e \in Enrollments : Command(e) \/ Expire(e)
    \/ \E p \in Players : RetirePlayer(p)
    \/ Write
    \/ Interrupt

Spec == Init /\ [][Next]_vars

-----------------------------------------------------------------------------
\* verify_metadata_file, on the snapshot: it is readable by the verifier's
\* group and records the credential as active.
Accepts(e) == snapshot.readable /\ snapshot.credentials[e] = "active"

\* All open enrolments of a player are in one security mode: create refuses
\* another mode until the earlier ones are rejected or revoked, whatever
\* commands ran and were interrupted in between.
OneModePerPlayer ==
    \A e, f \in Enrollments :
        /\ Live(items[e]) /\ Live(items[f])
        /\ items[e].player = items[f].player
        => items[e].mode = items[f].mode

\* A player keeps the player_id of the registry in every open enrolment: an
\* interrupted create and a retired player never leave an open enrolment
\* under an id the registry no longer has.
StablePlayerId ==
    \A e \in Enrollments :
        Live(items[e]) => registry.players[items[e].player] = items[e].playerId

\* No client key is enrolled twice at a time (submit and
\* import_portal_submission scan every open enrolment).
KeyUsedOnce ==
    \A e, f \in Enrollments :
        /\ Live(items[e]) /\ Live(items[f])
        /\ items[e].spki = items[f].spki
        /\ items[e].spki # None
        => e = f

\* The certificate Easy-RSA keeps for an enrolment certifies the key of its
\* request, also when approve found it already issued by an interrupted run.
\* An approved enrolment of the PKI has its certificate there.
CertifiedKey ==
    \A e \in Enrollments :
        /\ issued[e] # None => issued[e] = items[e].spki
        /\ items[e].pki => issued[e] # None

\* OpenVPN accepts a credential only while its enrolment is approved or
\* collected, whichever of the separate writes of activation and of
\* revocation were interrupted, and although the verifier takes no lock.
AcceptedOnlyWhileLive ==
    \A e \in Enrollments :
        Accepts(e) => items[e].state \in {"approved", "collected"}

\* An enrolment is recorded as collected only after its credential reached
\* the file OpenVPN reads: collect and finalize_publication cannot consume
\* the bundle and leave the credential unknown.
CollectedWasActivated ==
    \A e \in Enrollments :
        items[e].state = "collected" => snapshot.credentials[e] # "none"

\* What interactive_approval tells the administrator of a rejected request:
\* "nothing was signed".
NothingWasSigned ==
    \A e \in Enrollments : items[e].state = "rejected" => issued[e] = None

-----------------------------------------------------------------------------
\* The promise of the store, CredentialLifecycle: the phase of an enrolment
\* as its file records it and the credentials the verifier lets in.
PhaseOf(s) ==
    CASE s = "absent"                         -> "unborn"
      [] s \in {"created", "csr-submitted"}   -> "offered"
      [] s \in {"approved", "collected"}      -> "signed"
      [] OTHER                                -> "closed"

Lifecycle == INSTANCE CredentialLifecycle WITH
                Credentials <- Enrollments,
                phase       <- [e \in Enrollments |-> PhaseOf(items[e].state)],
                accepted    <- {e \in Enrollments : Accepts(e)}

\* Every behaviour of the store is one of CredentialLifecycle: an enrolment
\* moves forward only, and once its revocation or rejection is recorded it
\* stays closed and is never accepted again.
ImplementsLifecycle == Lifecycle!Spec
=============================================================================
