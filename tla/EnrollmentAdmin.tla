--------------------------- MODULE EnrollmentAdmin ---------------------------
(***************************************************************************)
(* The administration tool, assets/vpn-enrollment-admin.py, and what it    *)
(* brings together: the enrolment engine, the portal, the certificates of  *)
(* Easy-RSA, the CRL and the sessions of OpenVPN, and the players file of  *)
(* the Companion.                                                          *)
(*                                                                         *)
(* Every command is a process of its own, and nothing is held over a whole *)
(* command: procs[a] is the progress of the command that runs as a.  A     *)
(* call of the engine lasts from the action that takes the engine's lock   *)
(* to its last write, a call of the portal to the portal's last write; the *)
(* process waits for them.  A process may stop at every step: because it   *)
(* is killed, because a tool fails or times out, or because a call is      *)
(* refused.                                                                *)
(*                                                                         *)
(* The engine is the module extended here; what the tool adds to a command *)
(* of the engine is called Admin...                                        *)
(***************************************************************************)
EXTENDS EnrollmentEngine

CONSTANTS
    Admins,         \* administration processes that run at the same time
    Commands,       \* bound: the commands they are given
    Faults          \* bound: the faults that occur

ASSUME BoundAssumption ==
    /\ Commands \subseteq {"create", "approve", "reject", "revoke",
                           "offboard", "confirm"}
    /\ Faults \subseteq {"interrupt", "crash", "expire"}

VARIABLES
    spool, bundle, task, runs, answers, desk,           \* the portal's
    revokedCerts,   \* certificates the Easy-RSA index has as revoked
    crl,            \* certificates in the CRL deployed to OpenVPN
    sessions,       \* credentials let into a session that has not been cut
    companions,     \* players.json: whose token each player is registered with
    offboarded,     \* players reported as offboarded, until invited again
    procs           \* progress of the administration processes

\* How a response says what became of the Companion's token.
Versions == {"included", "preserved-existing"}

Portal == INSTANCE EnrollmentPortal

ASSUME PortalAssumption == None \notin Versions \cup Portal!Response

engineFiles == <<items, registry, snapshot, issued, tx>>
portalFiles == <<spool, bundle, task, runs, answers, desk>>
outside == <<revokedCerts, crl, sessions, companions, offboarded>>

adminVars == <<engineFiles, portalFiles, expired, outside, procs>>

-----------------------------------------------------------------------------
ProcessSteps == {"idle", "end", "register", "confirm", "import", "sign",
                 "bundle", "companion", "publish", "finalize", "reject",
                 "begin-revoke", "pki", "crl", "restart", "finish", "next",
                 "retire"}

\* What offboard notes of an enrolment in its inventory.
Notes == {"none", "credential", "invitation", "terminal"}

Process == [step    : ProcessSteps,
            id      : Enrollments \cup {None},
            player  : Players \cup {None},              \* of offboard
            todo    : [Enrollments -> Notes],           \* of offboard
            version : Versions \cup {None},             \* of approve
            waits   : {"nobody", "engine", "portal"}]

NoNotes == [e \in Enrollments |-> "none"]

AtRest == [step |-> "idle", id |-> None, player |-> None, todo |-> NoNotes,
           version |-> None, waits |-> "nobody"]

AdminTypeOK ==
    /\ TypeOK /\ Portal!TypeOK
    /\ revokedCerts \subseteq Enrollments
    /\ crl \subseteq Enrollments
    /\ sessions \subseteq Enrollments
    /\ companions \in [Players -> Enrollments \cup {None}]
    /\ offboarded \subseteq Players
    /\ procs \in [Admins -> Process]

AdminInit ==
    /\ Init
    /\ Portal!Init
    /\ revokedCerts = {}
    /\ crl = {}
    /\ sessions = {}
    /\ companions = [p \in Players |-> None]
    /\ offboarded = {}
    /\ procs = [a \in Admins |-> AtRest]

-----------------------------------------------------------------------------
At(a, step) == procs[a].step = step /\ procs[a].waits = "nobody"

Given(a, command) == At(a, "idle") /\ command \in Commands

\* The process goes on with step, once whoever it calls has answered.
Goto(a, step) == procs' = [procs EXCEPT ![a].step = step]

CallEngine(a, step) ==
    /\ procs' = [procs EXCEPT ![a].step = step, ![a].waits = "engine"]
    /\ UNCHANGED <<portalFiles, outside>>

CallPortal(a, step) ==
    /\ procs' = [procs EXCEPT ![a].step = step, ![a].waits = "portal"]
    /\ UNCHANGED <<engineFiles, outside>>

\* The processes after who has answered.
Answered(who) ==
    [a \in Admins |->
        IF procs[a].waits # who THEN procs[a]
        ELSE IF procs[a].step = "end" THEN AtRest
        ELSE [procs[a] EXCEPT !.waits = "nobody"]]

\* The processes after who failed them.
Failed(who) ==
    [a \in Admins |-> IF procs[a].waits = who THEN AtRest ELSE procs[a]]

\* What comes after an enrolment was dealt with.
After(a) == IF procs[a].player = None THEN "end" ELSE "next"

-----------------------------------------------------------------------------
(* create *)

AdminCreate(a, e, p, m) ==
    /\ Given(a, "create")
    /\ Create(e, p, m)
    /\ procs' = [procs EXCEPT ![a] = [AtRest EXCEPT !.step = "register",
                                       !.id = e, !.waits = "engine"]]
    /\ offboarded' = offboarded \ {p}
    /\ UNCHANGED <<portalFiles, revokedCerts, crl, sessions, companions>>

RegisterInvitation(a) ==
    /\ At(a, "register")
    /\ Portal!Register(procs[a].id)
    /\ CallPortal(a, "end")

-----------------------------------------------------------------------------
(* approve *)

\* The administrator is shown a pending request, or continues with one the
\* engine has approved.
Review(a, e) ==
    /\ Given(a, "approve")
    /\ tx.step = "idle"
    /\ \/ Portal!Inspect(e)
       \/ /\ items[e].state = "approved" /\ desk[e] = items[e].spki
          /\ UNCHANGED <<portalFiles, expired>>
    /\ procs' = [procs EXCEPT ![a].step = "confirm", ![a].id = e]
    /\ UNCHANGED <<engineFiles, outside>>

\* Where approve starts from, with the fingerprint that was confirmed.
Confirm(a) ==
    LET e == procs[a].id
    IN  /\ At(a, "confirm")
        /\ tx.step = "idle"
        /\ \/ /\ items[e].state \in {"created", "csr-submitted"}
              /\ task = Portal!Free
              /\ spool[e].state = "pending" /\ spool[e].spki = desk[e]
              /\ Goto(a, IF items[e].state = "created" THEN "import" ELSE "sign")
           \/ /\ items[e].state = "approved" /\ items[e].spki = desk[e]
              /\ Goto(a, "bundle")
        /\ UNCHANGED <<engineFiles, portalFiles, expired, outside>>

Import(a) ==
    /\ At(a, "import")
    /\ ImportPortalSubmission(procs[a].id, desk[procs[a].id])
    /\ CallEngine(a, "sign")

\* pki_locked: revocations and signatures take turns.
PkiFree ==
    \A a \in Admins :
        /\ procs[a].step \notin {"crl", "restart"}
        /\ ~(procs[a].step = "bundle" /\ procs[a].waits = "engine")

AdminSign(a) ==
    /\ At(a, "sign")
    /\ PkiFree
    /\ Approve(procs[a].id, TRUE)
    /\ CallEngine(a, "bundle")

\* publication_bundle
TakeBundle(a) ==
    /\ At(a, "bundle")
    /\ tx.step = "idle"
    /\ RequireState(procs[a].id, "approved")
    /\ Goto(a, "companion")
    /\ UNCHANGED <<engineFiles, portalFiles, expired, outside>>

\* Mutant of RegisterCompanion: the entry holds the name of the player.
RegisterCompanionName(a) ==
    LET p == items[procs[a].id].player
    IN  /\ At(a, "companion")
        /\ companions' = [companions EXCEPT ![p] = IF @ = None THEN p ELSE @]
        /\ Goto(a, "publish")
        /\ UNCHANGED <<engineFiles, portalFiles, expired,
                       revokedCerts, crl, sessions, offboarded>>

\* companion_bundle, ensure_player_registration: a registered token stays.
RegisterCompanion(a) ==
    LET e == procs[a].id
        p == items[e].player
    IN  /\ At(a, "companion")
        /\ companions' = [companions EXCEPT ![p] = IF @ = None THEN e ELSE @]
        /\ procs' = [procs EXCEPT
                ![a].step = "publish",
                ![a].version = IF companions[p] \in {None, e}
                               THEN "included" ELSE "preserved-existing"]
        /\ UNCHANGED <<engineFiles, portalFiles, expired,
                       revokedCerts, crl, sessions, offboarded>>

\* The response certifies the key the engine approved; the portal is told
\* the fingerprint that was confirmed.
Publish(a) ==
    LET e == procs[a].id
    IN  /\ At(a, "publish")
        /\ Portal!Publish(e, [key |-> items[e].spki, version |-> procs[a].version],
                          desk[e])
        /\ Goto(a, "finalize")
        /\ UNCHANGED <<engineFiles, outside>>

Finalize(a) ==
    /\ At(a, "finalize")
    /\ FinalizePublication(procs[a].id)
    /\ CallEngine(a, "end")

-----------------------------------------------------------------------------
(* reject, revoke, offboard, confirm_connection *)

\* Mutant of Reject: the engine first.
RejectEngineFirst(a, e) ==
    /\ Given(a, "reject")
    /\ Reject(e)
    /\ CallEngine(a, "end")

\* reject: the portal first.
AdminReject(a, e) ==
    /\ Given(a, "reject")
    /\ Portal!Cancel(e)
    /\ procs' = [procs EXCEPT ![a].step = "reject", ![a].id = e,
                              ![a].waits = "portal"]
    /\ UNCHANGED <<engineFiles, outside>>

RejectInEngine(a) ==
    /\ At(a, "reject")
    /\ Reject(procs[a].id)
    /\ CallEngine(a, After(a))

AdminRevoke(a, e) ==
    /\ Given(a, "revoke")
    /\ items[e].state # "absent"
    /\ procs' = [procs EXCEPT ![a].step = "begin-revoke", ![a].id = e]
    /\ UNCHANGED <<engineFiles, portalFiles, expired, outside>>

\* begin_revoke: again for a revocation that was interrupted.
AdminBeginRevoke(a) ==
    /\ At(a, "begin-revoke")
    /\ \/ BeginRevoke(procs[a].id) /\ CallEngine(a, "pki")
       \/ /\ tx.step = "idle" /\ items[procs[a].id].state = "revoking"
          /\ Goto(a, "pki")
          /\ UNCHANGED <<engineFiles, portalFiles, expired, outside>>

\* _revoke_pki_name, under pki_locked: easyrsa revoke unless already done,
RevokeCertificate(a) ==
    /\ At(a, "pki")
    /\ PkiFree
    /\ issued[procs[a].id] # None
    /\ revokedCerts' = revokedCerts \cup {procs[a].id}
    /\ Goto(a, "crl")
    /\ UNCHANGED <<engineFiles, portalFiles, expired,
                   crl, sessions, companions, offboarded>>

\* gen-crl and its deployment,
DeployCrl(a) ==
    /\ At(a, "crl")
    /\ crl' = revokedCerts
    /\ Goto(a, "restart")
    /\ UNCHANGED <<engineFiles, portalFiles, expired,
                   revokedCerts, sessions, companions, offboarded>>

\* Mutant of RestartOpenVpn: the service reads the CRL and goes on.
ReloadOpenVpn(a) ==
    /\ At(a, "restart")
    /\ Goto(a, "finish")
    /\ UNCHANGED <<engineFiles, portalFiles, expired, outside>>

\* and a restart of OpenVPN, which ends every session.
RestartOpenVpn(a) ==
    /\ At(a, "restart")
    /\ sessions' = {}
    /\ Goto(a, "finish")
    /\ UNCHANGED <<engineFiles, portalFiles, expired,
                   revokedCerts, crl, companions, offboarded>>

FinishRevoke(a) ==
    /\ At(a, "finish")
    /\ FinalizeRevoke(procs[a].id)
    /\ CallEngine(a, After(a))

Noted(item, p) ==
    IF item.player # p THEN "none"
    ELSE IF item.state \in {"approved", "collected", "revoking"} THEN "credential"
    ELSE IF item.state \in {"created", "csr-submitted"} THEN "invitation"
    ELSE "terminal"

\* offboard: the inventory of the player's enrolments.
Inventory(a, p) ==
    /\ Given(a, "offboard")
    /\ tx.step = "idle"
    /\ \E e \in Enrollments : items[e].player = p
    /\ procs' = [procs EXCEPT
            ![a].step = "next", ![a].player = p,
            ![a].todo = [e \in Enrollments |-> Noted(items[e], p)]]
    /\ UNCHANGED <<engineFiles, portalFiles, expired, outside>>

\* Each of them is cancelled at the portal, and then as it was noted.
Dispose(a, e) ==
    LET note == procs[a].todo[e]
    IN  /\ At(a, "next")
        /\ note # "none"
        /\ Portal!Cancel(e)
        /\ procs' = [procs EXCEPT
                ![a].step = CASE note = "credential" -> "begin-revoke"
                              [] note = "invitation" -> "reject"
                              [] OTHER -> "next",
                ![a].id = e, ![a].todo[e] = "none", ![a].waits = "portal"]
        /\ UNCHANGED <<engineFiles, outside>>

\* update_player_registration, when the inventory is done.
RemoveCompanion(a) ==
    /\ At(a, "next")
    /\ procs[a].todo = NoNotes
    /\ companions' = [companions EXCEPT ![procs[a].player] = None]
    /\ Goto(a, "retire")
    /\ UNCHANGED <<engineFiles, portalFiles, expired,
                   revokedCerts, crl, sessions, offboarded>>

Retire(a) ==
    /\ At(a, "retire")
    /\ RetirePlayer(procs[a].player)
    /\ CallEngine(a, "end")

AdminConfirmConnection(a, e) ==
    /\ Given(a, "confirm")
    /\ e \in sessions
    /\ ConfirmConnection(e)
    /\ CallEngine(a, "end")

-----------------------------------------------------------------------------
(* The engine at work for the process that called it. *)

Retiring == {a \in Admins : procs[a].player # None /\ procs[a].step = "end"}

EngineWrites ==
    /\ Write
    /\ IF tx'.step = "idle"
       THEN /\ procs' = Answered("engine")
            /\ offboarded' = offboarded \cup {procs[a].player : a \in Retiring}
       ELSE UNCHANGED <<procs, offboarded>>
    /\ UNCHANGED <<portalFiles, revokedCerts, crl, sessions, companions>>

EngineFails ==
    /\ "interrupt" \in Faults
    /\ Interrupt
    /\ procs' = Failed("engine")
    /\ UNCHANGED <<portalFiles, outside>>

\* The portal finishes a request of a process.
PortalAnswers ==
    /\ Portal!RegisterState \/ Portal!CancelBundle
    /\ procs' = Answered("portal")
    /\ UNCHANGED <<engineFiles, outside>>

PortalFails ==
    /\ "crash" \in Faults
    /\ Portal!Crash \/ Portal!RegisterFails
    /\ procs' = Failed("portal")
    /\ UNCHANGED <<engineFiles, outside>>

\* The portal serves the client script.
ClientRequest(k) ==
    /\ Portal!Request(k) \/ Portal!Answer
    /\ UNCHANGED <<engineFiles, outside, procs>>

\* A call is refused or the process stops; a request it made of the portal goes
\* on.
Stop(a) ==
    /\ procs[a].step # "idle" /\ procs[a].waits # "engine"
    /\ procs' = [procs EXCEPT ![a] = AtRest]
    /\ UNCHANGED <<engineFiles, portalFiles, expired, outside>>

AdminExpire(e) ==
    /\ "expire" \in Faults
    /\ Expire(e)
    /\ UNCHANGED <<portalFiles, outside, procs>>

\* OpenVPN lets a client in: the verifier's snapshot, the CRL, the profile.
Connect(e) ==
    /\ Accepts(e)
    /\ e \notin crl
    /\ \E k \in Keys : runs[k].stage = "done" /\ runs[k].id = e
                       /\ runs[k].profile.key = issued[e]
    /\ e \notin sessions
    /\ sessions' = sessions \cup {e}
    /\ UNCHANGED <<engineFiles, portalFiles, expired,
                   revokedCerts, crl, companions, offboarded, procs>>

AdminCommand(a) ==
    \/ \E e \in Enrollments :
          \/ \E p \in Players, m \in Modes : AdminCreate(a, e, p, m)
          \/ Review(a, e) \/ AdminReject(a, e) \/ AdminRevoke(a, e)
          \/ Dispose(a, e) \/ AdminConfirmConnection(a, e)
    \/ \E p \in Players : Inventory(a, p)
    \/ RegisterInvitation(a)
    \/ Confirm(a) \/ Import(a) \/ AdminSign(a) \/ TakeBundle(a)
    \/ RegisterCompanion(a) \/ Publish(a) \/ Finalize(a)
    \/ RejectInEngine(a)
    \/ AdminBeginRevoke(a) \/ RevokeCertificate(a) \/ DeployCrl(a)
    \/ RestartOpenVpn(a) \/ FinishRevoke(a)
    \/ RemoveCompanion(a) \/ Retire(a)
    \/ Stop(a)

AdminNext ==
    \/ \E a \in Admins : AdminCommand(a)
    \/ EngineWrites \/ EngineFails \/ PortalAnswers \/ PortalFails
    \/ \E k \in Keys : ClientRequest(k)
    \/ \E e \in Enrollments : AdminExpire(e) \/ Connect(e)

AdminSpec == AdminInit /\ [][AdminNext]_adminVars
-----------------------------------------------------------------------------
\* A credential recorded as revoked is in the CRL that OpenVPN reads and has
\* no session, whatever revocations, approvals and connections ran at the same
\* time and wherever earlier attempts stopped.
RevokedIsCutOff ==
    \A e \in Enrollments :
        items[e].state = "revoked" => e \in crl /\ e \notin sessions

\* Whoever is connected uses the certificate of the key that an administrator
\* was shown and confirmed for that enrolment, in the one run of the client
\* that drew this key and collected the profile of this enrolment, which was
\* approved: whatever was submitted, reviewed again, published twice or stopped
\* on the way from the client through the portal, the engine and back.
SessionsAreConfirmed ==
    \A e \in sessions :
        LET k == issued[e]
        IN  /\ k # None /\ k = items[e].spki /\ k = desk[e]
            /\ runs[k].stage = "done" /\ runs[k].id = e
            /\ items[e].state \in {"approved", "collected", "revoking"}

\* A rejected request cannot be continued at the portal: its token is void
\* and no response waits there.
RejectedIsCancelled ==
    \A e \in Enrollments :
        items[e].state = "rejected" =>
            ~spool[e].token /\ spool[e].response = None

\* A player reported as offboarded has no open enrolment and no session, and
\* OpenVPN accepts none of the player's credentials, although the inventory
\* was read before and invitations and approvals may have gone on since.
OffboardLeavesNothing ==
    \A e \in Enrollments :
        items[e].player \in offboarded =>
            ~Live(items[e]) /\ e \notin sessions /\ ~Accepts(e)

\* The Companion access of an offboarded player is removed, as HIGH-ASSURANCE
\* says: "removes Companion authentication".
OffboardedHasNoCompanion == \A p \in offboarded : companions[p] = None

\* publication_bundle: the bundle stays "until the broker has acknowledged an
\* idempotent publication"; "this makes interruption recovery deterministic".
\* An approval that was interrupted can be published when it is repeated.
PublicationResumes ==
    \A e \in Enrollments :
        /\ RequireState(e, "approved")
        /\ spool[e].state # "cancelled"
        /\ \A a \in Admins : procs[a].id # e
        => spool[e].state \in {"pending", "approved"}
=============================================================================
