------------------------ MODULE EnrollmentAdminProofs ------------------------
(***************************************************************************)
(* Proofs about EnrollmentAdmin, for every set of administrators,          *)
(* enrolments, players, keys, commands and faults.                         *)
(*                                                                         *)
(* AdminInv is what the composition keeps true of its parts together: of   *)
(* the progress of a command and the files it has read, and of the key     *)
(* that is in the engine, at the portal and on the administrator's desk.   *)
(* It makes every step a step of EnrollmentEngine and of EnrollmentPortal. *)
(* On it rest the three invariants of revocation, rejection and            *)
(* offboarding.                                                            *)
(***************************************************************************)
EXTENDS Naturals, EnrollmentAdmin, EnrollmentEngineProofs

-----------------------------------------------------------------------------
(* The invariant of the composition. *)

Working == ProcessSteps \ {"idle", "end", "next", "retire"}

\* What a command has learnt before it comes to a step.
StepSane(a) ==
    /\ procs[a].step \in Working => procs[a].id \in Enrollments
    /\ procs[a].step \in {"confirm", "import"} => desk[procs[a].id] # None
    /\ procs[a].step \in {"companion", "publish"}
            => items[procs[a].id].spki # None
    /\ procs[a].step = "publish" => procs[a].version \in Versions
    /\ procs[a].step \in {"next", "retire"} => procs[a].player # None

\* An entry of the portal.  The key inspected is the one submitted.
EntrySane(e) ==
    /\ spool[e].state = "pending" => spool[e].spki # None
    /\ spool[e].state = "cancelled"
            => ~spool[e].token /\ spool[e].response = None
    /\ desk[e] # None => spool[e].state \notin {"absent", "created"}
    /\ desk[e] # None /\ spool[e].state # "cancelled"
            => spool[e].spki = desk[e]

TaskSane ==
    /\ task.kind # "none" => task.id \in Enrollments
    /\ task.kind = "register" => spool[task.id].state = "absent"
    /\ task.kind = "result" => task.run \in Keys

RunSane(k) ==
    runs[k].stage \in {"keyed", "waiting"} => runs[k].id \in Enrollments

PortalInv ==
    /\ Portal!TypeOK
    /\ \A e \in Enrollments : EntrySane(e)
    /\ TaskSane
    /\ \A k \in Keys : RunSane(k)

\* The key inspected is the one the engine has or is about to have.
DeskSane ==
    /\ \A e \in Enrollments : items[e].spki # None => items[e].spki = desk[e]
    /\ Saving /\ tx.item.spki # None => tx.item.spki = desk[tx.id]

AdminInv ==
    /\ AdminTypeOK
    /\ ActivationInv
    /\ KeysInv
    /\ PortalInv
    /\ DeskSane
    /\ \A a \in Admins : StepSane(a)

-----------------------------------------------------------------------------
(* Revocation. *)

CutOff(e) == e \in crl /\ e \notin sessions

\* How far the revocation of a process has come.
RevocationSane(a) ==
    /\ procs[a].step = "crl" => procs[a].id \in revokedCerts
    /\ procs[a].step = "restart" => procs[a].id \in crl
    /\ procs[a].step = "finish" => CutOff(procs[a].id)

RevokedInv ==
    /\ crl \subseteq revokedCerts
    /\ \A a \in Admins : RevocationSane(a)
    /\ Saving /\ tx.item.state = "revoked" => CutOff(tx.id)
    /\ \A e \in Enrollments : items[e].state = "revoked" => CutOff(e)

-----------------------------------------------------------------------------
(* Rejection. *)

Cancelled(e) == spool[e].state = "cancelled"

RejectedInv ==
    /\ \A a \in Admins : procs[a].step = "reject" => Cancelled(procs[a].id)
    /\ Saving /\ tx.item.state = "rejected" => Cancelled(tx.id)
    /\ \A e \in Enrollments : items[e].state = "rejected" => Cancelled(e)

-----------------------------------------------------------------------------
(* Offboarding. *)

\* Steps of the commands that are about one enrolment only.
Single == {"idle", "register", "confirm", "import", "sign", "bundle",
           "companion", "publish", "finalize"}

\* The engine works for one process at a time, if for any.
OneCaller ==
    /\ \A a \in Admins : procs[a].waits = "engine" => tx.step # "idle"
    /\ \A a, b \in Admins :
          procs[a].waits = "engine" /\ procs[b].waits = "engine" => a = b

\* A process that retires its player holds the engine's lock, and saves no
\* enrolment meanwhile; the player has no open one.
RetiringSane(a) ==
    /\ procs[a].waits = "engine"
    /\ tx.id = None
    /\ \A e \in Enrollments :
          items[e].player = procs[a].player => ~Live(items[e])

SingleSane(a) == procs[a].step \in Single => procs[a].player = None

Certificated == {"approved", "collected", "revoking"}

OffboardInv ==
    /\ OneCaller
    /\ \A a \in Admins : SingleSane(a)
    /\ \A a \in Retiring : RetiringSane(a)
    /\ \A e \in sessions : items[e].state \in Certificated
    /\ \A e \in Enrollments : Live(items[e]) => items[e].player \notin offboarded
    /\ Saving /\ Live(tx.item) => tx.item.player \notin offboarded

-----------------------------------------------------------------------------
(* The initial state. *)

LEMMA AtRestType == AtRest \in Process
  BY DEF AtRest, Process, ProcessSteps, NoNotes, Notes

LEMMA InitAdminInv == AdminInit => AdminInv
  <1> SUFFICES ASSUME AdminInit PROVE AdminInv
    OBVIOUS
  <1> USE DEF AdminInit
  <1>1. TypeOK /\ ActivationInv /\ KeysInv
    BY InitType, InitActivation, InitKeys
  <1>2. Portal!TypeOK
    BY DEF Portal!Init, Portal!TypeOK, Portal!Entry, Portal!NoEntry,
           Portal!Bare, Portal!States, Portal!Task, Portal!Free, Portal!Run
  <1>3. procs \in [Admins -> Process]
    BY AtRestType
  <1>4. AdminTypeOK
    BY <1>1, <1>2, <1>3 DEF AdminTypeOK
  <1>5. PortalInv
    BY <1>2 DEF PortalInv, EntrySane, TaskSane, RunSane, Portal!Init,
                Portal!Free, Portal!NoEntry, Portal!Bare
  <1>6. DeskSane
    BY DEF DeskSane, Portal!Init, Init, Idle, Absent, Saving
  <1>7. \A a \in Admins : StepSane(a)
    BY DEF StepSane, AtRest, Working
  <1>8. QED
    BY <1>1, <1>4, <1>5, <1>6, <1>7 DEF AdminInv

-----------------------------------------------------------------------------
(***************************************************************************)
(* The calls of the engine: what each one has still to write once it holds *)
(* the lock.                                                               *)
(***************************************************************************)
Began(e, s, p, k) ==
    /\ tx.step = "idle"
    /\ tx'.step # "idle"
    /\ tx'.id = e
    /\ tx'.item.state = s /\ tx'.item.player = p /\ tx'.item.spki = k
    /\ UNCHANGED <<items, registry, snapshot, issued, expired>>

LEMMA CreateBegan ==
    ASSUME NEW e \in Enrollments, NEW p \in Players, NEW m \in Modes,
           Create(e, p, m)
    PROVE  Began(e, "created", p, None)
  <1> DEFINE New(pid) == [Absent EXCEPT !.state = "created", !.player = p,
                             !.playerId = pid, !.mode = m,
                             !.token = "invitation"]
  <1>1. PICK pid \in PlayerIds :
           \E step \in Steps \ {"idle"} : \E reg : Begin(step, e, New(pid), reg)
    BY DEF Create, SaveItem, Steps
  <1>2. /\ New(pid).state = "created" /\ New(pid).player = p
        /\ New(pid).spki = None
    BY DEF Absent
  <1> HIDE DEF New
  <1>3. QED
    BY <1>1, <1>2 DEF Begin, Began

LEMMA ImportBegan ==
    ASSUME TypeOK, NEW e \in Enrollments, NEW k \in Keys,
           ImportPortalSubmission(e, k)
    PROVE  Began(e, "csr-submitted", items[e].player, k)
  <1> DEFINE new == [items[e] EXCEPT !.state = "csr-submitted", !.spki = k]
  <1>1. /\ new \in Item /\ new.state = "csr-submitted"
        /\ new.player = items[e].player /\ new.spki = k
    BY DEF TypeOK, Item, States
  <1>2. SaveItem(e, new)
    BY DEF ImportPortalSubmission, AcceptRequest
  <1> HIDE DEF new
  <1>3. QED
    BY <1>1, <1>2 DEF SaveItem, Begin, Began

LEMMA ApproveBegan ==
    ASSUME TypeOK, NEW e \in Enrollments, Approve(e, TRUE)
    PROVE  Began(e, "approved", items[e].player, items[e].spki)
  <1>1. /\ ApprovedItem(e, TRUE).state = "approved"
        /\ ApprovedItem(e, TRUE).player = items[e].player
        /\ ApprovedItem(e, TRUE).spki = items[e].spki
    BY DEF TypeOK, ApprovedItem, Item
  <1>2. QED
    BY <1>1 DEF Approve, Begin, Began

LEMMA FinalizeBegan ==
    ASSUME TypeOK, NEW e \in Enrollments, FinalizePublication(e)
    PROVE  Began(e, "collected", items[e].player, items[e].spki)
  <1>1. /\ CollectedItem(e).state = "collected"
        /\ CollectedItem(e).player = items[e].player
        /\ CollectedItem(e).spki = items[e].spki
    BY DEF TypeOK, CollectedItem, Item
  <1>2. QED
    BY <1>1 DEF FinalizePublication, SaveCredential, Begin, Began

LEMMA TerminalItemFields ==
    ASSUME TypeOK, NEW e \in Enrollments, NEW target \in Terminal
    PROVE  /\ TerminalItem(e, target).state = target
           /\ TerminalItem(e, target).player = items[e].player
           /\ TerminalItem(e, target).spki = items[e].spki
  BY DEF TypeOK, TerminalItem, Item

LEMMA RejectBegan ==
    ASSUME TypeOK, NEW e \in Enrollments, Reject(e)
    PROVE  Began(e, "rejected", items[e].player, items[e].spki)
  BY TerminalItemFields DEF Terminal, Reject, SaveItem, Begin, Began

LEMMA BeginRevokeBegan ==
    ASSUME TypeOK, NEW e \in Enrollments, BeginRevoke(e)
    PROVE  Began(e, "revoking", items[e].player, items[e].spki)
  <1> DEFINE new == [items[e] EXCEPT !.state = "revoking"]
  <1>1. /\ new.state = "revoking"
        /\ new.player = items[e].player /\ new.spki = items[e].spki
    BY DEF TypeOK, Item
  <1>2. Withdraw(e, new, "revoking")
    BY DEF BeginRevoke
  <1> HIDE DEF new
  <1>3. QED
    BY <1>1, <1>2 DEF Withdraw, SaveItem, SaveCredential, Begin, Began

LEMMA FinalizeRevokeBegan ==
    ASSUME TypeOK, NEW e \in Enrollments, FinalizeRevoke(e)
    PROVE  Began(e, "revoked", items[e].player, items[e].spki)
  BY TerminalItemFields
     DEF Terminal, FinalizeRevoke, Withdraw, SaveItem, SaveCredential, Begin,
         Began

LEMMA ConfirmBegan ==
    ASSUME TypeOK, NEW e \in Enrollments, ConfirmConnection(e)
    PROVE  Began(e, "collected", items[e].player, items[e].spki)
  <1> DEFINE new == [items[e] EXCEPT !.confirmed = TRUE]
  <1>1. /\ new.state = items[e].state
        /\ new.player = items[e].player /\ new.spki = items[e].spki
    BY DEF TypeOK, Item
  <1>2. SaveItem(e, new) /\ items[e].state = "collected"
    BY DEF ConfirmConnection
  <1> HIDE DEF new
  <1>3. QED
    BY <1>1, <1>2 DEF SaveItem, Begin, Began

\* Retiring a player saves no enrolment.
LEMMA RetireBegan ==
    ASSUME NEW p, RetirePlayer(p)
    PROVE  /\ tx.step = "idle" /\ tx'.step # "idle" /\ tx'.id = None
           /\ UNCHANGED <<items, registry, snapshot, issued, expired>>
           /\ \A e \in Enrollments : items[e].player = p => ~Live(items[e])
  BY DEF RetirePlayer, Begin

\* A command only reads when it takes the lock.
LEMMA CommandReads ==
    ASSUME \/ \E e \in Enrollments : Command(e)
           \/ \E p \in Players : RetirePlayer(p)
    PROVE  UNCHANGED <<items, registry, snapshot, issued, expired>>
  <1>1. ASSUME NEW e \in Enrollments, Command(e)
        PROVE  UNCHANGED <<items, registry, snapshot, issued, expired>>
    BY <1>1 DEF Command, Create, Submit, ImportPortalSubmission, AcceptRequest,
                Approve, Collect, FinalizePublication, Reject, Revoke,
                BeginRevoke, FinalizeRevoke, ConfirmConnection, Withdraw,
                SaveItem, SaveCredential, Begin
  <1>2. QED
    BY <1>1 DEF RetirePlayer, Begin

\* The writes of the engine: an enrolment changes to the one that was pending,
\* and then the lock is released.
LEMMA WriteShape ==
    ASSUME TypeOK, ActivationInv, Write
    PROVE  /\ tx.step # "idle" /\ UNCHANGED expired
           /\ \/ UNCHANGED items /\ tx'.id = tx.id /\ tx'.item = tx.item
                 /\ tx'.step # "idle"
              \/ UNCHANGED items /\ tx.id = None /\ tx' = Idle
              \/ /\ tx.id \in Enrollments /\ Saving /\ tx' = Idle
                 /\ items' = [items EXCEPT ![tx.id] = tx.item]
  <1>1. CASE Sign
    BY <1>1 DEF Sign, TypeOK, Transaction
  <1>2. CASE WriteRegistry
    BY <1>2 DEF WriteRegistry, TypeOK, Transaction
  <1>3. CASE WriteSnapshot
    BY <1>3 DEF WriteSnapshot, TypeOK, Transaction
  <1>4. CASE ChownSnapshot
    BY <1>4 DEF ChownSnapshot, TypeOK, Transaction
  <1>5. CASE WriteItem
    BY <1>5 DEF WriteItem, TypeOK, Transaction, ActivationInv, PendingItem,
                Saving
  <1>6. QED
    BY <1>1, <1>2, <1>3, <1>4, <1>5 DEF Write

-----------------------------------------------------------------------------
(***************************************************************************)
(* Every step is a step of the engine or leaves the engine alone, and a    *)
(* step of the portal or leaves the portal alone.                          *)
(***************************************************************************)

\* Steps of a command that change neither the engine nor the portal.
Quiet(a) ==
    \/ Confirm(a) \/ TakeBundle(a) \/ RegisterCompanion(a)
    \/ RevokeCertificate(a) \/ DeployCrl(a) \/ RestartOpenVpn(a)
    \/ RemoveCompanion(a) \/ Stop(a)
    \/ \E e \in Enrollments : AdminRevoke(a, e)
    \/ \E p \in Players : Inventory(a, p)

LEMMA QuietStep ==
    ASSUME NEW a \in Admins, Quiet(a)
    PROVE  UNCHANGED <<engineFiles, portalFiles, expired>>
  BY DEF Quiet, Confirm, TakeBundle, RegisterCompanion, RevokeCertificate,
         DeployCrl, RestartOpenVpn, RemoveCompanion, Stop, AdminRevoke,
         Inventory

\* Calls of the engine.
CallsEngine(a) ==
    \/ \E e \in Enrollments :
          \/ \E p \in Players, m \in Modes : AdminCreate(a, e, p, m)
          \/ AdminConfirmConnection(a, e)
    \/ Import(a) \/ AdminSign(a) \/ Finalize(a) \/ RejectInEngine(a)
    \/ FinishRevoke(a) \/ Retire(a)

\* Calls of the portal.
CallsPortal(a) ==
    \/ \E e \in Enrollments : AdminReject(a, e) \/ Dispose(a, e)
    \/ RegisterInvitation(a) \/ Publish(a)

\* The portal on its own.
PortalWorks ==
    \/ PortalAnswers \/ PortalFails
    \/ \E k \in Keys : ClientRequest(k)

LEMMA StepKinds ==
    ASSUME [AdminNext]_adminVars
    PROVE  \/ \E a \in Admins :
                 \/ Quiet(a) \/ CallsEngine(a) \/ CallsPortal(a)
                 \/ AdminBeginRevoke(a)
                 \/ \E e \in Enrollments : Review(a, e)
           \/ EngineWrites \/ EngineFails \/ PortalWorks
           \/ \E e \in Enrollments : AdminExpire(e) \/ Connect(e)
           \/ UNCHANGED adminVars
  BY DEF AdminNext, AdminCommand, Quiet, CallsEngine, CallsPortal, PortalWorks

LEMMA InspectKeepsExpired ==
    ASSUME NEW e, Portal!Inspect(e)
    PROVE  UNCHANGED expired
  BY DEF Portal!Inspect

\* The id a command works on.
LEMMA IdType ==
    ASSUME AdminInv, NEW a \in Admins, procs[a].step \in Working
    PROVE  procs[a].id \in Enrollments
  BY DEF AdminInv, StepSane

LEMMA DeskType ==
    ASSUME AdminInv, NEW e \in Enrollments, desk[e] # None
    PROVE  desk[e] \in Keys
  BY DEF AdminInv, AdminTypeOK, Portal!TypeOK

LEMMA PlayerType ==
    ASSUME AdminInv, NEW a \in Admins, procs[a].player # None
    PROVE  procs[a].player \in Players
  BY DEF AdminInv, AdminTypeOK, Process

\* Where a command calls the engine, and what it calls.
LEMMA CallsEngineStep ==
    ASSUME AdminInv, NEW a \in Admins, CallsEngine(a)
    PROVE  /\ UNCHANGED portalFiles
           /\ \/ \E e \in Enrollments : Command(e)
              \/ \E p \in Players : RetirePlayer(p)
  <1>1. ASSUME NEW e \in Enrollments, NEW p \in Players, NEW m \in Modes,
               AdminCreate(a, e, p, m)
        PROVE  UNCHANGED portalFiles /\ Command(e)
    BY <1>1 DEF AdminCreate, Command
  <1>2. ASSUME NEW e \in Enrollments, AdminConfirmConnection(a, e)
        PROVE  UNCHANGED portalFiles /\ Command(e)
    BY <1>2 DEF AdminConfirmConnection, CallEngine, Command
  <1>3. CASE Import(a)
    <2>1. procs[a].id \in Enrollments
      BY <1>3, IdType DEF Import, At, Working, ProcessSteps
    <2>2. desk[procs[a].id] \in Keys
      BY <1>3, <2>1, DeskType DEF Import, At, AdminInv, StepSane
    <2>3. QED
      BY <1>3, <2>1, <2>2 DEF Import, CallEngine, Command
  <1>4. CASE AdminSign(a)
    <2>1. procs[a].id \in Enrollments
      BY <1>4, IdType DEF AdminSign, At, Working, ProcessSteps
    <2>2. QED
      BY <1>4, <2>1 DEF AdminSign, CallEngine, Command
  <1>5. CASE Finalize(a)
    <2>1. procs[a].id \in Enrollments
      BY <1>5, IdType DEF Finalize, At, Working, ProcessSteps
    <2>2. QED
      BY <1>5, <2>1 DEF Finalize, CallEngine, Command
  <1>6. CASE RejectInEngine(a)
    <2>1. procs[a].id \in Enrollments
      BY <1>6, IdType DEF RejectInEngine, At, Working, ProcessSteps
    <2>2. QED
      BY <1>6, <2>1 DEF RejectInEngine, CallEngine, Command
  <1>7. CASE FinishRevoke(a)
    <2>1. procs[a].id \in Enrollments
      BY <1>7, IdType DEF FinishRevoke, At, Working, ProcessSteps
    <2>2. QED
      BY <1>7, <2>1 DEF FinishRevoke, CallEngine, Command
  <1>8. CASE Retire(a)
    <2>1. procs[a].player \in Players
      BY <1>8, PlayerType DEF Retire, At, AdminInv, StepSane
    <2>2. QED
      BY <1>8, <2>1 DEF Retire, CallEngine
  <1>9. QED
    BY <1>1, <1>2, <1>3, <1>4, <1>5, <1>6, <1>7, <1>8 DEF CallsEngine

LEMMA BeginRevokeStep ==
    ASSUME AdminInv, NEW a \in Admins, AdminBeginRevoke(a)
    PROVE  /\ UNCHANGED portalFiles
           /\ \/ procs[a].id \in Enrollments /\ BeginRevoke(procs[a].id)
              \/ UNCHANGED <<engineFiles, expired>>
  <1>1. procs[a].id \in Enrollments
    BY IdType DEF AdminBeginRevoke, At, Working, ProcessSteps
  <1>2. QED
    BY <1>1 DEF AdminBeginRevoke, CallEngine

\* What is published is the key the administrator confirmed.
LEMMA CallsPortalStep ==
    ASSUME AdminInv, NEW a \in Admins, CallsPortal(a)
    PROVE  /\ UNCHANGED <<engineFiles, expired>>
           /\ \E e \in Enrollments :
                 \/ Portal!Register(e) \/ Portal!Cancel(e)
                 \/ \E v \in Versions :
                       /\ desk[e] # None
                       /\ Portal!Publish(e, [key |-> desk[e], version |-> v],
                                         desk[e])
  <1>1. ASSUME NEW e \in Enrollments, AdminReject(a, e) \/ Dispose(a, e)
        PROVE  UNCHANGED <<engineFiles, expired>> /\ Portal!Cancel(e)
    BY <1>1 DEF AdminReject, Dispose, Portal!Cancel
  <1>2. CASE RegisterInvitation(a)
    <2>1. procs[a].id \in Enrollments
      BY <1>2, IdType DEF RegisterInvitation, At, Working, ProcessSteps
    <2>2. Portal!Register(procs[a].id) /\ UNCHANGED engineFiles
      BY <1>2 DEF RegisterInvitation, CallPortal
    <2>3. QED
      BY <2>1, <2>2 DEF Portal!Register
  <1>3. CASE Publish(a)
    <2> DEFINE e == procs[a].id
    <2>1. e \in Enrollments /\ procs[a].step = "publish"
      BY <1>3, IdType DEF Publish, At, Working, ProcessSteps
    <2>2. items[e].spki # None /\ items[e].spki = desk[e]
      BY <2>1 DEF AdminInv, StepSane, DeskSane
    <2>3. procs[a].version \in Versions
      BY <2>1 DEF AdminInv, StepSane, AdminTypeOK, Process
    <2>4. /\ Portal!Publish(e, [key |-> desk[e], version |-> procs[a].version],
                            desk[e])
          /\ UNCHANGED engineFiles
      BY <1>3, <2>2 DEF Publish
    <2>5. UNCHANGED expired
      BY <2>4 DEF Portal!Publish
    <2>6. QED
      BY <2>1, <2>2, <2>3, <2>4, <2>5
  <1>4. QED
    BY <1>1, <1>2, <1>3 DEF CallsPortal

LEMMA PortalWorksStep ==
    ASSUME PortalWorks
    PROVE  /\ UNCHANGED <<engineFiles, expired, outside>>
           /\ \/ \E k \in Keys : Portal!Request(k)
              \/ Portal!SecondWrite \/ Portal!Crash
  <1>1. UNCHANGED <<engineFiles, outside>>
    BY DEF PortalWorks, PortalAnswers, PortalFails, ClientRequest
  <1>2. \/ \E k \in Keys : Portal!Request(k)
        \/ Portal!SecondWrite \/ Portal!Crash
    BY DEF PortalWorks, PortalAnswers, PortalFails, ClientRequest,
           Portal!SecondWrite
  <1>3. ASSUME NEW k \in Keys, Portal!Request(k)
        PROVE  UNCHANGED expired
    BY <1>3 DEF Portal!Request, Portal!Challenge, Portal!Submit, Portal!Poll,
                Portal!Result, Portal!GiveUp
  <1>4. ASSUME Portal!SecondWrite \/ Portal!Crash
        PROVE  UNCHANGED expired
    BY <1>4 DEF Portal!SecondWrite, Portal!RegisterState, Portal!RegisterFails,
                Portal!CancelBundle, Portal!Answer, Portal!Crash
  <1>5. QED
    BY <1>1, <1>2, <1>3, <1>4

LEMMA ReviewStep ==
    ASSUME NEW a, NEW e, Review(a, e)
    PROVE  /\ UNCHANGED <<engineFiles, expired, outside>>
           /\ \/ Portal!Inspect(e)
              \/ UNCHANGED portalFiles /\ items[e].state = "approved"
                 /\ desk[e] = items[e].spki
  BY InspectKeepsExpired DEF Review

LEMMA EngineStep ==
    ASSUME AdminInv, [AdminNext]_adminVars
    PROVE  [Next]_vars
  <1> USE DEF engineFiles, vars
  <1>1. ASSUME NEW a \in Admins,
               \/ Quiet(a) \/ CallsPortal(a) \/ AdminBeginRevoke(a)
               \/ \E e \in Enrollments : Review(a, e)
        PROVE  [Next]_vars
    BY <1>1, QuietStep, CallsPortalStep, BeginRevokeStep, ReviewStep
       DEF Next, Command
  <1>2. ASSUME NEW a \in Admins, CallsEngine(a)
        PROVE  [Next]_vars
    BY <1>2, CallsEngineStep DEF Next
  <1>3. CASE EngineWrites
    BY <1>3 DEF EngineWrites, Next
  <1>4. CASE EngineFails
    BY <1>4 DEF EngineFails, Next
  <1>5. CASE PortalWorks
    BY <1>5, PortalWorksStep
  <1>6. ASSUME NEW e \in Enrollments, AdminExpire(e)
        PROVE  [Next]_vars
    BY <1>6 DEF AdminExpire, Next
  <1>7. ASSUME NEW e \in Enrollments, Connect(e)
        PROVE  [Next]_vars
    BY <1>7 DEF Connect
  <1>8. CASE UNCHANGED adminVars
    BY <1>8 DEF adminVars
  <1>9. QED
    BY <1>1, <1>2, <1>3, <1>4, <1>5, <1>6, <1>7, <1>8, StepKinds

LEMMA PortalStep ==
    ASSUME AdminInv, [AdminNext]_adminVars
    PROVE  [Portal!Next]_(Portal!vars)
  <1> USE DEF portalFiles, Portal!vars
  <1>1. ASSUME NEW a \in Admins,
               Quiet(a) \/ (\E e \in Enrollments : Review(a, e))
        PROVE  [Portal!Next]_(Portal!vars)
    BY <1>1, QuietStep, ReviewStep DEF Portal!Next
  <1>2. ASSUME NEW a \in Admins, CallsEngine(a) \/ AdminBeginRevoke(a)
        PROVE  [Portal!Next]_(Portal!vars)
    <2>1. UNCHANGED portalFiles
      BY <1>2, CallsEngineStep, BeginRevokeStep
    <2>2. UNCHANGED expired
      BY <1>2, CallsEngineStep, BeginRevokeStep, CommandReads DEF Command
    <2>3. QED
      BY <2>1, <2>2
  <1>3. ASSUME NEW a \in Admins, CallsPortal(a)
        PROVE  [Portal!Next]_(Portal!vars)
    BY <1>3, CallsPortalStep DEF Portal!Next
  <1>4. CASE EngineWrites
    <2>1. UNCHANGED expired
      BY <1>4, WriteShape DEF EngineWrites, AdminInv, AdminTypeOK
    <2>2. QED
      BY <1>4, <2>1 DEF EngineWrites
  <1>5. CASE EngineFails
    BY <1>5 DEF EngineFails, Interrupt
  <1>6. CASE PortalWorks
    BY <1>6, PortalWorksStep DEF Portal!Next
  <1>7. ASSUME NEW e \in Enrollments, AdminExpire(e)
        PROVE  [Portal!Next]_(Portal!vars)
    BY <1>7 DEF AdminExpire, Expire, Portal!Next, Portal!Expire
  <1>8. ASSUME NEW e \in Enrollments, Connect(e)
        PROVE  [Portal!Next]_(Portal!vars)
    BY <1>8 DEF Connect
  <1>9. CASE UNCHANGED adminVars
    BY <1>9 DEF adminVars
  <1>10. QED
    BY <1>1, <1>2, <1>3, <1>4, <1>5, <1>6, <1>7, <1>8, <1>9, StepKinds

-----------------------------------------------------------------------------
(***************************************************************************)
(* The portal keeps its part of the invariant, whatever it is called for.  *)
(***************************************************************************)

\* An entry that is replaced.
LEMMA EntryReplaced ==
    ASSUME PortalInv, NEW e \in Enrollments, NEW entry \in Portal!Entry,
           spool' = [spool EXCEPT ![e] = entry], UNCHANGED desk,
           entry.state = "pending" => entry.spki # None,
           entry.state = "cancelled" => ~entry.token /\ entry.response = None,
           desk[e] # None =>
              /\ entry.state \notin {"absent", "created"}
              /\ entry.state # "cancelled" => entry.spki = desk[e]
    PROVE  /\ spool' \in [Enrollments -> Portal!Entry]
           /\ \A d \in Enrollments : EntrySane(d)'
  <1>1. \A d \in Enrollments : spool'[d] = IF d = e THEN entry ELSE spool[d]
    BY DEF PortalInv, Portal!TypeOK
  <1>2. \A d \in Enrollments : EntrySane(d)'
    BY <1>1 DEF PortalInv, EntrySane
  <1>3. QED
    BY <1>2 DEF PortalInv, Portal!TypeOK

LEMMA RegisterSane ==
    ASSUME PortalInv, NEW e \in Enrollments, Portal!Register(e)
    PROVE  PortalInv'
  <1> USE DEF Portal!Register, Portal!Hold
  <1>1. Portal!TypeOK'
    BY DEF PortalInv, Portal!TypeOK, Portal!Task
  <1>2. \A d \in Enrollments : EntrySane(d)'
    BY DEF PortalInv, EntrySane
  <1>3. TaskSane' /\ \A k \in Keys : RunSane(k)'
    BY DEF PortalInv, TaskSane, RunSane
  <1>4. QED
    BY <1>1, <1>2, <1>3 DEF PortalInv

LEMMA RegisterStateSane ==
    ASSUME PortalInv, Portal!RegisterState
    PROVE  PortalInv'
  <1> DEFINE entry == Portal!Bare("created", TRUE)
  <1>1. /\ task.id \in Enrollments /\ spool[task.id].state = "absent"
        /\ spool' = [spool EXCEPT ![task.id] = entry]
        /\ task' = Portal!Free
        /\ UNCHANGED <<bundle, expired, runs, answers, desk>>
    BY DEF Portal!RegisterState, Portal!Save, PortalInv, TaskSane
  <1>2. desk[task.id] = None
    BY <1>1 DEF PortalInv, EntrySane
  <1>3. entry \in Portal!Entry /\ entry.state = "created"
    BY DEF Portal!Bare, Portal!Entry, Portal!States
  <1> HIDE DEF entry
  <1>4. /\ spool' \in [Enrollments -> Portal!Entry]
        /\ \A d \in Enrollments : EntrySane(d)'
    BY <1>1, <1>2, <1>3, EntryReplaced
  <1>5. Portal!TypeOK'
    BY <1>1, <1>4 DEF PortalInv, Portal!TypeOK, Portal!Task, Portal!Free
  <1>6. TaskSane' /\ \A k \in Keys : RunSane(k)'
    BY <1>1 DEF PortalInv, TaskSane, RunSane, Portal!Free
  <1>7. QED
    BY <1>4, <1>5, <1>6 DEF PortalInv

LEMMA RegisterFailsSane ==
    ASSUME PortalInv, Portal!RegisterFails \/ Portal!CancelBundle
    PROVE  PortalInv'
  <1>1. /\ task.id \in Enrollments
        /\ bundle' = [bundle EXCEPT ![task.id] = FALSE]
        /\ task' = Portal!Free
        /\ UNCHANGED <<spool, expired, runs, answers, desk>>
    BY DEF Portal!RegisterFails, Portal!CancelBundle, PortalInv, TaskSane
  <1>2. Portal!TypeOK'
    BY <1>1 DEF PortalInv, Portal!TypeOK, Portal!Task, Portal!Free
  <1>3. \A d \in Enrollments : EntrySane(d)'
    BY <1>1 DEF PortalInv, EntrySane
  <1>4. TaskSane' /\ \A k \in Keys : RunSane(k)'
    BY <1>1 DEF PortalInv, TaskSane, RunSane, Portal!Free
  <1>5. QED
    BY <1>2, <1>3, <1>4 DEF PortalInv

LEMMA InspectSane ==
    ASSUME PortalInv, NEW e \in Enrollments, Portal!Inspect(e)
    PROVE  PortalInv'
  <1> USE DEF Portal!Inspect
  <1>1. Portal!TypeOK'
    BY DEF PortalInv, Portal!TypeOK, Portal!Entry
  <1>2. \A d \in Enrollments : EntrySane(d)'
    BY DEF PortalInv, Portal!TypeOK, EntrySane
  <1>3. TaskSane' /\ \A k \in Keys : RunSane(k)'
    BY DEF PortalInv, TaskSane, RunSane
  <1>4. QED
    BY <1>1, <1>2, <1>3 DEF PortalInv

LEMMA PublishSane ==
    ASSUME PortalInv, NEW e \in Enrollments, NEW v \in Versions,
           desk[e] # None,
           Portal!Publish(e, [key |-> desk[e], version |-> v], desk[e])
    PROVE  PortalInv'
  <1> DEFINE r == [key |-> desk[e], version |-> v]
             entry == [spool[e] EXCEPT !.state = "approved", !.response = r]
  <1>1. r \in Portal!Response
    BY DEF PortalInv, Portal!TypeOK, Portal!Response
  <1>2. /\ spool' = [spool EXCEPT ![e] = entry] /\ task = Portal!Free
        /\ spool[e].state \in {"pending", "approved"}
        /\ UNCHANGED <<bundle, expired, task, runs, answers, desk>>
    BY DEF Portal!Publish, Portal!Save, Portal!MayPublish
  <1> HIDE DEF r
  <1>3. /\ entry \in Portal!Entry
        /\ entry.state = "approved" /\ entry.spki = spool[e].spki
    BY <1>1 DEF PortalInv, Portal!TypeOK, Portal!Entry, Portal!States
  <1> HIDE DEF entry
  <1>4. spool[e].spki = desk[e]
    BY <1>2 DEF PortalInv, EntrySane
  <1>5. /\ spool' \in [Enrollments -> Portal!Entry]
        /\ \A d \in Enrollments : EntrySane(d)'
    BY <1>2, <1>3, <1>4, EntryReplaced
  <1>6. Portal!TypeOK'
    BY <1>2, <1>5 DEF PortalInv, Portal!TypeOK
  <1>7. TaskSane' /\ \A k \in Keys : RunSane(k)'
    BY <1>2 DEF PortalInv, TaskSane, RunSane, Portal!Free
  <1>8. QED
    BY <1>5, <1>6, <1>7 DEF PortalInv

LEMMA CancelSane ==
    ASSUME PortalInv, NEW e \in Enrollments, Portal!Cancel(e)
    PROVE  PortalInv' /\ Cancelled(e)'
  <1> DEFINE entry == Portal!Bare("cancelled", FALSE)
  <1>1. /\ spool' = [spool EXCEPT ![e] = entry]
        /\ task' = [kind |-> "cancel", id |-> e, run |-> None, response |-> None]
        /\ UNCHANGED <<bundle, expired, runs, answers, desk>>
    BY DEF Portal!Cancel, Portal!Save, Portal!Hold
  <1>2. /\ entry \in Portal!Entry /\ entry.state = "cancelled"
        /\ ~entry.token /\ entry.response = None
    BY DEF Portal!Bare, Portal!Entry, Portal!States
  <1> HIDE DEF entry
  <1>3. /\ spool' \in [Enrollments -> Portal!Entry]
        /\ \A d \in Enrollments : EntrySane(d)'
    BY <1>1, <1>2, EntryReplaced
  <1>4. Portal!TypeOK'
    BY <1>1, <1>3 DEF PortalInv, Portal!TypeOK, Portal!Task
  <1>5. TaskSane' /\ \A k \in Keys : RunSane(k)'
    BY <1>1 DEF PortalInv, TaskSane, RunSane
  <1>6. Cancelled(e)'
    BY <1>1, <1>2 DEF Cancelled, PortalInv, Portal!TypeOK
  <1>7. QED
    BY <1>3, <1>4, <1>5, <1>6 DEF PortalInv

LEMMA ChallengeSane ==
    ASSUME PortalInv, NEW e \in Enrollments, NEW k \in Keys,
           Portal!Challenge(e, k)
    PROVE  PortalInv'
  <1> USE DEF Portal!Challenge
  <1>1. Portal!TypeOK'
    BY DEF PortalInv, Portal!TypeOK, Portal!Run
  <1>2. \A d \in Enrollments : EntrySane(d)'
    BY DEF PortalInv, EntrySane
  <1>3. TaskSane' /\ \A j \in Keys : RunSane(j)'
    BY DEF PortalInv, Portal!TypeOK, TaskSane, RunSane
  <1>4. QED
    BY <1>1, <1>2, <1>3 DEF PortalInv

LEMMA RunEnded ==
    ASSUME PortalInv, NEW k \in Keys, NEW stage \in {"waiting", "failed"},
           runs' = Portal!Ended(k, stage), runs[k].id \in Enrollments
    PROVE  runs' \in [Keys -> Portal!Run] /\ \A j \in Keys : RunSane(j)'
  <1>1. [runs[k] EXCEPT !.stage = stage] \in Portal!Run
    BY DEF PortalInv, Portal!TypeOK, Portal!Run
  <1>2. /\ runs' \in [Keys -> Portal!Run]
        /\ \A j \in Keys : runs'[j].id = runs[j].id
        /\ \A j \in Keys \ {k} : runs'[j] = runs[j]
    BY <1>1 DEF PortalInv, Portal!TypeOK, Portal!Run, Portal!Ended
  <1>3. QED
    BY <1>2 DEF PortalInv, RunSane

LEMMA PollSane ==
    ASSUME PortalInv, NEW k \in Keys, Portal!Poll(k) \/ Portal!GiveUp(k)
    PROVE  PortalInv'
  <1>1. /\ runs' = Portal!Ended(k, "failed") /\ runs[k].id \in Enrollments
        /\ UNCHANGED <<spool, bundle, expired, task, answers, desk>>
    BY DEF Portal!Poll, Portal!GiveUp, PortalInv, RunSane
  <1>2. runs' \in [Keys -> Portal!Run] /\ \A j \in Keys : RunSane(j)'
    BY <1>1, RunEnded
  <1>3. QED
    BY <1>1, <1>2 DEF PortalInv, Portal!TypeOK, EntrySane, TaskSane

LEMMA SubmitSane ==
    ASSUME PortalInv, NEW k \in Keys, Portal!Submit(k)
    PROVE  PortalInv'
  <1> DEFINE e == runs[k].id
             entry == [spool[e] EXCEPT !.state = "pending", !.spki = k]
  <1>1. /\ e \in Enrollments /\ task = Portal!Free
        /\ UNCHANGED <<bundle, expired, task, answers, desk>>
    BY DEF Portal!Submit, PortalInv, RunSane
  <1>2. runs' \in [Keys -> Portal!Run] /\ \A j \in Keys : RunSane(j)'
    BY <1>1, RunEnded DEF Portal!Submit
  <1>3. TaskSane'
    BY <1>1 DEF TaskSane, Portal!Free
  <1>4. CASE UNCHANGED spool
    BY <1>1, <1>2, <1>3, <1>4 DEF PortalInv, Portal!TypeOK, EntrySane
  <1>5. CASE Portal!MaySubmit(e)
    <2>1. spool[e].state = "created" /\ spool' = [spool EXCEPT ![e] = entry]
      BY <1>5 DEF Portal!Submit, Portal!MaySubmit, Portal!Save
    <2>2. desk[e] = None /\ k # None
      BY <1>1, <2>1, NoneAssumption DEF PortalInv, EntrySane
    <2> HIDE DEF e
    <2>3. entry \in Portal!Entry /\ entry.state = "pending" /\ entry.spki = k
      <3>1. spool[e] \in Portal!Entry
        BY <1>1 DEF PortalInv, Portal!TypeOK
      <3>2. QED
        BY <3>1 DEF Portal!Entry, Portal!States
    <2> HIDE DEF entry
    <2>4. /\ spool' \in [Enrollments -> Portal!Entry]
          /\ \A d \in Enrollments : EntrySane(d)'
      BY <1>1, <2>1, <2>2, <2>3, EntryReplaced
    <2>5. QED
      BY <1>1, <1>2, <1>3, <2>4 DEF PortalInv, Portal!TypeOK
  <1>6. QED
    BY <1>4, <1>5 DEF Portal!Submit

LEMMA ResultSane ==
    ASSUME PortalInv, NEW k \in Keys, Portal!Result(k)
    PROVE  PortalInv'
  <1> DEFINE e == runs[k].id
             entry == [spool[e] EXCEPT !.state = "collected", !.response = None]
             r == spool[e].response
  <1>1. /\ e \in Enrollments /\ spool[e].state = "approved"
        /\ spool' = [spool EXCEPT ![e] = entry]
        /\ task' = [kind |-> "result", id |-> e, run |-> k, response |-> r]
        /\ UNCHANGED <<bundle, expired, runs, answers, desk>>
    BY DEF Portal!Result, Portal!Save, Portal!Hold, PortalInv, RunSane
  <1>2. /\ entry \in Portal!Entry
        /\ entry.state = "collected" /\ entry.spki = spool[e].spki
        /\ r \in Portal!Response \cup {None}
    <2>1. spool[e] \in Portal!Entry
      BY <1>1 DEF PortalInv, Portal!TypeOK
    <2> HIDE DEF e
    <2>2. QED
      BY <2>1 DEF Portal!Entry, Portal!States
  <1>3. desk[e] # None => spool[e].spki = desk[e]
    BY <1>1 DEF PortalInv, EntrySane
  <1> HIDE DEF e, entry, r
  <1>4. /\ spool' \in [Enrollments -> Portal!Entry]
        /\ \A d \in Enrollments : EntrySane(d)'
    BY <1>1, <1>2, <1>3, EntryReplaced
  <1>5. Portal!TypeOK'
    BY <1>1, <1>2, <1>4 DEF PortalInv, Portal!TypeOK, Portal!Task
  <1>6. TaskSane' /\ \A j \in Keys : RunSane(j)'
    BY <1>1 DEF PortalInv, TaskSane, RunSane
  <1>7. QED
    BY <1>4, <1>5, <1>6 DEF PortalInv

LEMMA AnswerSane ==
    ASSUME PortalInv, Portal!Answer
    PROVE  PortalInv'
  <1> DEFINE run == [stage |-> "done", id |-> task.id, profile |-> task.response]
  <1>1. /\ task.id \in Enrollments /\ task.run \in Keys
        /\ bundle' = [bundle EXCEPT ![task.id] = FALSE]
        /\ answers' = [answers EXCEPT ![task.id] = @ + 1]
        /\ task' = Portal!Free
        /\ UNCHANGED <<spool, expired, desk>>
    BY DEF Portal!Answer, PortalInv, TaskSane
  <1>2. runs' = [runs EXCEPT ![task.run] = run] \/ UNCHANGED runs
    BY DEF Portal!Answer, Portal!Receive
  <1>3. run \in Portal!Run /\ run.stage = "done"
    BY <1>1 DEF PortalInv, Portal!TypeOK, Portal!Task, Portal!Run
  <1>4. answers' \in [Enrollments -> Nat]
    BY <1>1 DEF PortalInv, Portal!TypeOK
  <1> HIDE DEF run
  <1>5. runs' \in [Keys -> Portal!Run] /\ \A j \in Keys : RunSane(j)'
    BY <1>1, <1>2, <1>3 DEF PortalInv, Portal!TypeOK, RunSane
  <1>6. Portal!TypeOK'
    BY <1>1, <1>4, <1>5 DEF PortalInv, Portal!TypeOK, Portal!Task, Portal!Free
  <1>7. TaskSane' /\ \A d \in Enrollments : EntrySane(d)'
    BY <1>1 DEF PortalInv, TaskSane, EntrySane, Portal!Free
  <1>8. QED
    BY <1>5, <1>6, <1>7 DEF PortalInv

LEMMA PortalNextSane ==
    ASSUME PortalInv, [Portal!Next]_(Portal!vars)
    PROVE  PortalInv'
  <1>1. CASE Portal!Crash
    BY <1>1 DEF Portal!Crash, Portal!Free, PortalInv, Portal!TypeOK,
                Portal!Task, EntrySane, TaskSane, RunSane
  <1>2. ASSUME NEW e \in Enrollments, Portal!Expire(e)
        PROVE  PortalInv'
    BY <1>2 DEF Portal!Expire, PortalInv, Portal!TypeOK, EntrySane, TaskSane,
                RunSane
  <1>3. CASE UNCHANGED Portal!vars
    BY <1>3 DEF Portal!vars, PortalInv, Portal!TypeOK, EntrySane, TaskSane,
                RunSane
  <1>4. CASE Portal!SecondWrite
    BY <1>4, RegisterStateSane, RegisterFailsSane, AnswerSane
       DEF Portal!SecondWrite
  <1>5. ASSUME NEW k \in Keys, Portal!Request(k)
        PROVE  PortalInv'
    BY <1>5, ChallengeSane, SubmitSane, PollSane, ResultSane
       DEF Portal!Request
  <1>6. QED
    BY <1>1, <1>2, <1>3, <1>4, <1>5, RegisterSane, InspectSane, CancelSane,
       PublishSane DEF Portal!Next

\* What the portal never takes back: a key once inspected stays the one
\* inspected, and what is cancelled stays cancelled.
PortalStays ==
    \A e \in Enrollments :
        /\ desk[e] # None => desk'[e] = desk[e]
        /\ Cancelled(e) => Cancelled(e)'

LEMMA PortalNextStays ==
    ASSUME PortalInv, [Portal!Next]_(Portal!vars)
    PROVE  PortalStays
  <1> USE DEF PortalStays, Cancelled
  <1>1. ASSUME NEW e \in Enrollments, Portal!Inspect(e)
        PROVE  PortalStays
    BY <1>1 DEF Portal!Inspect, PortalInv, Portal!TypeOK, EntrySane
  <1>2. CASE Portal!RegisterState
    BY <1>2 DEF Portal!RegisterState, Portal!Save, PortalInv, Portal!TypeOK,
                TaskSane
  <1>3. ASSUME NEW e \in Enrollments, Portal!Cancel(e)
        PROVE  PortalStays
    BY <1>3 DEF Portal!Cancel, Portal!Save, Portal!Bare, PortalInv,
                Portal!TypeOK
  <1>4. ASSUME NEW e \in Enrollments, NEW r, NEW k, Portal!Publish(e, r, k)
        PROVE  PortalStays
    BY <1>4 DEF Portal!Publish, Portal!MayPublish, Portal!Save, PortalInv,
                Portal!TypeOK
  <1>5. ASSUME NEW k \in Keys, Portal!Submit(k) \/ Portal!Result(k)
        PROVE  PortalStays
    BY <1>5 DEF Portal!Submit, Portal!MaySubmit, Portal!Result, Portal!Save,
                PortalInv, Portal!TypeOK
  <1>6. ASSUME UNCHANGED <<spool, desk>>
        PROVE  PortalStays
    BY <1>6
  <1>7. ASSUME NEW e \in Enrollments, Portal!Register(e) \/ Portal!Expire(e)
        PROVE  UNCHANGED <<spool, desk>>
    BY <1>7 DEF Portal!Register, Portal!Expire
  <1>8. ASSUME NEW k \in Keys,
               \/ \E e \in Enrollments : Portal!Challenge(e, k)
               \/ Portal!Poll(k) \/ Portal!GiveUp(k)
        PROVE  UNCHANGED <<spool, desk>>
    BY <1>8 DEF Portal!Challenge, Portal!Poll, Portal!GiveUp
  <1>9. ASSUME \/ Portal!RegisterFails \/ Portal!CancelBundle
               \/ Portal!Answer \/ Portal!Crash \/ UNCHANGED Portal!vars
        PROVE  UNCHANGED <<spool, desk>>
    BY <1>9 DEF Portal!RegisterFails, Portal!CancelBundle, Portal!Answer,
                Portal!Crash, Portal!vars
  <1> HIDE DEF PortalStays
  <1>10. ASSUME NEW k \in Keys, Portal!Request(k)
         PROVE  PortalStays
    BY <1>5, <1>6, <1>8, <1>10 DEF Portal!Request
  <1>11. CASE Portal!SecondWrite
    BY <1>2, <1>6, <1>9, <1>11 DEF Portal!SecondWrite
  <1>12. QED
    BY <1>1, <1>3, <1>4, <1>6, <1>7, <1>9, <1>10, <1>11 DEF Portal!Next

-----------------------------------------------------------------------------
(***************************************************************************)
(* The progress of the processes.                                          *)
(***************************************************************************)
Waits == {"nobody", "engine", "portal"}

\* Process a comes to step s, for enrolment id and player p, and waits for w.
Moves(a, s, id, p, w) ==
    /\ procs' \in [Admins -> Process]
    /\ \A b \in Admins \ {a} : procs'[b] = procs[b]
    /\ procs'[a].step = s /\ procs'[a].waits = w
    /\ procs'[a].id = id /\ procs'[a].player = p

LEMMA GotoMoves ==
    ASSUME AdminInv, NEW a \in Admins, NEW s \in ProcessSteps, Goto(a, s)
    PROVE  Moves(a, s, procs[a].id, procs[a].player, procs[a].waits)
  BY DEF Goto, Moves, AdminInv, AdminTypeOK, Process

LEMMA CallEngineMoves ==
    ASSUME AdminInv, NEW a \in Admins, NEW s \in ProcessSteps, CallEngine(a, s)
    PROVE  Moves(a, s, procs[a].id, procs[a].player, "engine")
  BY DEF CallEngine, Moves, AdminInv, AdminTypeOK, Process

LEMMA CallPortalMoves ==
    ASSUME AdminInv, NEW a \in Admins, NEW s \in ProcessSteps, CallPortal(a, s)
    PROVE  Moves(a, s, procs[a].id, procs[a].player, "portal")
  BY DEF CallPortal, Moves, AdminInv, AdminTypeOK, Process

\* A command that takes up an enrolment.
LEMMA TakesUpMoves ==
    ASSUME AdminInv, NEW a \in Admins, NEW s \in ProcessSteps,
           NEW e \in Enrollments, NEW w \in Waits,
           \/ procs' = [procs EXCEPT ![a].step = s, ![a].id = e, ![a].waits = w]
           \/ /\ procs' = [procs EXCEPT ![a].step = s, ![a].id = e]
              /\ w = procs[a].waits
    PROVE  Moves(a, s, e, procs[a].player, w)
  BY DEF Moves, Waits, AdminInv, AdminTypeOK, Process

LEMMA AfterStep ==
    ASSUME NEW a \in Admins
    PROVE  /\ After(a) \in {"end", "next"}
           /\ After(a) = "next" <=> procs[a].player # None
  BY DEF After

\* Where the commands begin.
LEMMA CommandMoves ==
    ASSUME AdminInv, NEW a \in Admins
    PROVE  \A e \in Enrollments :
             /\ \A p \in Players, m \in Modes : AdminCreate(a, e, p, m) =>
                   At(a, "idle") /\ Moves(a, "register", e, None, "engine")
             /\ Review(a, e) => At(a, "idle")
                   /\ Moves(a, "confirm", e, procs[a].player, "nobody")
             /\ AdminReject(a, e) => At(a, "idle")
                   /\ Moves(a, "reject", e, procs[a].player, "portal")
             /\ AdminRevoke(a, e) => At(a, "idle")
                   /\ Moves(a, "begin-revoke", e, procs[a].player, "nobody")
             /\ AdminConfirmConnection(a, e) => At(a, "idle")
                   /\ Moves(a, "end", procs[a].id, procs[a].player, "engine")
  <1> USE DEF ProcessSteps, Given, At, Waits
  <1>1. ASSUME NEW e \in Enrollments, NEW p, NEW m, AdminCreate(a, e, p, m)
        PROVE  At(a, "idle") /\ Moves(a, "register", e, None, "engine")
    <2> DEFINE new == [AtRest EXCEPT !.step = "register", !.id = e,
                                     !.waits = "engine"]
    <2>1. procs' = [procs EXCEPT ![a] = new] /\ At(a, "idle")
      BY <1>1 DEF AdminCreate
    <2>2. /\ new \in Process /\ new.step = "register" /\ new.id = e
          /\ new.waits = "engine" /\ new.player = None
      BY AtRestType DEF Process, AtRest
    <2> HIDE DEF new
    <2>3. QED
      BY <2>1, <2>2 DEF Moves, AdminInv, AdminTypeOK
  <1>2. ASSUME NEW e \in Enrollments, Review(a, e)
        PROVE  At(a, "idle")
               /\ Moves(a, "confirm", e, procs[a].player, "nobody")
    BY <1>2, TakesUpMoves DEF Review
  <1>3. ASSUME NEW e \in Enrollments, AdminReject(a, e)
        PROVE  At(a, "idle")
               /\ Moves(a, "reject", e, procs[a].player, "portal")
    BY <1>3, TakesUpMoves DEF AdminReject
  <1>4. ASSUME NEW e \in Enrollments, AdminRevoke(a, e)
        PROVE  At(a, "idle")
               /\ Moves(a, "begin-revoke", e, procs[a].player, "nobody")
    BY <1>4, TakesUpMoves DEF AdminRevoke
  <1>5. ASSUME NEW e \in Enrollments, AdminConfirmConnection(a, e)
        PROVE  At(a, "idle")
               /\ Moves(a, "end", procs[a].id, procs[a].player, "engine")
    BY <1>5, CallEngineMoves DEF AdminConfirmConnection
  <1>6. QED
    BY <1>1, <1>2, <1>3, <1>4, <1>5

\* How they go on.
LEMMA StepMoves ==
    ASSUME AdminInv, NEW a \in Admins
    PROVE  LET Step(from, to, w) ==
                 At(a, from) /\ Moves(a, to, procs[a].id, procs[a].player, w)
           IN  /\ RegisterInvitation(a) => Step("register", "end", "portal")
               /\ Confirm(a) => \E s \in {"import", "sign", "bundle"} :
                                   Step("confirm", s, "nobody")
               /\ Import(a) => Step("import", "sign", "engine")
               /\ AdminSign(a) => Step("sign", "bundle", "engine")
               /\ TakeBundle(a) => Step("bundle", "companion", "nobody")
               /\ RegisterCompanion(a) => Step("companion", "publish", "nobody")
               /\ Publish(a) => Step("publish", "finalize", "nobody")
               /\ Finalize(a) => Step("finalize", "end", "engine")
               /\ RejectInEngine(a) => Step("reject", After(a), "engine")
               /\ AdminBeginRevoke(a) => \E w \in {"nobody", "engine"} :
                                            Step("begin-revoke", "pki", w)
               /\ RevokeCertificate(a) => Step("pki", "crl", "nobody")
               /\ DeployCrl(a) => Step("crl", "restart", "nobody")
               /\ RestartOpenVpn(a) => Step("restart", "finish", "nobody")
               /\ FinishRevoke(a) => Step("finish", After(a), "engine")
               /\ RemoveCompanion(a) => Step("next", "retire", "nobody")
               /\ Retire(a) => Step("retire", "end", "engine")
  <1> DEFINE Step(from, to, w) ==
               At(a, from) /\ Moves(a, to, procs[a].id, procs[a].player, w)
  <1> USE DEF At
  <1>1. ProcessSteps = {"idle", "end", "register", "confirm", "import", "sign",
                        "bundle", "companion", "publish", "finalize", "reject",
                        "begin-revoke", "pki", "crl", "restart", "finish",
                        "next", "retire"}
    BY DEF ProcessSteps
  <1>2. RegisterInvitation(a) => Step("register", "end", "portal")
    BY <1>1, CallPortalMoves DEF RegisterInvitation
  <1>3. Confirm(a) => \E s \in {"import", "sign", "bundle"} :
                          Step("confirm", s, "nobody")
    BY <1>1, GotoMoves DEF Confirm
  <1>4. Import(a) => Step("import", "sign", "engine")
    BY <1>1, CallEngineMoves DEF Import
  <1>5. AdminSign(a) => Step("sign", "bundle", "engine")
    BY <1>1, CallEngineMoves DEF AdminSign
  <1>6. TakeBundle(a) => Step("bundle", "companion", "nobody")
    BY <1>1, GotoMoves DEF TakeBundle
  <1>7. RegisterCompanion(a) => Step("companion", "publish", "nobody")
    <2> SUFFICES ASSUME RegisterCompanion(a)
                 PROVE  Step("companion", "publish", "nobody")
      OBVIOUS
    <2>1. PICK v \in Versions :
             procs' = [procs EXCEPT ![a].step = "publish", ![a].version = v]
      BY DEF RegisterCompanion, Versions
    <2>2. At(a, "companion")
      BY DEF RegisterCompanion
    <2>3. "publish" \in ProcessSteps
      BY <1>1
    <2>4. procs \in [Admins -> Process]
      BY DEF AdminInv, AdminTypeOK
    <2> DEFINE new == [procs[a] EXCEPT !.step = "publish", !.version = v]
    <2>5. /\ new \in Process /\ new.step = "publish" /\ new.id = procs[a].id
          /\ new.waits = procs[a].waits /\ new.player = procs[a].player
      BY <2>1, <2>3, <2>4 DEF Process
    <2>6. procs' = [procs EXCEPT ![a] = new]
      BY <2>1, <2>4 DEF Process
    <2> HIDE DEF new
    <2>7. QED
      BY <2>2, <2>4, <2>5, <2>6 DEF Moves
  <1>8. Publish(a) => Step("publish", "finalize", "nobody")
    BY <1>1, GotoMoves DEF Publish
  <1>9. Finalize(a) => Step("finalize", "end", "engine")
    BY <1>1, CallEngineMoves DEF Finalize
  <1>10. RejectInEngine(a) => Step("reject", After(a), "engine")
    BY <1>1, CallEngineMoves, AfterStep DEF RejectInEngine
  <1>11. AdminBeginRevoke(a) => \E w \in {"nobody", "engine"} :
                                   Step("begin-revoke", "pki", w)
    BY <1>1, GotoMoves, CallEngineMoves DEF AdminBeginRevoke
  <1>12. RevokeCertificate(a) => Step("pki", "crl", "nobody")
    BY <1>1, GotoMoves DEF RevokeCertificate
  <1>13. DeployCrl(a) => Step("crl", "restart", "nobody")
    BY <1>1, GotoMoves DEF DeployCrl
  <1>14. RestartOpenVpn(a) => Step("restart", "finish", "nobody")
    BY <1>1, GotoMoves DEF RestartOpenVpn
  <1>15. FinishRevoke(a) => Step("finish", After(a), "engine")
    BY <1>1, CallEngineMoves, AfterStep DEF FinishRevoke
  <1>16. RemoveCompanion(a) => Step("next", "retire", "nobody")
    BY <1>1, GotoMoves DEF RemoveCompanion
  <1>17. Retire(a) => Step("retire", "end", "engine")
    BY <1>1, CallEngineMoves DEF Retire
  <1>18. QED
    BY <1>2, <1>3, <1>4, <1>5, <1>6, <1>7, <1>8, <1>9, <1>10, <1>11, <1>12,
       <1>13, <1>14, <1>15, <1>16, <1>17

LEMMA OffboardMoves ==
    ASSUME AdminInv, NEW a \in Admins
    PROVE  /\ \A p \in Players : Inventory(a, p) =>
                 At(a, "idle") /\ Moves(a, "next", procs[a].id, p, "nobody")
           /\ \A e \in Enrollments : Dispose(a, e) =>
                 /\ At(a, "next")
                 /\ \E s \in {"begin-revoke", "reject", "next"} :
                       Moves(a, s, e, procs[a].player, "portal")
           /\ Stop(a) => Moves(a, "idle", None, None, "nobody")
  <1>1. procs \in [Admins -> Process]
    BY DEF AdminInv, AdminTypeOK
  <1>2. ASSUME NEW p \in Players, Inventory(a, p)
        PROVE  At(a, "idle") /\ Moves(a, "next", procs[a].id, p, "nobody")
    <2> DEFINE todo == [e \in Enrollments |-> Noted(items[e], p)]
    <2>1. todo \in [Enrollments -> Notes]
      BY DEF Noted, Notes
    <2>2. /\ procs' = [procs EXCEPT ![a].step = "next", ![a].player = p,
                                    ![a].todo = todo]
          /\ At(a, "idle")
      BY <1>2 DEF Inventory, Given
    <2>3. "next" \in ProcessSteps
      BY DEF ProcessSteps
    <2> HIDE DEF todo
    <2> DEFINE new == [procs[a] EXCEPT !.step = "next", !.player = p,
                                       !.todo = todo]
    <2>4. procs[a].waits = "nobody"
      BY <2>2 DEF At
    <2>5. /\ new \in Process /\ new.step = "next" /\ new.id = procs[a].id
          /\ new.waits = "nobody" /\ new.player = p
      BY <1>1, <2>1, <2>3, <2>4 DEF Process
    <2>6. procs' = [procs EXCEPT ![a] = new]
      BY <1>1, <2>2 DEF Process
    <2> HIDE DEF new
    <2>7. QED
      BY <1>1, <2>2, <2>5, <2>6 DEF Moves
  <1>3. ASSUME NEW e \in Enrollments, Dispose(a, e)
        PROVE  /\ At(a, "next")
               /\ \E s \in {"begin-revoke", "reject", "next"} :
                     Moves(a, s, e, procs[a].player, "portal")
    <2>1. PICK s \in {"begin-revoke", "reject", "next"} :
             procs' = [procs EXCEPT ![a].step = s, ![a].id = e,
                                    ![a].todo[e] = "none", ![a].waits = "portal"]
      BY <1>3 DEF Dispose
    <2>2. s \in ProcessSteps
      BY DEF ProcessSteps
    <2>3. "none" \in Notes
      BY DEF Notes
    <2>4. [procs[a].todo EXCEPT ![e] = "none"] \in [Enrollments -> Notes]
      BY <1>1, <2>3 DEF Process
    <2> DEFINE new == [procs[a] EXCEPT !.step = s, !.id = e,
                          !.todo = [procs[a].todo EXCEPT ![e] = "none"],
                          !.waits = "portal"]
    <2>5. /\ new \in Process /\ new.step = s /\ new.id = e
          /\ new.waits = "portal" /\ new.player = procs[a].player
      BY <1>1, <2>2, <2>4 DEF Process
    <2>6. procs' = [procs EXCEPT ![a] = new]
      BY <1>1, <2>1 DEF Process
    <2> HIDE DEF new
    <2>7. Moves(a, s, e, procs[a].player, "portal")
      BY <1>1, <2>5, <2>6 DEF Moves
    <2>8. QED
      BY <1>3, <2>7 DEF Dispose
  <1>4. ASSUME Stop(a)
        PROVE  Moves(a, "idle", None, None, "nobody")
    <2>1. /\ AtRest.step = "idle" /\ AtRest.id = None
          /\ AtRest.player = None /\ AtRest.waits = "nobody"
      BY DEF AtRest
    <2>2. QED
      BY <1>1, <1>4, <2>1, AtRestType DEF Stop, Moves
  <1>5. QED
    BY <1>2, <1>3, <1>4

-----------------------------------------------------------------------------
(***************************************************************************)
(* What the calls of the engine have to write, for the process that made   *)
(* them.                                                                   *)
(***************************************************************************)
BeganSame(e, s) ==
    e \in Enrollments /\ Began(e, s, items[e].player, items[e].spki)

LEMMA WorkBegan ==
    ASSUME AdminInv, NEW a \in Admins
    PROVE  LET e == procs[a].id
           IN  /\ Import(a) =>
                     /\ e \in Enrollments /\ Live(items[e])
                     /\ desk[e] \in Keys
                     /\ Began(e, "csr-submitted", items[e].player, desk[e])
               /\ AdminSign(a) =>
                     BeganSame(e, "approved") /\ Live(items[e])
               /\ Finalize(a) =>
                     BeganSame(e, "collected") /\ Live(items[e])
               /\ RejectInEngine(a) => BeganSame(e, "rejected")
               /\ AdminBeginRevoke(a) =>
                     \/ BeganSame(e, "revoking") /\ Live(items[e])
                     \/ UNCHANGED <<engineFiles, expired>>
               /\ FinishRevoke(a) => BeganSame(e, "revoked")
  <1> DEFINE e == procs[a].id
  <1> USE DEF BeganSame, Live, Terminal
  <1>1. TypeOK
    BY DEF AdminInv, AdminTypeOK
  <1>2. procs[a].step \in {"import", "sign", "finalize", "reject",
                           "begin-revoke", "finish"} => e \in Enrollments
    BY IdType DEF Working, ProcessSteps
  <1>3. Import(a) =>
           /\ e \in Enrollments /\ Live(items[e]) /\ desk[e] \in Keys
           /\ Began(e, "csr-submitted", items[e].player, desk[e])
    <2> SUFFICES ASSUME Import(a)
                 PROVE  /\ e \in Enrollments /\ Live(items[e]) /\ desk[e] \in Keys
                        /\ Began(e, "csr-submitted", items[e].player, desk[e])
      OBVIOUS
    <2>1. e \in Enrollments /\ desk[e] # None
      BY <1>2 DEF Import, At, AdminInv, StepSane
    <2>2. desk[e] \in Keys /\ ImportPortalSubmission(e, desk[e])
      BY <2>1, DeskType DEF Import
    <2>3. Live(items[e])
      BY <2>2 DEF ImportPortalSubmission, AcceptRequest, RequireState
    <2>4. QED
      BY <1>1, <2>1, <2>2, <2>3, ImportBegan
  <1>4. AdminSign(a) => BeganSame(e, "approved") /\ Live(items[e])
    BY <1>1, <1>2, ApproveBegan DEF AdminSign, At, Approve, RequireState
  <1>5. Finalize(a) => BeganSame(e, "collected") /\ Live(items[e])
    BY <1>1, <1>2, FinalizeBegan
       DEF Finalize, At, FinalizePublication, RequireState
  <1>6. RejectInEngine(a) => BeganSame(e, "rejected")
    BY <1>1, <1>2, RejectBegan DEF RejectInEngine, At
  <1>7. AdminBeginRevoke(a) =>
           \/ BeganSame(e, "revoking") /\ Live(items[e])
           \/ UNCHANGED <<engineFiles, expired>>
    BY <1>1, <1>2, BeginRevokeBegan DEF AdminBeginRevoke, At, BeginRevoke
  <1>8. FinishRevoke(a) => BeganSame(e, "revoked")
    BY <1>1, <1>2, FinalizeRevokeBegan DEF FinishRevoke, At
  <1>9. QED
    BY <1>3, <1>4, <1>5, <1>6, <1>7, <1>8

LEMMA CommandBegan ==
    ASSUME AdminInv, NEW a \in Admins, NEW e \in Enrollments
    PROVE  /\ \A p \in Players, m \in Modes :
                 AdminCreate(a, e, p, m) => Began(e, "created", p, None)
           /\ AdminConfirmConnection(a, e) =>
                 BeganSame(e, "collected") /\ Live(items[e])
  <1>1. TypeOK
    BY DEF AdminInv, AdminTypeOK
  <1>2. ASSUME NEW p \in Players, NEW m \in Modes, AdminCreate(a, e, p, m)
        PROVE  Began(e, "created", p, None)
    BY <1>2, CreateBegan DEF AdminCreate
  <1>3. AdminConfirmConnection(a, e) =>
           BeganSame(e, "collected") /\ Live(items[e])
    BY <1>1, ConfirmBegan DEF AdminConfirmConnection, ConfirmConnection, Live,
                              Terminal, BeganSame
  <1>4. QED
    BY <1>2, <1>3

\* An enrolment changes by the last write of a command, to what was pending.
Saved ==
    /\ EngineWrites /\ Saving /\ tx.id \in Enrollments /\ tx' = Idle
    /\ items' = [items EXCEPT ![tx.id] = tx.item]

LEMMA ItemsChange ==
    ASSUME AdminInv, [AdminNext]_adminVars
    PROVE  UNCHANGED items \/ Saved
  <1>1. TypeOK /\ ActivationInv
    BY DEF AdminInv, AdminTypeOK
  <1>2. ASSUME NEW a \in Admins,
               \/ Quiet(a) \/ CallsPortal(a) \/ AdminBeginRevoke(a)
               \/ \E e \in Enrollments : Review(a, e)
        PROVE  UNCHANGED items
    BY <1>2, QuietStep, CallsPortalStep, BeginRevokeStep, CommandReads, ReviewStep
       DEF engineFiles, Command
  <1>3. ASSUME NEW a \in Admins, CallsEngine(a)
        PROVE  UNCHANGED items
    BY <1>3, CallsEngineStep, CommandReads
  <1>4. CASE EngineWrites
    BY <1>1, <1>4, WriteShape DEF EngineWrites, Saved
  <1>5. CASE EngineFails
    BY <1>5 DEF EngineFails, Interrupt
  <1>6. CASE PortalWorks
    BY <1>6, PortalWorksStep DEF engineFiles
  <1>7. ASSUME NEW e \in Enrollments, AdminExpire(e) \/ Connect(e)
        PROVE  UNCHANGED items
    BY <1>7 DEF AdminExpire, Expire, Connect, engineFiles
  <1>8. CASE UNCHANGED adminVars
    BY <1>8 DEF adminVars, engineFiles
  <1>9. QED
    BY <1>2, <1>3, <1>4, <1>5, <1>6, <1>7, <1>8, StepKinds

\* What the command that holds the lock has still to save.
TxStep ==
    \/ UNCHANGED tx
    \/ tx' = Idle
    \/ UNCHANGED <<tx.id, tx.item>> /\ tx.step # "idle" /\ tx'.step # "idle"
    \/ tx'.id = None
    \/ \E e \in Enrollments :
          \/ tx'.id = e /\ tx'.item.spki \in {None, items[e].spki, desk[e]}

LEMMA TxChange ==
    ASSUME AdminInv, [AdminNext]_adminVars
    PROVE  TxStep
  <1>1. TypeOK /\ ActivationInv
    BY DEF AdminInv, AdminTypeOK
  <1>2. ASSUME NEW a \in Admins,
               \/ Quiet(a) \/ CallsPortal(a)
               \/ \E e \in Enrollments : Review(a, e)
        PROVE  UNCHANGED tx
    BY <1>2, QuietStep, CallsPortalStep, ReviewStep DEF engineFiles
  <1>3. ASSUME NEW a \in Admins, CallsEngine(a) \/ AdminBeginRevoke(a)
        PROVE  TxStep
    BY <1>3, WorkBegan, CommandBegan, RetireBegan
       DEF CallsEngine, Retire, TxStep, Began, BeganSame, engineFiles
  <1>4. CASE EngineWrites
    BY <1>1, <1>4, WriteShape DEF EngineWrites, TxStep
  <1>5. CASE EngineFails
    BY <1>5 DEF EngineFails, Interrupt, TxStep
  <1>6. CASE PortalWorks
    BY <1>6, PortalWorksStep DEF engineFiles, TxStep
  <1>7. ASSUME NEW e \in Enrollments, AdminExpire(e) \/ Connect(e)
        PROVE  UNCHANGED tx
    BY <1>7 DEF AdminExpire, Expire, Connect, engineFiles
  <1>8. CASE UNCHANGED adminVars
    BY <1>8 DEF adminVars, engineFiles, TxStep
  <1>9. QED
    BY <1>2, <1>3, <1>4, <1>5, <1>6, <1>7, <1>8, StepKinds DEF TxStep

\* A key once recorded is the key for good.
KeysStay ==
    \A e \in Enrollments :
        items[e].spki # None => items'[e].spki = items[e].spki

LEMMA KeysStayStep ==
    ASSUME AdminInv, [AdminNext]_adminVars
    PROVE  KeysStay
  BY ItemsChange
     DEF KeysStay, Saved, AdminInv, AdminTypeOK, TypeOK, KeysInv, Follows

LEMMA DeskStep ==
    ASSUME AdminInv, [AdminNext]_adminVars
    PROVE  DeskSane'
  <1>1. \A e \in Enrollments : desk[e] # None => desk'[e] = desk[e]
    BY PortalStep, PortalNextStays DEF AdminInv, PortalStays
  <1>2. /\ \A e \in Enrollments : items[e].spki # None => items[e].spki = desk[e]
        /\ Saving /\ tx.item.spki # None => tx.item.spki = desk[tx.id]
    BY DEF AdminInv, DeskSane
  <1>3. items \in [Enrollments -> Item] /\ tx.id \in Enrollments \cup {None}
    BY DEF AdminInv, AdminTypeOK, TypeOK, Transaction
  <1>4. \A e \in Enrollments : items'[e].spki # None => items'[e].spki = desk'[e]
    BY <1>1, <1>2, <1>3, ItemsChange DEF Saved
  <1>5. Saving' /\ tx'.item.spki # None => tx'.item.spki = desk'[tx'.id]
    BY <1>1, <1>2, <1>3, TxChange DEF TxStep, Saving, Idle
  <1>6. QED
    BY <1>4, <1>5 DEF DeskSane

-----------------------------------------------------------------------------
(***************************************************************************)
(* What a process has learnt stays true while the others work, and each of *)
(* its steps learns what the next one needs.                               *)
(***************************************************************************)
LEMMA StepSaneKept ==
    ASSUME AdminInv, PortalStays, KeysStay, NEW b \in Admins,
           procs'[b].step = procs[b].step, procs'[b].id = procs[b].id,
           procs'[b].player = procs[b].player,
           procs'[b].version = procs[b].version
    PROVE  StepSane(b)'
  <1>1. StepSane(b)
    BY DEF AdminInv
  <1>2. procs[b].step \in {"confirm", "import", "companion", "publish"}
           => procs[b].id \in Enrollments
    BY IdType DEF Working, ProcessSteps
  <1>3. procs[b].step \in {"confirm", "import"} => desk'[procs[b].id] # None
    BY <1>1, <1>2 DEF StepSane, PortalStays
  <1>4. procs[b].step \in {"companion", "publish"}
           => items'[procs[b].id].spki # None
    BY <1>1, <1>2 DEF StepSane, KeysStay
  <1>5. QED
    BY <1>1, <1>3, <1>4 DEF StepSane

LEMMA AtRestSane ==
    ASSUME NEW b \in Admins, procs'[b] = AtRest
    PROVE  StepSane(b)'
  BY DEF StepSane, AtRest, Working

LEMMA MovedSane ==
    ASSUME NEW a \in Admins, NEW s, NEW id, NEW p, NEW w, Moves(a, s, id, p, w),
           s \in Working => id \in Enrollments,
           s \in {"confirm", "import"} => desk'[id] # None,
           s \in {"companion", "publish"} => items'[id].spki # None,
           s = "publish" => procs'[a].version \in Versions,
           s \in {"next", "retire"} => p # None
    PROVE  StepSane(a)'
  BY DEF Moves, StepSane

\* Where a process may go without having learnt anything more.
Ordinary == {"end", "register", "sign", "bundle", "finalize", "reject",
             "begin-revoke", "pki", "crl", "restart", "finish"}

LEMMA OrdinarySane ==
    ASSUME NEW a \in Admins, NEW s \in Ordinary, NEW e, NEW p, NEW w,
           Moves(a, s, e, p, w), s # "end" => e \in Enrollments
    PROVE  StepSane(a)'
  <1>1. s \notin {"confirm", "import", "companion", "publish", "next", "retire"}
    BY DEF Ordinary
  <1>2. s = "end" => s \notin Working
    BY DEF Working
  <1>3. QED
    BY <1>1, <1>2, MovedSane

LEMMA CommandSane ==
    ASSUME AdminInv, PortalStays, KeysStay, NEW a \in Admins, NEW e \in Enrollments
    PROVE  /\ \A p \in Players, m \in Modes : AdminCreate(a, e, p, m) => StepSane(a)'
           /\ Review(a, e) => StepSane(a)'
           /\ AdminReject(a, e) \/ AdminRevoke(a, e) => StepSane(a)'
           /\ Dispose(a, e) => StepSane(a)'
           /\ AdminConfirmConnection(a, e) => StepSane(a)'
  <1>1. ASSUME NEW p \in Players, NEW m \in Modes, AdminCreate(a, e, p, m)
        PROVE  StepSane(a)'
    BY <1>1, CommandMoves, OrdinarySane DEF Ordinary
  <1>2. ASSUME Review(a, e)
        PROVE  StepSane(a)'
    <2>1. spool \in [Enrollments -> Portal!Entry] /\ EntrySane(e)
      BY DEF AdminInv, PortalInv, Portal!TypeOK
    <2>2. desk \in [Enrollments -> Keys \cup {None}]
      BY DEF AdminInv, PortalInv, Portal!TypeOK
    <2>3. Certified(e, items[e])
      BY DEF AdminInv, KeysInv
    <2>4. desk'[e] # None
      <3>1. CASE Portal!Inspect(e)
        BY <2>1, <2>2, <3>1 DEF Portal!Inspect, EntrySane
      <3>2. CASE UNCHANGED portalFiles /\ items[e].state = "approved"
                 /\ desk[e] = items[e].spki
        BY <2>3, <3>2 DEF portalFiles, Certified, Keyed
      <3>3. QED
        BY <1>2, <3>1, <3>2, ReviewStep
    <2>5. Moves(a, "confirm", e, procs[a].player, "nobody")
      BY <1>2, CommandMoves
    <2>6. QED
      BY <2>4, <2>5, MovedSane
  <1>3. ASSUME AdminReject(a, e) \/ AdminRevoke(a, e)
        PROVE  StepSane(a)'
    <2>1. \E s \in {"reject", "begin-revoke"}, w \in Waits :
             Moves(a, s, e, procs[a].player, w)
      BY <1>3, CommandMoves DEF Waits
    <2>2. QED
      BY <2>1, OrdinarySane DEF Ordinary
  <1>4. ASSUME Dispose(a, e)
        PROVE  StepSane(a)'
    <2>1. PICK s \in {"begin-revoke", "reject", "next"} :
             Moves(a, s, e, procs[a].player, "portal")
      BY <1>4, OffboardMoves
    <2>2. procs[a].player # None
      BY <1>4, OffboardMoves DEF At, AdminInv, StepSane
    <2>3. QED
      BY <2>1, <2>2, MovedSane
  <1>5. ASSUME AdminConfirmConnection(a, e)
        PROVE  StepSane(a)'
    BY <1>5, CommandMoves, OrdinarySane DEF Ordinary
  <1>6. QED
    BY <1>1, <1>2, <1>3, <1>4, <1>5

LEMMA OffboardSane ==
    ASSUME AdminInv, NEW a \in Admins
    PROVE  /\ \A p \in Players : Inventory(a, p) => StepSane(a)'
           /\ RemoveCompanion(a) => StepSane(a)'
           /\ Stop(a) => StepSane(a)'
  <1>1. ASSUME NEW p \in Players, Inventory(a, p)
        PROVE  StepSane(a)'
    <2>1. Moves(a, "next", procs[a].id, p, "nobody") /\ p # None
      BY <1>1, OffboardMoves, NoneAssumption
    <2>2. "next" \notin Working
      BY DEF Working
    <2>3. QED
      BY <2>1, <2>2, MovedSane
  <1>2. ASSUME RemoveCompanion(a)
        PROVE  StepSane(a)'
    <2>1. /\ Moves(a, "retire", procs[a].id, procs[a].player, "nobody")
          /\ procs[a].player # None
      BY <1>2, StepMoves DEF At, AdminInv, StepSane
    <2>2. "retire" \notin Working
      BY DEF Working
    <2>3. QED
      BY <2>1, <2>2, MovedSane
  <1>3. ASSUME Stop(a)
        PROVE  StepSane(a)'
    BY <1>3, OffboardMoves, AtRestSane
       DEF Stop, Moves, StepSane, Working
  <1>4. QED
    BY <1>1, <1>2, <1>3

LEMMA WorkSane ==
    ASSUME AdminInv, PortalStays, KeysStay, NEW a \in Admins
    PROVE  /\ RegisterInvitation(a) \/ AdminSign(a) \/ Finalize(a)
                 \/ Publish(a) => StepSane(a)'
           /\ Import(a) => StepSane(a)'
           /\ Confirm(a) => StepSane(a)'
           /\ TakeBundle(a) => StepSane(a)'
           /\ RegisterCompanion(a) => StepSane(a)'
  <1> DEFINE e == procs[a].id
             p == procs[a].player
  <1>1. StepSane(a)
    BY DEF AdminInv
  <1>2. procs[a].step \in {"register", "confirm", "import", "sign", "bundle",
                           "companion", "publish", "finalize"}
           => e \in Enrollments
    BY IdType DEF Working, ProcessSteps
  <1>3. ASSUME RegisterInvitation(a) \/ AdminSign(a) \/ Finalize(a) \/ Publish(a)
        PROVE  StepSane(a)'
    <2>1. \E s \in {"end", "bundle", "finalize"}, w \in Waits :
             e \in Enrollments /\ Moves(a, s, e, p, w)
      BY <1>2, <1>3, StepMoves DEF At, Waits
    <2>2. QED
      BY <2>1, OrdinarySane DEF Ordinary
  <1>4. ASSUME Import(a)
        PROVE  StepSane(a)'
    BY <1>2, <1>4, StepMoves, OrdinarySane DEF At, Ordinary
  <1>5. ASSUME Confirm(a)
        PROVE  StepSane(a)'
    <2>1. PICK s \in {"import", "sign", "bundle"} : Moves(a, s, e, p, "nobody")
      BY <1>5, StepMoves
    <2>2. procs[a].step = "confirm" /\ e \in Enrollments /\ desk'[e] # None
      BY <1>1, <1>2, <1>5 DEF Confirm, At, StepSane, PortalStays
    <2>3. QED
      BY <2>1, <2>2, MovedSane
  <1>6. ASSUME TakeBundle(a)
        PROVE  StepSane(a)'
    <2>1. /\ e \in Enrollments /\ Moves(a, "companion", e, p, "nobody")
          /\ items[e].state = "approved"
      BY <1>2, <1>6, StepMoves DEF At, TakeBundle, RequireState
    <2>2. items'[e].spki # None
      BY <2>1 DEF AdminInv, KeysInv, Certified, Keyed, KeysStay
    <2>3. QED
      BY <2>1, <2>2, MovedSane
  <1>7. ASSUME RegisterCompanion(a)
        PROVE  StepSane(a)'
    <2>1. /\ e \in Enrollments /\ Moves(a, "publish", e, p, "nobody")
          /\ items[e].spki # None
      BY <1>1, <1>2, <1>7, StepMoves DEF At, StepSane
    <2>2. items'[e].spki # None
      BY <2>1 DEF KeysStay
    <2>3. procs'[a].version \in Versions
      <3>1. procs \in [Admins -> Process]
        BY DEF AdminInv, AdminTypeOK
      <3>2. QED
        BY <1>7, <3>1 DEF RegisterCompanion, Versions, Process
    <2>4. QED
      BY <2>1, <2>2, <2>3, MovedSane
  <1>8. QED
    BY <1>3, <1>4, <1>5, <1>6, <1>7

LEMMA RevocationWorkSane ==
    ASSUME AdminInv, NEW a \in Admins
    PROVE  /\ RejectInEngine(a) \/ FinishRevoke(a) => StepSane(a)'
           /\ AdminBeginRevoke(a) => StepSane(a)'
           /\ RevokeCertificate(a) \/ DeployCrl(a) \/ RestartOpenVpn(a)
                 => StepSane(a)'
           /\ Retire(a) => StepSane(a)'
  <1> DEFINE e == procs[a].id
             p == procs[a].player
  <1>1. procs[a].step \in {"begin-revoke", "pki", "crl", "restart"}
           => e \in Enrollments
    BY IdType DEF Working, ProcessSteps
  <1>2. ASSUME RejectInEngine(a) \/ FinishRevoke(a)
        PROVE  StepSane(a)'
    <2>1. PICK s \in {"end", "next"} :
             Moves(a, s, e, p, "engine") /\ (s = "next" => p # None)
      BY <1>2, StepMoves, AfterStep
    <2>2. "end" \notin Working /\ "next" \notin Working
      BY DEF Working
    <2>3. QED
      BY <2>1, <2>2, MovedSane
  <1>3. ASSUME AdminBeginRevoke(a)
        PROVE  StepSane(a)'
    <2>1. \E w \in Waits : e \in Enrollments /\ Moves(a, "pki", e, p, w)
      BY <1>1, <1>3, StepMoves DEF At, Waits
    <2>2. QED
      BY <2>1, OrdinarySane DEF Ordinary
  <1>4. ASSUME RevokeCertificate(a) \/ DeployCrl(a) \/ RestartOpenVpn(a)
        PROVE  StepSane(a)'
    <2>1. \E s \in {"crl", "restart", "finish"} :
             e \in Enrollments /\ Moves(a, s, e, p, "nobody")
      BY <1>1, <1>4, StepMoves DEF At
    <2>2. QED
      BY <2>1, OrdinarySane DEF Ordinary
  <1>5. ASSUME Retire(a)
        PROVE  StepSane(a)'
    BY <1>5, StepMoves, OrdinarySane DEF Ordinary
  <1>6. QED
    BY <1>2, <1>3, <1>4, <1>5

\* A command moves one process.
LEMMA OneMoves ==
    ASSUME AdminInv, NEW a \in Admins, AdminCommand(a)
    PROVE  \E s, id, p, w : Moves(a, s, id, p, w)
  <1>1. ASSUME NEW e \in Enrollments,
               \/ \E p \in Players, m \in Modes : AdminCreate(a, e, p, m)
               \/ Review(a, e) \/ AdminReject(a, e) \/ AdminRevoke(a, e)
               \/ AdminConfirmConnection(a, e)
        PROVE  \E s, id, p, w : Moves(a, s, id, p, w)
    BY <1>1, CommandMoves
  <1>2. ASSUME \/ \E e \in Enrollments : Dispose(a, e)
               \/ \E p \in Players : Inventory(a, p)
               \/ Stop(a)
        PROVE  \E s, id, p, w : Moves(a, s, id, p, w)
    BY <1>2, OffboardMoves
  <1>3. ASSUME \/ RegisterInvitation(a)
               \/ Confirm(a) \/ Import(a) \/ AdminSign(a) \/ TakeBundle(a)
               \/ RegisterCompanion(a) \/ Publish(a) \/ Finalize(a)
               \/ RejectInEngine(a)
               \/ AdminBeginRevoke(a) \/ RevokeCertificate(a) \/ DeployCrl(a)
               \/ RestartOpenVpn(a) \/ FinishRevoke(a)
               \/ RemoveCompanion(a) \/ Retire(a)
        PROVE  \E s, id, p, w : Moves(a, s, id, p, w)
    BY <1>3, StepMoves
  <1>4. QED
    BY <1>1, <1>2, <1>3 DEF AdminCommand

\* An answer or a failure lets processes go on where they were, or end.
Progress(b) == <<procs[b].step, procs[b].id, procs[b].player, procs[b].version>>

LEMMA AnsweredKeeps ==
    ASSUME AdminInv, NEW who, procs' = Answered(who) \/ procs' = Failed(who)
    PROVE  /\ procs' \in [Admins -> Process]
           /\ \A b \in Admins : procs'[b] = AtRest \/ UNCHANGED Progress(b)
  <1>1. procs \in [Admins -> Process]
    BY DEF AdminInv, AdminTypeOK
  <1>2. \A b \in Admins :
           /\ [procs[b] EXCEPT !.waits = "nobody"] \in Process
           /\ LET new == [procs[b] EXCEPT !.waits = "nobody"]
              IN  /\ new.step = procs[b].step /\ new.id = procs[b].id
                  /\ new.player = procs[b].player
                  /\ new.version = procs[b].version
    BY <1>1 DEF Process
  <1>3. \A b \in Admins :
           /\ procs'[b] \in Process
           /\ procs'[b] = AtRest \/ UNCHANGED Progress(b)
    BY <1>1, <1>2, AtRestType DEF Answered, Failed, Progress
  <1>4. \E f : procs' = [b \in Admins |-> f[b]]
    <2>1. procs' = [b \in Admins |-> procs'[b]]
      BY DEF Answered, Failed
    <2>2. QED
      BY <2>1
  <1>5. QED
    BY <1>3, <1>4

LEMMA ProcsStep ==
    ASSUME AdminInv, [AdminNext]_adminVars
    PROVE  /\ procs' \in [Admins -> Process]
           /\ \A b \in Admins : StepSane(b)'
  <1>1. PortalStays /\ KeysStay
    BY PortalStep, PortalNextStays, KeysStayStep DEF AdminInv
  <1>2. procs \in [Admins -> Process]
    BY DEF AdminInv, AdminTypeOK
  <1>3. ASSUME NEW a \in Admins, AdminCommand(a)
        PROVE  /\ procs' \in [Admins -> Process]
               /\ \A b \in Admins : StepSane(b)'
    <2>1. /\ procs' \in [Admins -> Process]
          /\ \A b \in Admins \ {a} : procs'[b] = procs[b]
      BY <1>3, OneMoves DEF Moves
    <2>2. \A b \in Admins \ {a} : StepSane(b)'
      BY <1>1, <2>1, StepSaneKept
    <2>3. StepSane(a)'
      BY <1>1, <1>3, CommandSane, OffboardSane, WorkSane, RevocationWorkSane
         DEF AdminCommand
    <2>4. QED
      BY <2>1, <2>2, <2>3
  <1>4. ASSUME NEW who, procs' = Answered(who) \/ procs' = Failed(who)
        PROVE  /\ procs' \in [Admins -> Process]
               /\ \A b \in Admins : StepSane(b)'
    BY <1>1, <1>4, AnsweredKeeps, StepSaneKept, AtRestSane DEF Progress
  <1>5. CASE UNCHANGED procs
    BY <1>1, <1>2, <1>5, StepSaneKept
  <1>6. UNCHANGED procs
        \/ (\E who : procs' = Answered(who) \/ procs' = Failed(who))
        \/ (\E a \in Admins : AdminCommand(a))
    BY DEF AdminNext, adminVars, EngineWrites, EngineFails, PortalAnswers,
           PortalFails, ClientRequest, AdminExpire, Connect
  <1>7. QED
    BY <1>3, <1>4, <1>5, <1>6

-----------------------------------------------------------------------------
(***************************************************************************)
(* The types of what is outside the engine and the portal.                 *)
(***************************************************************************)
OutsideTypeOK ==
    /\ revokedCerts \subseteq Enrollments
    /\ crl \subseteq Enrollments
    /\ sessions \subseteq Enrollments
    /\ companions \in [Players -> Enrollments \cup {None}]
    /\ offboarded \subseteq Players

\* Who changes what.
LEMMA OutsideChange ==
    ASSUME [AdminNext]_adminVars
    PROVE  \/ UNCHANGED outside
           \/ \E a \in Admins :
                 \/ \E e \in Enrollments, p \in Players, m \in Modes :
                       AdminCreate(a, e, p, m)
                 \/ RegisterCompanion(a) \/ RevokeCertificate(a) \/ DeployCrl(a)
                 \/ RestartOpenVpn(a) \/ RemoveCompanion(a)
           \/ EngineWrites
           \/ \E e \in Enrollments : Connect(e)
  <1>1. ASSUME NEW a \in Admins, AdminCommand(a)
        PROVE  \/ UNCHANGED outside
               \/ \E e \in Enrollments, p \in Players, m \in Modes :
                     AdminCreate(a, e, p, m)
               \/ RegisterCompanion(a) \/ RevokeCertificate(a) \/ DeployCrl(a)
               \/ RestartOpenVpn(a) \/ RemoveCompanion(a)
    BY <1>1
       DEF AdminCommand, Review, AdminReject, AdminRevoke, Dispose,
           AdminConfirmConnection, Inventory, RegisterInvitation, Confirm,
           Import, AdminSign, TakeBundle, Publish, Finalize, RejectInEngine,
           AdminBeginRevoke, FinishRevoke, Retire, Stop, CallEngine, CallPortal
  <1>2. QED
    BY <1>1 DEF AdminNext, EngineFails, PortalAnswers, PortalFails,
                ClientRequest, AdminExpire, adminVars

LEMMA OutsideStep ==
    ASSUME AdminInv, [AdminNext]_adminVars
    PROVE  OutsideTypeOK'
  <1>1. OutsideTypeOK
    BY DEF AdminInv, AdminTypeOK, OutsideTypeOK
  <1> USE DEF OutsideTypeOK
  <1>2. CASE UNCHANGED outside
    BY <1>1, <1>2 DEF outside
  <1>3. ASSUME NEW a \in Admins, NEW e \in Enrollments, NEW p \in Players,
               NEW m \in Modes, AdminCreate(a, e, p, m)
        PROVE  OutsideTypeOK'
    BY <1>1, <1>3 DEF AdminCreate
  <1>4. ASSUME NEW a \in Admins, RegisterCompanion(a)
        PROVE  OutsideTypeOK'
    <2>1. procs[a].id \in Enrollments
      BY <1>4, IdType DEF RegisterCompanion, At, Working, ProcessSteps
    <2>2. companions' \in [Players -> Enrollments \cup {None}]
      BY <1>1, <1>4, <2>1 DEF RegisterCompanion
    <2>3. QED
      BY <1>1, <1>4, <2>2 DEF RegisterCompanion
  <1>5. ASSUME NEW a \in Admins, RevokeCertificate(a)
        PROVE  OutsideTypeOK'
    <2>1. procs[a].id \in Enrollments
      BY <1>5, IdType DEF RevokeCertificate, At, Working, ProcessSteps
    <2>2. QED
      BY <1>1, <1>5, <2>1 DEF RevokeCertificate
  <1>6. ASSUME NEW a \in Admins, DeployCrl(a) \/ RestartOpenVpn(a)
        PROVE  OutsideTypeOK'
    BY <1>1, <1>6 DEF DeployCrl, RestartOpenVpn
  <1>7. ASSUME NEW a \in Admins, RemoveCompanion(a)
        PROVE  OutsideTypeOK'
    BY <1>1, <1>7 DEF RemoveCompanion
  <1>8. CASE EngineWrites
    <2>1. \A a \in Retiring : procs[a].player \in Players
      BY PlayerType DEF Retiring
    <2>2. QED
      BY <1>1, <1>8, <2>1 DEF EngineWrites
  <1>9. ASSUME NEW e \in Enrollments, Connect(e)
        PROVE  OutsideTypeOK'
    BY <1>1, <1>9 DEF Connect
  <1>10. QED
    BY <1>2, <1>3, <1>4, <1>5, <1>6, <1>7, <1>8, <1>9, OutsideChange

-----------------------------------------------------------------------------
(***************************************************************************)
(* The theorems about the composition.                                     *)
(***************************************************************************)
LEMMA AdminInvStep ==
    ASSUME AdminInv, [AdminNext]_adminVars
    PROVE  AdminInv'
  <1>1. [Next]_vars /\ [Portal!Next]_(Portal!vars)
    BY EngineStep, PortalStep
  <1>2. TypeOK /\ ActivationInv /\ KeysInv /\ PortalInv
    BY DEF AdminInv, AdminTypeOK
  <1>3. TypeOK' /\ ActivationInv' /\ KeysInv'
    BY <1>1, <1>2, NextType, NextActivation, NextKeys
  <1>4. PortalInv'
    BY <1>1, <1>2, PortalNextSane
  <1>5. /\ procs' \in [Admins -> Process]
        /\ \A a \in Admins : StepSane(a)'
    BY ProcsStep
  <1>6. AdminTypeOK'
    BY <1>3, <1>4, <1>5, OutsideStep DEF AdminTypeOK, PortalInv, OutsideTypeOK
  <1>7. DeskSane'
    BY DeskStep
  <1>8. QED
    BY <1>3, <1>4, <1>5, <1>6, <1>7 DEF AdminInv

\* The inductive invariant of the composition: what a command has read of the
\* engine and of the portal still holds when it acts on it, and the key at
\* the engine is the one the administrator inspected.
THEOREM AdminInductive == AdminSpec => []AdminInv
  <1>1. AdminInv /\ [AdminNext]_adminVars => AdminInv'
    BY AdminInvStep
  <1>2. QED
    BY <1>1, InitAdminInv, PTL DEF AdminSpec

\* The files of the engine and of the portal, the certificates, the sessions
\* and the processes are well formed.
THEOREM AdminTypeCorrect == AdminSpec => []AdminTypeOK
  <1>1. AdminInv => AdminTypeOK
    BY DEF AdminInv
  <1>2. QED
    BY <1>1, AdminInductive, PTL

\* Whatever the administration processes do together, the store behaves as
\* EnrollmentEngine says: so its theorems hold of it here.
THEOREM EngineImplemented == AdminSpec => Spec
  <1>1. AdminInit => Init
    BY DEF AdminInit
  <1>2. AdminInv /\ [AdminNext]_adminVars => [Next]_vars
    BY EngineStep
  <1>3. QED
    BY <1>1, <1>2, AdminInductive, PTL DEF AdminSpec, Spec

\* And the portal behaves as EnrollmentPortal says: what it is told to publish
\* is certified for the key that the administrator inspected.
THEOREM PortalImplemented == AdminSpec => Portal!Spec
  <1>1. AdminInit => Portal!Init
    BY DEF AdminInit
  <1>2. AdminInv /\ [AdminNext]_adminVars => [Portal!Next]_(Portal!vars)
    BY PortalStep
  <1>3. QED
    BY <1>1, <1>2, AdminInductive, PTL DEF AdminSpec, Portal!Spec

-----------------------------------------------------------------------------
(***************************************************************************)
(* Revocation.  RevokedIsCutOff is not inductive: it does not say how far  *)
(* the revocation of a process has come, nor what the engine is about to   *)
(* record.  A credential that is cut off stays so, as the CRL only grows.  *)
(***************************************************************************)
CutOffStaysOff ==
    /\ revokedCerts \subseteq revokedCerts'
    /\ crl \subseteq crl' /\ crl' \subseteq revokedCerts'
    /\ \A e \in Enrollments : CutOff(e) => CutOff(e)'

LEMMA CutOffStep ==
    ASSUME AdminInv, crl \subseteq revokedCerts, [AdminNext]_adminVars
    PROVE  CutOffStaysOff
  <1> USE DEF CutOffStaysOff, CutOff
  <1>1. CASE UNCHANGED <<revokedCerts, crl, sessions>>
    BY <1>1
  <1>2. ASSUME NEW a \in Admins, RevokeCertificate(a)
        PROVE  CutOffStaysOff
    BY <1>2 DEF RevokeCertificate
  <1>3. ASSUME NEW a \in Admins, DeployCrl(a)
        PROVE  CutOffStaysOff
    BY <1>3 DEF DeployCrl
  <1>4. ASSUME NEW a \in Admins, RestartOpenVpn(a)
        PROVE  CutOffStaysOff
    BY <1>4 DEF RestartOpenVpn
  <1>5. ASSUME NEW e \in Enrollments, Connect(e)
        PROVE  CutOffStaysOff
    BY <1>5 DEF Connect
  <1>6. ASSUME \/ \E a \in Admins :
                     \/ \E e \in Enrollments, p \in Players, m \in Modes :
                           AdminCreate(a, e, p, m)
                     \/ RegisterCompanion(a) \/ RemoveCompanion(a)
               \/ EngineWrites
        PROVE  UNCHANGED <<revokedCerts, crl, sessions>>
    BY <1>6 DEF AdminCreate, RegisterCompanion, RemoveCompanion, EngineWrites
  <1> HIDE DEF CutOffStaysOff, CutOff
  <1>7. QED
    BY <1>1, <1>2, <1>3, <1>4, <1>5, <1>6, OutsideChange DEF outside

\* What a command has its process do next, when that is not a later step of
\* the revocation in the PKI.
LEMMA OtherMoves ==
    ASSUME AdminInv, NEW a \in Admins, AdminCommand(a)
    PROVE  \/ RevokeCertificate(a) \/ DeployCrl(a) \/ RestartOpenVpn(a)
           \/ \E s, id, p, w : /\ s \notin {"crl", "restart", "finish"}
                               /\ Moves(a, s, id, p, w)
  <1> DEFINE Other == \E s, id, p, w : /\ s \notin {"crl", "restart", "finish"}
                                       /\ Moves(a, s, id, p, w)
  <1>1. ASSUME NEW e \in Enrollments,
               \/ \E p \in Players, m \in Modes : AdminCreate(a, e, p, m)
               \/ Review(a, e) \/ AdminReject(a, e) \/ AdminRevoke(a, e)
               \/ AdminConfirmConnection(a, e)
        PROVE  Other
    BY <1>1, CommandMoves
  <1>2. ASSUME \/ \E e \in Enrollments : Dispose(a, e)
               \/ \E p \in Players : Inventory(a, p)
               \/ Stop(a)
        PROVE  Other
    BY <1>2, OffboardMoves
  <1>3. ASSUME \/ RegisterInvitation(a)
               \/ Confirm(a) \/ Import(a) \/ AdminSign(a) \/ TakeBundle(a)
               \/ RegisterCompanion(a) \/ Publish(a) \/ Finalize(a)
               \/ AdminBeginRevoke(a) \/ RemoveCompanion(a) \/ Retire(a)
        PROVE  Other
    BY <1>3, StepMoves
  <1>4. ASSUME RejectInEngine(a) \/ FinishRevoke(a)
        PROVE  Other
    <2>1. \E s \in {"end", "next"} :
             Moves(a, s, procs[a].id, procs[a].player, "engine")
      BY <1>4, StepMoves, AfterStep
    <2>2. QED
      BY <2>1
  <1>5. QED
    BY <1>1, <1>2, <1>3, <1>4 DEF AdminCommand

\* The progress of the processes that a step of the system does not move.
LEMMA ProcsChange ==
    ASSUME AdminInv, [AdminNext]_adminVars
    PROVE  \/ \E a \in Admins : AdminCommand(a)
           \/ \A b \in Admins : procs'[b] = AtRest \/ UNCHANGED Progress(b)
  <1>1. \/ UNCHANGED procs
        \/ (\E who : procs' = Answered(who) \/ procs' = Failed(who))
        \/ (\E a \in Admins : AdminCommand(a))
    BY DEF AdminNext, adminVars, EngineWrites, EngineFails, PortalAnswers,
           PortalFails, ClientRequest, AdminExpire, Connect
  <1>2. CASE UNCHANGED procs
    BY <1>2 DEF Progress
  <1>3. QED
    BY <1>1, <1>2, AnsweredKeeps

LEMMA RevocationStep ==
    ASSUME AdminInv, RevokedInv, [AdminNext]_adminVars
    PROVE  \A b \in Admins : RevocationSane(b)'
  <1>1. CutOffStaysOff
    BY CutOffStep DEF RevokedInv
  <1>2. \A b \in Admins : procs[b].step \in {"crl", "restart", "finish"}
                            => procs[b].id \in Enrollments
    BY IdType DEF Working, ProcessSteps
  <1>3. ASSUME NEW b \in Admins,
               procs'[b].step = procs[b].step, procs'[b].id = procs[b].id
        PROVE  RevocationSane(b)'
    <2>1. RevocationSane(b)
      BY DEF RevokedInv
    <2>2. procs[b].step = "finish"
             => procs[b].id \in crl' /\ procs[b].id \notin sessions'
      BY <1>1, <1>2, <2>1 DEF RevocationSane, CutOffStaysOff, CutOff
    <2>3. QED
      BY <1>1, <1>3, <2>1, <2>2 DEF RevocationSane, CutOffStaysOff, CutOff
  <1>4. ASSUME NEW b \in Admins,
               procs'[b].step \notin {"crl", "restart", "finish"}
        PROVE  RevocationSane(b)'
    BY <1>4 DEF RevocationSane
  <1>5. AtRest.step \notin {"crl", "restart", "finish"}
    BY DEF AtRest
  <1>6. ASSUME NEW a \in Admins, AdminCommand(a)
        PROVE  \A b \in Admins : RevocationSane(b)'
    <2>1. \A b \in Admins \ {a} : procs'[b] = procs[b]
      BY <1>6, OneMoves DEF Moves
    <2>2. ASSUME RevokeCertificate(a)
          PROVE  RevocationSane(a)'
      <3>1. Moves(a, "crl", procs[a].id, procs[a].player, "nobody")
        BY <2>2, StepMoves
      <3>2. procs[a].id \in revokedCerts'
        BY <2>2 DEF RevokeCertificate
      <3>3. QED
        BY <3>1, <3>2 DEF RevocationSane, Moves
    <2>3. ASSUME DeployCrl(a)
          PROVE  RevocationSane(a)'
      <3>1. /\ Moves(a, "restart", procs[a].id, procs[a].player, "nobody")
            /\ procs[a].step = "crl"
        BY <2>3, StepMoves DEF At
      <3>2. procs[a].id \in crl'
        BY <2>3, <3>1 DEF DeployCrl, RevokedInv, RevocationSane
      <3>3. QED
        BY <3>1, <3>2 DEF RevocationSane, Moves
    <2>4. ASSUME RestartOpenVpn(a)
          PROVE  RevocationSane(a)'
      <3>1. /\ Moves(a, "finish", procs[a].id, procs[a].player, "nobody")
            /\ procs[a].step = "restart"
        BY <2>4, StepMoves DEF At
      <3>2. procs[a].id \in crl' /\ procs[a].id \notin sessions'
        BY <2>4, <3>1 DEF RestartOpenVpn, RevokedInv, RevocationSane
      <3>3. QED
        BY <3>1, <3>2 DEF RevocationSane, Moves, CutOff
    <2>5. procs'[a].step \notin {"crl", "restart", "finish"}
             => RevocationSane(a)'
      BY <1>4
    <2>6. RevocationSane(a)'
      BY <1>6, <2>2, <2>3, <2>4, <2>5, OtherMoves DEF Moves
    <2>7. QED
      BY <1>3, <2>1, <2>6
  <1>7. QED
    BY <1>3, <1>4, <1>5, <1>6, ProcsChange DEF Progress

\* A rejection or a revocation is about to be recorded because it was, or
\* because a process has come to that step.
LEMMA TerminalBegan ==
    ASSUME AdminInv, [AdminNext]_adminVars, Saving', tx'.item.state \in Terminal
    PROVE  \/ Saving /\ tx'.id = tx.id /\ tx'.item = tx.item
           \/ \E a \in Admins :
                 /\ tx'.id = procs[a].id /\ procs[a].id \in Enrollments
                 /\ \/ procs[a].step = "reject" /\ tx'.item.state = "rejected"
                    \/ procs[a].step = "finish" /\ tx'.item.state = "revoked"
  <1> DEFINE Goal ==
           \/ Saving /\ tx'.id = tx.id /\ tx'.item = tx.item
           \/ \E a \in Admins :
                 /\ tx'.id = procs[a].id /\ procs[a].id \in Enrollments
                 /\ \/ procs[a].step = "reject" /\ tx'.item.state = "rejected"
                    \/ procs[a].step = "finish" /\ tx'.item.state = "revoked"
  <1>1. CASE UNCHANGED tx
    BY <1>1 DEF Saving
  <1>2. ASSUME NEW a \in Admins,
               \/ Quiet(a) \/ CallsPortal(a)
               \/ \E e \in Enrollments : Review(a, e)
        PROVE  UNCHANGED tx
    BY <1>2, QuietStep, CallsPortalStep, ReviewStep DEF engineFiles
  <1>3. ASSUME NEW a \in Admins, CallsEngine(a) \/ AdminBeginRevoke(a)
        PROVE  Goal
    <2>1. CASE RejectInEngine(a)
      BY <2>1, WorkBegan DEF RejectInEngine, At, BeganSame, Began
    <2>2. CASE FinishRevoke(a)
      BY <2>2, WorkBegan DEF FinishRevoke, At, BeganSame, Began
    <2>3. CASE Retire(a)
      BY <2>3, RetireBegan DEF Retire, Saving
    <2>4. CASE \/ Import(a) \/ AdminSign(a) \/ Finalize(a) \/ AdminBeginRevoke(a)
               \/ \E e \in Enrollments :
                     \/ \E p \in Players, m \in Modes : AdminCreate(a, e, p, m)
                     \/ AdminConfirmConnection(a, e)
      <3>1. UNCHANGED tx \/ tx'.item.state \in {"created", "csr-submitted",
                               "approved", "collected", "revoking"}
        BY <2>4, WorkBegan, CommandBegan DEF Began, BeganSame, engineFiles
      <3>2. QED
        BY <1>1, <3>1 DEF Terminal
    <2>5. QED
      BY <1>3, <2>1, <2>2, <2>3, <2>4 DEF CallsEngine
  <1>4. CASE EngineWrites
    <2>1. TypeOK /\ ActivationInv
      BY DEF AdminInv, AdminTypeOK
    <2>2. QED
      BY <1>4, <2>1, WriteShape DEF EngineWrites, Saving, Idle
  <1>5. CASE EngineFails
    BY <1>5 DEF EngineFails, Interrupt, Saving, Idle
  <1>6. CASE PortalWorks
    BY <1>1, <1>6, PortalWorksStep DEF engineFiles
  <1>7. ASSUME NEW e \in Enrollments, AdminExpire(e) \/ Connect(e)
        PROVE  UNCHANGED tx
    BY <1>7 DEF AdminExpire, Expire, Connect, engineFiles
  <1>8. CASE UNCHANGED adminVars
    BY <1>1, <1>8 DEF adminVars, engineFiles
  <1>9. QED
    BY <1>1, <1>2, <1>3, <1>4, <1>5, <1>6, <1>7, <1>8, StepKinds

LEMMA RevokedInvStep ==
    ASSUME AdminInv, RevokedInv, [AdminNext]_adminVars
    PROVE  RevokedInv'
  <1>1. CutOffStaysOff
    BY CutOffStep DEF RevokedInv
  <1>2. tx.id \in Enrollments \cup {None} /\ items \in [Enrollments -> Item]
    BY DEF AdminInv, AdminTypeOK, TypeOK, Transaction
  <1>3. ASSUME Saving', tx'.item.state = "revoked"
        PROVE  tx'.id \in Enrollments /\ CutOff(tx'.id)
    BY <1>2, <1>3, TerminalBegan
       DEF Terminal, RevokedInv, RevocationSane, Saving
  <1>4. Saving' /\ tx'.item.state = "revoked" => CutOff(tx.id)'
    <2>1. ASSUME Saving', tx'.item.state = "revoked"
          PROVE  CutOff(tx.id)'
      BY <1>1, <1>3, <2>1 DEF CutOffStaysOff, CutOff
    <2>2. QED
      BY <2>1
  <1>5. ASSUME NEW e \in Enrollments, items'[e].state = "revoked"
        PROVE  CutOff(e)'
    <2>1. CutOff(e)
      BY <1>2, <1>5, ItemsChange DEF Saved, RevokedInv
    <2>2. QED
      BY <1>1, <2>1 DEF CutOffStaysOff
  <1>6. \A a \in Admins : RevocationSane(a)'
    BY RevocationStep
  <1>7. QED
    BY <1>1, <1>4, <1>5, <1>6 DEF RevokedInv, CutOffStaysOff

LEMMA InitRevokedInv == AdminInit => RevokedInv
  BY DEF AdminInit, Init, Absent, Idle, Saving, RevokedInv, RevocationSane,
         AtRest

THEOREM RevokedInductive == AdminSpec => []RevokedInv
  <1>1. AdminInv /\ RevokedInv /\ [AdminNext]_adminVars => RevokedInv'
    BY RevokedInvStep
  <1>2. QED
    BY <1>1, InitRevokedInv, AdminInductive, PTL DEF AdminSpec

\* A credential recorded as revoked is in the deployed CRL and has no session,
\* however many administrators revoke, approve and stop at the same time.
THEOREM RevokedIsCutOffHolds == AdminSpec => []RevokedIsCutOff
  <1>1. RevokedInv => RevokedIsCutOff
    BY DEF RevokedInv, RevokedIsCutOff, CutOff
  <1>2. QED
    BY <1>1, RevokedInductive, PTL

-----------------------------------------------------------------------------
(***************************************************************************)
(* Rejection.  The portal is asked first, and keeps what is cancelled: a   *)
(* process that comes to the engine has an enrolment that is cancelled.    *)
(***************************************************************************)
LEMMA CancelsFirst ==
    ASSUME AdminInv, NEW a \in Admins, AdminCommand(a),
           procs'[a].step = "reject"
    PROVE  spool'[procs'[a].id].state = "cancelled"
  <1>1. ASSUME NEW e \in Enrollments, AdminReject(a, e) \/ Dispose(a, e)
        PROVE  spool'[procs'[a].id].state = "cancelled"
    <2>1. Portal!Cancel(e)
      BY <1>1 DEF AdminReject, Dispose
    <2>2. spool'[e].state = "cancelled"
      BY <2>1, CancelSane DEF AdminInv, Cancelled
    <2>3. procs'[a].id = e
      BY <1>1, CommandMoves, OffboardMoves DEF Moves
    <2>4. QED
      BY <2>2, <2>3
  <1>2. ASSUME NEW e \in Enrollments,
               \/ \E p \in Players, m \in Modes : AdminCreate(a, e, p, m)
               \/ Review(a, e) \/ AdminRevoke(a, e)
               \/ AdminConfirmConnection(a, e)
        PROVE  FALSE
    BY <1>2, CommandMoves DEF Moves
  <1>3. ASSUME (\E p \in Players : Inventory(a, p)) \/ Stop(a)
        PROVE  FALSE
    BY <1>3, OffboardMoves DEF Moves
  <1>4. ASSUME \/ RegisterInvitation(a)
               \/ Confirm(a) \/ Import(a) \/ AdminSign(a) \/ TakeBundle(a)
               \/ RegisterCompanion(a) \/ Publish(a) \/ Finalize(a)
               \/ AdminBeginRevoke(a) \/ RevokeCertificate(a) \/ DeployCrl(a)
               \/ RestartOpenVpn(a)
               \/ RemoveCompanion(a) \/ Retire(a)
        PROVE  FALSE
    BY <1>4, StepMoves DEF Moves
  <1>5. ASSUME RejectInEngine(a) \/ FinishRevoke(a)
        PROVE  FALSE
    BY <1>5, StepMoves, AfterStep DEF Moves
  <1>6. QED
    BY <1>1, <1>2, <1>3, <1>4, <1>5 DEF AdminCommand

LEMMA RejectedInvStep ==
    ASSUME AdminInv, RejectedInv, [AdminNext]_adminVars
    PROVE  RejectedInv'
  <1>1. \A e \in Enrollments :
           spool[e].state = "cancelled" => spool'[e].state = "cancelled"
    BY PortalStep, PortalNextStays DEF AdminInv, PortalStays, Cancelled
  <1>2. tx.id \in Enrollments \cup {None} /\ items \in [Enrollments -> Item]
    BY DEF AdminInv, AdminTypeOK, TypeOK, Transaction
  <1>3. ASSUME Saving', tx'.item.state = "rejected"
        PROVE  spool'[tx'.id].state = "cancelled"
    BY <1>1, <1>2, <1>3, TerminalBegan
       DEF Terminal, RejectedInv, Cancelled, Saving
  <1>4. ASSUME NEW e \in Enrollments, items'[e].state = "rejected"
        PROVE  spool'[e].state = "cancelled"
    BY <1>1, <1>2, <1>4, ItemsChange DEF Saved, RejectedInv, Cancelled
  <1>5. ASSUME NEW b \in Admins, procs'[b].step = "reject"
        PROVE  spool'[procs'[b].id].state = "cancelled"
    <2>1. ASSUME UNCHANGED <<procs[b].step, procs[b].id>>
          PROVE  spool'[procs'[b].id].state = "cancelled"
      <3>1. procs[b].step = "reject" /\ procs[b].id \in Enrollments
        BY <1>5, <2>1, IdType DEF Working, ProcessSteps
      <3>2. QED
        BY <1>1, <2>1, <3>1 DEF RejectedInv, Cancelled
    <2>2. ASSUME NEW a \in Admins, AdminCommand(a)
          PROVE  spool'[procs'[b].id].state = "cancelled"
      <3>1. CASE a = b
        BY <1>5, <2>2, <3>1, CancelsFirst
      <3>2. CASE a # b
        BY <2>1, <2>2, <3>2, OneMoves DEF Moves
      <3>3. QED
        BY <3>1, <3>2
    <2>3. procs'[b] # AtRest
      BY <1>5 DEF AtRest
    <2>4. QED
      BY <2>1, <2>2, <2>3, ProcsChange DEF Progress
  <1>6. QED
    BY <1>3, <1>4, <1>5 DEF RejectedInv, Cancelled

LEMMA InitRejectedInv == AdminInit => RejectedInv
  BY DEF AdminInit, Init, Absent, Idle, Saving, RejectedInv, AtRest

THEOREM RejectedInductive == AdminSpec => []RejectedInv
  <1>1. AdminInv /\ RejectedInv /\ [AdminNext]_adminVars => RejectedInv'
    BY RejectedInvStep
  <1>2. QED
    BY <1>1, InitRejectedInv, AdminInductive, PTL DEF AdminSpec

\* A rejected enrolment has no live token and no response at the portal, even
\* if a client or another administrator was in the middle of its request.
THEOREM RejectedIsCancelledHolds == AdminSpec => []RejectedIsCancelled
  <1>1. AdminInv /\ RejectedInv => RejectedIsCancelled
    BY DEF AdminInv, PortalInv, EntrySane, RejectedInv, RejectedIsCancelled,
           Cancelled
  <1>2. QED
    BY <1>1, AdminInductive, RejectedInductive, PTL

-----------------------------------------------------------------------------
(***************************************************************************)
(* Offboarding.  The retirement of a player holds the engine's lock from   *)
(* the moment it finds no open enrolment until the player is reported      *)
(* offboarded, and everybody else who calls the engine has to wait.        *)
(***************************************************************************)

\* Who waited goes on or ends; the others are left alone.
LEMMA AnsweredWaits ==
    ASSUME AdminInv, NEW who, procs' = Answered(who) \/ procs' = Failed(who)
    PROVE  \A b \in Admins :
              \/ procs'[b] = procs[b] /\ procs[b].waits # who
              \/ procs'[b] = AtRest
              \/ /\ UNCHANGED Progress(b) /\ procs'[b].waits = "nobody"
                 /\ procs[b].step # "end"
  <1>1. procs \in [Admins -> Process]
    BY DEF AdminInv, AdminTypeOK
  <1>2. \A b \in Admins :
           LET new == [procs[b] EXCEPT !.waits = "nobody"]
           IN  /\ new.step = procs[b].step /\ new.id = procs[b].id
               /\ new.player = procs[b].player
               /\ new.version = procs[b].version
               /\ new.waits = "nobody"
    BY <1>1 DEF Process
  <1>3. QED
    BY <1>1, <1>2 DEF Answered, Failed, Progress

\* A command calls the engine when it is free, or leaves it alone.
LEMMA CommandTx ==
    ASSUME AdminInv, NEW a \in Admins, AdminCommand(a)
    PROVE  /\ UNCHANGED items
           /\ \/ tx.step = "idle" /\ tx'.step # "idle"
              \/ UNCHANGED tx /\ procs'[a].waits # "engine"
  <1>1. ASSUME CallsEngine(a)
        PROVE  UNCHANGED items /\ tx.step = "idle" /\ tx'.step # "idle"
    BY <1>1, WorkBegan, CommandBegan, RetireBegan
       DEF CallsEngine, Retire, Began, BeganSame
  <1>2. ASSUME AdminBeginRevoke(a)
        PROVE  /\ UNCHANGED items
               /\ \/ tx.step = "idle" /\ tx'.step # "idle"
                  \/ UNCHANGED tx /\ procs'[a].waits # "engine"
    <2>1. \/ UNCHANGED items /\ tx.step = "idle" /\ tx'.step # "idle"
          \/ UNCHANGED engineFiles /\ Goto(a, "pki")
      <3>1. CASE BeganSame(procs[a].id, "revoking")
        BY <3>1 DEF BeganSame, Began
      <3>2. CASE UNCHANGED <<engineFiles, expired>>
        <4>1. CASE BeginRevoke(procs[a].id)
          BY <4>1 DEF BeginRevoke, Withdraw, SaveItem, SaveCredential, Begin
        <4>2. QED
          BY <1>2, <3>2, <4>1 DEF AdminBeginRevoke
      <3>3. QED
        BY <1>2, <3>1, <3>2, WorkBegan
    <2>2. procs[a].waits = "nobody"
      BY <1>2 DEF AdminBeginRevoke, At
    <2>3. "pki" \in ProcessSteps
      BY DEF ProcessSteps
    <2>4. QED
      BY <2>1, <2>2, <2>3, GotoMoves DEF engineFiles, Moves
  <1>3. ASSUME Quiet(a) \/ CallsPortal(a) \/ \E e \in Enrollments : Review(a, e)
        PROVE  UNCHANGED <<items, tx>> /\ procs'[a].waits # "engine"
    <2>1. UNCHANGED <<items, tx>>
      BY <1>3, QuietStep, CallsPortalStep, ReviewStep DEF engineFiles
    <2>2. ASSUME NEW e \in Enrollments,
                 Review(a, e) \/ AdminReject(a, e) \/ AdminRevoke(a, e)
          PROVE  procs'[a].waits # "engine"
      BY <2>2, CommandMoves DEF Moves
    <2>3. ASSUME \/ \E e \in Enrollments : Dispose(a, e)
                 \/ \E p \in Players : Inventory(a, p)
                 \/ Stop(a)
          PROVE  procs'[a].waits # "engine"
      BY <2>3, OffboardMoves DEF Moves
    <2>4. ASSUME \/ RegisterInvitation(a) \/ Publish(a)
                 \/ Confirm(a) \/ TakeBundle(a) \/ RegisterCompanion(a)
                 \/ RevokeCertificate(a) \/ DeployCrl(a) \/ RestartOpenVpn(a)
                 \/ RemoveCompanion(a)
          PROVE  procs'[a].waits # "engine"
      BY <2>4, StepMoves DEF Moves
    <2>5. QED
      BY <1>3, <2>1, <2>2, <2>3, <2>4 DEF Quiet, CallsPortal
  <1>4. QED
    BY <1>1, <1>2, <1>3 DEF AdminCommand, Quiet, CallsEngine, CallsPortal

LEMMA OneCallerStep ==
    ASSUME AdminInv, OneCaller, [AdminNext]_adminVars
    PROVE  OneCaller'
  <1>1. ASSUME NEW a \in Admins, AdminCommand(a)
        PROVE  OneCaller'
    <2>1. \A b \in Admins \ {a} : procs'[b] = procs[b]
      BY <1>1, OneMoves DEF Moves
    <2>2. QED
      BY <1>1, <2>1, CommandTx DEF OneCaller
  <1>2. ASSUME procs' = Answered("engine") \/ procs' = Failed("engine")
        PROVE  OneCaller'
    <2>1. AtRest.waits = "nobody"
      BY DEF AtRest
    <2>2. \A b \in Admins : procs'[b].waits # "engine"
      BY <1>2, <2>1, AnsweredWaits
    <2>3. QED
      BY <2>2 DEF OneCaller
  <1>3. ASSUME procs' = Answered("portal") \/ procs' = Failed("portal"),
               UNCHANGED tx
        PROVE  OneCaller'
    <2>1. AtRest.waits = "nobody"
      BY DEF AtRest
    <2>2. \A b \in Admins : procs'[b].waits = "engine" => procs[b].waits = "engine"
      BY <1>3, <2>1, AnsweredWaits
    <2>3. QED
      BY <1>3, <2>2 DEF OneCaller
  <1>4. ASSUME UNCHANGED procs, tx.step # "idle" => tx'.step # "idle"
        PROVE  OneCaller'
    BY <1>4 DEF OneCaller
  <1>5. CASE EngineWrites
    BY <1>2, <1>4, <1>5 DEF EngineWrites
  <1>6. CASE EngineFails
    BY <1>2, <1>6 DEF EngineFails
  <1>7. CASE PortalAnswers \/ PortalFails
    BY <1>3, <1>7 DEF PortalAnswers, PortalFails, engineFiles
  <1>8. ASSUME \/ \E k \in Keys : ClientRequest(k)
               \/ \E e \in Enrollments : AdminExpire(e) \/ Connect(e)
               \/ UNCHANGED adminVars
        PROVE  UNCHANGED <<procs, tx>>
    BY <1>8 DEF ClientRequest, AdminExpire, Expire, Connect, adminVars,
                engineFiles
  <1>9. QED
    BY <1>1, <1>4, <1>5, <1>6, <1>7, <1>8 DEF AdminNext

\* A command about one enrolment is for no player, and only the retirement of
\* a player comes to its end for one.
LEMMA CommandPlayer ==
    ASSUME AdminInv, NEW a \in Admins, SingleSane(a), AdminCommand(a)
    PROVE  /\ SingleSane(a)'
           /\ procs'[a].step = "end" /\ procs'[a].player # None => Retire(a)
  <1> USE DEF Single
  <1>1. ASSUME NEW e \in Enrollments,
               \/ \E p \in Players, m \in Modes : AdminCreate(a, e, p, m)
               \/ Review(a, e) \/ AdminReject(a, e) \/ AdminRevoke(a, e)
               \/ AdminConfirmConnection(a, e)
        PROVE  procs'[a].player = None
    BY <1>1, CommandMoves DEF Moves, At, SingleSane
  <1>2. ASSUME \/ \E e \in Enrollments : Dispose(a, e)
               \/ \E p \in Players : Inventory(a, p)
        PROVE  procs'[a].step \notin Single \cup {"end"}
    BY <1>2, OffboardMoves DEF Moves
  <1>3. ASSUME Stop(a)
        PROVE  procs'[a].player = None
    BY <1>3, OffboardMoves DEF Moves
  <1>4. ASSUME \/ RegisterInvitation(a)
               \/ Confirm(a) \/ Import(a) \/ AdminSign(a) \/ TakeBundle(a)
               \/ RegisterCompanion(a) \/ Publish(a) \/ Finalize(a)
        PROVE  procs'[a].player = None
    BY <1>4, StepMoves DEF Moves, At, SingleSane
  <1>5. ASSUME \/ AdminBeginRevoke(a) \/ RevokeCertificate(a) \/ DeployCrl(a)
               \/ RestartOpenVpn(a) \/ RemoveCompanion(a)
        PROVE  procs'[a].step \notin Single \cup {"end"}
    BY <1>5, StepMoves DEF Moves
  <1>6. ASSUME RejectInEngine(a) \/ FinishRevoke(a)
        PROVE  /\ procs'[a].step \notin Single
               /\ procs'[a].step = "end" => procs'[a].player = None
    BY <1>6, StepMoves, AfterStep DEF Moves
  <1>7. ASSUME Retire(a)
        PROVE  procs'[a].step = "end"
    BY <1>7, StepMoves DEF Moves
  <1>8. QED
    BY <1>1, <1>2, <1>3, <1>4, <1>5, <1>6, <1>7 DEF AdminCommand, SingleSane

LEMMA SingleStep ==
    ASSUME AdminInv, \A b \in Admins : SingleSane(b), [AdminNext]_adminVars
    PROVE  \A b \in Admins : SingleSane(b)'
  <1>1. ASSUME NEW a \in Admins, AdminCommand(a)
        PROVE  \A b \in Admins : SingleSane(b)'
    <2>1. SingleSane(a)'
      BY <1>1, CommandPlayer
    <2>2. \A b \in Admins \ {a} : procs'[b] = procs[b]
      BY <1>1, OneMoves DEF Moves
    <2>3. QED
      BY <2>1, <2>2 DEF SingleSane
  <1>2. AtRest.player = None
    BY DEF AtRest
  <1>3. QED
    BY <1>1, <1>2, ProcsChange DEF Progress, SingleSane

Retires(a) == procs[a].player # None /\ procs[a].step = "end"

LEMMA RetiringStep ==
    ASSUME AdminInv, OffboardInv, [AdminNext]_adminVars,
           NEW a \in Admins, Retires(a)'
    PROVE  RetiringSane(a)'
  <1>1. AtRest.player = None
    BY DEF AtRest
  <1>2. Retires(a) => RetiringSane(a) /\ tx.step # "idle"
    BY DEF Retires, OffboardInv, Retiring, RetiringSane, OneCaller
  <1>3. ASSUME procs'[a] = procs[a], UNCHANGED items, tx'.id = tx.id
        PROVE  RetiringSane(a)'
    BY <1>2, <1>3 DEF Retires, RetiringSane
  <1>4. ASSUME AdminCommand(a)
        PROVE  RetiringSane(a)'
    <2>1. Retire(a)
      BY <1>4, CommandPlayer DEF Retires, OffboardInv
    <2>2. Moves(a, "end", procs[a].id, procs[a].player, "engine")
      BY <2>1, StepMoves
    <2>3. RetirePlayer(procs[a].player)
      BY <2>1 DEF Retire
    <2>4. QED
      BY <2>2, <2>3, RetireBegan DEF Moves, RetiringSane
  <1>5. ASSUME NEW b \in Admins, AdminCommand(b), a # b
        PROVE  RetiringSane(a)'
    <2>1. procs'[a] = procs[a]
      BY <1>5, OneMoves DEF Moves
    <2>2. tx.step # "idle"
      BY <1>2, <2>1 DEF Retires
    <2>3. QED
      BY <1>3, <1>5, <2>1, <2>2, CommandTx
  <1>6. ASSUME procs' = Answered("engine") \/ procs' = Failed("engine")
        PROVE  FALSE
    BY <1>1, <1>2, <1>6, AnsweredWaits DEF Retires, Progress, RetiringSane
  <1>7. ASSUME procs' = Answered("portal") \/ procs' = Failed("portal")
        PROVE  procs'[a] = procs[a]
    BY <1>1, <1>2, <1>7, AnsweredWaits DEF Retires, Progress, RetiringSane
  <1>8. CASE EngineWrites
    <2>1. TypeOK /\ ActivationInv
      BY DEF AdminInv, AdminTypeOK
    <2>2. UNCHANGED procs /\ tx'.step # "idle"
      BY <1>6, <1>8 DEF EngineWrites
    <2>3. UNCHANGED items /\ tx'.id = tx.id
      BY <1>8, <2>1, <2>2, WriteShape DEF EngineWrites, Idle
    <2>4. QED
      BY <1>3, <2>2, <2>3
  <1>9. CASE EngineFails
    BY <1>6, <1>9 DEF EngineFails
  <1>10. CASE PortalAnswers \/ PortalFails
    <2>1. UNCHANGED <<items, tx>>
      BY <1>10 DEF PortalAnswers, PortalFails, engineFiles
    <2>2. procs'[a] = procs[a]
      BY <1>7, <1>10 DEF PortalAnswers, PortalFails
    <2>3. QED
      BY <1>3, <2>1, <2>2
  <1>11. ASSUME \/ \E k \in Keys : ClientRequest(k)
                \/ \E e \in Enrollments : AdminExpire(e) \/ Connect(e)
                \/ UNCHANGED adminVars
         PROVE  RetiringSane(a)'
    <2>1. UNCHANGED <<procs, items, tx>>
      BY <1>11 DEF ClientRequest, AdminExpire, Expire, Connect, adminVars,
                   engineFiles
    <2>2. QED
      BY <1>3, <2>1
  <1>12. QED
    BY <1>4, <1>5, <1>8, <1>9, <1>10, <1>11 DEF AdminNext

\* A session is of a certificate that is not recorded as revoked.
LEMMA SessionsStep ==
    ASSUME AdminInv, RevokedInv, OffboardInv, [AdminNext]_adminVars
    PROVE  \A e \in sessions' : items'[e].state \in Certificated
  <1>1. items \in [Enrollments -> Item] /\ sessions \subseteq Enrollments
    BY DEF AdminInv, AdminTypeOK, TypeOK
  <1>2. ASSUME NEW e \in sessions
        PROVE  items'[e].state \in Certificated
    <2>1. items[e].state \in Certificated
      BY DEF OffboardInv
    <2>2. CASE Saved /\ e = tx.id
      <3>1. items'[e].state = tx.item.state /\ tx.item \in Item
        BY <1>1, <2>2 DEF Saved, AdminInv, AdminTypeOK, TypeOK, Transaction
      <3>2. tx.item.state # "revoked"
        BY <2>2 DEF Saved, RevokedInv, CutOff
      <3>3. tx.item.state \notin Offers
        BY <2>1, <2>2 DEF Saved, AdminInv, KeysInv, Follows, Keyless,
                          Certificated
      <3>4. QED
        BY <3>1, <3>2, <3>3 DEF Item, States, Offers, Certificated
    <2>3. QED
      BY <1>1, <2>1, <2>2, ItemsChange DEF Saved
  <1>3. ASSUME NEW e \in Enrollments, Connect(e)
        PROVE  /\ sessions' = sessions \cup {e}
               /\ items'[e].state \in Certificated
    <2>1. Accepts(e) /\ UNCHANGED items /\ sessions' = sessions \cup {e}
      BY <1>3 DEF Connect, engineFiles
    <2>2. items[e].state \in Signed
      BY <2>1 DEF Accepts, AdminInv, ActivationInv, FilesActivation
    <2>3. QED
      BY <2>1, <2>2 DEF Signed, Certificated
  <1>4. sessions' \subseteq sessions \/ \E e \in Enrollments : Connect(e)
    BY OutsideChange
       DEF outside, AdminCreate, RegisterCompanion, RevokeCertificate,
           DeployCrl, RestartOpenVpn, RemoveCompanion, EngineWrites
  <1>5. QED
    BY <1>2, <1>3, <1>4

\* What is about to be saved as open is of a player with an open enrolment, or
\* of one who is being invited.
LEMMA LiveBegan ==
    ASSUME AdminInv, [AdminNext]_adminVars, Saving', Live(tx'.item)
    PROVE  \/ Saving /\ tx'.item = tx.item
           \/ \E e \in Enrollments :
                 Live(items[e]) /\ tx'.item.player = items[e].player
           \/ \E a \in Admins, e \in Enrollments, p \in Players, m \in Modes :
                 AdminCreate(a, e, p, m) /\ tx'.item.player = p
  <1> DEFINE Goal ==
           \/ Saving /\ tx'.item = tx.item
           \/ \E e \in Enrollments :
                 Live(items[e]) /\ tx'.item.player = items[e].player
           \/ \E a \in Admins, e \in Enrollments, p \in Players, m \in Modes :
                 AdminCreate(a, e, p, m) /\ tx'.item.player = p
  <1>1. CASE UNCHANGED tx
    BY <1>1 DEF Saving
  <1>2. ASSUME NEW a \in Admins,
               \/ Quiet(a) \/ CallsPortal(a)
               \/ \E e \in Enrollments : Review(a, e)
        PROVE  UNCHANGED tx
    BY <1>2, QuietStep, CallsPortalStep, ReviewStep DEF engineFiles
  <1>3. ASSUME NEW a \in Admins, CallsEngine(a) \/ AdminBeginRevoke(a)
        PROVE  Goal
    <2>1. CASE RejectInEngine(a) \/ FinishRevoke(a)
      BY <2>1, WorkBegan DEF BeganSame, Began, Live, Terminal
    <2>2. CASE Retire(a)
      BY <2>2, RetireBegan DEF Retire, Saving
    <2>3. ASSUME Import(a) \/ AdminSign(a) \/ Finalize(a) \/ AdminBeginRevoke(a)
          PROVE  Goal
      BY <1>1, <2>3, WorkBegan DEF Began, BeganSame, engineFiles
    <2>4. ASSUME NEW e \in Enrollments,
                 \/ \E p \in Players, m \in Modes : AdminCreate(a, e, p, m)
                 \/ AdminConfirmConnection(a, e)
          PROVE  Goal
      BY <2>4, CommandBegan DEF Began, BeganSame
    <2>5. QED
      BY <1>3, <2>1, <2>2, <2>3, <2>4 DEF CallsEngine
  <1>4. CASE EngineWrites
    <2>1. TypeOK /\ ActivationInv
      BY DEF AdminInv, AdminTypeOK
    <2>2. QED
      BY <1>4, <2>1, WriteShape DEF EngineWrites, Saving, Idle
  <1>5. CASE EngineFails
    BY <1>5 DEF EngineFails, Interrupt, Saving, Idle
  <1>6. CASE PortalWorks
    BY <1>1, <1>6, PortalWorksStep DEF engineFiles
  <1>7. ASSUME NEW e \in Enrollments, AdminExpire(e) \/ Connect(e)
        PROVE  UNCHANGED tx
    BY <1>7 DEF AdminExpire, Expire, Connect, engineFiles
  <1>8. CASE UNCHANGED adminVars
    BY <1>1, <1>8 DEF adminVars, engineFiles
  <1>9. QED
    BY <1>1, <1>2, <1>3, <1>4, <1>5, <1>6, <1>7, <1>8, StepKinds

\* Who is reported as offboarded has retired: nothing is being saved, and no
\* enrolment of the player is open.
LEMMA OffboardedChange ==
    ASSUME AdminInv, OffboardInv, [AdminNext]_adminVars,
           NEW p \in offboarded' \ offboarded
    PROVE  /\ ~Saving' /\ UNCHANGED items
           /\ \A e \in Enrollments : items[e].player = p => ~Live(items[e])
  <1>1. EngineWrites /\ tx'.step = "idle"
    BY OutsideChange
       DEF outside, AdminCreate, RegisterCompanion, RevokeCertificate,
           DeployCrl, RestartOpenVpn, RemoveCompanion, EngineWrites, Connect
  <1>2. PICK a \in Retiring : p = procs[a].player
    BY <1>1 DEF EngineWrites
  <1>3. RetiringSane(a)
    BY DEF OffboardInv
  <1>4. ~Saving
    BY <1>3 DEF RetiringSane, Saving
  <1>5. UNCHANGED items
    BY <1>4, ItemsChange DEF Saved
  <1>6. QED
    BY <1>1, <1>2, <1>3, <1>5 DEF RetiringSane, Saving

LEMMA OffboardInvStep ==
    ASSUME AdminInv, RevokedInv, OffboardInv, [AdminNext]_adminVars
    PROVE  OffboardInv'
  <1>1. OneCaller' /\ \A a \in Admins : SingleSane(a)'
    BY OneCallerStep, SingleStep DEF OffboardInv
  <1>2. \A a \in Retiring' : RetiringSane(a)'
    BY RetiringStep DEF Retiring, Retires
  <1>3. \A e \in sessions' : items'[e].state \in Certificated
    BY SessionsStep
  <1>4. ASSUME NEW e \in Enrollments, Live(items'[e]),
               items'[e].player \in offboarded'
        PROVE  FALSE
    <2>1. items'[e].player \notin offboarded
      <3>1. items \in [Enrollments -> Item]
        BY DEF AdminInv, AdminTypeOK, TypeOK
      <3>2. QED
        BY <1>4, <3>1, ItemsChange DEF Saved, OffboardInv
    <2>2. QED
      BY <1>4, <2>1, OffboardedChange
  <1>5. ASSUME Saving', Live(tx'.item), tx'.item.player \in offboarded'
        PROVE  FALSE
    <2>1. tx'.item.player \in offboarded
      BY <1>5, OffboardedChange
    <2>2. PICK a \in Admins, e \in Enrollments, p \in Players, m \in Modes :
             AdminCreate(a, e, p, m) /\ tx'.item.player = p
      BY <1>5, <2>1, LiveBegan DEF OffboardInv
    <2>3. QED
      BY <1>5, <2>2 DEF AdminCreate
  <1>6. QED
    BY <1>1, <1>2, <1>3, <1>4, <1>5 DEF OffboardInv, Live

LEMMA InitOffboardInv == AdminInit => OffboardInv
  BY DEF AdminInit, Init, Absent, Idle, Saving, OffboardInv, OneCaller,
         SingleSane, Retiring, AtRest

THEOREM OffboardInductive == AdminSpec => []OffboardInv
  <1>1. AdminInv /\ RevokedInv /\ OffboardInv /\ [AdminNext]_adminVars
           => OffboardInv'
    BY OffboardInvStep
  <1>2. QED
    BY <1>1, InitOffboardInv, AdminInductive, RevokedInductive, PTL
       DEF AdminSpec

\* A player reported as offboarded has no open enrolment and no session, and
\* the verifier accepts none of the player's credentials, although the
\* inventory was taken long before and invitations went on.
THEOREM OffboardLeavesNothingHolds == AdminSpec => []OffboardLeavesNothing
  <1>1. AdminInv /\ OffboardInv => OffboardLeavesNothing
    <2> SUFFICES ASSUME AdminInv, OffboardInv, NEW e \in Enrollments,
                        items[e].player \in offboarded
                 PROVE  ~Live(items[e]) /\ e \notin sessions /\ ~Accepts(e)
      BY DEF OffboardLeavesNothing
    <2>1. ~Live(items[e])
      BY DEF OffboardInv
    <2>2. e \notin sessions
      BY <2>1 DEF OffboardInv, Certificated, Live, Terminal
    <2>3. ~Accepts(e)
      BY <2>1 DEF Accepts, AdminInv, ActivationInv, FilesActivation, Signed,
                  Live, Terminal
    <2>4. QED
      BY <2>1, <2>2, <2>3
  <1>2. QED
    BY <1>1, AdminInductive, OffboardInductive, PTL

-----------------------------------------------------------------------------
(***************************************************************************)
(* What was proved of the parts holds of the composition.  The portal's    *)
(* theorems are those of an instance of their module.                      *)
(***************************************************************************)
PortalProofs == INSTANCE EnrollmentPortalProofs

LEMMA PortalAssumptions ==
    PortalProofs!NoneAssumption /\ PortalProofs!ResponseAssumption
  BY NoneAssumption, PortalAssumption DEF Portal!Response, PortalProofs!Response

LEMMA SameInit == Portal!Init => PortalProofs!Init
  BY DEF Portal!Init, Portal!NoEntry, Portal!Bare, Portal!Free,
         PortalProofs!Init, PortalProofs!NoEntry, PortalProofs!Bare,
         PortalProofs!Free

\* The two instances of the portal's actions are the same.
LEMMA SameNext ==
    [Portal!Next]_(Portal!vars) => [PortalProofs!Next]_(PortalProofs!vars)
  <1> USE DEF Portal!Save, Portal!Bare, Portal!Hold, Portal!Free, Portal!Ended,
              Portal!Authorized, PortalProofs!Save, PortalProofs!Bare,
              PortalProofs!Hold, PortalProofs!Free, PortalProofs!Ended,
              PortalProofs!Authorized
  <1>1. \A e \in Enrollments :
            Portal!Register(e) \/ Portal!Inspect(e) \/ Portal!Cancel(e)
                \/ Portal!Expire(e)
            => PortalProofs!Register(e) \/ PortalProofs!Inspect(e)
                  \/ PortalProofs!Cancel(e) \/ PortalProofs!Expire(e)
    BY DEF Portal!Register, Portal!Inspect, Portal!Cancel, Portal!Expire,
           PortalProofs!Register, PortalProofs!Inspect, PortalProofs!Cancel,
           PortalProofs!Expire
  <1>2. \A e, r, k : Portal!Publish(e, r, k) => PortalProofs!Publish(e, r, k)
    BY DEF Portal!Publish, Portal!MayPublish, PortalProofs!Publish,
           PortalProofs!MayPublish
  <1>3. \A k \in Keys : Portal!Request(k) => PortalProofs!Request(k)
    BY DEF Portal!Request, Portal!Challenge, Portal!Submit, Portal!MaySubmit,
           Portal!Poll, Portal!Result, Portal!GiveUp, PortalProofs!Request,
           PortalProofs!Challenge, PortalProofs!Submit, PortalProofs!MaySubmit,
           PortalProofs!Poll, PortalProofs!Result, PortalProofs!GiveUp
  <1>4. Portal!SecondWrite \/ Portal!Crash
        => PortalProofs!SecondWrite \/ PortalProofs!Crash
    BY DEF Portal!SecondWrite, Portal!RegisterState, Portal!RegisterFails,
           Portal!CancelBundle, Portal!Answer, Portal!Receive, Portal!Crash,
           PortalProofs!SecondWrite, PortalProofs!RegisterState,
           PortalProofs!RegisterFails, PortalProofs!CancelBundle,
           PortalProofs!Answer, PortalProofs!Receive, PortalProofs!Crash
  <1>5. QED
    BY <1>1, <1>2, <1>3, <1>4
       DEF Portal!Next, Portal!vars, PortalProofs!Next, PortalProofs!vars

LEMMA PortalSpecHolds == AdminSpec => PortalProofs!Spec
  BY SameInit, SameNext, PortalImplemented, PTL DEF Portal!Spec, PortalProofs!Spec

\* Whatever the administration processes do together, OpenVPN accepts a
\* credential only while its enrolment is approved or collected, a collected
\* one reached the snapshot, players keep one mode and one identifier, no key
\* is enrolled twice and a certificate certifies the key of its request; and
\* every credential goes through its life cycle, once.
THEOREM StoreHolds ==
    AdminSpec => /\ [](AcceptedOnlyWhileLive /\ CollectedWasActivated)
                 /\ [](OneModePerPlayer /\ StablePlayerId)
                 /\ [](KeyUsedOnce /\ CertifiedKey)
                 /\ ImplementsLifecycle
  BY EngineImplemented, AcceptedOnlyWhileLiveHolds, CollectedWasActivatedHolds,
     OneModePerPlayerHolds, StablePlayerIdHolds, KeyUsedOnceHolds,
     CertifiedKeyHolds, StoreImplementsLifecycle, PTL

\* And of the portal, as the administration tool uses it: a response is sent
\* once at most and to the run whose key it certifies, what was published is
\* not replaced, and an invitation's archive is there while it can be used.
THEOREM PortalHolds ==
    AdminSpec => /\ [](Portal!AnsweredOnce /\ Portal!ProfileFitsKey)
                 /\ []Portal!BundleFollowsState
                 /\ Portal!PublishedIsStable
  <1>1. PortalProofs!Spec => /\ []PortalProofs!AnsweredOnce
                             /\ []PortalProofs!ProfileFitsKey
                             /\ []PortalProofs!BundleFollowsState
                             /\ PortalProofs!PublishedIsStable
    BY PortalAssumptions, PortalProofs!AnsweredOnceHolds,
       PortalProofs!ProfileFitsKeyHolds, PortalProofs!BundleFollowsStateHolds,
       PortalProofs!PublishedIsStableHolds
  <1>2. /\ PortalProofs!AnsweredOnce => Portal!AnsweredOnce
        /\ PortalProofs!ProfileFitsKey => Portal!ProfileFitsKey
        /\ PortalProofs!BundleFollowsState => Portal!BundleFollowsState
    BY DEF Portal!AnsweredOnce, Portal!ProfileFitsKey, Portal!BundleFollowsState,
           Portal!Open, PortalProofs!AnsweredOnce, PortalProofs!ProfileFitsKey,
           PortalProofs!BundleFollowsState, PortalProofs!Open
  <1>3. PortalProofs!PublishedIsStable => Portal!PublishedIsStable
    BY PTL DEF Portal!PublishedIsStable, PortalProofs!PublishedIsStable,
               Portal!vars, PortalProofs!vars
  <1>4. QED
    BY <1>1, <1>2, <1>3, PortalSpecHolds, PTL

-----------------------------------------------------------------------------
(***************************************************************************)
(* Sessions.  The keys on both sides of a session, in the engine's PKI and *)
(* in the run of the client, are followed from where they were confirmed:  *)
(* a certificate is not issued again, a key that was recorded stays, and a *)
(* run that has its profile draws no other key.                            *)
(***************************************************************************)
SessionSane(e) ==
    /\ issued[e] \in Keys
    /\ runs[issued[e]].stage = "done"
    /\ runs[issued[e]].id = e

\* A certificate that was issued is the certificate for good.
LEMMA IssuedStays ==
    ASSUME AdminInv, [AdminNext]_adminVars, NEW e \in Enrollments, issued[e] # None
    PROVE  issued'[e] = issued[e]
  <1>1. [Next]_vars /\ issued \in [Enrollments -> Keys \cup {None}]
        /\ tx.id \in Enrollments \cup {None}
    BY EngineStep DEF AdminInv, AdminTypeOK, TypeOK, Transaction
  <1>2. UNCHANGED issued \/ Sign
    <2>1. \A f \in Enrollments : Command(f) => UNCHANGED issued
      BY DEF Command, Create, Submit, ImportPortalSubmission, AcceptRequest,
             Approve, Collect, FinalizePublication, Reject, Revoke, BeginRevoke,
             FinalizeRevoke, ConfirmConnection, Withdraw, SaveCredential,
             SaveItem, Begin
    <2>2. QED
      BY <1>1, <2>1
         DEF Next, Write, Interrupt, vars, WriteRegistry, WriteSnapshot,
             ChownSnapshot, WriteItem, Expire, RetirePlayer, Begin
  <1>3. CASE Sign
    BY <1>1, <1>3 DEF Sign
  <1>4. QED
    BY <1>2, <1>3

LEMMA SessionSaneStep ==
    ASSUME AdminInv, PortalProofs!Sane, [AdminNext]_adminVars,
           \A e \in sessions : SessionSane(e)
    PROVE  \A e \in sessions' : SessionSane(e)'
  <1>1. ASSUME NEW e \in sessions PROVE SessionSane(e)'
    <2>1. e \in Enrollments /\ issued[e] \in Keys /\ issued[e] # None
      BY <1>1, NoneAssumption DEF AdminInv, AdminTypeOK, SessionSane
    <2>2. issued'[e] = issued[e]
      BY <2>1, IssuedStays
    <2>3. [PortalProofs!Next]_(PortalProofs!vars)
      BY PortalStep, SameNext
    <2>4. runs'[issued[e]] = runs[issued[e]]
      BY <1>1, <2>1, <2>3, PortalAssumptions, PortalProofs!DoneStays DEF SessionSane
    <2>5. QED
      BY <1>1, <2>2, <2>4 DEF SessionSane
  <1>2. ASSUME NEW e \in Enrollments, Connect(e)
        PROVE  sessions' = sessions \cup {e} /\ SessionSane(e)'
    <2>1. PICK k \in Keys : /\ runs[k].stage = "done" /\ runs[k].id = e
                            /\ runs[k].profile.key = issued[e]
      BY <1>2 DEF Connect
    <2>2. runs[k].profile.key = k
      BY <2>1 DEF PortalProofs!Sane, PortalProofs!RunSane
    <2>3. /\ sessions' = sessions \cup {e}
          /\ issued' = issued /\ runs' = runs
      BY <1>2 DEF Connect, engineFiles, portalFiles
    <2>4. QED
      BY <2>1, <2>2, <2>3 DEF SessionSane
  <1>3. sessions' \subseteq sessions \/ \E e \in Enrollments : Connect(e)
    BY OutsideChange
       DEF outside, AdminCreate, RegisterCompanion, RevokeCertificate,
           DeployCrl, RestartOpenVpn, RemoveCompanion, EngineWrites
  <1>4. QED
    BY <1>1, <1>2, <1>3

\* Whoever is connected has the key that was confirmed for an enrolment that
\* was approved, in the run of the client that drew it, for any number of
\* administrators, invitations, runs and faults.
THEOREM SessionsAreConfirmedHolds == AdminSpec => []SessionsAreConfirmed
  <1>1. AdminInit => \A e \in sessions : SessionSane(e)
    BY DEF AdminInit
  <1>2. AdminInv /\ PortalProofs!Sane /\ (\A e \in sessions : SessionSane(e))
           /\ [AdminNext]_adminVars => (\A e \in sessions : SessionSane(e))'
    BY SessionSaneStep
  <1>3. AdminSpec => []PortalProofs!Sane
    <2>1. PortalProofs!Spec => []PortalProofs!Sane
      BY PortalAssumptions, PortalProofs!PortalInductive
    <2>2. QED
      BY <2>1, PortalSpecHolds, PTL
  <1>4. AdminInv /\ OffboardInv /\ (\A e \in sessions : SessionSane(e))
           => SessionsAreConfirmed
    <2> SUFFICES ASSUME AdminInv, OffboardInv, NEW e \in sessions, SessionSane(e)
                 PROVE  /\ issued[e] # None /\ issued[e] = items[e].spki
                        /\ issued[e] = desk[e]
                        /\ items[e].state \in Certificated
      BY DEF SessionsAreConfirmed, SessionSane, Certificated
    <2>1. e \in Enrollments /\ issued[e] # None
      BY NoneAssumption DEF AdminInv, AdminTypeOK, SessionSane
    <2>2. issued[e] = items[e].spki
      BY <2>1 DEF AdminInv, KeysInv, Certified
    <2>3. issued[e] = desk[e]
      BY <2>1, <2>2 DEF AdminInv, DeskSane
    <2>4. QED
      BY <2>1, <2>2, <2>3 DEF OffboardInv
  <1>5. QED
    BY <1>1, <1>2, <1>3, <1>4, AdminInductive, OffboardInductive, PTL DEF AdminSpec
=============================================================================
