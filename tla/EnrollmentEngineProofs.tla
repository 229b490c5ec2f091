----------------------- MODULE EnrollmentEngineProofs -----------------------
(***************************************************************************)
(* Proofs about EnrollmentEngine, for every set of enrolments, players,    *)
(* player ids, modes and keys.                                             *)
(***************************************************************************)
EXTENDS EnrollmentEngine, TLAPS

-----------------------------------------------------------------------------
(***************************************************************************)
(* Type correctness.                                                       *)
(***************************************************************************)
LEMMA AbsentType == Absent \in Item
  BY DEF Absent, Item, Tokens

LEMMA EmptyRegistryType == EmptyRegistry \in Registry
  BY DEF EmptyRegistry, Registry, CredentialStates

LEMMA IdleType == Idle \in Transaction
  BY AbsentType, EmptyRegistryType DEF Idle, Transaction, Steps

\* A command that takes the lock with well-typed writes keeps the types.
LEMMA BeginType ==
    ASSUME TypeOK, NEW step \in Steps, NEW id \in Enrollments \cup {None},
           NEW item \in Item, NEW reg \in Registry,
           Begin(step, id, item, reg)
    PROVE  TypeOK'
  BY DEF Begin, TypeOK, Transaction

LEMMA SaveItemType ==
    ASSUME TypeOK, NEW e \in Enrollments, NEW item \in Item, SaveItem(e, item)
    PROVE  TypeOK'
  BY BeginType DEF SaveItem, TypeOK, Steps

LEMMA SaveCredentialType ==
    ASSUME TypeOK, NEW e \in Enrollments, NEW item \in Item,
           NEW s \in CredentialStates, SaveCredential(e, item, s)
    PROVE  TypeOK'
  <1>1. [registry EXCEPT !.credentials[e] = s] \in Registry
    BY DEF TypeOK, Registry
  <1>2. QED
    BY <1>1, BeginType DEF SaveCredential, Steps

LEMMA WithdrawType ==
    ASSUME TypeOK, NEW e \in Enrollments, NEW item \in Item,
           NEW s \in CredentialStates, Withdraw(e, item, s)
    PROVE  TypeOK'
  BY SaveItemType, SaveCredentialType DEF Withdraw

LEMMA CommandType ==
    ASSUME TypeOK, NEW e \in Enrollments, Command(e)
    PROVE  TypeOK'
  <1> USE DEF Item, States, Tokens
  <1>1. items[e] \in Item
    BY DEF TypeOK
  <1>2. ASSUME NEW p \in Players, NEW m \in Modes, Create(e, p, m)
        PROVE  TypeOK'
    <2>1. PICK pid \in PlayerIds :
             LET item == [Absent EXCEPT !.state = "created", !.player = p,
                             !.playerId = pid, !.mode = m,
                             !.token = "invitation"]
             IN  \/ SaveItem(e, item)
                 \/ Begin("registry", e, item,
                          [registry EXCEPT !.players[p] = pid])
      BY <1>2 DEF Create
    <2>2. [Absent EXCEPT !.state = "created", !.player = p,
              !.playerId = pid, !.mode = m, !.token = "invitation"] \in Item
      BY AbsentType
    <2>3. [registry EXCEPT !.players[p] = pid] \in Registry
      BY DEF TypeOK, Registry
    <2>4. QED
      BY <2>1, <2>2, <2>3, SaveItemType, BeginType DEF Steps
  <1>3. ASSUME NEW k \in Keys, AcceptRequest(e, k)
        PROVE  TypeOK'
    <2>1. [items[e] EXCEPT !.state = "csr-submitted", !.spki = k] \in Item
      BY <1>1
    <2>2. QED
      BY <1>3, <2>1, SaveItemType DEF AcceptRequest
  <1>4. ASSUME NEW pki \in BOOLEAN, Approve(e, pki)
        PROVE  TypeOK'
    <2>1. ApprovedItem(e, pki) \in Item
      BY <1>1 DEF ApprovedItem
    <2>2. QED
      BY <1>4, <2>1, BeginType DEF Approve, Steps, TypeOK
  <1>5. CollectedItem(e) \in Item
    BY <1>1 DEF CollectedItem
  <1>6. \A target \in States : TerminalItem(e, target) \in Item
    BY <1>1 DEF TerminalItem
  <1>7. ASSUME \/ \E t \in Tokens : Collect(e, t)
               \/ FinalizePublication(e)
        PROVE  TypeOK'
    BY <1>5, <1>7, SaveCredentialType
       DEF Collect, FinalizePublication, CredentialStates
  <1>8. CASE Reject(e)
    BY <1>6, <1>8, SaveItemType DEF Reject
  <1>9. CASE Revoke(e) \/ FinalizeRevoke(e)
    BY <1>6, <1>9, WithdrawType DEF Revoke, FinalizeRevoke, CredentialStates
  <1>10. CASE BeginRevoke(e)
    <2>1. [items[e] EXCEPT !.state = "revoking"] \in Item
      BY <1>1
    <2>2. QED
      BY <1>10, <2>1, WithdrawType DEF BeginRevoke, CredentialStates
  <1>11. CASE ConfirmConnection(e)
    <2>1. [items[e] EXCEPT !.confirmed = TRUE] \in Item
      BY <1>1
    <2>2. QED
      BY <1>11, <2>1, SaveItemType DEF ConfirmConnection
  <1>12. QED
    BY <1>2, <1>3, <1>4, <1>7, <1>8, <1>9, <1>10, <1>11
       DEF Command, Submit, ImportPortalSubmission

LEMMA RetireType ==
    ASSUME TypeOK, NEW p \in Players, RetirePlayer(p)
    PROVE  TypeOK'
  <1>1. [registry EXCEPT !.players[p] = None] \in Registry
    BY DEF TypeOK, Registry
  <1>2. QED
    BY <1>1, AbsentType, BeginType DEF RetirePlayer, Steps

LEMMA InitType == Init => TypeOK
  BY AbsentType, EmptyRegistryType, IdleType
     DEF Init, TypeOK, EmptyRegistry, Registry

LEMMA NextType ==
    ASSUME TypeOK, [Next]_vars
    PROVE  TypeOK'
  <1>1. ASSUME NEW e \in Enrollments, Expire(e)
        PROVE  TypeOK'
    BY <1>1 DEF Expire, TypeOK
  <1>2. CASE Sign
    BY <1>2 DEF Sign, TypeOK, Transaction, Steps, Item
  <1>3. CASE WriteRegistry
    BY <1>3 DEF WriteRegistry, TypeOK, Transaction, Steps
  <1>4. CASE WriteSnapshot
    BY <1>4 DEF WriteSnapshot, TypeOK, Transaction, Steps, Registry
  <1>5. CASE ChownSnapshot
    BY <1>5, IdleType DEF ChownSnapshot, TypeOK, Transaction, Steps
  <1>6. CASE WriteItem
    BY <1>6, IdleType DEF WriteItem, TypeOK, Transaction
  <1>7. CASE Interrupt
    BY <1>7, IdleType DEF Interrupt, TypeOK
  <1>8. CASE UNCHANGED vars
    BY <1>8 DEF vars, TypeOK
  <1>9. QED
    BY <1>1, <1>2, <1>3, <1>4, <1>5, <1>6, <1>7, <1>8,
       CommandType, RetireType DEF Next, Write

\* The files of the store and the pending transaction are well formed.
THEOREM TypeCorrect == Spec => []TypeOK
  <1>1. TypeOK /\ [Next]_vars => TypeOK'
    BY NextType
  <1>2. QED
    BY <1>1, InitType, PTL DEF Spec

-----------------------------------------------------------------------------
(***************************************************************************)
(* Activation and revocation.  AcceptedOnlyWhileLive is not inductive: it  *)
(* does not say what the command holding the lock has still to write, nor  *)
(* that the snapshot never knows a credential the registry does not know,  *)
(* on which Withdraw relies when it leaves both files alone.               *)
(***************************************************************************)
Signed == {"approved", "collected"}

Writing == tx.step \in {"registry", "snapshot"}
Saving  == tx.step # "idle" /\ tx.id # None

FilesActivation ==
    \A e \in Enrollments :
        /\ registry.credentials[e] = "active" => items[e].state \in Signed
        /\ snapshot.credentials[e] = "active" => items[e].state \in Signed
        /\ snapshot.credentials[e] # "none" => registry.credentials[e] # "none"
        /\ items[e].state = "collected" => snapshot.credentials[e] # "none"

\* The registry that is still to be written.
PendingRegistry ==
    /\ Writing =>
         /\ \A e \in Enrollments :
              /\ tx.registry.credentials[e] = "active" => items[e].state \in Signed
              /\ registry.credentials[e] # "none"
                    => tx.registry.credentials[e] # "none"
         /\ tx.id # None =>
              /\ tx.item.state \notin Signed
                    => tx.registry.credentials[tx.id] # "active"
              /\ tx.item.state = "collected"
                    => tx.registry.credentials[tx.id] # "none"
    /\ tx.step = "snapshot" => registry = tx.registry

\* The enrolment that is still to be saved, once the registry is written.
PendingItem ==
    /\ tx.step \in {"sign", "item"} => tx.id # None
    /\ tx.step = "sign" => tx.item.state = "approved"
    /\ tx.step \in {"chown", "item"} /\ tx.id # None =>
         /\ tx.item.state \notin Signed =>
              /\ registry.credentials[tx.id] # "active"
              /\ snapshot.credentials[tx.id] # "active"
         /\ tx.item.state = "collected" => snapshot.credentials[tx.id] # "none"

ActivationInv == FilesActivation /\ PendingRegistry /\ PendingItem

LEMMA BeginItemActivation ==
    ASSUME TypeOK, ActivationInv,
           NEW e \in Enrollments, NEW item \in Item, SaveItem(e, item),
           item.state \notin Signed => registry.credentials[e] # "active",
           item.state \notin Signed => snapshot.credentials[e] # "active",
           item.state = "collected" => snapshot.credentials[e] # "none"
    PROVE  ActivationInv'
  BY NoneAssumption
     DEF ActivationInv, FilesActivation, PendingRegistry, PendingItem, Writing,
         SaveItem, Begin

\* A command that rewrites the registry: no credential disappears from it, and
\* it activates only what is approved.
LEMMA BeginRegistryActivation ==
    ASSUME TypeOK, ActivationInv,
           NEW id \in Enrollments \cup {None}, NEW item \in Item,
           NEW reg \in Registry, Begin("registry", id, item, reg),
           \A e \in Enrollments :
              /\ reg.credentials[e] = "active" => items[e].state \in Signed
              /\ registry.credentials[e] # "none" => reg.credentials[e] # "none",
           id # None =>
              /\ item.state \notin Signed => reg.credentials[id] # "active"
              /\ item.state = "collected" => reg.credentials[id] # "none"
    PROVE  ActivationInv'
  BY DEF ActivationInv, FilesActivation, PendingRegistry, PendingItem, Writing,
         Begin

LEMMA CommandActivation ==
    ASSUME TypeOK, ActivationInv, NEW e \in Enrollments, Command(e)
    PROVE  ActivationInv'
  <1>1. items[e] \in Item /\ registry \in Registry
    BY DEF TypeOK
  <1>2. FilesActivation
    BY DEF ActivationInv
  <1>3. ASSUME NEW p \in Players, NEW m \in Modes, Create(e, p, m)
        PROVE  ActivationInv'
    <2> DEFINE New(pid) == [Absent EXCEPT !.state = "created", !.player = p,
                               !.playerId = pid, !.mode = m,
                               !.token = "invitation"]
    <2>1. PICK pid \in PlayerIds :
             \/ SaveItem(e, New(pid))
             \/ Begin("registry", e, New(pid),
                      [registry EXCEPT !.players[p] = pid])
      BY <1>3 DEF Create
    <2>2. New(pid) \in Item /\ New(pid).state = "created"
      BY AbsentType DEF Item, States, Tokens, Absent
    <2>3. /\ registry.credentials[e] # "active"
          /\ snapshot.credentials[e] # "active"
      BY <1>2, <1>3 DEF FilesActivation, Create, Signed
    <2>4. /\ [registry EXCEPT !.players[p] = pid] \in Registry
          /\ [registry EXCEPT !.players[p] = pid].credentials
                = registry.credentials
      BY <1>1 DEF Registry
    <2>5. CASE SaveItem(e, New(pid))
      BY <2>2, <2>3, <2>5, BeginItemActivation
    <2>6. CASE Begin("registry", e, New(pid),
                     [registry EXCEPT !.players[p] = pid])
      <3> HIDE DEF New
      <3>1. QED
        BY <1>2, <2>2, <2>3, <2>4, <2>6, BeginRegistryActivation
           DEF FilesActivation
    <2>7. QED
      BY <2>1, <2>5, <2>6
  <1>4. ASSUME NEW k \in Keys, AcceptRequest(e, k)
        PROVE  ActivationInv'
    <2> DEFINE new == [items[e] EXCEPT !.state = "csr-submitted", !.spki = k]
    <2>1. new \in Item /\ new.state = "csr-submitted" /\ SaveItem(e, new)
      BY <1>1, <1>4 DEF AcceptRequest, Item, States
    <2>2. /\ registry.credentials[e] # "active"
          /\ snapshot.credentials[e] # "active"
      BY <1>2, <1>4 DEF FilesActivation, AcceptRequest, RequireState, Signed
    <2> HIDE DEF new
    <2>3. QED
      BY <2>1, <2>2, BeginItemActivation
  <1>5. ASSUME NEW pki \in BOOLEAN, Approve(e, pki)
        PROVE  ActivationInv'
    <2>1. ApprovedItem(e, pki) \in Item /\ ApprovedItem(e, pki).state = "approved"
      BY <1>1 DEF ApprovedItem, Item, States, Tokens
    <2>2. QED
      BY <1>5, <2>1, NoneAssumption
         DEF Approve, ActivationInv, FilesActivation, PendingRegistry,
             PendingItem, Writing, Begin, Signed
  <1>6. ASSUME NEW item \in Item, NEW s \in {"active", "revoking", "revoked"},
               items[e].state \in Signed \/ s # "active",
               item.state \notin Signed => s # "active",
               SaveCredential(e, item, s)
        PROVE  ActivationInv'
    <2> DEFINE reg == [registry EXCEPT !.credentials[e] = s]
    <2>1. /\ reg \in Registry
          /\ \A f \in Enrollments :
                reg.credentials[f] = IF f = e THEN s ELSE registry.credentials[f]
      BY <1>1 DEF Registry, CredentialStates
    <2>2. Begin("registry", e, item, reg)
      BY <1>6 DEF SaveCredential
    <2> HIDE DEF reg
    <2>3. QED
      BY <1>2, <1>6, <2>1, <2>2, BeginRegistryActivation DEF FilesActivation
  <1>7. ASSUME NEW item \in Item, NEW s \in {"revoking", "revoked"},
               item.state \notin Signed, Withdraw(e, item, s)
        PROVE  ActivationInv'
    <2>1. CASE registry.credentials[e] = "none"
      BY <1>2, <1>7, <2>1, BeginItemActivation
         DEF Withdraw, FilesActivation, Signed
    <2>2. CASE registry.credentials[e] # "none"
      BY <1>6, <1>7, <2>2 DEF Withdraw
    <2>3. QED
      BY <2>1, <2>2
  <1>8. CASE (\E t \in Tokens : Collect(e, t)) \/ FinalizePublication(e)
    <2>1. CollectedItem(e) \in Item /\ CollectedItem(e).state = "collected"
      BY <1>1 DEF CollectedItem, Item, States, Tokens
    <2>2. SaveCredential(e, CollectedItem(e), "active")
          /\ items[e].state = "approved"
      BY <1>8 DEF Collect, FinalizePublication, RequireState
    <2>3. QED
      BY <1>6, <2>1, <2>2 DEF Signed
  <1>9. \A target \in {"rejected", "revoked"} :
           /\ TerminalItem(e, target) \in Item
           /\ TerminalItem(e, target).state = target
    BY <1>1 DEF TerminalItem, Item, States, Tokens
  <1>10. CASE Reject(e)
    <2>1. /\ registry.credentials[e] # "active"
          /\ snapshot.credentials[e] # "active"
      BY <1>2, <1>10 DEF FilesActivation, Reject, Signed
    <2>2. QED
      BY <1>9, <1>10, <2>1, BeginItemActivation DEF Reject
  <1>11. CASE Revoke(e) \/ FinalizeRevoke(e)
    BY <1>7, <1>9, <1>11 DEF Revoke, FinalizeRevoke, Signed
  <1>12. CASE BeginRevoke(e)
    <2> DEFINE new == [items[e] EXCEPT !.state = "revoking"]
    <2>1. new \in Item /\ new.state = "revoking"
      BY <1>1 DEF Item, States
    <2>2. Withdraw(e, new, "revoking")
      BY <1>12 DEF BeginRevoke
    <2> HIDE DEF new
    <2>3. QED
      BY <1>7, <2>1, <2>2 DEF Signed
  <1>13. CASE ConfirmConnection(e)
    <2> DEFINE new == [items[e] EXCEPT !.confirmed = TRUE]
    <2>1. new \in Item /\ new.state = "collected" /\ SaveItem(e, new)
      BY <1>1, <1>13 DEF ConfirmConnection, Item
    <2>2. snapshot.credentials[e] # "none"
      BY <1>2, <1>13 DEF FilesActivation, ConfirmConnection
    <2> HIDE DEF new
    <2>3. QED
      BY <2>1, <2>2, BeginItemActivation DEF Signed
  <1>14. QED
    BY <1>3, <1>4, <1>5, <1>8, <1>10, <1>11, <1>12, <1>13
       DEF Command, Submit, ImportPortalSubmission

LEMMA RetireActivation ==
    ASSUME TypeOK, ActivationInv, NEW p \in Players, RetirePlayer(p)
    PROVE  ActivationInv'
  <1>1. /\ [registry EXCEPT !.players[p] = None] \in Registry
        /\ [registry EXCEPT !.players[p] = None].credentials
              = registry.credentials
    BY DEF TypeOK, Registry
  <1>2. QED
    BY <1>1, AbsentType, BeginRegistryActivation
       DEF RetirePlayer, ActivationInv, FilesActivation

LEMMA WriteActivation ==
    ASSUME TypeOK, ActivationInv, Write
    PROVE  ActivationInv'
  <1> USE DEF ActivationInv, FilesActivation, PendingRegistry, PendingItem,
              Writing
  <1>1. CASE Sign
    BY <1>1 DEF Sign, TypeOK, Transaction, Signed
  <1>2. CASE WriteRegistry
    BY <1>2 DEF WriteRegistry, TypeOK, Transaction
  <1>3. CASE WriteSnapshot
    BY <1>3 DEF WriteSnapshot, TypeOK, Transaction
  <1>4. CASE ChownSnapshot
    BY <1>4 DEF ChownSnapshot, TypeOK, Transaction, Idle
  <1>5. CASE WriteItem
    <2>1. \A e \in Enrollments :
             items'[e] = IF e = tx.id THEN tx.item ELSE items[e]
      BY <1>5 DEF WriteItem, TypeOK
    <2>2. QED
      BY <1>5, <2>1 DEF WriteItem, Idle, TypeOK, Transaction
  <1>6. QED
    BY <1>1, <1>2, <1>3, <1>4, <1>5 DEF Write

LEMMA InitActivation == Init => ActivationInv
  BY DEF Init, ActivationInv, FilesActivation, PendingRegistry, PendingItem,
         Writing, EmptyRegistry, Idle, Absent

LEMMA NextActivation ==
    ASSUME TypeOK, ActivationInv, [Next]_vars
    PROVE  ActivationInv'
  <1> USE DEF ActivationInv, FilesActivation, PendingRegistry, PendingItem,
              Writing
  <1>1. ASSUME NEW e \in Enrollments, Expire(e)
        PROVE  ActivationInv'
    BY <1>1 DEF Expire
  <1>2. CASE Interrupt
    BY <1>2 DEF Interrupt, Idle
  <1>3. CASE UNCHANGED vars
    BY <1>3 DEF vars
  <1>4. QED
    BY <1>1, <1>2, <1>3, CommandActivation, RetireActivation,
       WriteActivation DEF Next

\* ActivationInv is inductive.
THEOREM ActivationInductive == Spec => []ActivationInv
  <1>1. TypeOK /\ ActivationInv /\ [Next]_vars => ActivationInv'
    BY NextActivation
  <1>2. QED
    BY <1>1, InitActivation, TypeCorrect, PTL DEF Spec

\* OpenVPN accepts a credential only while its enrolment is approved or
\* collected, however the writes of activation and revocation are interrupted.
THEOREM AcceptedOnlyWhileLiveHolds == Spec => []AcceptedOnlyWhileLive
  <1>1. ActivationInv => AcceptedOnlyWhileLive
    BY DEF ActivationInv, FilesActivation, AcceptedOnlyWhileLive, Accepts, Signed
  <1>2. QED
    BY <1>1, ActivationInductive, PTL

\* No enrolment is recorded as collected before the verifier knows its
\* credential.
THEOREM CollectedWasActivatedHolds == Spec => []CollectedWasActivated
  <1>1. ActivationInv => CollectedWasActivated
    BY DEF ActivationInv, FilesActivation, CollectedWasActivated
  <1>2. QED
    BY <1>1, ActivationInductive, PTL

-----------------------------------------------------------------------------
(***************************************************************************)
(* The store implements CredentialLifecycle.  Between the moment a command *)
(* reads an enrolment and the moment it saves it, the enrolment does not   *)
(* change: the pending file is one move ahead of the recorded one.         *)
(***************************************************************************)
Ahead(old, new) ==
    \/ PhaseOf(old) = PhaseOf(new)
    \/ PhaseOf(old) = "unborn" /\ PhaseOf(new) = "offered"
    \/ PhaseOf(old) = "offered" /\ PhaseOf(new) = "signed"
    \/ PhaseOf(old) \in {"offered", "signed"} /\ PhaseOf(new) = "closed"

PendingMove ==
    tx.step # "idle" /\ tx.id # None
        => Ahead(items[tx.id].state, tx.item.state)

LEMMA BeginMove ==
    ASSUME NEW step, NEW e \in Enrollments, NEW item \in Item, NEW reg,
           Begin(step, e, item, reg), Ahead(items[e].state, item.state)
    PROVE  PendingMove'
  BY DEF PendingMove, Begin, Ahead, PhaseOf

LEMMA CommandMove ==
    ASSUME TypeOK, NEW e \in Enrollments, Command(e)
    PROVE  PendingMove'
  <1> USE DEF SaveItem, SaveCredential, Withdraw
  <1>1. items[e] \in Item
    BY DEF TypeOK
  <1>2. ASSUME NEW p \in Players, NEW m \in Modes, Create(e, p, m)
        PROVE  PendingMove'
    <2> DEFINE New(pid) == [Absent EXCEPT !.state = "created", !.player = p,
                               !.playerId = pid, !.mode = m,
                               !.token = "invitation"]
    <2>1. PICK pid \in PlayerIds : \E step, reg : Begin(step, e, New(pid), reg)
      BY <1>2 DEF Create
    <2>2. New(pid) \in Item /\ New(pid).state = "created"
      BY AbsentType DEF Item, States, Tokens, Absent
    <2>3. Ahead(items[e].state, New(pid).state)
      BY <1>2, <2>2 DEF Create, Ahead, PhaseOf
    <2> HIDE DEF New
    <2>4. QED
      BY <2>1, <2>2, <2>3, BeginMove
  <1>3. ASSUME NEW k \in Keys, AcceptRequest(e, k)
        PROVE  PendingMove'
    <2> DEFINE new == [items[e] EXCEPT !.state = "csr-submitted", !.spki = k]
    <2>1. new \in Item /\ new.state = "csr-submitted"
      BY <1>1 DEF Item, States
    <2>2. Begin("item", e, new, registry)
      BY <1>3 DEF AcceptRequest
    <2>3. Ahead(items[e].state, new.state)
      BY <1>3, <2>1 DEF AcceptRequest, RequireState, Ahead, PhaseOf
    <2> HIDE DEF new
    <2>4. QED
      BY <2>1, <2>2, <2>3, BeginMove
  <1>4. ASSUME NEW pki \in BOOLEAN, Approve(e, pki)
        PROVE  PendingMove'
    <2>1. ApprovedItem(e, pki) \in Item /\ ApprovedItem(e, pki).state = "approved"
      BY <1>1 DEF ApprovedItem, Item, States, Tokens
    <2>2. Ahead(items[e].state, ApprovedItem(e, pki).state)
      BY <1>4, <2>1 DEF Approve, RequireState, Ahead, PhaseOf
    <2>3. QED
      BY <1>4, <2>1, <2>2, BeginMove DEF Approve
  <1>5. CASE (\E t \in Tokens : Collect(e, t)) \/ FinalizePublication(e)
    <2>1. CollectedItem(e) \in Item /\ CollectedItem(e).state = "collected"
      BY <1>1 DEF CollectedItem, Item, States, Tokens
    <2>2. Ahead(items[e].state, CollectedItem(e).state)
      BY <1>5, <2>1
         DEF Collect, FinalizePublication, RequireState, Ahead, PhaseOf
    <2>3. QED
      BY <1>5, <2>1, <2>2, BeginMove DEF Collect, FinalizePublication
  <1>6. \A target \in {"rejected", "revoked"} :
           /\ TerminalItem(e, target) \in Item
           /\ TerminalItem(e, target).state = target
    BY <1>1 DEF TerminalItem, Item, States, Tokens
  <1>7. CASE Reject(e)
    <2>1. Ahead(items[e].state, TerminalItem(e, "rejected").state)
      BY <1>6, <1>7 DEF Reject, Ahead, PhaseOf
    <2>2. QED
      BY <1>6, <1>7, <2>1, BeginMove DEF Reject
  <1>8. CASE Revoke(e) \/ FinalizeRevoke(e)
    <2>1. Ahead(items[e].state, TerminalItem(e, "revoked").state)
      BY <1>6, <1>8 DEF Revoke, FinalizeRevoke, Ahead, PhaseOf
    <2>2. QED
      BY <1>6, <1>8, <2>1, BeginMove DEF Revoke, FinalizeRevoke
  <1>9. CASE BeginRevoke(e)
    <2> DEFINE new == [items[e] EXCEPT !.state = "revoking"]
    <2>1. new \in Item /\ new.state = "revoking"
      BY <1>1 DEF Item, States
    <2>2. Ahead(items[e].state, new.state)
      BY <1>9, <2>1 DEF BeginRevoke, Ahead, PhaseOf
    <2>3. \E step, reg : Begin(step, e, new, reg)
      BY <1>9 DEF BeginRevoke
    <2> HIDE DEF new
    <2>4. QED
      BY <2>1, <2>2, <2>3, BeginMove
  <1>10. CASE ConfirmConnection(e)
    <2> DEFINE new == [items[e] EXCEPT !.confirmed = TRUE]
    <2>1. new \in Item /\ new.state = items[e].state
      BY <1>1 DEF Item
    <2>2. Begin("item", e, new, registry)
      BY <1>10 DEF ConfirmConnection
    <2>3. Ahead(items[e].state, new.state)
      BY <2>1 DEF Ahead
    <2> HIDE DEF new
    <2>4. QED
      BY <2>1, <2>2, <2>3, BeginMove
  <1>11. QED
    BY <1>2, <1>3, <1>4, <1>5, <1>7, <1>8, <1>9, <1>10
       DEF Command, Submit, ImportPortalSubmission

LEMMA PendingMoveInductive == Spec => []PendingMove
  <1>1. Init => PendingMove
    BY DEF Init, PendingMove, Idle
  <1>2. TypeOK /\ PendingMove /\ [Next]_vars => PendingMove'
    <2> SUFFICES ASSUME TypeOK, PendingMove, [Next]_vars
                 PROVE  PendingMove'
      OBVIOUS
    <2> USE DEF PendingMove
    <2>1. ASSUME NEW p \in Players, RetirePlayer(p)
          PROVE  PendingMove'
      BY <2>1 DEF RetirePlayer, Begin
    <2>2. ASSUME NEW e \in Enrollments, Expire(e)
          PROVE  PendingMove'
      BY <2>2 DEF Expire, Ahead, PhaseOf
    <2>3. CASE Sign \/ WriteRegistry \/ WriteSnapshot \/ ChownSnapshot
      BY <2>3 DEF Sign, WriteRegistry, WriteSnapshot, ChownSnapshot, TypeOK,
                  Transaction, Idle, Ahead, PhaseOf
    <2>4. CASE WriteItem \/ Interrupt
      BY <2>4 DEF WriteItem, Interrupt, Idle
    <2>5. CASE UNCHANGED vars
      BY <2>5 DEF vars, Ahead, PhaseOf
    <2>6. QED
      BY <2>1, <2>2, <2>3, <2>4, <2>5, CommandMove DEF Next, Write
  <1>3. QED
    BY <1>1, <1>2, TypeCorrect, PTL DEF Spec

\* A step of the store is a step of the lifecycle, or leaves it alone.
LEMMA LifecycleStep ==
    ASSUME TypeOK, TypeOK', ActivationInv, ActivationInv', PendingMove, [Next]_vars
    PROVE  [Lifecycle!Next]_(Lifecycle!vars)
  <1> DEFINE phase == [e \in Enrollments |-> PhaseOf(items[e].state)]
             accepted == {e \in Enrollments : Accepts(e)}
  <1>1. CASE UNCHANGED <<items, snapshot>>
    BY <1>1 DEF Lifecycle!vars, Accepts, PhaseOf
  <1>2. CASE WriteSnapshot \/ ChownSnapshot
    <2>1. UNCHANGED phase
      BY <1>2 DEF WriteSnapshot, ChownSnapshot, PhaseOf
    <2>2. \A e \in accepted' : e \in Enrollments /\ phase[e] = "signed"
      BY <1>2 DEF WriteSnapshot, ChownSnapshot, ActivationInv,
                  FilesActivation, Accepts, Signed, PhaseOf
    <2>3. Lifecycle!Publish
      BY <2>1, <2>2 DEF Lifecycle!Publish
    <2>4. QED
      BY <2>3 DEF Lifecycle!Next
  <1>3. CASE WriteItem
    <2>1. /\ tx.id \in Enrollments
          /\ items' = [items EXCEPT ![tx.id] = tx.item]
          /\ snapshot' = snapshot
      BY <1>3 DEF WriteItem, ActivationInv, PendingItem, TypeOK, Transaction
    <2>2. UNCHANGED accepted
      BY <2>1 DEF Accepts
    <2>3. phase' = [phase EXCEPT ![tx.id] = PhaseOf(tx.item.state)]
      BY <2>1 DEF PhaseOf, TypeOK
    <2>4. Ahead(items[tx.id].state, tx.item.state)
      BY <1>3, <2>1, NoneAssumption DEF PendingMove, WriteItem
    <2>5. PhaseOf(tx.item.state) = "closed" => tx.id \notin accepted
      BY <1>3, <2>1, NoneAssumption
         DEF WriteItem, ActivationInv, PendingItem, Accepts, Signed, PhaseOf
    <2> HIDE DEF accepted
    <2>6. CASE PhaseOf(items[tx.id].state) = PhaseOf(tx.item.state)
      <3>1. phase' = phase
        BY <2>1, <2>3, <2>6
      <3>2. QED
        BY <2>2, <3>1 DEF Lifecycle!vars, accepted
    <2>7. CASE PhaseOf(items[tx.id].state) # PhaseOf(tx.item.state)
      <3>1. \/ Lifecycle!Offer(tx.id)
            \/ Lifecycle!SignOff(tx.id)
            \/ Lifecycle!Close(tx.id)
        BY <2>1, <2>2, <2>3, <2>4, <2>5, <2>7
           DEF Ahead, Lifecycle!Offer, Lifecycle!SignOff, Lifecycle!Close, accepted
      <3>2. QED
        BY <2>1, <3>1 DEF Lifecycle!Next
    <2>8. QED
      BY <2>6, <2>7
  <1>4. QED
    <2>1. ASSUME NEW e \in Enrollments, Command(e)
          PROVE  UNCHANGED <<items, snapshot>>
      BY <2>1
         DEF Command, Create, Submit, ImportPortalSubmission, AcceptRequest,
             Approve, Collect, FinalizePublication, Reject, Revoke,
             BeginRevoke, FinalizeRevoke, ConfirmConnection, Withdraw,
             SaveItem, SaveCredential, Begin
    <2>2. QED
      BY <1>1, <1>2, <1>3, <2>1
         DEF Next, Write, Sign, WriteRegistry, Interrupt, Expire,
             RetirePlayer, Begin, vars

\* The files, written one by one under the lock and interrupted anywhere,
\* implement the lifecycle: offered, signed and closed for good, accepted only
\* in between.
THEOREM StoreImplementsLifecycle == Spec => ImplementsLifecycle
  <1>1. Init => Lifecycle!Init
    BY DEF Init, Lifecycle!Init, Absent, PhaseOf, Accepts, EmptyRegistry
  <1>2. QED
    BY <1>1, LifecycleStep, TypeCorrect, ActivationInductive,
       PendingMoveInductive, PTL
       DEF Spec, ImplementsLifecycle, Lifecycle!Spec

-----------------------------------------------------------------------------
(***************************************************************************)
(* Players and keys.  The scans that create and the two CSR paths make     *)
(* over the open enrolments hold until the enrolment is saved, because the *)
(* lock is held from the scan to the save.                                 *)
(***************************************************************************)
Compatible(item, other) ==
    /\ item.player = other.player => item.mode = other.mode
    /\ item.spki # None => item.spki # other.spki

RegisteredAs(reg, item) ==
    /\ item.player \in Players
    /\ item.playerId \in PlayerIds
    /\ reg.players[item.player] = item.playerId

FilesRecords ==
    /\ \A e \in Enrollments : Live(items[e]) => RegisteredAs(registry, items[e])
    /\ \A e, f \in Enrollments :
          Live(items[e]) /\ Live(items[f]) /\ e # f
             => Compatible(items[e], items[f])

PendingRecords ==
    /\ Writing => \A e \in Enrollments :
                     Live(items[e]) => RegisteredAs(tx.registry, items[e])
    /\ tx.step = "snapshot" => registry = tx.registry
    /\ Saving /\ Live(tx.item) =>
         /\ RegisteredAs(IF Writing THEN tx.registry ELSE registry, tx.item)
         /\ \A f \in Enrollments \ {tx.id} :
               Live(items[f]) => /\ Compatible(tx.item, items[f])
                                 /\ Compatible(items[f], tx.item)

RecordsInv == FilesRecords /\ PendingRecords

\* A command that takes the lock with a consistent enrolment and registry.
LEMMA BeginRecords ==
    ASSUME RecordsInv, NEW step \in Steps \ {"snapshot"},
           NEW id \in Enrollments \cup {None}, NEW item \in Item, NEW reg \in Registry,
           Begin(step, id, item, reg),
           step = "registry" => \A e \in Enrollments :
                        Live(items[e]) => RegisteredAs(reg, items[e]),
           id # None /\ Live(item) =>
              /\ RegisteredAs(IF step = "registry" THEN reg ELSE registry, item)
              /\ \A f \in Enrollments \ {id} :
                    Live(items[f]) => /\ Compatible(item, items[f])
                                      /\ Compatible(items[f], item)
    PROVE  RecordsInv'
  <1> USE DEF Begin
  <1>1. FilesRecords'
    BY DEF RecordsInv, FilesRecords, RegisteredAs, Live, Compatible
  <1>2. PendingRecords'
    <2>1. /\ tx'.step = step /\ tx'.id = id
          /\ tx'.item = item /\ tx'.registry = reg
          /\ items' = items /\ registry' = registry
      OBVIOUS
    <2>2. QED
      BY <2>1 DEF PendingRecords, Writing, Saving, RegisteredAs, Live, Compatible
  <1>3. QED
    BY <1>1, <1>2 DEF RecordsInv

\* A command that saves an enrolment as it was, in another state or with
\* another token, and does not touch the player ids.
LEMMA SameRecord ==
    ASSUME TypeOK, RecordsInv, NEW e \in Enrollments, NEW item \in Item,
           NEW step \in Steps \ {"snapshot"}, NEW reg \in Registry,
           Begin(step, e, item, reg),
           reg.players = registry.players,
           /\ item.player = items[e].player /\ item.playerId = items[e].playerId
           /\ item.mode = items[e].mode     /\ item.spki = items[e].spki,
           Live(item) => Live(items[e])
    PROVE  RecordsInv'
  <1>1. \A f \in Enrollments : Live(items[f]) => RegisteredAs(reg, items[f])
    BY DEF RecordsInv, FilesRecords, RegisteredAs
  <1>2. Live(item) =>
          /\ RegisteredAs(IF step = "registry" THEN reg ELSE registry, item)
          /\ \A f \in Enrollments \ {e} :
                Live(items[f]) => /\ Compatible(item, items[f])
                                  /\ Compatible(items[f], item)
    BY DEF RecordsInv, FilesRecords, RegisteredAs, Compatible
  <1>3. QED
    BY <1>1, <1>2, BeginRecords

LEMMA CommandRecords ==
    ASSUME TypeOK, RecordsInv, NEW e \in Enrollments, Command(e)
    PROVE  RecordsInv'
  <1>1. items[e] \in Item /\ registry \in Registry
    BY DEF TypeOK
  <1>2. \A s \in CredentialStates :
          /\ [registry EXCEPT !.credentials[e] = s] \in Registry
          /\ [registry EXCEPT !.credentials[e] = s].players = registry.players
    BY <1>1 DEF Registry
  <1>3. ASSUME NEW p \in Players, NEW m \in Modes, Create(e, p, m)
        PROVE  RecordsInv'
    <2> DEFINE New(pid) == [Absent EXCEPT !.state = "created", !.player = p,
                               !.playerId = pid, !.mode = m,
                               !.token = "invitation"]
               Reg(pid) == [registry EXCEPT !.players[p] = pid]
    <2>1. PICK pid \in PlayerIds :
             \/ registry.players[p] = pid /\ Begin("item", e, New(pid), registry)
             \/ registry.players[p] = None /\ Begin("registry", e, New(pid), Reg(pid))
      BY <1>3 DEF Create, SaveItem
    <2>2. /\ New(pid) \in Item /\ New(pid).player = p /\ New(pid).playerId = pid
          /\ New(pid).mode = m /\ New(pid).spki = None
      BY AbsentType DEF Item, States, Tokens, Absent
    <2>3. /\ Reg(pid) \in Registry /\ Reg(pid).players[p] = pid
          /\ \A q \in Players \ {p} : Reg(pid).players[q] = registry.players[q]
      BY <1>1 DEF Registry
    <2>4. \A f \in Enrollments :
             Live(items[f]) => /\ items[f].player = p => items[f].mode = m
                               /\ RegisteredAs(registry, items[f])
      BY <1>3 DEF Create, RecordsInv, FilesRecords
    <2> HIDE DEF New, Reg
    <2>5. \A f \in Enrollments :
             Live(items[f]) => /\ Compatible(New(pid), items[f])
                               /\ Compatible(items[f], New(pid))
      BY <2>2, <2>4 DEF Compatible
    <2>6. CASE registry.players[p] = pid /\ Begin("item", e, New(pid), registry)
      BY <1>1, <2>2, <2>5, <2>6, BeginRecords DEF RegisteredAs, Steps
    <2>7. CASE registry.players[p] = None
               /\ Begin("registry", e, New(pid), Reg(pid))
      <3>1. \A f \in Enrollments :
               Live(items[f]) => RegisteredAs(Reg(pid), items[f])
        BY <2>3, <2>4, <2>7, NoneAssumption DEF RegisteredAs
      <3>2. RegisteredAs(Reg(pid), New(pid))
        BY <2>2, <2>3 DEF RegisteredAs
      <3>3. QED
        BY <2>2, <2>3, <2>5, <2>7, <3>1, <3>2, BeginRecords DEF Steps
    <2>8. QED
      BY <2>1, <2>6, <2>7
  <1>4. ASSUME NEW k \in Keys, AcceptRequest(e, k)
        PROVE  RecordsInv'
    <2> DEFINE new == [items[e] EXCEPT !.state = "csr-submitted", !.spki = k]
    <2>1. /\ new \in Item /\ new.player = items[e].player
          /\ new.playerId = items[e].playerId
          /\ new.mode = items[e].mode /\ new.spki = k
      BY <1>1 DEF Item, States
    <2>2. /\ Live(items[e]) /\ Begin("item", e, new, registry)
          /\ \A f \in Enrollments : Live(items[f]) => items[f].spki # k
      BY <1>4 DEF AcceptRequest, RequireState, Live, Terminal, SaveItem
    <2> HIDE DEF new
    <2>3. RegisteredAs(registry, new)
      BY <2>1, <2>2 DEF RecordsInv, FilesRecords, RegisteredAs
    <2>4. \A f \in Enrollments \ {e} :
             Live(items[f]) => /\ Compatible(new, items[f])
                               /\ Compatible(items[f], new)
      BY <2>1, <2>2 DEF RecordsInv, FilesRecords, Compatible
    <2>5. QED
      BY <1>1, <2>1, <2>2, <2>3, <2>4, BeginRecords DEF Steps
  <1>5. ASSUME NEW pki \in BOOLEAN, Approve(e, pki)
        PROVE  RecordsInv'
    <2>1. /\ ApprovedItem(e, pki) \in Item
          /\ ApprovedItem(e, pki).player = items[e].player
          /\ ApprovedItem(e, pki).playerId = items[e].playerId
          /\ ApprovedItem(e, pki).mode = items[e].mode
          /\ ApprovedItem(e, pki).spki = items[e].spki
      BY <1>1 DEF ApprovedItem, Item, States, Tokens
    <2>2. Live(items[e])
      BY <1>5 DEF Approve, RequireState, Live, Terminal
    <2>3. PICK step \in {"sign", "item"} :
             Begin(step, e, ApprovedItem(e, pki), registry)
      BY <1>5 DEF Approve
    <2>4. QED
      BY <1>1, <2>1, <2>2, <2>3, SameRecord DEF Steps
  <1>6. ASSUME NEW item \in Item, NEW s \in CredentialStates,
               \/ SaveItem(e, item)
               \/ SaveCredential(e, item, s)
               \/ Withdraw(e, item, s),
               item.player = items[e].player, item.playerId = items[e].playerId,
               item.mode = items[e].mode, item.spki = items[e].spki,
               Live(item) => Live(items[e])
        PROVE  RecordsInv'
    BY <1>1, <1>2, <1>6, SameRecord
       DEF SaveItem, SaveCredential, Withdraw, Steps
  <1>7. CASE (\E t \in Tokens : Collect(e, t)) \/ FinalizePublication(e)
    <2>1. /\ CollectedItem(e) \in Item
          /\ CollectedItem(e).player = items[e].player
          /\ CollectedItem(e).playerId = items[e].playerId
          /\ CollectedItem(e).mode = items[e].mode
          /\ CollectedItem(e).spki = items[e].spki
      BY <1>1 DEF CollectedItem, Item, States, Tokens
    <2>2. Live(items[e]) /\ SaveCredential(e, CollectedItem(e), "active")
      BY <1>7 DEF Collect, FinalizePublication, RequireState, Live, Terminal
    <2>3. QED
      BY <1>6, <2>1, <2>2 DEF CredentialStates
  <1>8. ASSUME NEW target \in {"rejected", "revoked"}
        PROVE  /\ TerminalItem(e, target) \in Item
               /\ TerminalItem(e, target).player = items[e].player
               /\ TerminalItem(e, target).playerId = items[e].playerId
               /\ TerminalItem(e, target).mode = items[e].mode
               /\ TerminalItem(e, target).spki = items[e].spki
               /\ ~Live(TerminalItem(e, target))
    BY <1>1 DEF TerminalItem, Item, States, Tokens, Live, Terminal
  <1>9. CASE Reject(e)
    BY <1>6, <1>8, <1>9 DEF Reject, CredentialStates
  <1>10. CASE Revoke(e) \/ FinalizeRevoke(e)
    BY <1>6, <1>8, <1>10 DEF Revoke, FinalizeRevoke, CredentialStates
  <1>11. CASE BeginRevoke(e)
    <2> DEFINE new == [items[e] EXCEPT !.state = "revoking"]
    <2>1. /\ new \in Item /\ new.player = items[e].player
          /\ new.playerId = items[e].playerId
          /\ new.mode = items[e].mode /\ new.spki = items[e].spki
      BY <1>1 DEF Item, States
    <2>2. Live(items[e]) /\ Withdraw(e, new, "revoking")
      BY <1>11 DEF BeginRevoke, Live, Terminal
    <2> HIDE DEF new
    <2>3. QED
      BY <1>6, <2>1, <2>2 DEF CredentialStates
  <1>12. CASE ConfirmConnection(e)
    <2> DEFINE new == [items[e] EXCEPT !.confirmed = TRUE]
    <2>1. /\ new \in Item /\ new.player = items[e].player
          /\ new.playerId = items[e].playerId
          /\ new.mode = items[e].mode /\ new.spki = items[e].spki
      BY <1>1 DEF Item
    <2>2. Live(items[e]) /\ SaveItem(e, new)
      BY <1>12 DEF ConfirmConnection, Live, Terminal
    <2> HIDE DEF new
    <2>3. QED
      BY <1>6, <2>1, <2>2 DEF CredentialStates
  <1>13. QED
    BY <1>3, <1>4, <1>5, <1>7, <1>9, <1>10, <1>11, <1>12
       DEF Command, Submit, ImportPortalSubmission

LEMMA RetireRecords ==
    ASSUME TypeOK, RecordsInv, NEW p \in Players, RetirePlayer(p)
    PROVE  RecordsInv'
  <1> DEFINE reg == [registry EXCEPT !.players[p] = None]
  <1>1. /\ reg \in Registry
        /\ \A q \in Players \ {p} : reg.players[q] = registry.players[q]
    BY DEF TypeOK, Registry
  <1>2. Begin("registry", None, Absent, reg)
        /\ \A e \in Enrollments : Live(items[e]) => items[e].player # p
    BY DEF RetirePlayer
  <1> HIDE DEF reg
  <1>3. \A e \in Enrollments : Live(items[e]) => RegisteredAs(reg, items[e])
    BY <1>1, <1>2 DEF RecordsInv, FilesRecords, RegisteredAs
  <1>4. QED
    BY <1>1, <1>2, <1>3, AbsentType, BeginRecords DEF Steps

LEMMA WriteRecords ==
    ASSUME TypeOK, RecordsInv, ActivationInv, Write
    PROVE  RecordsInv'
  <1> USE DEF RecordsInv, FilesRecords, PendingRecords, Writing, Saving,
              RegisteredAs, Live, Compatible
  <1>1. CASE Sign
    BY <1>1 DEF Sign, TypeOK, Transaction
  <1>2. CASE WriteRegistry
    BY <1>2 DEF WriteRegistry, TypeOK, Transaction
  <1>3. CASE WriteSnapshot
    BY <1>3 DEF WriteSnapshot, TypeOK, Transaction
  <1>4. CASE ChownSnapshot
    BY <1>4 DEF ChownSnapshot, TypeOK, Transaction, Idle
  <1>5. CASE WriteItem
    <2>1. tx.id \in Enrollments /\ tx.id # None
      BY <1>5 DEF WriteItem, ActivationInv, PendingItem, TypeOK, Transaction
    <2>2. \A e \in Enrollments :
             items'[e] = IF e = tx.id THEN tx.item ELSE items[e]
      BY <1>5 DEF WriteItem, TypeOK
    <2>3. registry' = registry /\ tx' = Idle /\ tx.step = "item"
      BY <1>5 DEF WriteItem
    <2>4. PendingRecords'
      BY <2>3 DEF Idle
    <2>5. FilesRecords'
      BY <2>1, <2>2, <2>3
    <2>6. QED
      BY <2>4, <2>5
  <1>6. QED
    BY <1>1, <1>2, <1>3, <1>4, <1>5 DEF Write

THEOREM RecordsInductive == Spec => []RecordsInv
  <1>1. Init => RecordsInv
    BY DEF Init, RecordsInv, FilesRecords, PendingRecords, Writing, Saving,
           Idle, Absent, Live
  <1>2. TypeOK /\ ActivationInv /\ RecordsInv /\ [Next]_vars => RecordsInv'
    <2> SUFFICES ASSUME TypeOK, ActivationInv, RecordsInv, [Next]_vars
                 PROVE  RecordsInv'
      OBVIOUS
    <2> USE DEF RecordsInv, FilesRecords, PendingRecords, Writing, Saving,
                RegisteredAs, Live, Compatible
    <2>1. ASSUME NEW e \in Enrollments, Expire(e)
          PROVE  RecordsInv'
      BY <2>1 DEF Expire
    <2>2. CASE Interrupt
      BY <2>2 DEF Interrupt, Idle
    <2>3. CASE UNCHANGED vars
      BY <2>3 DEF vars
    <2>4. QED
      BY <2>1, <2>2, <2>3, CommandRecords, RetireRecords, WriteRecords DEF Next
  <1>3. QED
    BY <1>1, <1>2, TypeCorrect, ActivationInductive, PTL DEF Spec

\* A player's open enrolments are all in one security mode.
THEOREM OneModePerPlayerHolds == Spec => []OneModePerPlayer
  <1>1. RecordsInv => OneModePerPlayer
    BY DEF RecordsInv, FilesRecords, Compatible, OneModePerPlayer
  <1>2. QED
    BY <1>1, RecordsInductive, PTL

\* A player's open enrolments carry the id the registry has for the player.
THEOREM StablePlayerIdHolds == Spec => []StablePlayerId
  <1>1. RecordsInv => StablePlayerId
    BY DEF RecordsInv, FilesRecords, RegisteredAs, StablePlayerId
  <1>2. QED
    BY <1>1, RecordsInductive, PTL

\* No key is in two open enrolments.
THEOREM KeyUsedOnceHolds == Spec => []KeyUsedOnce
  <1>1. RecordsInv => KeyUsedOnce
    BY DEF RecordsInv, FilesRecords, Compatible, KeyUsedOnce
  <1>2. QED
    BY <1>1, RecordsInductive, PTL

-----------------------------------------------------------------------------
(***************************************************************************)
(* Keys and certificates.  A certificate issued by an interrupted approval *)
(* stays in the PKI; the request it was issued for can no longer change,   *)
(* nor can an enrolment that was approved be one that is only offered.     *)
(***************************************************************************)
Keyless == {"absent", "created"}
Keyed   == {"csr-submitted", "approved", "collected", "revoking"}
Offers  == {"absent", "created", "csr-submitted", "rejected"}

Certified(e, item) ==
    /\ issued[e] # None => /\ issued[e] = item.spki
                           /\ item.state \notin Keyless
    /\ item.state \in Keyed => item.spki # None
    /\ item.state \in Keyless => item.spki = None

\* What saving item does to the enrolment as it is recorded.
Follows(old, item) ==
    /\ old.spki # None => item.spki = old.spki
    /\ item.state \in Offers => old.state \in Keyless \cup {"csr-submitted"}

KeysInv ==
    /\ \A e \in Enrollments :
          /\ Certified(e, items[e])
          /\ items[e].pki => issued[e] # None
    /\ Saving =>
          /\ Certified(tx.id, tx.item)
          /\ Follows(items[tx.id], tx.item)
          /\ tx.step # "sign" /\ tx.item.pki => issued[tx.id] # None
    /\ tx.step = "sign" => /\ tx.item.spki = items[tx.id].spki
                           /\ tx.item.spki # None
                           /\ tx.item.state = "approved"
                           /\ items[tx.id].state = "csr-submitted"

LEMMA BeginKeys ==
    ASSUME KeysInv, NEW step \in Steps \ {"sign"}, NEW e \in Enrollments,
           NEW item \in Item, NEW reg, Begin(step, e, item, reg),
           Certified(e, item), Follows(items[e], item),
           item.pki => issued[e] # None
    PROVE  KeysInv'
  BY DEF KeysInv, Certified, Follows, Saving, Begin

LEMMA CommandKeys ==
    ASSUME TypeOK, KeysInv, NEW e \in Enrollments, Command(e)
    PROVE  KeysInv'
  <1>1. items[e] \in Item /\ Certified(e, items[e])
        /\ (items[e].pki => issued[e] # None)
    BY DEF TypeOK, KeysInv
  <1>2. ASSUME NEW p \in Players, NEW m \in Modes, Create(e, p, m)
        PROVE  KeysInv'
    <2> DEFINE New(pid) == [Absent EXCEPT !.state = "created", !.player = p,
                               !.playerId = pid, !.mode = m,
                               !.token = "invitation"]
    <2>1. PICK pid \in PlayerIds :
             \E step \in Steps \ {"sign"} : \E reg : Begin(step, e, New(pid), reg)
      BY <1>2 DEF Create, SaveItem, Steps
    <2>2. New(pid) \in Item /\ New(pid).state = "created" /\ ~New(pid).pki
      BY AbsentType DEF Item, States, Tokens, Absent
    <2>3. issued[e] = None /\ items[e].spki = None
      BY <1>1, <1>2 DEF Create, Certified, Keyless
    <2>4. New(pid).spki = None
      BY DEF Absent
    <2>5. Certified(e, New(pid)) /\ Follows(items[e], New(pid))
      BY <1>2, <2>2, <2>3, <2>4
         DEF Certified, Follows, Keyless, Keyed, Create
    <2> HIDE DEF New
    <2>6. QED
      BY <2>1, <2>2, <2>5, BeginKeys
  <1>3. ASSUME NEW k \in Keys, AcceptRequest(e, k)
        PROVE  KeysInv'
    <2> DEFINE new == [items[e] EXCEPT !.state = "csr-submitted", !.spki = k]
    <2>1. /\ new \in Item /\ new.spki = k /\ new.pki = items[e].pki
          /\ new.state = "csr-submitted"
      BY <1>1 DEF Item, States
    <2>2. /\ issued[e] = None /\ items[e].spki = None
          /\ items[e].state = "created"
      BY <1>1, <1>3 DEF AcceptRequest, RequireState, Certified, Keyless
    <2>3. k # None
      BY NoneAssumption
    <2>4. Begin("item", e, new, registry)
      BY <1>3 DEF AcceptRequest, SaveItem
    <2> HIDE DEF new
    <2>5. Certified(e, new) /\ Follows(items[e], new)
      BY <2>1, <2>2, <2>3 DEF Certified, Follows, Keyless, Keyed
    <2>6. QED
      BY <1>1, <2>1, <2>2, <2>4, <2>5, BeginKeys DEF Steps
  <1>4. ASSUME NEW pki \in BOOLEAN, Approve(e, pki)
        PROVE  KeysInv'
    <2>1. /\ ApprovedItem(e, pki).state = "approved"
          /\ ApprovedItem(e, pki).spki = items[e].spki
          /\ ApprovedItem(e, pki).pki = pki
      BY <1>1 DEF ApprovedItem, Item
    <2>2. items[e].spki # None /\ items[e].state = "csr-submitted"
      BY <1>1, <1>4 DEF Approve, RequireState, Certified, Keyed
    <2>3. /\ Certified(e, ApprovedItem(e, pki))
          /\ Follows(items[e], ApprovedItem(e, pki))
      BY <1>1, <2>1, <2>2 DEF Certified, Follows, Keyless, Offers
    <2>4. QED
      BY <1>1, <1>4, <2>1, <2>2, <2>3
         DEF Approve, KeysInv, Certified, Saving, Begin
  <1>5. ASSUME NEW item \in Item, NEW s \in CredentialStates,
               \/ SaveItem(e, item)
               \/ SaveCredential(e, item, s)
               \/ Withdraw(e, item, s),
               item.pki = items[e].pki, item.spki = items[e].spki,
               item.state \notin {"absent", "created", "csr-submitted"},
               item.state \in Keyed => items[e].state \in Keyed,
               item.state = "rejected"
                    => items[e].state \in {"created", "csr-submitted"}
        PROVE  KeysInv'
    <2>1. \E step \in Steps \ {"sign"} : \E reg : Begin(step, e, item, reg)
      BY <1>5 DEF SaveItem, SaveCredential, Withdraw, Steps
    <2>2. Certified(e, item) /\ (item.pki => issued[e] # None)
      BY <1>1, <1>5 DEF Certified, Keyless
    <2>3. Follows(items[e], item)
      BY <1>5 DEF Follows, Keyless, Offers
    <2>4. QED
      BY <2>1, <2>2, <2>3, BeginKeys
  <1>6. CASE (\E t \in Tokens : Collect(e, t)) \/ FinalizePublication(e)
    <2>1. /\ CollectedItem(e) \in Item /\ CollectedItem(e).state = "collected"
          /\ CollectedItem(e).pki = items[e].pki
          /\ CollectedItem(e).spki = items[e].spki
      BY <1>1 DEF CollectedItem, Item, States, Tokens
    <2>2. items[e].state = "approved"
          /\ SaveCredential(e, CollectedItem(e), "active")
      BY <1>6 DEF Collect, FinalizePublication, RequireState
    <2>3. QED
      BY <1>5, <2>1, <2>2 DEF CredentialStates, Keyed
  <1>7. ASSUME NEW target \in {"rejected", "revoked"}
        PROVE  /\ TerminalItem(e, target) \in Item
               /\ TerminalItem(e, target).state = target
               /\ TerminalItem(e, target).pki = items[e].pki
               /\ TerminalItem(e, target).spki = items[e].spki
    BY <1>1 DEF TerminalItem, Item, States, Tokens
  <1>8. CASE Reject(e) \/ Revoke(e) \/ FinalizeRevoke(e)
    BY <1>5, <1>7, <1>8
       DEF Reject, Revoke, FinalizeRevoke, CredentialStates, Keyed
  <1>9. CASE BeginRevoke(e)
    <2> DEFINE new == [items[e] EXCEPT !.state = "revoking"]
    <2>1. /\ new \in Item /\ new.state = "revoking"
          /\ new.pki = items[e].pki /\ new.spki = items[e].spki
      BY <1>1 DEF Item, States
    <2>2. Withdraw(e, new, "revoking") /\ items[e].state \in Keyed
      BY <1>9 DEF BeginRevoke, Keyed
    <2> HIDE DEF new
    <2>3. QED
      BY <1>5, <2>1, <2>2 DEF CredentialStates
  <1>10. CASE ConfirmConnection(e)
    <2> DEFINE new == [items[e] EXCEPT !.confirmed = TRUE]
    <2>1. /\ new \in Item /\ new.state = "collected"
          /\ new.pki = items[e].pki /\ new.spki = items[e].spki
      BY <1>1, <1>10 DEF ConfirmConnection, Item
    <2>2. SaveItem(e, new) /\ items[e].state \in Keyed
      BY <1>10 DEF ConfirmConnection, Keyed
    <2> HIDE DEF new
    <2>3. QED
      BY <1>5, <2>1, <2>2 DEF CredentialStates
  <1>11. QED
    BY <1>2, <1>3, <1>4, <1>6, <1>8, <1>9, <1>10
       DEF Command, Submit, ImportPortalSubmission

LEMMA InitKeys == Init => KeysInv
  BY DEF Init, KeysInv, Certified, Saving, Idle, Absent, Keyless, Keyed

LEMMA NextKeys ==
    ASSUME TypeOK, ActivationInv, KeysInv, [Next]_vars
    PROVE  KeysInv'
  <1> USE DEF KeysInv, Certified, Saving
  <1>1. ASSUME NEW p \in Players, RetirePlayer(p)
        PROVE  KeysInv'
    BY <1>1 DEF RetirePlayer, Begin
  <1>2. ASSUME NEW e \in Enrollments, Expire(e)
        PROVE  KeysInv'
    BY <1>2 DEF Expire
  <1>3. CASE Sign
    <2>1. /\ tx.id \in Enrollments /\ tx.id # None
          /\ tx.item.state = "approved"
          /\ tx.item.spki = items[tx.id].spki /\ tx.item.spki # None
          /\ items[tx.id].state = "csr-submitted"
      BY <1>3 DEF Sign, ActivationInv, PendingItem, TypeOK, Transaction
    <2>2. /\ items' = items /\ tx'.id = tx.id
          /\ tx'.item = tx.item /\ tx'.step = "item"
      BY <1>3 DEF Sign, TypeOK, Transaction
    <2>3. issued'[tx.id] = tx.item.spki
      BY <1>3, <2>1 DEF Sign, TypeOK
    <2>4. \A e \in Enrollments \ {tx.id} : issued'[e] = issued[e]
      BY <1>3 DEF Sign, TypeOK
    <2>5. QED
      BY <1>3, <2>1, <2>2, <2>3, <2>4 DEF Sign, TypeOK, Keyless
  <1>4. CASE WriteRegistry \/ WriteSnapshot \/ ChownSnapshot
    BY <1>4 DEF WriteRegistry, WriteSnapshot, ChownSnapshot, Idle, TypeOK,
                Transaction
  <1>5. CASE WriteItem
    <2>1. tx.id \in Enrollments /\ tx.id # None
      BY <1>5 DEF WriteItem, ActivationInv, PendingItem, TypeOK, Transaction
    <2>2. \A e \in Enrollments :
             items'[e] = IF e = tx.id THEN tx.item ELSE items[e]
      BY <1>5 DEF WriteItem, TypeOK
    <2>3. QED
      BY <1>5, <2>1, <2>2 DEF WriteItem, Idle
  <1>6. CASE Interrupt
    BY <1>6 DEF Interrupt, Idle
  <1>7. CASE UNCHANGED vars
    BY <1>7 DEF vars
  <1>8. QED
    BY <1>1, <1>2, <1>3, <1>4, <1>5, <1>6, <1>7, CommandKeys DEF Next, Write

THEOREM KeysInductive == Spec => []KeysInv
  <1>1. TypeOK /\ ActivationInv /\ KeysInv /\ [Next]_vars => KeysInv'
    BY NextKeys
  <1>2. QED
    BY <1>1, InitKeys, TypeCorrect, ActivationInductive, PTL DEF Spec

\* The certificate kept for an enrolment certifies the key of its request,
\* and an enrolment approved through the PKI has one.
THEOREM CertifiedKeyHolds == Spec => []CertifiedKey
  <1>1. KeysInv => CertifiedKey
    BY DEF KeysInv, Certified, CertifiedKey
  <1>2. QED
    BY <1>1, KeysInductive, PTL
=============================================================================
