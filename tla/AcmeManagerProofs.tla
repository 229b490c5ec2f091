-------------------------- MODULE AcmeManagerProofs -------------------------
(***************************************************************************)
(* The safety properties of AcmeManager for any number of certificates and *)
(* any faults.                                                             *)
(***************************************************************************)
EXTENDS AcmeManager, TLAPS

(***************************************************************************)
(* A command that takes a step is a command again.                         *)
(***************************************************************************)
LEMMA CommandsType ==
    ASSUME cmd \in Commands, NEW step \in Steps
    PROVE  /\ Goto(step) => cmd' \in Commands
           /\ Fail(step) => cmd' \in Commands
           /\ \A cause \in Causes : FailFor(cause, step) => cmd' \in Commands
<1>1. Goto(step) => cmd' \in Commands
  BY DEF Goto, Commands
<1>2. Fail(step) => cmd' \in Commands
  BY DEF Fail, Commands
<1>3. ASSUME NEW cause \in Causes, FailFor(cause, step)
      PROVE  cmd' \in Commands
  BY <1>3 DEF FailFor, Commands
<1> QED
  BY <1>1, <1>2, <1>3

LEMMA IdleType == Idle \in Commands
<1>1. Nothing \in Pairs
  BY BoundAssumption DEF Nothing, Pairs, Numbers
<1>2. "idle" \in Steps /\ "renew" \in Kinds
  BY DEF Steps, Kinds
<1> QED
  BY <1>1, <1>2 DEF Idle, Commands

(***************************************************************************)
(* The type invariant: it is inductive by itself.                          *)
(***************************************************************************)
THEOREM AcmeTypeCorrect == Spec => []TypeOK
<1>1. Init => TypeOK
  <2>1. Nothing \in Pairs /\ 0 \in Numbers
    BY BoundAssumption DEF Nothing, Pairs, Numbers
  <2> QED
    BY <2>1, IdleType DEF Init, TypeOK, Ages, Mappings, Units
<1>2. TypeOK /\ [Next]_vars => TypeOK'
  <2> SUFFICES ASSUME TypeOK, [Next]_vars PROVE TypeOK'
    OBVIOUS
  <2> USE BoundAssumption DEF TypeOK, files, service, At
  <2>0. /\ {"deployed", "source", "compare", "list", "confirm", "lego", "unmap",
            "delete", "stop", "cert", "key", "trust", "undo_cert", "undo_key", "start",
            "end"} \subseteq Steps
        /\ {"lego", "router", "write", "systemctl"} \subseteq Causes
        /\ {"none", "ours", "manual", "foreign"} = Mappings
        /\ {"active", "activating", "inactive"} = Units
    BY DEF Steps, Causes, Mappings, Units
  <2>t. Torn \subseteq Pairs
    BY DEF Torn, Pairs, Numbers, Damaged
  <2>1. ASSUME NEW kind \in Kinds, Start(kind) PROVE TypeOK'
    BY <2>0, <2>1, IdleType DEF Start, Commands
  <2>2. CASE CheckDeployed
    BY <2>0, <2>2, CommandsType DEF CheckDeployed
  <2>3. CASE CheckSource
    BY <2>0, <2>3, CommandsType DEF CheckSource
  <2>4. CASE Compare
    BY <2>0, <2>4, CommandsType DEF Compare
  <2>5. CASE ListAndAdd
    <3>1. mapping' \in Mappings
      BY <2>0, <2>5 DEF ListAndAdd
    <3>2. cmd' \in Commands
      <4>1. CASE cmd' = [cmd EXCEPT !.step = "confirm", !.created = TRUE]
        BY <2>0, <4>1 DEF Commands
      <4> QED
        BY <2>0, <2>5, <4>1, CommandsType DEF ListAndAdd
    <3> QED
      BY <2>5, <3>1, <3>2 DEF ListAndAdd
  <2>6. CASE Confirm
    <3>1. CASE cmd' = [cmd EXCEPT !.step = "end", !.failed = TRUE, !.created = FALSE]
      BY <2>0, <2>6, <3>1 DEF Confirm, Commands
    <3> QED
      BY <2>0, <2>6, <3>1, CommandsType DEF Confirm
  <2>7. CASE Lego
    <3>1. CASE /\ issued < MaxIssued
               /\ issued' = issued + 1
               /\ source' = [cert |-> issued', key |-> issued']
               /\ cmd' = [cmd EXCEPT !.step = "unmap", !.asked = TRUE]
      <4>1. cmd' \in Commands
        BY <2>0, <3>1 DEF Commands
      <4>2. issued' \in Numbers /\ source' \in Pairs
        BY <3>1 DEF Numbers, Pairs
      <4> QED
        BY <2>7, <4>1, <4>2 DEF Lego
    <3>2. CASE Fail("unmap") /\ UNCHANGED <<issued, source>>
      BY <2>0, <2>7, <3>2, CommandsType DEF Lego
    <3>3. CASE /\ FailFor("lego", "unmap")
               /\ source' \in {source} \cup Torn
               /\ UNCHANGED issued
      BY <2>0, <2>t, <2>7, <3>3, CommandsType DEF Lego
    <3> QED
      BY <2>7, <3>1, <3>2, <3>3 DEF Lego
  <2>8. CASE Unmap \/ Delete
    <3>1. mapping' \in Mappings
      BY <2>0, <2>8 DEF Unmap, Delete
    <3>2. cmd' \in Commands
      <4>1. AfterLego \in Steps
        BY <2>0 DEF AfterLego
      <4>2. cmd.failed \in BOOLEAN
        BY DEF Commands
      <4>3. CASE Warn(AfterLego, cmd.failed)
        BY <4>1, <4>2, <4>3 DEF Warn, Commands
      <4>4. CASE Warn("end", TRUE)
        BY <2>0, <4>4 DEF Warn, Commands
      <4>5. CASE Goto(AfterLego) \/ Goto("delete")
        BY <2>0, <4>1, <4>5, CommandsType
      <4> QED
        BY <2>8, <4>3, <4>4, <4>5 DEF Unmap, Delete
    <3> QED
      BY <2>8, <3>1, <3>2 DEF Unmap, Delete
  <2>9. CASE StopPortal
    <3>1. cmd' \in Commands
      <4> DEFINE isActive == portal = "active"
      <4>1. isActive \in BOOLEAN
        OBVIOUS
      <4>2. CASE cmd' = [cmd EXCEPT !.step = "cert", !.active = isActive]
        <5> HIDE DEF isActive
        <5> QED
          BY <2>0, <4>1, <4>2 DEF Commands
      <4>3. CASE cmd' = [cmd EXCEPT !.step = "end", !.failed = TRUE, !.active = TRUE,
                                    !.faults = @ \cup {"systemctl"}]
        BY <2>0, <4>3 DEF Commands
      <4> QED
        BY <2>9, <4>2, <4>3 DEF StopPortal
    <3> QED
      BY <2>0, <2>9, <3>1 DEF StopPortal
  <2>10. ASSUME NEW field \in {"cert", "key"},
                NEW value \in Numbers \cup (IF field = "cert" THEN {Damaged} ELSE {}),
                NEW next \in Steps, NEW cause \in Causes \cup {"undo"},
                NEW onError \in Steps, Write(field, value, next, cause, onError)
         PROVE  TypeOK'
    <3>1. [deployed EXCEPT ![field] = value] \in Pairs
      BY DEF Pairs
    <3>2. [cmd EXCEPT !.step = onError, !.failed = TRUE,
                      !.faults = @ \cup {cause}] \in Commands
      BY DEF Commands
    <3> QED
      BY <2>10, <3>1, <3>2, CommandsType DEF Write
  <2>11. CASE WriteCert \/ WriteKey \/ UndoCert \/ UndoKey
    <3>1. /\ {source.key, cmd.old.key} \subseteq Numbers
          /\ {source.cert, cmd.old.cert} \subseteq Numbers \cup {Damaged}
      BY DEF Commands, Pairs
    <3> QED
      BY <2>0, <2>10, <2>11, <3>1 DEF WriteCert, WriteKey, UndoCert, UndoKey
  <2>12. CASE WriteTrust
    BY <2>0, <2>12, CommandsType DEF WriteTrust
  <2>13. Load => portal' \in Units /\ serving' \in Numbers
    BY <2>0 DEF Load, Pairs, Fits, Numbers
  <2>14. CASE StartPortal
    BY <2>0, <2>13, <2>14, CommandsType DEF StartPortal
  <2>15. CASE End
    BY <2>15, IdleType DEF End
  <2>16. CASE Kill
    <3>1. source' \in Pairs
      BY <2>t, <2>16 DEF Kill
    <3> QED
      BY <2>16, <3>1, IdleType DEF Kill
  <2>17. CASE Reboot
    BY <2>13, <2>17, IdleType DEF Reboot
  <2>18. CASE Crash \/ Restart \/ Operate
    <3> DEFINE isWriting == cmd.step \in Writing
    <3>1. isWriting \in BOOLEAN
      OBVIOUS
    <3>2. LoadBetween => early' = isWriting
      BY DEF LoadBetween
    <3>3. LoadBetween => Load
      BY DEF LoadBetween
    <3> HIDE DEF isWriting
    <3> QED
      BY <2>0, <2>13, <2>18, <3>1, <3>2, <3>3 DEF Crash, Restart, Operate
  <2>19. ASSUME NEW n \in 1..MaxIssued, Grow(n) PROVE TypeOK'
    BY <2>19 DEF Grow, Ages
  <2>20. CASE Remap
    BY <2>20 DEF Remap
  <2>21. CASE UNCHANGED vars
    BY <2>21 DEF vars
  <2> QED
    BY <2>1, <2>2, <2>3, <2>4, <2>5, <2>6, <2>7, <2>8, <2>9, <2>11, <2>12, <2>14,
       <2>15, <2>16, <2>17, <2>18, <2>19, <2>20, <2>21 DEF Next, Command
<1> QED
  BY <1>1, <1>2, PTL DEF Spec
-----------------------------------------------------------------------------
(* What a step of a command leaves alone.                                  *)

Stays == /\ cmd'.old = cmd.old
         /\ cmd'.active = cmd.active
         /\ cmd'.asked = cmd.asked

LEMMA CommandsStep ==
    ASSUME cmd \in Commands, NEW step
    PROVE  /\ Goto(step) => /\ cmd'.step = step /\ Stays
                            /\ cmd'.created = cmd.created
                            /\ cmd'.failed = cmd.failed
                            /\ cmd'.faults = cmd.faults
           /\ Fail(step) => /\ cmd'.step = step /\ Stays
                            /\ cmd'.created = cmd.created
                            /\ cmd'.failed = TRUE
                            /\ cmd'.faults = cmd.faults
           /\ \A cause :
                FailFor(cause, step) => /\ cmd'.step = step /\ Stays
                                        /\ cmd'.created = cmd.created
                                        /\ cmd'.failed = TRUE
                                        /\ cmd'.faults = cmd.faults \cup {cause}
<1> USE DEF Stays, Commands
<1>1. ASSUME Goto(step)
      PROVE  /\ cmd'.step = step /\ Stays
             /\ cmd'.created = cmd.created
             /\ cmd'.failed = cmd.failed
             /\ cmd'.faults = cmd.faults
  BY <1>1 DEF Goto
<1>2. ASSUME Fail(step)
      PROVE  /\ cmd'.step = step /\ Stays
             /\ cmd'.created = cmd.created
             /\ cmd'.failed = TRUE
             /\ cmd'.faults = cmd.faults
  BY <1>2 DEF Fail
<1>3. ASSUME NEW cause, FailFor(cause, step)
      PROVE  /\ cmd'.step = step /\ Stays
             /\ cmd'.created = cmd.created
             /\ cmd'.failed = TRUE
             /\ cmd'.faults = cmd.faults \cup {cause}
  BY <1>3 DEF FailFor
<1> QED
  BY <1>1, <1>2, <1>3

LEMMA IdleStep ==
    /\ Idle.step = "idle" /\ Idle.active = FALSE /\ Idle.created = FALSE
    /\ Idle.asked = FALSE /\ Idle.failed = FALSE /\ Idle.faults = {}
  BY DEF Idle

LEMMA StartStep ==
    ASSUME NEW kind \in Kinds, Start(kind)
    PROVE  /\ cmd'.step \in {"source", "deployed"}
           /\ cmd'.old = deployed
           /\ cmd'.active = FALSE /\ cmd'.created = FALSE
           /\ cmd'.asked = FALSE /\ cmd'.failed = FALSE /\ cmd'.faults = {}
  BY DEF Start, Idle

LEMMA CheckSourceStep ==
    ASSUME cmd \in Commands, CheckSource
    PROVE  /\ Stays /\ cmd'.created = cmd.created
           /\ \/ cmd'.step \in {"compare", "stop"} /\ Valid(source)
              \/ cmd'.step = "list" /\ ~cmd.asked
              \/ cmd'.step = "end"
<1>1. CASE Valid(source) /\ Goto(IF cmd.kind = "renew" THEN "compare" ELSE "stop")
  BY <1>1, CommandsStep
<1>2. CASE ~cmd.asked /\ Goto("list")
  BY <1>2, CommandsStep
<1>3. CASE Fail("end")
  BY <1>3, CommandsStep
<1> QED
  BY <1>1, <1>2, <1>3 DEF CheckSource

LEMMA StopStep ==
    ASSUME cmd \in Commands, StopPortal
    PROVE  /\ cmd'.old = cmd.old /\ cmd'.created = cmd.created
           /\ cmd'.asked = cmd.asked
           /\ \/ /\ cmd'.step = "cert"
                 /\ cmd'.active = (portal = "active")
                 /\ cmd'.faults = cmd.faults
                 /\ portal' = IF portal = "active" THEN "inactive" ELSE portal
              \/ /\ cmd'.step = "end" /\ cmd'.active = TRUE
                 /\ cmd'.faults = cmd.faults \cup {"systemctl"}
                 /\ portal' \in {portal, "inactive"}
<1> DEFINE isActive == portal = "active"
<1>1. CASE /\ cmd' = [cmd EXCEPT !.step = "cert", !.active = isActive]
           /\ portal' = IF portal = "active" THEN "inactive" ELSE portal
  <2>1. /\ cmd'.old = cmd.old /\ cmd'.created = cmd.created
        /\ cmd'.asked = cmd.asked
        /\ cmd'.step = "cert" /\ cmd'.faults = cmd.faults
        /\ cmd'.active = isActive
    <3> HIDE DEF isActive
    <3> QED
      BY <1>1 DEF Commands
  <2> QED
    BY <1>1, <2>1
<1>2. CASE /\ cmd' = [cmd EXCEPT !.step = "end", !.failed = TRUE, !.active = TRUE,
                                 !.faults = @ \cup {"systemctl"}]
           /\ portal = "active"
           /\ portal' \in {"active", "inactive"}
  <2>1. /\ cmd'.old = cmd.old /\ cmd'.created = cmd.created
        /\ cmd'.asked = cmd.asked
        /\ cmd'.step = "end" /\ cmd'.active = TRUE
        /\ cmd'.faults = cmd.faults \cup {"systemctl"}
    BY <1>2 DEF Commands
  <2> QED
    BY <1>2, <2>1
<1> QED
  BY <1>1, <1>2 DEF StopPortal

LEMMA WarnStep ==
    ASSUME cmd \in Commands, NEW step, NEW failed, Warn(step, failed)
    PROVE  /\ Stays /\ cmd'.created = cmd.created
           /\ cmd'.step = step /\ cmd'.failed = failed
           /\ "unmap" \in cmd'.faults
BY DEF Warn, Stays, Commands

LEMMA UnmapStep ==
    ASSUME cmd \in Commands, Unmap
    PROVE  /\ Stays /\ cmd'.created = cmd.created
           /\ cmd'.failed = cmd.failed
           /\ \/ Owned /\ cmd'.step = "delete"
              \/ cmd'.step = AfterLego /\ (~Owned \/ "unmap" \in cmd'.faults)
<1>1. CASE Owned /\ Goto("delete")
  BY <1>1, CommandsStep
<1>2. CASE ~Owned /\ Goto(AfterLego)
  BY <1>2, CommandsStep
<1>3. CASE Warn(AfterLego, cmd.failed)
  BY <1>3, WarnStep
<1> QED
  BY <1>1, <1>2, <1>3 DEF Unmap

LEMMA DeleteStep ==
    ASSUME cmd \in Commands, Delete
    PROVE  /\ Stays /\ cmd'.created = cmd.created
           /\ cmd'.step \in {AfterLego, "end"}
           /\ mapping' = "none" \/ "unmap" \in cmd'.faults
BY CommandsStep, WarnStep DEF Delete

LEMMA WriteStep ==
    ASSUME cmd \in Commands, deployed \in Pairs, NEW field \in {"cert", "key"},
           NEW value, NEW next, NEW cause, NEW onError,
           Write(field, value, next, cause, onError)
    PROVE  /\ Stays /\ cmd'.created = cmd.created
           /\ UNCHANGED <<issued, age, source, portal, serving, early, mapping>>
           /\ \/ /\ cmd'.step = next /\ cmd'.faults = cmd.faults
                 /\ deployed' = [deployed EXCEPT ![field] = value]
              \/ /\ cmd'.step = onError /\ cmd'.faults = cmd.faults \cup {cause}
                 /\ deployed' \in {deployed, [deployed EXCEPT ![field] = value]}
<1>1. CASE /\ cmd' = [cmd EXCEPT !.step = onError, !.failed = TRUE,
                                 !.faults = @ \cup {cause}]
           /\ deployed' \in {deployed, [deployed EXCEPT ![field] = value]}
  <2>1. /\ Stays /\ cmd'.created = cmd.created
        /\ cmd'.step = onError /\ cmd'.faults = cmd.faults \cup {cause}
    BY <1>1 DEF Stays, Commands
  <2> QED
    BY <1>1, <2>1 DEF Write, service
<1>2. CASE Goto(next) /\ deployed' = [deployed EXCEPT ![field] = value]
  BY <1>2, CommandsStep DEF Write, service
<1> QED
  BY <1>1, <1>2 DEF Write, service
LEMMA WritesGoOn ==
    ASSUME cmd \in Commands, deployed \in Pairs,
           WriteCert \/ WriteKey \/ UndoCert \/ UndoKey
    PROVE  cmd'.step \in {"key", "trust", "undo_cert", "undo_key", "start"}
<1>1. CASE WriteCert
  BY <1>1, WriteStep DEF WriteCert
<1>2. CASE WriteKey
  BY <1>2, WriteStep DEF WriteKey
<1>3. CASE UndoCert
  BY <1>3, WriteStep DEF UndoCert
<1>4. CASE UndoKey
  BY <1>4, WriteStep DEF UndoKey
<1> QED
  BY <1>1, <1>2, <1>3, <1>4
-----------------------------------------------------------------------------
(* Deployment.                                                             *)

Before == {"deployed", "source", "compare", "list", "confirm", "lego", "unmap",
           "delete", "stop"}
Deploying == {"cert", "key", "trust", "undo_cert", "undo_key", "start"}

\* how far the deployment has got, as the files show it
FilesFollow ==
    /\ cmd.step \in Deploying \cup {"compare", "stop"} => Fits(source)
    /\ cmd.step \notin {"idle", "key", "trust", "undo_cert", "undo_key", "start", "end"} =>
           deployed = cmd.old
    /\ At("key") => deployed.key = cmd.old.key
    /\ At("key") => deployed.cert = source.cert
    /\ At("trust") => deployed = source
    /\ At("undo_key") => deployed.cert = cmd.old.cert
    /\ At("start") /\ "undo" \notin cmd.faults => deployed \in {cmd.old, source}

\* a portal that is active loaded the pair that is there, unless it started
\* before the last file was written
PortalFollows ==
    /\ portal = "active" /\ ~early => Fits(deployed) /\ serving = deployed.cert
    /\ portal = "active" /\ cmd.step \in Writing => early
    /\ cmd.active => cmd.step \in Deploying \cup {"end"}

DeploymentInv == FilesFollow /\ PortalFollows /\ AllOrNothing

LEMMA PairsEqual ==
    ASSUME NEW p \in Pairs, NEW q \in Pairs, p.cert = q.cert, p.key = q.key
    PROVE  p = q
  BY DEF Pairs

LEMMA PairWritten ==
    ASSUME deployed \in Pairs, NEW value
    PROVE  /\ [deployed EXCEPT !.cert = value].cert = value
           /\ [deployed EXCEPT !.cert = value].key = deployed.key
           /\ [deployed EXCEPT !.key = value].cert = deployed.cert
           /\ [deployed EXCEPT !.key = value].key = value
  BY DEF Pairs

(***************************************************************************)
(* The deployment invariant is inductive: the steps of a deployment, with  *)
(* every write that may fail, and whatever happens to the portal.          *)
(***************************************************************************)
THEOREM DeploymentInductive == Spec => []DeploymentInv
<1> USE DEF DeploymentInv
<1>1. Init => DeploymentInv
  BY IdleStep DEF Init, FilesFollow, PortalFollows, AllOrNothing, At,
     Deploying, Writing, Nothing
<1>2. TypeOK /\ TypeOK' /\ DeploymentInv /\ [Next]_vars => DeploymentInv'
  <2> SUFFICES ASSUME TypeOK, TypeOK', DeploymentInv, [Next]_vars
               PROVE  DeploymentInv'
    OBVIOUS
  <2>0. cmd \in Commands /\ cmd' \in Commands
    BY DEF TypeOK
  <2>p. /\ deployed \in Pairs /\ deployed' \in Pairs
        /\ source \in Pairs /\ source' \in Pairs
        /\ cmd.old \in Pairs /\ cmd'.old \in Pairs
    BY DEF TypeOK, Commands
  <2> USE <2>0 DEF FilesFollow, PortalFollows, AllOrNothing, At, files, service,
          Deploying, Writing, Stays
  <2>b. ASSUME UNCHANGED <<deployed, portal, serving, early>>, cmd'.old = cmd.old,
               cmd'.active = cmd.active, cmd.step \in Before,
               cmd'.step \in Before \cup {"end"},
               cmd'.step \in {"compare", "stop"} => Fits(source)'
        PROVE  DeploymentInv'
    BY <2>b DEF Before, Fits
  <2>1. ASSUME NEW kind \in Kinds, Start(kind) PROVE DeploymentInv'
    BY <2>1, StartStep DEF Start, Fits
  <2>2. CASE CheckDeployed
    <3>1. Stays /\ cmd'.step \in {"end", "source"}
      BY <2>2, CommandsStep DEF CheckDeployed
    <3> QED
      BY <2>2, <2>b, <3>1 DEF CheckDeployed, Before
  <2>3. CASE CheckSource
    <3>1. Valid(source) => Fits(source)'
      BY <2>3 DEF CheckSource, Valid, Fits
    <3> QED
      BY <2>3, <2>b, <3>1, CheckSourceStep DEF CheckSource, Before
  <2>4. CASE Compare
    <3>1. Stays /\ cmd'.step \in {"end", "stop"}
      BY <2>4, CommandsStep DEF Compare
    <3>2. Fits(source)'
      BY <2>4 DEF Compare, Fits
    <3> QED
      BY <2>4, <2>b, <3>1, <3>2 DEF Compare, Before
  <2>5. CASE ListAndAdd
    <3>1. CASE cmd' = [cmd EXCEPT !.step = "confirm", !.created = TRUE]
      <4>1. Stays /\ cmd'.step = "confirm"
        BY <3>1 DEF Commands
      <4> QED
        BY <2>5, <2>b, <4>1 DEF ListAndAdd, Before
    <3>2. CASE Goto("lego") \/ Fail("end") \/ FailFor("router", "end")
      <4>1. Stays /\ cmd'.step \in {"lego", "end"}
        BY <3>2, CommandsStep
      <4> QED
        BY <2>5, <2>b, <4>1 DEF ListAndAdd, Before
    <3> QED
      BY <2>5, <3>1, <3>2 DEF ListAndAdd
  <2>6. CASE Confirm
    <3>1. CASE cmd' = [cmd EXCEPT !.step = "end", !.failed = TRUE, !.created = FALSE]
      <4>1. Stays /\ cmd'.step = "end"
        BY <3>1 DEF Commands
      <4> QED
        BY <2>6, <2>b, <4>1 DEF Confirm, Before
    <3>2. CASE Goto("lego") \/ Fail("unmap") \/ FailFor("router", "unmap")
      <4>1. Stays /\ cmd'.step \in {"lego", "unmap"}
        BY <3>2, CommandsStep
      <4> QED
        BY <2>6, <2>b, <4>1 DEF Confirm, Before
    <3> QED
      BY <2>6, <3>1, <3>2 DEF Confirm
  <2>7. CASE Lego
    <3>1. cmd'.old = cmd.old /\ cmd'.active = cmd.active /\ cmd'.step = "unmap"
      <4>1. CASE cmd' = [cmd EXCEPT !.step = "unmap", !.asked = TRUE]
        BY <4>1 DEF Commands
      <4>2. CASE Fail("unmap") \/ FailFor("lego", "unmap")
        BY <4>2, CommandsStep
      <4> QED
        BY <2>7, <4>1, <4>2 DEF Lego
    <3> QED
      BY <2>7, <2>b, <3>1 DEF Lego, Before
  <2>8. CASE Unmap \/ Delete
    <3>1. Stays /\ cmd'.step \in {"delete", "source", "end"}
      BY <2>8, UnmapStep, DeleteStep DEF AfterLego
    <3> QED
      BY <2>8, <2>b, <3>1 DEF Unmap, Delete, Before
  <2>9. CASE StopPortal
    <3>1. /\ cmd.step = "stop" /\ cmd'.old = cmd.old
          /\ UNCHANGED <<source, deployed, serving, early>>
          /\ \/ /\ cmd'.step = "cert" /\ cmd'.active = (portal = "active")
                /\ cmd'.faults = cmd.faults /\ portal' # "active"
             \/ /\ cmd'.step = "end" /\ cmd'.active = TRUE
                /\ cmd'.faults = cmd.faults \cup {"systemctl"}
                /\ portal' \in {portal, "inactive"}
      BY <2>9, StopStep DEF StopPortal
    <3>2. Fits(source)
      BY <3>1
    <3> QED
      BY <2>p, <3>1, <3>2 DEF Fits
  <2>10. CASE WriteCert
    <3> DEFINE new == [deployed EXCEPT !.cert = source.cert]
    <3>1. new \in Pairs /\ new.cert = source.cert /\ new.key = deployed.key
      BY <2>p, PairWritten DEF Pairs
    <3>2. /\ cmd.step = "cert"
          /\ Stays /\ UNCHANGED <<source, portal, serving, early>>
          /\ \/ cmd'.step = "key" /\ cmd'.faults = cmd.faults /\ deployed' = new
             \/ /\ cmd'.step = "undo_cert" /\ cmd'.faults = cmd.faults \cup {"write"}
                /\ deployed' \in {deployed, new}
      BY <2>p, <2>10, WriteStep DEF WriteCert
    <3> HIDE DEF new
    <3> QED
      BY <2>p, <3>1, <3>2 DEF Fits
  <2>11. CASE WriteKey
    <3> DEFINE new == [deployed EXCEPT !.key = source.key]
    <3>1. new \in Pairs /\ new.cert = deployed.cert /\ new.key = source.key
      BY <2>p, PairWritten DEF Pairs
    <3>2. /\ cmd.step = "key"
          /\ Stays /\ UNCHANGED <<source, portal, serving, early>>
          /\ \/ cmd'.step = "trust" /\ cmd'.faults = cmd.faults /\ deployed' = new
             \/ /\ cmd'.step = "undo_cert" /\ cmd'.faults = cmd.faults \cup {"write"}
                /\ deployed' \in {deployed, new}
      BY <2>p, <2>11, WriteStep DEF WriteKey
    <3> HIDE DEF new
    <3> QED
      BY <2>p, <3>1, <3>2, PairsEqual DEF Fits
  <2>12. CASE UndoCert
    <3> DEFINE new == [deployed EXCEPT !.cert = cmd.old.cert]
    <3>1. new \in Pairs /\ new.cert = cmd.old.cert /\ new.key = deployed.key
      BY <2>p, PairWritten DEF Pairs
    <3>2. /\ cmd.step = "undo_cert"
          /\ Stays /\ UNCHANGED <<source, portal, serving, early>>
          /\ \/ cmd'.step = "undo_key" /\ cmd'.faults = cmd.faults /\ deployed' = new
             \/ /\ cmd'.step = "start" /\ cmd'.faults = cmd.faults \cup {"undo"}
                /\ deployed' \in {deployed, new}
      BY <2>p, <2>12, WriteStep DEF UndoCert
    <3> HIDE DEF new
    <3> QED
      BY <2>p, <3>1, <3>2 DEF Fits
  <2>13. CASE UndoKey
    <3> DEFINE new == [deployed EXCEPT !.key = cmd.old.key]
    <3>1. new \in Pairs /\ new.cert = deployed.cert /\ new.key = cmd.old.key
      BY <2>p, PairWritten DEF Pairs
    <3>2. /\ cmd.step = "undo_key"
          /\ Stays /\ UNCHANGED <<source, portal, serving, early>>
          /\ \/ cmd'.step = "start" /\ cmd'.faults = cmd.faults /\ deployed' = new
             \/ /\ cmd'.step = "start" /\ cmd'.faults = cmd.faults \cup {"undo"}
                /\ deployed' \in {deployed, new}
      BY <2>p, <2>13, WriteStep DEF UndoKey
    <3> HIDE DEF new
    <3> QED
      BY <2>p, <3>1, <3>2, PairsEqual DEF Fits
  <2>14. CASE WriteTrust
    <3>1. /\ cmd.step = "trust" /\ Stays
          /\ UNCHANGED <<source, deployed, portal, serving, early>>
          /\ cmd'.step \in {"start", "undo_cert"}
      BY <2>14, CommandsStep DEF WriteTrust
    <3> QED
      BY <3>1 DEF Fits
  <2>15. CASE StartPortal
    <3>1. /\ cmd.step = "start" /\ cmd'.step = "end" /\ Stays
          /\ UNCHANGED <<source, deployed>>
      BY <2>15, CommandsStep DEF StartPortal
    <3>2. /\ (Load /\ early' = FALSE) \/ UNCHANGED <<portal, serving, early>>
          /\ cmd'.faults \in {cmd.faults, cmd.faults \cup {"systemctl"}}
      BY <2>15, CommandsStep DEF StartPortal
    <3> QED
      BY <2>p, <3>1, <3>2 DEF Load, Fits
  <2>16. CASE End
    BY <2>16, IdleStep DEF End, Fits
  <2>17. CASE Kill
    BY <2>17, IdleStep DEF Kill, Fits
  <2>18. CASE Reboot
    BY <2>18, IdleStep DEF Reboot, Load, Fits
  <2>19. CASE Crash \/ Restart \/ Operate
    BY <2>19 DEF Crash, Restart, Operate, LoadBetween, Load, Fits
  <2>20. ASSUME NEW n \in 1..MaxIssued, Grow(n) PROVE DeploymentInv'
    BY <2>20 DEF Grow, Fits
  <2>21. CASE Remap
    BY <2>21 DEF Remap, Fits
  <2>22. CASE UNCHANGED vars
    BY <2>22 DEF vars, Fits
  <2> QED
    BY <2>1, <2>2, <2>3, <2>4, <2>5, <2>6, <2>7, <2>8, <2>9, <2>10, <2>11, <2>12,
       <2>13, <2>14, <2>15, <2>16, <2>17, <2>18, <2>19, <2>20, <2>21, <2>22
       DEF Next, Command
<1> QED
  BY <1>1, <1>2, AcmeTypeCorrect, PTL DEF Spec
-----------------------------------------------------------------------------
(* The mapping of port 80.                                                 *)

Settled == Deploying \cup {"source", "compare", "stop", "end"}

\* no command creates a second mapping, and unmap comes after lego or a failure
MappingInv ==
    /\ cmd.step \in {"deployed", "list"} => ~cmd.created
    /\ At("source") /\ ~cmd.asked => ~cmd.created
    /\ cmd.step \in {"unmap", "delete"} => cmd.asked \/ cmd.failed
    /\ cmd.step \in Settled /\ cmd.created /\ "unmap" \notin cmd.faults =>
           mapping # "ours"

(***************************************************************************)
(* The mapping invariant is inductive.                                     *)
(***************************************************************************)
THEOREM MappingInductive == Spec => []MappingInv
<1>1. Init => MappingInv
  BY IdleStep DEF Init, MappingInv, At, Settled, Deploying
<1>2. TypeOK /\ MappingInv /\ [Next]_vars => MappingInv'
  <2> SUFFICES ASSUME TypeOK, MappingInv, [Next]_vars PROVE MappingInv'
    OBVIOUS
  <2>0. cmd \in Commands /\ deployed \in Pairs
    BY DEF TypeOK
  <2> USE <2>0
  <2>s. ASSUME cmd.step \in Settled, cmd'.step \in Settled \ {"source"},
               cmd'.created = cmd.created, mapping' = mapping,
               cmd.faults \subseteq cmd'.faults
        PROVE  MappingInv'
    BY <2>s DEF MappingInv, At, Settled, Deploying
  <2>1. ASSUME NEW kind \in Kinds, Start(kind) PROVE MappingInv'
    BY <2>1, StartStep DEF MappingInv, At, Settled, Deploying
  <2>2. CASE CheckDeployed
    <3>1. cmd.step = "deployed" /\ cmd'.step \in {"end", "source"}
          /\ cmd'.created = cmd.created
      BY <2>2, CommandsStep DEF CheckDeployed, At
    <3> QED
      BY <3>1 DEF MappingInv, At, Settled, Deploying
  <2>3. CASE CheckSource
    <3>1. cmd'.faults = cmd.faults
      BY <2>3, CommandsStep DEF CheckSource
    <3>2. CASE cmd'.step = "list" /\ ~cmd.asked
      BY <2>3, <3>2, CheckSourceStep
         DEF CheckSource, MappingInv, At, Settled, Deploying
    <3>3. CASE cmd'.step \in {"compare", "stop", "end"}
      BY <2>3, <2>s, <3>1, <3>3, CheckSourceStep
         DEF CheckSource, At, Settled
    <3> QED
      BY <2>3, <3>2, <3>3, CheckSourceStep
  <2>4. CASE Compare
    <3>1. /\ cmd'.step \in {"end", "stop"} /\ cmd'.created = cmd.created
          /\ cmd'.faults = cmd.faults
      BY <2>4, CommandsStep DEF Compare
    <3> QED
      BY <2>4, <2>s, <3>1 DEF Compare, At, Settled
  <2>5. CASE ListAndAdd
    <3>1. CASE cmd' = [cmd EXCEPT !.step = "confirm", !.created = TRUE]
      <4>1. cmd'.step = "confirm"
        BY <3>1 DEF Commands
      <4> QED
        BY <4>1 DEF MappingInv, At, Settled, Deploying
    <3>2. CASE Goto("lego") \/ Fail("end") \/ FailFor("router", "end")
      <4>1. cmd'.step \in {"lego", "end"} /\ cmd'.created = cmd.created
        BY <3>2, CommandsStep
      <4> QED
        BY <2>5, <4>1 DEF ListAndAdd, MappingInv, At, Settled, Deploying
    <3> QED
      BY <2>5, <3>1, <3>2 DEF ListAndAdd
  <2>6. CASE Confirm
    <3>1. CASE cmd' = [cmd EXCEPT !.step = "end", !.failed = TRUE, !.created = FALSE]
      <4>1. cmd'.step = "end" /\ cmd'.created = FALSE
        BY <3>1 DEF Commands
      <4> QED
        BY <4>1 DEF MappingInv, At, Settled, Deploying
    <3>2. CASE Goto("lego")
      <4>1. cmd'.step = "lego"
        BY <3>2, CommandsStep
      <4> QED
        BY <4>1 DEF MappingInv, At, Settled, Deploying
    <3>3. CASE Fail("unmap") \/ FailFor("router", "unmap")
      <4>1. cmd'.step = "unmap" /\ cmd'.failed = TRUE
        BY <3>3, CommandsStep
      <4> QED
        BY <4>1 DEF MappingInv, At, Settled, Deploying
    <3> QED
      BY <2>6, <3>1, <3>2, <3>3 DEF Confirm
  <2>7. CASE Lego
    <3>1. cmd'.step = "unmap" /\ (cmd'.asked \/ cmd'.failed)
      <4>1. CASE cmd' = [cmd EXCEPT !.step = "unmap", !.asked = TRUE]
        BY <4>1 DEF Commands
      <4>2. CASE Fail("unmap") \/ FailFor("lego", "unmap")
        BY <4>2, CommandsStep
      <4> QED
        BY <2>7, <4>1, <4>2 DEF Lego
    <3> QED
      BY <3>1 DEF MappingInv, At, Settled, Deploying
  <2>8. CASE Unmap
    BY <2>8, UnmapStep
       DEF Unmap, AfterLego, Owned, MappingInv, At, Settled, Deploying, Stays
  <2>8a. CASE Delete
    BY <2>8a, DeleteStep
       DEF Delete, AfterLego, MappingInv, At, Settled, Deploying, Stays
  <2>9. CASE StopPortal
    BY <2>9, <2>s, StopStep DEF StopPortal, At, Settled, Deploying
  <2>10. CASE WriteCert
    BY <2>10, <2>s, WriteStep DEF WriteCert, At, Settled, Deploying
  <2>11. CASE WriteKey
    BY <2>11, <2>s, WriteStep DEF WriteKey, At, Settled, Deploying
  <2>12. CASE UndoCert
    BY <2>12, <2>s, WriteStep DEF UndoCert, At, Settled, Deploying
  <2>13. CASE UndoKey
    BY <2>13, <2>s, WriteStep DEF UndoKey, At, Settled, Deploying
  <2>14. CASE WriteTrust
    <3>1. /\ cmd'.step \in {"start", "undo_cert"} /\ cmd'.created = cmd.created
          /\ cmd.faults \subseteq cmd'.faults
      BY <2>14, CommandsStep DEF WriteTrust
    <3> QED
      BY <2>14, <2>s, <3>1 DEF WriteTrust, At, Settled, Deploying
  <2>15. CASE StartPortal
    <3>1. /\ cmd'.step = "end" /\ cmd'.created = cmd.created
          /\ cmd.faults \subseteq cmd'.faults
      BY <2>15, CommandsStep DEF StartPortal
    <3> QED
      BY <2>15, <2>s, <3>1 DEF StartPortal, At, Settled, Deploying
  <2>16. CASE End \/ Kill \/ Reboot
    BY <2>16, IdleStep DEF End, Kill, Reboot, MappingInv, At, Settled, Deploying
  <2>17. CASE Crash \/ Restart \/ Operate
    BY <2>17 DEF Crash, Restart, Operate, MappingInv, At
  <2>18. ASSUME NEW n \in 1..MaxIssued, Grow(n) PROVE MappingInv'
    BY <2>18 DEF Grow, MappingInv, At
  <2>19. CASE Remap
    BY <2>19 DEF Remap, MappingInv, At
  <2>20. CASE UNCHANGED vars
    BY <2>20 DEF vars, MappingInv, At
  <2> QED
    BY <2>1, <2>2, <2>3, <2>4, <2>5, <2>6, <2>7, <2>8, <2>8a, <2>9, <2>10, <2>11, <2>12,
       <2>13, <2>14, <2>15, <2>16, <2>17, <2>18, <2>19, <2>20 DEF Next, Command
<1> QED
  BY <1>1, <1>2, AcmeTypeCorrect, PTL DEF Spec
-----------------------------------------------------------------------------
(***************************************************************************)
(* A command that ends leaves the pair it found or the complete new one.   *)
(***************************************************************************)
THEOREM AllOrNothingHolds == Spec => []AllOrNothing
<1>1. DeploymentInv => AllOrNothing
  BY DEF DeploymentInv
<1> QED
  BY <1>1, DeploymentInductive, PTL

(***************************************************************************)
(* A command that ends has the portal it stopped running again: of the     *)
(* steps that lead to the end, only those of a deployment can have stopped *)
(* it, and a deployment ends by starting it.                               *)
(***************************************************************************)
THEOREM PortalIsBackHolds == Spec => PortalIsBack
<1> DEFINE Back == /\ ~At("end") /\ At("end")'
                   /\ cmd'.active /\ "systemctl" \notin cmd'.faults
                   /\ Fits(deployed)'
                   => portal' = "active"
<1>1. TypeOK /\ DeploymentInv /\ [Next]_vars => [Back]_vars
  <2> SUFFICES ASSUME TypeOK, DeploymentInv, Next, ~At("end"), At("end")', cmd'.active,
                      "systemctl" \notin cmd'.faults, Fits(deployed)'
               PROVE  portal' = "active"
    OBVIOUS
  <2> USE DEF At, files, service, Stays
  <2>0. /\ cmd \in Commands /\ deployed \in Pairs
        /\ cmd.active => cmd.step \in Deploying
    BY DEF TypeOK, DeploymentInv, PortalFollows
  <2> USE <2>0
  <2>1. CASE StartPortal
    <3>1. /\ UNCHANGED deployed /\ cmd'.active = cmd.active
          /\ ~FailFor("systemctl", "end")
      BY <2>1, CommandsStep DEF StartPortal
    <3> QED
      BY <2>1, <3>1 DEF StartPortal, Load, Fits
  <2>2. CASE StopPortal
    BY <2>2, StopStep DEF StopPortal
  <2>3. CASE WriteCert \/ WriteKey \/ UndoCert \/ UndoKey
    <3>1. cmd'.step \in {"key", "trust", "undo_cert", "undo_key", "start"}
      BY <2>3, WritesGoOn
    <3> QED
      BY <3>1
  <2>4. CASE WriteTrust
    <3>1. cmd'.step \in {"start", "undo_cert"}
      BY <2>4, CommandsStep DEF WriteTrust
    <3> QED
      BY <3>1
  <2>5. CASE CheckDeployed \/ CheckSource \/ Compare
    <3>1. Stays /\ cmd.step \in {"deployed", "source", "compare"}
      BY <2>5, CommandsStep, CheckSourceStep DEF CheckDeployed, CheckSource, Compare
    <3> QED
      BY <3>1 DEF Deploying
  <2>6. CASE ListAndAdd
    <3>1. CASE cmd' = [cmd EXCEPT !.step = "confirm", !.created = TRUE]
      BY <3>1 DEF Commands
    <3>2. CASE Fail("end") \/ FailFor("router", "end") \/ Goto("lego")
      BY <2>6, <3>2, CommandsStep DEF ListAndAdd, Deploying
    <3> QED
      BY <2>6, <3>1, <3>2 DEF ListAndAdd
  <2>7. CASE Confirm
    <3>1. CASE cmd' = [cmd EXCEPT !.step = "end", !.failed = TRUE, !.created = FALSE]
      BY <2>7, <3>1 DEF Confirm, Commands, Deploying
    <3>2. CASE Goto("lego") \/ Fail("unmap") \/ FailFor("router", "unmap")
      <4>1. cmd'.step \in {"lego", "unmap"}
        BY <3>2, CommandsStep
      <4> QED
        BY <4>1
    <3> QED
      BY <2>7, <3>1, <3>2 DEF Confirm
  <2>8. CASE Lego
    <3>1. CASE cmd' = [cmd EXCEPT !.step = "unmap", !.asked = TRUE]
      BY <3>1 DEF Commands
    <3>2. CASE Fail("unmap") \/ FailFor("lego", "unmap")
      <4>1. cmd'.step = "unmap"
        BY <3>2, CommandsStep
      <4> QED
        BY <4>1
    <3> QED
      BY <2>8, <3>1, <3>2 DEF Lego
  <2>9. CASE Unmap \/ Delete
    BY <2>9, UnmapStep, DeleteStep DEF Unmap, Delete, Deploying
  <2>10. ASSUME NEW kind \in Kinds, Start(kind) PROVE FALSE
    BY <2>10, StartStep
  <2>11. CASE End \/ Kill \/ Reboot
    BY <2>11, IdleStep DEF End, Kill, Reboot
  <2>12. CASE Crash \/ Restart \/ Operate \/ Remap \/ \E n \in 1..MaxIssued : Grow(n)
    BY <2>12 DEF Crash, Restart, Operate, Remap, Grow
  <2> QED
    BY <2>1, <2>2, <2>3, <2>4, <2>5, <2>6, <2>7, <2>8, <2>9, <2>10, <2>11, <2>12
       DEF Next, Command
<1> QED
  BY <1>1, AcmeTypeCorrect, DeploymentInductive, PTL DEF Spec, PortalIsBack

(***************************************************************************)
(* Between two commands an active portal serves what is deployed, unless   *)
(* it was started before the last file had been written.                   *)
(***************************************************************************)
THEOREM ServesDeployedHolds == Spec => []ServesDeployed
<1>1. DeploymentInv => ServesDeployed
  BY DEF DeploymentInv, PortalFollows, ServesDeployed
<1> QED
  BY <1>1, DeploymentInductive, PTL

(***************************************************************************)
(* A command that ends has removed the mapping it created.                 *)
(***************************************************************************)
THEOREM MappingIsGoneHolds == Spec => []MappingIsGone
<1>1. MappingInv => MappingIsGone
  BY DEF MappingInv, MappingIsGone, At, Settled
<1> QED
  BY <1>1, MappingInductive, PTL
=============================================================================
