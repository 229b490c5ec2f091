----------------------------- MODULE AcmeManager ----------------------------
(***************************************************************************)
(* assets/vpn-profile-acme.py: the certificate of the enrolment portal is  *)
(* obtained with lego, through a port mapping on the router, and deployed  *)
(* while the portal is stopped.  The commands (ensure, issue, and renew,   *)
(* which a timer starts) run one at a time, under flock.                   *)
(*                                                                         *)
(* A certificate is the number of the order it came from, 0 if there is    *)
(* none, Damaged if the file cannot be read; a pair fits if the key is of  *)
(* the same number.  lego, the router and systemd are external: systemd    *)
(* starts a portal that failed again (Restart=on-failure) at any moment,   *)
(* and the administrator starts and stops it, whether a command runs or    *)
(* not.  Without UPnP the mapping is the manual one.                       *)
(***************************************************************************)
EXTENDS Naturals

CONSTANTS
    MaxIssued,      \* bound: certificates issued, the last of which stays fresh
    Faults          \* bound: what goes wrong

Causes == {"router", "lego", "write", "systemctl", "kill", "crash"}

ASSUME BoundAssumption ==
    /\ MaxIssued \in Nat \ {0}
    /\ Faults \subseteq Causes

VARIABLES
    issued,         \* certificates issued so far
    age,            \* of each: what the checks of validity tell apart
    source,         \* certificate and key in lego's state directory
    deployed,       \* certificate and key of the portal
    portal,         \* state of vpn-enrollment-portal.service
    serving,        \* the certificate the portal loaded when it started
    early,          \* history: it was not a command that started the portal
                    \* then, and one had not written all its files yet
    mapping,        \* who gets public TCP port 80
    cmd             \* the command that runs

vars == <<issued, age, source, deployed, portal, serving, early, mapping, cmd>>
files == <<issued, age, source, deployed>>
service == <<portal, serving, early>>

-----------------------------------------------------------------------------
Numbers == 0..MaxIssued
Damaged == MaxIssued + 1
Pairs == [cert : Numbers \cup {Damaged}, key : Numbers]
Kinds == {"renew", "issue", "ensure"}
Ages == {"fresh", "due", "expired"}
Units == {"active", "activating", "inactive"}
Mappings == {"none", "ours", "manual", "foreign"}
Steps == {"idle", "deployed", "source", "compare", "list", "confirm", "lego",
          "unmap", "delete", "stop", "cert", "key", "trust", "undo_cert", "undo_key",
          "start", "end"}
Writing == {"cert", "key", "trust", "undo_cert", "undo_key"}

Commands == [step    : Steps,
             kind    : Kinds,
             asked   : BOOLEAN,     \* lego has been run
             failed  : BOOLEAN,     \* an exception is on its way
             created : BOOLEAN,     \* mapping_created
             active  : BOOLEAN,     \* was_active
             old     : Pairs,       \* the pair deployed before
             faults  : SUBSET (Causes \cup {"undo", "unmap"})]   \* history

Nothing == [cert |-> 0, key |-> 0]

Idle == [step |-> "idle", kind |-> "renew", asked |-> FALSE, failed |-> FALSE,
         created |-> FALSE, active |-> FALSE, old |-> Nothing, faults |-> {}]

TypeOK ==
    /\ issued \in Numbers
    /\ age \in [1..MaxIssued -> Ages]
    /\ source \in Pairs
    /\ deployed \in Pairs
    /\ portal \in Units
    /\ serving \in Numbers
    /\ early \in BOOLEAN
    /\ mapping \in Mappings
    /\ cmd \in Commands

Init ==
    /\ issued = 0
    /\ age = [n \in 1..MaxIssued |-> "fresh"]
    /\ source = Nothing
    /\ deployed = Nothing
    /\ portal = "inactive"
    /\ serving = 0
    /\ early = FALSE
    /\ mapping = "none"
    /\ cmd = Idle

Fits(pair) == pair.cert \in 1..MaxIssued /\ pair.cert = pair.key

\* the ages that leave the time a command asks for
Enough(kind) == IF kind = "ensure" THEN {"fresh", "due"} ELSE {"fresh"}

\* validate_certificate
Valid(pair) == Fits(pair) /\ age[pair.cert] \in Enough(cmd.kind)

At(step) == cmd.step = step
Goto(step) == cmd' = [cmd EXCEPT !.step = step]
Fail(step) == cmd' = [cmd EXCEPT !.step = step, !.failed = TRUE]

\* something outside the program goes wrong
FailFor(cause, step) ==
    /\ cause \in Faults
    /\ cmd' = [cmd EXCEPT !.step = step, !.failed = TRUE, !.faults = @ \cup {cause}]

-----------------------------------------------------------------------------
(* Which material is there already.                                        *)

\* renew looks at the source first, ensure at what is deployed
Start(kind) ==
    /\ At("idle")
    /\ cmd' = [Idle EXCEPT !.step = IF kind = "renew" THEN "source" ELSE "deployed",
                           !.kind = kind,
                           !.old = deployed]
    /\ UNCHANGED <<files, service, mapping>>

CheckDeployed ==
    /\ At("deployed")
    /\ Goto(IF Valid(deployed) THEN "end" ELSE "source")
    /\ UNCHANGED <<files, service, mapping>>

\* before lego, and again after it
CheckSource ==
    /\ At("source")
    /\ \/ Valid(source) /\ Goto(IF cmd.kind = "renew" THEN "compare" ELSE "stop")
       \/ ~Valid(source) /\ ~cmd.asked /\ Goto("list")
       \/ ~Valid(source) /\ cmd.asked /\ Fail("end")
    /\ UNCHANGED <<files, service, mapping>>

\* Mutant of Compare: the certificates are compared, the key is not looked at.
CompareUnchecked ==
    /\ At("compare")
    /\ Goto(IF deployed.cert = source.cert THEN "end" ELSE "stop")
    /\ UNCHANGED <<files, service, mapping>>

\* renew has nothing to do if this certificate is deployed
Compare ==
    /\ At("compare")
    /\ Goto(IF Valid(deployed) /\ deployed.cert = source.cert THEN "end" ELSE "stop")
    /\ UNCHANGED <<files, service, mapping>>

-----------------------------------------------------------------------------
(* obtain_certificate inside temporary_mapping.                            *)

\* a mapping to our port is used as it is, another one is not replaced; a
\* command of the router that fails may have created the mapping
ListAndAdd ==
    /\ At("list")
    /\ \/ /\ mapping \in {"manual", "ours"}
          /\ Goto("lego")
          /\ UNCHANGED mapping
       \/ mapping = "foreign" /\ Fail("end") /\ UNCHANGED mapping
       \/ /\ mapping = "none"
          /\ mapping' = "ours"
          /\ cmd' = [cmd EXCEPT !.step = "confirm", !.created = TRUE]
       \/ /\ FailFor("router", "end")
          /\ mapping' \in {mapping, IF mapping = "none" THEN "ours" ELSE mapping}
    /\ UNCHANGED <<files, service>>

Confirm ==
    /\ At("confirm")
    /\ \/ mapping = "ours" /\ Goto("lego")
       \/ mapping = "none" /\ Fail("unmap")
       \/ /\ mapping \in {"manual", "foreign"}
          /\ cmd' = [cmd EXCEPT !.step = "end", !.failed = TRUE, !.created = FALSE]
       \/ FailFor("router", "unmap")
    /\ UNCHANGED <<files, service, mapping>>

\* what lego leaves behind when it is stopped while it writes
Torn == {[source EXCEPT !.key = 0], [source EXCEPT !.cert = Damaged]}

\* lego fails, or is stopped while it writes; a certificate file that is there
\* makes it renew, which may never succeed with one it cannot read
Lego ==
    /\ At("lego")
    /\ \/ /\ mapping \in {"manual", "ours"}
          /\ issued < MaxIssued
          /\ issued' = issued + 1
          /\ source' = [cert |-> issued', key |-> issued']
          /\ cmd' = [cmd EXCEPT !.step = "unmap", !.asked = TRUE]
       \/ /\ mapping \in {"none", "foreign"} \/ source.cert = Damaged
          /\ Fail("unmap")
          /\ UNCHANGED <<issued, source>>
       \/ /\ FailFor("lego", "unmap")
          /\ source' \in {source} \cup Torn
          /\ UNCHANGED issued
    /\ UNCHANGED <<age, deployed, service, mapping>>

\* Mutant of Owned: only a run of lego that succeeded is tidied up after.
OwnedAfterSuccess == cmd.created /\ ~cmd.failed /\ mapping = "ours"

\* mapping_still_owned: it was created here and is still the one created
Owned == cmd.created /\ mapping = "ours"

AfterLego == IF cmd.failed THEN "end" ELSE "source"

\* the command goes on with a mapping that may still be there
Warn(step, failed) ==
    /\ "router" \in Faults
    /\ cmd' = [cmd EXCEPT !.step = step, !.failed = failed,
                          !.faults = @ \cup {"unmap"}]

\* the look-up; if it fails the mapping is left
Unmap ==
    /\ At("unmap")
    /\ \/ Owned /\ Goto("delete")
       \/ ~Owned /\ Goto(AfterLego)
       \/ cmd.created /\ Warn(AfterLego, cmd.failed)
    /\ UNCHANGED <<files, service, mapping>>

\* the deletion of what is mapped now, which need not be what was looked up; a
\* router that fails is warned of, one that does not answer in time ends the
\* command
Delete ==
    /\ At("delete")
    /\ \/ Goto(AfterLego) /\ mapping' = "none"
       \/ /\ Warn(AfterLego, cmd.failed) \/ Warn("end", TRUE)
          /\ mapping' \in {mapping, "none"}
    /\ UNCHANGED <<files, service>>

-----------------------------------------------------------------------------
(* deploy_certificate.                                                     *)

\* Mutant of StopPortal: the files are replaced under the running portal.
StopNothing ==
    /\ At("stop")
    /\ Goto("cert")
    /\ UNCHANGED <<files, service, mapping>>

\* only an active portal is stopped, and will be started again; one that does
\* not stop in time is left alone, stopped or not
StopPortal ==
    /\ At("stop")
    /\ \/ /\ cmd' = [cmd EXCEPT !.step = "cert", !.active = (portal = "active")]
          /\ portal' = IF portal = "active" THEN "inactive" ELSE portal
       \/ /\ portal = "active"
          /\ "systemctl" \in Faults
          /\ cmd' = [cmd EXCEPT !.step = "end", !.failed = TRUE, !.active = TRUE,
                                !.faults = @ \cup {"systemctl"}]
          /\ portal' \in {"active", "inactive"}
    /\ UNCHANGED <<files, serving, early, mapping>>

\* atomic_write may raise before or after the file has been replaced
Write(field, value, next, cause, onError) ==
    /\ \/ /\ deployed' = [deployed EXCEPT ![field] = value]
          /\ Goto(next)
       \/ /\ "write" \in Faults
          /\ deployed' \in {deployed, [deployed EXCEPT ![field] = value]}
          /\ cmd' = [cmd EXCEPT !.step = onError, !.failed = TRUE,
                                !.faults = @ \cup {cause}]
    /\ UNCHANGED <<issued, age, source, service, mapping>>

\* Mutant of WriteKey: an error in it is not rolled back.
WriteKeyWithoutUndo == At("key") /\ Write("key", source.key, "trust", "write", "start")

WriteCert == At("cert") /\ Write("cert", source.cert, "key", "write", "undo_cert")
WriteKey == At("key") /\ Write("key", source.key, "trust", "write", "undo_cert")

\* Mutant of WriteTrust: an error here ends the command.
WriteTrustUnguarded ==
    /\ At("trust")
    /\ Goto("start") \/ FailFor("write", "end")
    /\ UNCHANGED <<files, service, mapping>>

\* update_portal_trust, if it is configured
WriteTrust ==
    /\ At("trust")
    /\ Goto("start") \/ FailFor("write", "undo_cert")
    /\ UNCHANGED <<files, service, mapping>>

\* the rollback; an error in it leaves the rest of it out
UndoCert == At("undo_cert") /\ Write("cert", cmd.old.cert, "undo_key", "undo", "start")
UndoKey == At("undo_key") /\ Write("key", cmd.old.key, "start", "undo", "start")

\* Mutant of Load: the portal loads what lego left, as it is.
LoadSource == portal' = "active" /\ serving' = source.cert

\* the portal loads the pair, or exits if it does not fit; systemd starts it
\* again, and gives up after a while
Load == IF Fits(deployed)
        THEN portal' = "active" /\ serving' = deployed.cert
        ELSE portal' \in {"activating", "inactive"} /\ UNCHANGED serving

\* systemctl start does nothing to an active portal
StartPortal ==
    /\ At("start")
    /\ \/ cmd.active /\ portal # "active" /\ Load /\ early' = FALSE /\ Goto("end")
       \/ /\ ~cmd.active \/ portal = "active"
          /\ Goto("end")
          /\ UNCHANGED service
       \/ cmd.active /\ FailFor("systemctl", "end") /\ UNCHANGED service
    /\ UNCHANGED <<files, mapping>>

End ==
    /\ At("end")
    /\ cmd' = Idle
    /\ UNCHANGED <<files, service, mapping>>

-----------------------------------------------------------------------------
(* Everything else.                                                        *)

\* SIGKILL, or SIGTERM at the end of TimeoutStartSec: no finally clause runs
Kill ==
    /\ "kill" \in Faults
    /\ ~At("idle")
    /\ cmd' = Idle
    /\ source' \in {source} \cup IF At("lego") THEN Torn ELSE {}
    /\ UNCHANGED <<issued, age, deployed, service, mapping>>

\* the host stops at any point and starts again, with the portal
Reboot ==
    /\ "kill" \in Faults
    /\ cmd' = Idle
    /\ Load
    /\ early' = FALSE
    /\ UNCHANGED <<files, mapping>>

\* somebody else than a command starts the portal
LoadBetween == Load /\ early' = (cmd.step \in Writing)

\* the portal fails while it runs
Crash ==
    /\ "crash" \in Faults
    /\ portal = "active"
    /\ portal' = "activating"
    /\ UNCHANGED <<files, serving, early, mapping, cmd>>

\* systemd starts the portal that failed, or gives up
Restart ==
    /\ portal = "activating"
    /\ LoadBetween
    /\ UNCHANGED <<files, mapping, cmd>>

\* the administrator starts or stops the portal
Operate ==
    /\ \/ portal = "inactive" /\ LoadBetween
       \/ portal # "inactive" /\ portal' = "inactive" /\ UNCHANGED <<serving, early>>
    /\ UNCHANGED <<files, mapping, cmd>>

Grow(n) ==
    /\ n <= issued /\ n < MaxIssued
    /\ \/ age[n] = "fresh" /\ age' = [age EXCEPT ![n] = "due"]
       \/ age[n] = "due" /\ age' = [age EXCEPT ![n] = "expired"]
    /\ UNCHANGED <<issued, source, deployed, service, mapping, cmd>>

\* somebody configures the router, or the lease of our mapping ends
Remap ==
    /\ mapping' \in Mappings \ {mapping, "ours"}
    /\ UNCHANGED <<files, service, cmd>>

Command ==
    \/ CheckDeployed \/ CheckSource \/ Compare
    \/ ListAndAdd \/ Confirm \/ Lego \/ Unmap \/ Delete
    \/ StopPortal \/ WriteCert \/ WriteKey \/ WriteTrust
    \/ UndoCert \/ UndoKey \/ StartPortal \/ End

Next ==
    \/ \E kind \in Kinds : Start(kind)
    \/ Command
    \/ Kill
    \/ Reboot
    \/ Crash
    \/ Restart
    \/ Operate
    \/ \E n \in 1..MaxIssued : Grow(n)
    \/ Remap

Spec == Init /\ [][Next]_vars

\* The timer starts renew again and again, and a command goes on.
FairSpec == Spec /\ SF_vars(Start("renew")) /\ WF_vars(Command)

-----------------------------------------------------------------------------
(***************************************************************************)
(* A command that ends by itself leaves the pair it found or the complete  *)
(* new one, whichever write failed, unless the rollback failed too.        *)
(***************************************************************************)
AllOrNothing ==
    At("end") /\ "undo" \notin cmd.faults =>
        deployed = cmd.old \/ (deployed = source /\ Fits(source))

(***************************************************************************)
(* A command that stopped the portal has it running again when it comes to *)
(* its end, whichever write failed, unless systemctl failed or the portal  *)
(* cannot load what is deployed.                                           *)
(***************************************************************************)
PortalIsBack ==
    [][/\ ~At("end") /\ At("end")'
       /\ cmd'.active /\ "systemctl" \notin cmd'.faults
       /\ Fits(deployed)'
       => portal' = "active"]_vars

(***************************************************************************)
(* Whenever no command runs, an active portal serves the certificate that  *)
(* is deployed.  The exception is a portal that systemd or somebody starts *)
(* after a command asked whether it is active, or stopped it, and before   *)
(* the last file was written: the command does not start it again, and it  *)
(* goes on with what it loaded.                                            *)
(***************************************************************************)
ServesDeployed ==
    At("idle") /\ portal = "active" /\ ~early => serving = deployed.cert

(***************************************************************************)
(* A command that ends has removed the mapping it created, also when lego  *)
(* failed, unless the router did not let it.                               *)
(***************************************************************************)
MappingIsGone ==
    At("end") /\ cmd.created /\ "unmap" \notin cmd.faults => mapping # "ours"

(***************************************************************************)
(* Once nothing goes wrong any more outside the program, nobody changes    *)
(* the mapping under a command and port 80 is not somebody else's, a       *)
(* certificate that runs out is always replaced by a fresh one, and so are *)
(* files that do not fit or are missing, whatever earlier commands left -  *)
(* unless lego left a damaged certificate, which it or somebody mends.     *)
(***************************************************************************)
Calm == /\ cmd'.faults \subseteq cmd.faults
        /\ cmd' = Idle => cmd.step \in {"idle", "end"}
        /\ cmd' = cmd /\ ~At("idle") => mapping' = mapping

Renewed ==
    (/\ <>[][Calm]_vars
     /\ <>[](mapping # "foreign")
     /\ []<>(source.cert # Damaged))
    => []<>(Fits(deployed) /\ age[deployed.cert] = "fresh")
=============================================================================
