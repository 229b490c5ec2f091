--------------------------- MODULE MCAdminCommands ---------------------------
(***************************************************************************)
(* Two instances of EnrollmentAdmin in one run, each with two processes.   *)
(* In the first one two runs of the client answer one invitation, and      *)
(* everything may fail.  In the second one a player with up to two         *)
(* invitations and one run of the client is offboarded by both processes, or *)
(* by one while the other one creates, approves or revokes.                *)
(***************************************************************************)
EXTENDS MCEnrollmentAdmin, FiniteSets, Naturals

VARIABLE offboards  \* whether it is the second one

commandVars == <<offboards, adminVars>>

CommandsInit ==
    /\ AdminInit
    /\ offboards \in BOOLEAN

Offboarding == {a \in Admins : procs[a].player # None}

\* The processes with another command.
Others == {a \in Admins : procs[a].step # "idle"} \ Offboarding

Bounded ==
    IF offboards
    THEN /\ Cardinality({k \in Keys : runs[k].stage # "new"}) <= 1
         /\ Cardinality(Others) <= 1
         /\ \A a \in Others : procs[a].step # "reject"
         /\ ~tx.item.confirmed
    ELSE /\ Cardinality({e \in Enrollments : tx.id = e \/ items[e].state # "absent"}) <= 1
         /\ Offboarding = {}

CommandsNext ==
    /\ UNCHANGED offboards
    /\ \/ \E a \in Admins : AdminCommand(a)
       \/ EngineWrites \/ PortalAnswers
       \/ ~offboards /\ (EngineFails \/ PortalFails)
       \/ \E k \in Keys : ClientRequest(k)
       \/ \E e \in Enrollments : (~offboards /\ AdminExpire(e)) \/ Connect(e)
    /\ Bounded'

CommandsSpec == CommandsInit /\ [][CommandsNext]_commandVars
=============================================================================
