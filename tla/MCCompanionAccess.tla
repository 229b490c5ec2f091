-------------------------- MODULE MCCompanionAccess --------------------------
(***************************************************************************)
(* Small instances of PlayersFile and of CompanionLimits.  The two have no *)
(* variable in common, so that the states of one say nothing about those   *)
(* of the other: part is the one that this behaviour explores.             *)
(***************************************************************************)
EXTENDS PlayersFile, CompanionLimits, TLC

\* One client has two requests served at a time.  The other one, a stranger
\* whose token no player has, has one.
MCSlots == ("p1" :> {1, 2}) @@ ("p2" :> {1})

Stranger == "p2"

VARIABLE part

vars == <<part, fileVars, limitVars>>

Init ==
    /\ part \in {"file", "limits"}
    /\ FileInit
    /\ LimitsInit
    /\ part = "file" => valid = {}
    /\ Stranger \notin valid
    \* Which inode comes first makes no difference.
    /\ file.inode = CHOOSE i \in Inodes : TRUE

Limiting(A) == part = "limits" /\ A /\ UNCHANGED <<part, fileVars>>

Next ==
    \/ part = "file" /\ FileNext /\ UNCHANGED <<part, limitVars>>
    \/ Limiting(LimitsNext) /\ Stranger \notin valid'

\* Time passes, clients keep asking, and a request that was begun goes on.
FairSpec ==
    /\ Init /\ [][Next]_vars
    /\ WF_vars(Limiting(LimitsTick))
    /\ \A c \in Clients : \A i \in Slots[c] :
          WF_vars(Limiting(Arrive(c, i) \/ Proceed(c, i)))
=============================================================================
