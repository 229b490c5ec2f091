----------------------------- MODULE LobbyRules -----------------------------
(***************************************************************************)
(* What one lobby of assets/lan-party-companion.py promises its players,   *)
(* whatever the requests, reloads and cleanups of all of them do in        *)
(* between.  A lobby changes in two ways.  Members that are absent, whose  *)
(* presence is over or who were taken out of players.json, lose their      *)
(* place, and with its host goes the lobby.  And a player who asks is      *)
(* served: enters an open lobby that has room, speaks for himself, leaves, *)
(* or, as the host, sets the rules.  Nobody else is moved, made ready or   *)
(* put out.                                                                *)
(***************************************************************************)
EXTENDS Naturals, FiniteSets

CONSTANTS Players, Capacities, Settings, None

VARIABLES
    lobby,      \* the lobby, None while it is closed
    asking,     \* players with a request that is about to be served
    absent      \* players without presence or registration

vars == <<lobby, asking, absent>>

Init ==
    /\ lobby = None
    /\ asking = {}
    /\ absent \subseteq Players

Without(x, gone) ==
    [x EXCEPT !.members = @ \ gone, !.ready = @ \ gone]

\* What absence may leave of the lobby: it goes with its host.
Remains ==
    IF lobby = None THEN {None}
    ELSE {Without(lobby, gone) :
             gone \in SUBSET ((lobby.members \cap absent) \ {lobby.host})}
         \cup {x \in {None} : lobby.host \in absent}

-----------------------------------------------------------------------------
\* What player p may make of the lobby x: the lobby y.
Open(p, x, y) ==
    /\ x = None
    /\ \E c \in Capacities, s \in Settings :
          y = [host |-> p, members |-> {p}, ready |-> {}, capacity |-> c,
               settings |-> s, phase |-> "gathering", locked |-> FALSE]

Enter(p, x, y) ==
    /\ p \notin x.members
    /\ Cardinality(x.members) < x.capacity
    /\ ~x.locked
    /\ y = [x EXCEPT !.members = @ \cup {p}]

Mark(p, x, y) ==
    /\ p \in x.members
    /\ x.phase = "gathering"
    /\ \E ready \in {x.ready \cup {p}, x.ready \ {p}} :
          y = [x EXCEPT !.ready = ready]

Leave(p, x, y) ==
    /\ p \in x.members \ {x.host}
    /\ y = Without(x, {p})

\* A change of what the players agreed to starts the ready check over.
Configure(x, y) ==
    \E c \in Capacities, s \in Settings :
        /\ c >= Cardinality(x.members)
        /\ y = [x EXCEPT !.capacity = c, !.settings = s,
                         !.ready = {}, !.phase = "gathering"]

StartOver(x, y) == y = [x EXCEPT !.phase = "gathering", !.ready = {}]

Play(x, y) == y = [x EXCEPT !.phase = "in_game"]

Lock(x, y) == \E locked \in BOOLEAN : y = [x EXCEPT !.locked = locked]

HandOver(x, y) == \E q \in x.members : y = [x EXCEPT !.host = q]

\* What the host may make of it.
Direct(x, y) ==
    \/ Configure(x, y) \/ StartOver(x, y) \/ Play(x, y)
    \/ Lock(x, y) \/ HandOver(x, y)
    \/ y = None

Change(p, x, y) ==
    \/ y = x
    \/ Open(p, x, y)
    \/ /\ x # None
       /\ \/ Enter(p, x, y) \/ Mark(p, x, y) \/ Leave(p, x, y)
          \/ x.host = p /\ Direct(x, y)

-----------------------------------------------------------------------------
Serve(p) ==
    /\ p \in asking
    /\ asking' = asking \ {p}
    /\ \E x \in Remains : Change(p, x, lobby')

Ask(p) ==
    /\ asking' = asking \cup {p}
    /\ lobby' \in Remains

Pass ==
    /\ asking' = asking
    /\ lobby' \in Remains

Next ==
    /\ absent' \subseteq Players
    /\ Pass \/ \E p \in Players : Ask(p) \/ Serve(p)

Spec == Init /\ [][Next]_vars
=============================================================================
