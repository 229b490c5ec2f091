--------------------------- MODULE MCLobbyRequests ---------------------------
(***************************************************************************)
(* Two instances of CompanionLobby in one run.  All three players of the   *)
(* first one stay registered and share a lobby for two or three, with one  *)
(* request at a time and never all away: places, capacity, settings, lock  *)
(* and hand-over.  In the second one two players have two requests served  *)
(* at once, over two lobbies that keep their settings and stay unlocked,   *)
(* and players.json changes.                                               *)
(***************************************************************************)
EXTENDS MCCompanionLobby

VARIABLE crew   \* the players that take part

crewVars == <<crew, vars>>

Full == crew = Players

CrewInit ==
    /\ Init
    /\ crew \in {Players} \cup {Players \ {p} : p \in Players}
    /\ registered \subseteq crew
    /\ Full => registered = crew

FirstSettings == CHOOSE s \in Settings : TRUE

Bounded ==
    IF Full
    THEN /\ Cardinality({p \in Players : request[p] # "idle"}) <= 1
         /\ Cardinality(Open) <= 1
         /\ \E p \in Players : presence[p] \in {"none", "online"}
         /\ \A l \in Open :
               lobbies[l].capacity = 2 => lobbies[l].settings = FirstSettings
    ELSE \A l \in Open : /\ lobbies[l].capacity = 2
                         /\ lobbies[l].settings = FirstSettings
                         /\ ~lobbies[l].locked

CrewNext ==
    /\ UNCHANGED crew
    /\ \/ UpdatePlayers /\ ~Full /\ registered' \subseteq crew
       \/ \E p \in crew : Tick(p) \/ Authenticate(p) \/ Touch(p) \/ Operation(p)
    /\ Bounded'

CrewSpec == CrewInit /\ [][CrewNext]_crewVars

\* A request never needs a revision to be accepted, so that only one thing
\* about the numbers matters here: whether a client's is its lobby's current
\* one, which an old number does not become again.  MaxRevision is out of reach.
Current(p) ==
    IF view[p] # None /\ view[p].id # None
    THEN IF view[p].revision = revision[view[p].id]
         THEN <<view[p].id, view[p].lobby>> ELSE None
    ELSE None

UpToRevisions ==
    <<crew, registered, changed, presence, request, lobbies, playerLobby, told,
      [p \in Players |-> Current(p)]>>
=============================================================================
