--------------------------- MODULE CompanionLobby ---------------------------
(***************************************************************************)
(* Presence and lobbies of assets/lan-party-companion.py.                  *)
(*                                                                         *)
(* A request is served by a thread of its own in three sections, each      *)
(* under the state's lock and nothing held in between: authenticate (which *)
(* first reloads players.json if its signature changed), touch, and the    *)
(* operation, which comes after the body has been read from the socket.    *)
(* The administrator replaces players.json at any time.                    *)
(*                                                                         *)
(* Time is abstracted to what the code compares: the age of a presence is  *)
(* "online" up to presence_ttl, "away" up to lobby_disconnect_grace, and   *)
(* "gone" beyond.  A lobby's revision is a number: it is 1 when the lobby   *)
(* opens, grows with every change, and starts again at 1 in the next lobby *)
(* the player is in.  view[p] is what p's client last saw, with the number *)
(* that came with it; the client may send that number back as the revision *)
(* it expects, and the server compares it with the lobby the player is in  *)
(* by then.  An identifier is random and never given twice: LobbyIds are   *)
(* places for lobbies, and a view of a lobby that closed has none.         *)
(* told[l] is what the lobby's event messages, read in order, say of it.   *)
(***************************************************************************)
EXTENDS Naturals, FiniteSets

CONSTANTS
    Players,        \* player names
    LobbyIds,       \* identifiers of lobbies
    Capacities,     \* capacities a client may ask for
    Settings,       \* critical settings: game, port and join instructions
    Removable,      \* bound: players the administrator removes and adds back
    MaxRequests,    \* bound: requests served at the same time
    Deliveries,     \* bound: whether responses arrive (TRUE), are lost (FALSE)
    MaxRevision,    \* bound: revision beyond which no lobby is revised by request
    None

ASSUME NoneAssumption == None \notin Players \cup LobbyIds

ASSUME PlayersAssumption == IsFiniteSet(Players)

ASSUME CapacityAssumption == Capacities \subseteq Nat \ {0, 1}

ASSUME BoundAssumption == /\ Removable \subseteq Players
                          /\ MaxRequests \in Nat \ {0}
                          /\ Deliveries \subseteq BOOLEAN
                          /\ MaxRevision \in Nat

VARIABLES
    registered,     \* players of players.json
    changed,        \* players.json has another signature than the cache
    presence,       \* age of each player's presence entry
    request,        \* progress of each player's current request
    lobbies,        \* lobbies by id, None when there is none
    playerLobby,    \* player_lobby
    told,           \* what the event messages of each lobby add up to
    revision,       \* revision of each lobby, 0 when there is none
    view            \* what each client last saw of its lobby

vars == <<registered, changed, presence, request,
          lobbies, playerLobby, told, revision, view>>

-----------------------------------------------------------------------------
Ages == {"none", "online", "away", "gone"}
Stages == {"idle", "authenticated", "touched"}
Phases == {"gathering", "in_game"}

Lobby == [host     : Players,
          members  : SUBSET Players,
          ready    : SUBSET Players,
          capacity : Capacities,
          settings : Settings,
          phase    : Phases,
          locked   : BOOLEAN]

\* Membership, host and lock as told by member_joined, member_left,
\* host_transferred, lobby_locked and lobby_unlocked.
Told == [host : Players, members : SUBSET Players, locked : BOOLEAN]

\* What a client saw, under which revision, and of which lobby.
Views == [id : LobbyIds \cup {None}, revision : Nat, lobby : Lobby]

ASSUME NullAssumption == None \notin Lobby /\ None \notin Told /\ None \notin Views

TypeOK ==
    /\ registered \subseteq Players
    /\ changed \in BOOLEAN
    /\ presence \in [Players -> Ages]
    /\ request \in [Players -> Stages]
    /\ lobbies \in [LobbyIds -> Lobby \cup {None}]
    /\ playerLobby \in [Players -> LobbyIds \cup {None}]
    /\ told \in [LobbyIds -> Told \cup {None}]
    /\ revision \in [LobbyIds -> Nat]
    /\ view \in [Players -> Views \cup {None}]

Registries == {r \in SUBSET Players : Players \ Removable \subseteq r}

Init ==
    /\ registered \in Registries
    /\ changed = FALSE
    /\ presence = [p \in Players |-> "none"]
    /\ request = [p \in Players |-> "idle"]
    /\ lobbies = [l \in LobbyIds |-> None]
    /\ playerLobby = [p \in Players |-> None]
    /\ told = [l \in LobbyIds |-> None]
    /\ revision = [l \in LobbyIds |-> 0]
    /\ view = [p \in Players |-> None]

-----------------------------------------------------------------------------
(***************************************************************************)
(* The lobby tables as one value, so that a handler can clean up first and *)
(* then act on what is left.                                               *)
(***************************************************************************)
World == [lobbies |-> lobbies, playerLobby |-> playerLobby,
          told |-> told, revision |-> revision, view |-> view]

Become(w) ==
    /\ lobbies' = w.lobbies
    /\ playerLobby' = w.playerLobby
    /\ told' = w.told
    /\ revision' = w.revision
    /\ view' = w.view

\* The lobbies in ls close: no lobby has their identifiers again.
Forget(v, ls) ==
    [p \in Players |-> IF v[p] # None /\ v[p].id \in ls
                       THEN [v[p] EXCEPT !.id = None] ELSE v[p]]

\* Lobby l becomes lobby, under the next revision.
Revise(w, l, lobby) ==
    [w EXCEPT !.lobbies[l] = lobby, !.revision[l] = @ + 1]

\* _check_revision: the number alone, against the lobby of that moment.
CheckRevision(w, l, expected) == expected \in {None, w.revision[l]}

\* The client sends the revision it saw, or none.
Expected(p) == {None} \cup {v.revision : v \in {view[p]} \ {None}}

\* _close_lobby_locked
Close(w, l) ==
    [lobbies     |-> [w.lobbies EXCEPT ![l] = None],
     playerLobby |-> [p \in Players |-> IF p \in w.lobbies[l].members
                                        THEN None ELSE w.playerLobby[p]],
     told        |-> [w.told EXCEPT ![l] = None],
     revision    |-> [w.revision EXCEPT ![l] = 0],
     view        |-> Forget(w.view, {l})]

Without(lobby, gone) ==
    [lobby EXCEPT !.members = @ \ gone, !.ready = @ \ gone]

\* Mutant of RemoveMember: the departure is not announced.
RemoveUnannounced(w, l, p) ==
    [Revise(w, l, Without(w.lobbies[l], {p})) EXCEPT !.playerLobby[p] = None]

\* Mutant of RemoveMember: the member left without a new revision.
RemoveQuietly(w, l, p) ==
    [w EXCEPT !.lobbies[l] = Without(@, {p}),
              !.playerLobby[p] = None,
              !.told[l].members = @ \ {p}]

\* _remove_member_locked with announce=True
RemoveMember(w, l, p) ==
    [Revise(w, l, Without(w.lobbies[l], {p})) EXCEPT
        !.playerLobby[p] = None,
        !.told[l].members = @ \ {p}]

\* What _reload_players and _cleanup do to the lobbies: those whose host is
\* not kept are closed, and members who are not kept are removed.
Prune(w, keep) ==
    LET Open == {l \in LobbyIds : w.lobbies[l] # None}
        closing == {l \in Open : w.lobbies[l].host \notin keep}
        leaving(l) == w.lobbies[l].members \ keep
    IN  [lobbies |->
            [l \in LobbyIds |->
                IF l \in closing THEN None
                ELSE IF l \in Open THEN Without(w.lobbies[l], leaving(l))
                ELSE None],
         playerLobby |->
            [p \in Players |->
                IF \E l \in Open : /\ p \in w.lobbies[l].members
                                   /\ l \in closing \/ p \notin keep
                THEN None ELSE w.playerLobby[p]],
         told |->
            [l \in LobbyIds |->
                IF l \in closing THEN None
                ELSE IF l \in Open
                THEN [w.told[l] EXCEPT !.members = @ \ leaving(l)]
                ELSE w.told[l]],
         revision |->
            [l \in LobbyIds |->
                IF l \in closing THEN 0
                ELSE IF l \in Open
                THEN w.revision[l] + Cardinality(leaving(l))
                ELSE w.revision[l]],
         view |-> Forget(w.view, closing)]

\* The presences within the grace, which keep their place in a _cleanup.
Present == {p \in Players : presence[p] \in {"online", "away"}}

\* The lobby of player p in w, None when p is in none.
LobbyOf(w, p) ==
    IF w.playerLobby[p] = None THEN None ELSE w.lobbies[w.playerLobby[p]]

Hosts(w, p) == LobbyOf(w, p) # None /\ LobbyOf(w, p).host = p

\* The response shows p's client its lobby, or that it has none.
Show(w, p) ==
    LET l == w.playerLobby[p]
    IN  [w EXCEPT !.view[p] =
            IF LobbyOf(w, p) = None THEN None
            ELSE [id |-> l, revision |-> w.revision[l], lobby |-> w.lobbies[l]]]

\* The response may be lost.
Reply(w, p) == \E got \in Deliveries : Become(IF got THEN Show(w, p) ELSE w)

-----------------------------------------------------------------------------
\* The administrator publishes another players.json (os.replace).
UpdatePlayers ==
    /\ registered' \in Registries
    /\ changed' = TRUE
    /\ UNCHANGED <<presence, request,
                   lobbies, playerLobby, told, revision, view>>

Tick(p) ==
    /\ presence[p] \in {"online", "away"}
    /\ presence' = [presence EXCEPT ![p] = IF @ = "online" THEN "away" ELSE "gone"]
    /\ UNCHANGED <<registered, changed, request,
                   lobbies, playerLobby, told, revision, view>>

\* _reload_players: the cache is the file again, and the players dropped from
\* it leave the presences and the lobbies.
Reload ==
    /\ changed' = FALSE
    /\ presence' = [p \in Players |->
                       IF changed /\ p \notin registered THEN "none" ELSE presence[p]]

Reloaded == IF changed THEN Prune(World, registered) ELSE World

\* Mutant of Authenticate: a token is accepted after the player's removal.
AuthenticateAnyone(p) ==
    /\ request[p] = "idle"
    /\ Cardinality({q \in Players : request[q] # "idle"}) < MaxRequests
    /\ request' = [request EXCEPT ![p] = "authenticated"]
    /\ Reload
    /\ Become(Reloaded)
    /\ UNCHANGED registered

\* authenticate: a player of the file just (re)loaded.
Authenticate(p) ==
    /\ request[p] = "idle"
    /\ Cardinality({q \in Players : request[q] # "idle"}) < MaxRequests
    /\ request' = [request EXCEPT ![p] = IF p \in registered
                                         THEN "authenticated" ELSE "idle"]
    /\ Reload
    /\ Become(Reloaded)
    /\ UNCHANGED registered

\* Mutant of Touch: a returning player keeps the old place in the lobby.
TouchWithoutExpiry(p) ==
    /\ request[p] = "authenticated"
    /\ request' = [request EXCEPT ![p] = "touched"]
    /\ presence' = [presence EXCEPT ![p] = "online"]
    /\ UNCHANGED <<registered, changed,
                   lobbies, playerLobby, told, revision, view>>

\* touch: a player back after the grace has lost the place in the lobby.
Touch(p) ==
    /\ request[p] = "authenticated"
    /\ request' = [request EXCEPT ![p] = "touched"]
    /\ presence' = [presence EXCEPT ![p] = "online"]
    /\ Become(IF presence[p] # "gone" \/ LobbyOf(World, p) = None THEN World
              ELSE IF Hosts(World, p) THEN Close(World, playerLobby[p])
              ELSE RemoveMember(World, playerLobby[p], p))
    /\ UNCHANGED <<registered, changed>>

\* The operation is the last section of a request.
Serve(p) ==
    /\ request[p] = "touched"
    /\ request' = [request EXCEPT ![p] = "idle"]
    /\ UNCHANGED registered

Operate(p) == Serve(p) /\ UNCHANGED <<changed, presence>>

\* A malformed body, a rate limit, a message to everybody or to the lobby, a
\* status, a lost connection, and every refusal that changes nothing.
Ignore(p) ==
    Operate(p) /\ UNCHANGED <<lobbies, playerLobby, told, revision, view>>

\* send_message to a player, which reloads the players first.
SendMessage(p) == Serve(p) /\ Reload /\ Become(Reloaded)

\* snapshot_v2 and snapshot_v1
Snapshot(p) ==
    /\ Serve(p)
    /\ Reload
    /\ LET present == {q \in Players : presence'[q] \in {"online", "away"}}
       IN  Reply(Prune(Reloaded, present), p)

NewLobby(p, c, s) ==
    [host |-> p, members |-> {p}, ready |-> {}, capacity |-> c,
     settings |-> s, phase |-> "gathering", locked |-> FALSE]

\* Mutant of Configured: the ready check starts over in a running game.
ConfiguredInPhase(lobby, c, s) ==
    [lobby EXCEPT !.capacity = c, !.settings = s,
                  !.ready = IF lobby.settings = s THEN @ ELSE {}]

\* Game, port, instructions or capacity change: the ready check starts over.
Configured(lobby, c, s) ==
    IF lobby.settings = s /\ lobby.capacity = c THEN lobby
    ELSE [lobby EXCEPT !.capacity = c, !.settings = s,
                       !.ready = {}, !.phase = "gathering"]

\* upsert_lobby and upsert_room: a new lobby whatever revision is expected.
UpsertLobby(p, c, s, expected) ==
    /\ Operate(p)
    /\ LET w == Prune(World, Present)
           mine == LobbyOf(w, p)
           accepted == /\ mine.host = p
                       /\ c >= Cardinality(mine.members)
                       /\ CheckRevision(w, w.playerLobby[p], expected)
       IN  \/ /\ mine = None
              /\ \E l \in LobbyIds :
                    /\ w.lobbies[l] = None
                    /\ Reply([w EXCEPT !.lobbies[l] = NewLobby(p, c, s),
                                       !.playerLobby[p] = l,
                                       !.revision[l] = 1,
                                       !.told[l] = [host |-> p, members |-> {p},
                                                    locked |-> FALSE]],
                             p)
           \/ /\ mine # None /\ accepted
              /\ Reply(Revise(w, w.playerLobby[p], Configured(mine, c, s)), p)
           \/ mine # None /\ ~accepted /\ Become(w)

\* Mutant of MayJoin: a full lobby is left one place too many.
MayJoinFull(lobby) ==
    /\ Cardinality(lobby.members) <= lobby.capacity
    /\ ~lobby.locked

MayJoin(lobby) ==
    /\ Cardinality(lobby.members) < lobby.capacity
    /\ ~lobby.locked

\* join_lobby: again for a member, refused when in another lobby.
JoinLobby(p, l) ==
    /\ Operate(p)
    /\ LET w == Prune(World, Present)
       IN  \/ /\ w.playerLobby[p] = l /\ w.lobbies[l] # None
              /\ Reply(w, p)
           \/ /\ w.playerLobby[p] = None /\ w.lobbies[l] # None
              /\ MayJoin(w.lobbies[l])
              /\ Reply([Revise(w, l, [w.lobbies[l] EXCEPT
                                          !.members = @ \cup {p}]) EXCEPT
                          !.playerLobby[p] = l,
                          !.told[l].members = @ \cup {p}],
                       p)
           \/ /\ \/ w.playerLobby[p] \notin {None, l}
                 \/ w.playerLobby[p] = l /\ w.lobbies[l] = None
                 \/ /\ w.playerLobby[p] = None
                    /\ w.lobbies[l] # None => ~MayJoin(w.lobbies[l])
              /\ Become(w)

\* set_lobby_ready
SetReady(p, ready) ==
    /\ Operate(p)
    /\ LET lobby == LobbyOf(World, p)
       IN  /\ lobby # None
           /\ p \in lobby.members
           /\ lobby.phase = "gathering"
           /\ Reply(Revise(World, playerLobby[p],
                       [lobby EXCEPT !.ready = IF ready THEN @ \cup {p}
                                               ELSE @ \ {p}]),
                    p)

\* Mutant of SetPhase: any member starts and ends the game.
SetPhaseAsMember(p, phase, expected) ==
    /\ Operate(p)
    /\ LobbyOf(World, p) # None
    /\ CheckRevision(World, playerLobby[p], expected)
    /\ Reply(Revise(World, playerLobby[p],
                [LobbyOf(World, p) EXCEPT
                    !.phase = phase,
                    !.ready = IF phase = "gathering" THEN {} ELSE @]),
             p)

\* set_lobby_phase
SetPhase(p, phase, expected) ==
    /\ Operate(p)
    /\ Hosts(World, p)
    /\ CheckRevision(World, playerLobby[p], expected)
    /\ Reply(Revise(World, playerLobby[p],
                [LobbyOf(World, p) EXCEPT
                    !.phase = phase,
                    !.ready = IF phase = "gathering" THEN {} ELSE @]),
             p)

\* set_lobby_locked
SetLocked(p, locked, expected) ==
    /\ Operate(p)
    /\ Hosts(World, p)
    /\ CheckRevision(World, playerLobby[p], expected)
    /\ LET w == Revise(World, playerLobby[p],
                       [LobbyOf(World, p) EXCEPT !.locked = locked])
       IN  Reply([w EXCEPT !.told[playerLobby[p]].locked = locked],
                 p)

\* transfer_lobby
TransferLobby(p, target, expected) ==
    /\ Operate(p)
    /\ Hosts(World, p)
    /\ CheckRevision(World, playerLobby[p], expected)
    /\ target # p /\ target \in LobbyOf(World, p).members
    /\ presence[target] = "online"
    /\ LET w == Revise(World, playerLobby[p],
                       [LobbyOf(World, p) EXCEPT !.host = target])
       IN  Reply([w EXCEPT !.told[playerLobby[p]].host = target],
                 p)

\* Mutant of LeaveLobby: the host leaves the lobby to nobody.
LeaveToNobody(p) ==
    /\ Operate(p)
    /\ playerLobby[p] # None
    /\ LET w == RemoveMember(World, playerLobby[p], p)
       IN  Become(IF Hosts(World, p)
                  THEN [w EXCEPT !.lobbies[playerLobby[p]].host = None] ELSE w)

\* leave_lobby
LeaveLobby(p) ==
    /\ Operate(p)
    /\ playerLobby[p] # None
    /\ Become(IF LobbyOf(World, p) = None
              THEN [World EXCEPT !.playerLobby[p] = None]
              ELSE IF Hosts(World, p) THEN Close(World, playerLobby[p])
              ELSE RemoveMember(World, playerLobby[p], p))

\* close_room
CloseRoom(p) ==
    /\ Operate(p)
    /\ Hosts(World, p)
    /\ Become(Close(World, playerLobby[p]))

\* The bound: below it every lobby may be revised.
Revisable == \A l \in LobbyIds : revision[l] < MaxRevision

\* What a request does to a lobby under a new revision.
Revision(p) ==
    \/ \E c \in Capacities, s \in Settings, e \in Expected(p) :
           UpsertLobby(p, c, s, e)
    \/ \E l \in LobbyIds : JoinLobby(p, l)
    \/ \E b \in BOOLEAN : SetReady(p, b)
    \/ \E b \in BOOLEAN, e \in Expected(p) : SetLocked(p, b, e)
    \/ \E ph \in Phases, e \in Expected(p) : SetPhase(p, ph, e)
    \/ \E q \in Players, e \in Expected(p) : TransferLobby(p, q, e)

Operation(p) ==
    \/ Ignore(p)
    \/ SendMessage(p)
    \/ Snapshot(p)
    \/ LeaveLobby(p)
    \/ CloseRoom(p)
    \/ Revisable /\ Revision(p)

Next ==
    \/ UpdatePlayers
    \/ \E p \in Players : Tick(p) \/ Authenticate(p) \/ Touch(p) \/ Operation(p)

Spec == Init /\ [][Next]_vars

\* The players no administrator removes keep their client running: it polls
\* the state every few seconds.  A served request ends (the socket times out)
\* and time passes for a presence nobody renews.
Polling(p) == WF_vars(Authenticate(p)) /\ SF_vars(Snapshot(p))

Fairness ==
    /\ \A p \in Players \ Removable : Polling(p)
    /\ \A p \in Players : WF_vars(Touch(p) \/ Operation(p)) /\ WF_vars(Tick(p))

FairSpec == Spec /\ Fairness

-----------------------------------------------------------------------------
Open == {l \in LobbyIds : lobbies[l] # None}

TablesAgree ==
    \A p \in Players, l \in LobbyIds :
        playerLobby[p] = l <=> l \in Open /\ p \in lobbies[l].members

HostAndReady ==
    \A l \in Open : /\ lobbies[l].host \in lobbies[l].members
                    /\ lobbies[l].ready \subseteq lobbies[l].members

WithinCapacity ==
    \A l \in Open : Cardinality(lobbies[l].members) <= lobbies[l].capacity

\* player_lobby and the members of the lobbies say the same, so that a player
\* is in one lobby at most; a lobby holds its host, within its capacity, and
\* only members are ready.  Two tables written by every handler, by the
\* reload and by the cleanup of other players' requests.
MembershipConsistent == TablesAgree /\ HostAndReady /\ WithinCapacity

\* Within one lobby a revision stands for one state: a client that holds the
\* lobby's current number saw the lobby as it is, since whatever changed it, a
\* handler, the cleanup of another player's request or the removal of a
\* player, counted on.
ViewIsCurrent ==
    \A p \in Players, l \in LobbyIds :
        view[p] # None /\ view[p].id = l /\ view[p].revision = revision[l]
        => view[p].lobby = lobbies[l]

\* A change the host sent with the revision it saw is only made to the lobby it
\* saw: "revision-based conflict protection" (COMPANION.md:27), against a lobby
\* "modified by another request" (assets/lan-party-companion.py:993).
ChangesWhatWasSeen ==
    [][\A p \in Players :
          /\ view[p] # None
          /\ \/ \E ph \in Phases : SetPhase(p, ph, view[p].revision)
             \/ \E b \in BOOLEAN : SetLocked(p, b, view[p].revision)
             \/ \E q \in Players : TransferLobby(p, q, view[p].revision)
          => view[p].id = playerLobby[p]]_vars

\* The event messages of an open lobby account for its members, its host and
\* its lock: no place is taken, lost or handed over without one.
EventsTellLobby ==
    \A l \in Open :
        told[l] = [host |-> lobbies[l].host, members |-> lobbies[l].members,
                   locked |-> lobbies[l].locked]

\* A player who stays away longer than the grace loses the place in the lobby
\* and, as its host, the lobby, whether the client comes back or not.
AbandonedPlaceIsFreed ==
    \A p \in Players : presence[p] = "gone" ~> playerLobby[p] = None

\* A player removed for good is in the end in no lobby, although a request
\* authenticated before the removal can still put the player into one.
RemovedPlayerLeaves ==
    \A p \in Players :
        <>[](p \notin registered) => <>[](playerLobby[p] = None)

\* The critical settings a ready check was given for: ready members agreed to
\* the settings the lobby still has, since changing them starts the check
\* over, and a running game keeps the settings it was started with.
ReadyForSettings ==
    [][\A l \in LobbyIds :
          /\ l \in Open /\ lobbies'[l] # None
          /\ \/ lobbies'[l].settings # lobbies[l].settings
             \/ lobbies'[l].capacity # lobbies[l].capacity
          => lobbies'[l].ready = {} /\ lobbies'[l].phase = "gathering"]_vars

\* Players whose presence is over, or whom the administrator took out.
Absent == {p \in Players : \/ p \notin registered
                            \/ presence[p] \notin {"online", "away"}}

Rules(l) == INSTANCE LobbyRules WITH
                lobby  <- lobbies[l],
                asking <- {p \in Players : request[p] = "touched"},
                absent <- Absent

\* Every lobby keeps to LobbyRules: whatever the requests, reloads and cleanups
\* of all players do in between, a player enters, gets ready and leaves by an
\* own request or loses the place by being absent, and what a lobby is about,
\* whether it is locked and who hosts it is the decision of its host at the
\* moment the request is served, not when it was sent.
ImplementsRules ==
    /\ \A l \in LobbyIds : Rules(l)!Init
    /\ [][\A l \in LobbyIds : [Rules(l)!Next]_(Rules(l)!vars)]_vars
=============================================================================
