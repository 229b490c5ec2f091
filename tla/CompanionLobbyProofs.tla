------------------------ MODULE CompanionLobbyProofs ------------------------
(***************************************************************************)
(* Proofs about CompanionLobby, for every set of players, lobby ids,       *)
(* capacities and settings.  The handlers are functions from a world (the  *)
(* lobby tables) to the next one: Sane is shown to be kept by each of      *)
(* them, and then by every step.                                           *)
(***************************************************************************)
EXTENDS CompanionLobby, FiniteSetTheorems, TLAPS

Worlds == [lobbies     : [LobbyIds -> Lobby \cup {None}],
           playerLobby : [Players -> LobbyIds \cup {None}],
           told        : [LobbyIds -> Told \cup {None}],
           revision    : [LobbyIds -> Nat],
           view        : [Players -> Views \cup {None}]]

ToldOf(lobby) == [host |-> lobby.host, members |-> lobby.members,
                  locked |-> lobby.locked]

SaneLobby(lobby) ==
    /\ lobby \in Lobby
    /\ lobby.host \in lobby.members
    /\ lobby.ready \subseteq lobby.members
    /\ Cardinality(lobby.members) <= lobby.capacity

SaneLobbies(w) ==
    \A l \in LobbyIds :
        IF w.lobbies[l] = None THEN w.told[l] = None
        ELSE SaneLobby(w.lobbies[l]) /\ w.told[l] = ToldOf(w.lobbies[l])

SanePlaces(w) ==
    \A p \in Players, l \in LobbyIds :
        w.playerLobby[p] = l <=> w.lobbies[l] # None /\ p \in w.lobbies[l].members

\* A lobby somebody saw is open, counts on from there, and is as it was seen
\* until it does.
SaneViews(w) ==
    \A p \in Players, l \in LobbyIds :
        w.view[p] # None /\ w.view[p].id = l =>
            /\ w.lobbies[l] # None
            /\ w.view[p].revision <= w.revision[l]
            /\ w.view[p].revision = w.revision[l]
                  => w.view[p].lobby = w.lobbies[l]

Sane(w) == w \in Worlds /\ SaneLobbies(w) /\ SanePlaces(w) /\ SaneViews(w)

-----------------------------------------------------------------------------
(***************************************************************************)
(* Lobbies.                                                                *)
(***************************************************************************)
LEMMA MembersFinite ==
    ASSUME NEW S \in SUBSET Players
    PROVE  IsFiniteSet(S) /\ Cardinality(S) \in Nat
  BY PlayersAssumption, FS_Subset, FS_CardinalityType

\* Removing members other than the host keeps a lobby sane.
LEMMA WithoutSane ==
    ASSUME NEW lobby, SaneLobby(lobby), NEW gone, lobby.host \notin gone
    PROVE  /\ SaneLobby(Without(lobby, gone))
           /\ Without(lobby, gone).members = lobby.members \ gone
           /\ Without(lobby, gone).host = lobby.host
           /\ Without(lobby, gone).locked = lobby.locked
  <1> DEFINE new == Without(lobby, gone)
  <1>1. /\ new \in Lobby /\ new.members = lobby.members \ gone
        /\ new.ready = lobby.ready \ gone /\ new.host = lobby.host
        /\ new.capacity = lobby.capacity /\ new.locked = lobby.locked
    BY DEF SaneLobby, Without, Lobby
  <1>2. lobby.members \in SUBSET Players /\ lobby.capacity \in Nat
    BY CapacityAssumption DEF SaneLobby, Lobby
  <1> HIDE DEF new
  <1>3. Cardinality(new.members) <= Cardinality(lobby.members)
    BY <1>1, <1>2, MembersFinite, FS_Subset
  <1>4. Cardinality(new.members) <= lobby.capacity
    <2>1. Cardinality(new.members) \in Nat /\ Cardinality(lobby.members) \in Nat
      BY <1>1, <1>2, MembersFinite
    <2>2. QED
      BY <1>2, <1>3, <2>1 DEF SaneLobby
  <1>5. QED
    BY <1>1, <1>4 DEF SaneLobby, new

LEMMA ForgetViews ==
    ASSUME NEW v \in [Players -> Views \cup {None}], NEW ls
    PROVE  /\ Forget(v, ls) \in [Players -> Views \cup {None}]
           /\ \A p \in Players, l \in LobbyIds :
                 Forget(v, ls)[p] # None /\ Forget(v, ls)[p].id = l
                 => Forget(v, ls)[p] = v[p] /\ l \notin ls
  <1>1. ASSUME NEW p \in Players, v[p] # None, v[p].id \in ls
        PROVE  /\ Forget(v, ls)[p] \in Views
               /\ Forget(v, ls)[p].id = None
    <2> DEFINE seen == v[p]
    <2>1. seen \in Views
      BY <1>1
    <2>2. Forget(v, ls)[p] = [seen EXCEPT !.id = None]
      BY <1>1 DEF Forget
    <2> HIDE DEF seen
    <2>3. QED
      BY <2>1, <2>2 DEF Views
  <1>2. ASSUME NEW p \in Players, ~(v[p] # None /\ v[p].id \in ls)
        PROVE  Forget(v, ls)[p] = v[p]
    BY <1>2 DEF Forget
  <1>3. Forget(v, ls) = [p \in Players |-> Forget(v, ls)[p]]
    BY DEF Forget
  <1> DEFINE f == Forget(v, ls)
  <1> HIDE DEF f
  <1>4. \A p \in Players : f[p] \in Views \cup {None}
    BY <1>1, <1>2 DEF f
  <1>5. f \in [Players -> Views \cup {None}]
    BY <1>3, <1>4 DEF f
  <1>6. \A p \in Players, l \in LobbyIds :
           f[p] # None /\ f[p].id = l => f[p] = v[p] /\ l \notin ls
    BY <1>1, <1>2, NoneAssumption DEF f
  <1>7. QED
    BY <1>5, <1>6 DEF f

\* r differs from w in the lobbies ls only, which are closed, and forgotten, or
\* sane and under a later revision in it.
Updated(w, r, ls) ==
    /\ ls \subseteq LobbyIds
    /\ \A l \in LobbyIds \ ls :
          /\ r.lobbies[l] = w.lobbies[l] /\ r.told[l] = w.told[l]
          /\ r.revision[l] = w.revision[l]
    /\ \A l \in ls :
          IF r.lobbies[l] = None THEN r.told[l] = None
          ELSE /\ SaneLobby(r.lobbies[l]) /\ r.told[l] = ToldOf(r.lobbies[l])
               /\ r.revision[l] > w.revision[l]
    /\ \A p \in Players, l \in LobbyIds :
          r.view[p] # None /\ r.view[p].id = l =>
              /\ r.view[p] = w.view[p]
              /\ l \in ls => r.lobbies[l] # None

LEMMA UpdateSane ==
    ASSUME NEW w, Sane(w), NEW r \in Worlds, NEW ls, Updated(w, r, ls),
           SanePlaces(r)
    PROVE  Sane(r)
  <1>1. SaneLobbies(r)
    BY DEF Sane, SaneLobbies, Updated
  <1>2. ASSUME NEW p \in Players, NEW l \in LobbyIds,
               r.view[p] # None, r.view[p].id = l
        PROVE  /\ r.lobbies[l] # None
               /\ r.view[p].revision <= r.revision[l]
               /\ r.view[p].revision = r.revision[l]
                     => r.view[p].lobby = r.lobbies[l]
    <2> DEFINE seen == r.view[p]
    <2>1. seen = w.view[p] /\ (l \in ls => r.lobbies[l] # None)
      BY <1>2 DEF Updated
    <2>2. /\ w.lobbies[l] # None /\ seen.revision <= w.revision[l]
          /\ seen.revision = w.revision[l] => seen.lobby = w.lobbies[l]
      BY <1>2, <2>1 DEF Sane, SaneViews
    <2>3. seen.revision \in Nat /\ w.revision[l] \in Nat /\ r.revision[l] \in Nat
      <3>1. seen \in Views
        BY <1>2 DEF Worlds
      <3> HIDE DEF seen
      <3>2. QED
        BY <3>1 DEF Views, Worlds, Sane
    <2> HIDE DEF seen
    <2>4. CASE l \in ls
      <3>1. r.lobbies[l] # None /\ r.revision[l] > w.revision[l]
        BY <2>1, <2>4 DEF Updated
      <3>2. QED
        BY <2>2, <2>3, <3>1 DEF seen
    <2>5. CASE l \notin ls
      <3>1. r.lobbies[l] = w.lobbies[l] /\ r.revision[l] = w.revision[l]
        BY <2>5 DEF Updated
      <3>2. QED
        BY <2>2, <3>1 DEF seen
    <2>6. QED
      BY <2>4, <2>5
  <1>3. SaneViews(r)
    BY <1>2 DEF SaneViews
  <1>4. QED
    BY <1>1, <1>3 DEF Sane

\* Lobby l becomes lobby, and its event messages say so.
Revised(w, l, lobby) ==
    [lobbies |-> [w.lobbies EXCEPT ![l] = lobby],
     playerLobby |-> w.playerLobby,
     told |-> [w.told EXCEPT ![l] = ToldOf(lobby)],
     revision |-> [w.revision EXCEPT ![l] = @ + 1],
     view |-> w.view]

\* An open lobby, changed by its host or by one of its members.
LEMMA RevisedSane ==
    ASSUME NEW w, Sane(w), NEW l \in LobbyIds, w.lobbies[l] # None,
           NEW lobby, SaneLobby(lobby), lobby.members = w.lobbies[l].members
    PROVE  Sane(Revised(w, l, lobby))
  <1> DEFINE r == Revised(w, l, lobby)
  <1>1. w \in Worlds
    BY DEF Sane
  <1>2. lobby # None /\ lobby \in Lobby /\ ToldOf(lobby) \in Told
    BY NullAssumption DEF SaneLobby, ToldOf, Lobby, Told
  <1>3. /\ r.lobbies = [w.lobbies EXCEPT ![l] = lobby]
        /\ r.playerLobby = w.playerLobby
        /\ r.told = [w.told EXCEPT ![l] = ToldOf(lobby)]
        /\ r.revision = [w.revision EXCEPT ![l] = @ + 1]
        /\ r.view = w.view
        /\ r \in Worlds
    BY <1>1, <1>2 DEF Revised, Worlds
  <1> HIDE DEF r
  <1>4. SanePlaces(r)
    BY <1>1, <1>2, <1>3 DEF Sane, SanePlaces, Worlds
  <1>5. Updated(w, r, {l})
    <2>1. r.lobbies[l] # None /\ r.revision[l] > w.revision[l]
      BY <1>1, <1>2, <1>3 DEF Worlds
    <2>2. QED
      BY <1>1, <1>2, <1>3, <2>1 DEF Updated, Worlds
  <1>6. Sane(r)
    BY <1>3, <1>4, <1>5, UpdateSane
  <1>7. QED
    BY <1>6 DEF r

LEMMA ReviseRecord ==
    ASSUME NEW w \in Worlds, NEW l, NEW lobby
    PROVE  Revise(w, l, lobby) =
              [lobbies |-> [w.lobbies EXCEPT ![l] = lobby],
               playerLobby |-> w.playerLobby, told |-> w.told,
               revision |-> [w.revision EXCEPT ![l] = @ + 1],
               view |-> w.view]
  <1> DEFINE ls == [w.lobbies EXCEPT ![l] = lobby]
             ns == [w.revision EXCEPT ![l] = @ + 1]
             v == Revise(w, l, lobby)
  <1>1. v = [w EXCEPT !.lobbies = ls, !.revision = ns]
    BY DEF Revise, Worlds
  <1> HIDE DEF ls, ns, v
  <1>2. v = [lobbies |-> ls, playerLobby |-> w.playerLobby,
             told |-> w.told, revision |-> ns, view |-> w.view]
    BY <1>1 DEF Worlds
  <1>3. QED
    BY <1>2 DEF ls, ns, v

LEMMA ReviseFields ==
    ASSUME NEW w \in Worlds, NEW l, NEW lobby
    PROVE  Revise(w, l, lobby).told = w.told
  <1> DEFINE ls == [w.lobbies EXCEPT ![l] = lobby]
             ns == [w.revision EXCEPT ![l] = @ + 1]
             r == Revise(w, l, lobby)
  <1>1. r = [lobbies |-> ls, playerLobby |-> w.playerLobby, told |-> w.told,
             revision |-> ns, view |-> w.view]
    BY ReviseRecord
  <1> HIDE DEF ls, ns, r
  <1>2. r.told = w.told
    BY <1>1
  <1>3. QED
    BY <1>2 DEF r

\* A change the event messages do not tell.
LEMMA ReviseSane ==
    ASSUME NEW w, Sane(w), NEW l \in LobbyIds, w.lobbies[l] # None,
           NEW lobby, SaneLobby(lobby), lobby.members = w.lobbies[l].members,
           lobby.host = w.lobbies[l].host, lobby.locked = w.lobbies[l].locked
    PROVE  Sane(Revise(w, l, lobby))
  <1>1. w \in Worlds /\ w.told[l] = ToldOf(w.lobbies[l])
    BY DEF Sane, SaneLobbies
  <1>2. ToldOf(lobby) = w.told[l]
    BY <1>1 DEF ToldOf
  <1>3. w.told = [w.told EXCEPT ![l] = ToldOf(lobby)]
    BY <1>1, <1>2 DEF Worlds
  <1>4. Revise(w, l, lobby) = Revised(w, l, lobby)
    BY <1>1, <1>3, ReviseRecord DEF Revised
  <1>5. QED
    BY <1>4, RevisedSane

\* A change the event messages tell.
LEMMA ReviseToldSane ==
    ASSUME NEW w, Sane(w), NEW l \in LobbyIds, w.lobbies[l] # None,
           NEW lobby, SaneLobby(lobby), lobby.members = w.lobbies[l].members,
           NEW r, r = [Revise(w, l, lobby) EXCEPT
                          !.told = [w.told EXCEPT ![l] = ToldOf(lobby)]]
    PROVE  Sane(r)
  <1>1. w \in Worlds
    BY DEF Sane
  <1> DEFINE v == Revise(w, l, lobby)
             ls == [w.lobbies EXCEPT ![l] = lobby]
             ns == [w.revision EXCEPT ![l] = @ + 1]
             ts == [w.told EXCEPT ![l] = ToldOf(lobby)]
  <1>2. /\ v = [lobbies |-> ls, playerLobby |-> w.playerLobby,
                told |-> w.told, revision |-> ns, view |-> w.view]
        /\ r = [v EXCEPT !.told = ts]
    BY <1>1, ReviseRecord
  <1> HIDE DEF v, ls, ns, ts
  <1>3. r = [lobbies |-> ls, playerLobby |-> w.playerLobby,
             told |-> ts, revision |-> ns, view |-> w.view]
    BY <1>2
  <1>4. r = Revised(w, l, lobby)
    BY <1>3 DEF Revised, ls, ns, ts
  <1>5. QED
    BY <1>4, RevisedSane

LEMMA CloseSane ==
    ASSUME NEW w, Sane(w), NEW l \in LobbyIds, w.lobbies[l] # None
    PROVE  Sane(Close(w, l))
  <1> DEFINE r == Close(w, l)
  <1>1. w \in Worlds
    BY DEF Sane
  <1>2. /\ r.lobbies = [w.lobbies EXCEPT ![l] = None]
        /\ r.playerLobby = [p \in Players |-> IF p \in w.lobbies[l].members
                                              THEN None ELSE w.playerLobby[p]]
        /\ r.told = [w.told EXCEPT ![l] = None]
        /\ r.revision = [w.revision EXCEPT ![l] = 0]
        /\ r.view = Forget(w.view, {l})
    BY DEF Close
  <1>3. r \in Worlds
    BY <1>1, ForgetViews DEF Close, Worlds
  <1> HIDE DEF r
  <1>4. SanePlaces(r)
    BY <1>1, <1>2, NoneAssumption DEF Sane, SanePlaces, Worlds
  <1>5. Updated(w, r, {l})
    BY <1>1, <1>2, ForgetViews DEF Updated, Worlds
  <1>6. Sane(r)
    BY <1>3, <1>4, <1>5, UpdateSane
  <1>7. QED
    BY <1>6 DEF r

\* A member other than the host leaves.
LEMMA RemoveSane ==
    ASSUME NEW w, Sane(w), NEW l \in LobbyIds, w.lobbies[l] # None,
           NEW p \in Players, p # w.lobbies[l].host, w.playerLobby[p] = l
    PROVE  Sane(RemoveMember(w, l, p))
  <1> DEFINE lobby == Without(w.lobbies[l], {p})
             r == RemoveMember(w, l, p)
  <1>1. w \in Worlds /\ SaneLobby(w.lobbies[l]) /\ w.told[l] = ToldOf(w.lobbies[l])
    BY DEF Sane, SaneLobbies
  <1>2. /\ SaneLobby(lobby)
        /\ lobby.members = w.lobbies[l].members \ {p}
        /\ lobby.host = w.lobbies[l].host
        /\ lobby.locked = w.lobbies[l].locked
    BY <1>1, WithoutSane
  <1>3. lobby # None /\ lobby \in Lobby
    BY <1>2, NullAssumption DEF SaneLobby
  <1>4. [w.told[l] EXCEPT !.members = @ \ {p}] = ToldOf(lobby)
    <2>1. ToldOf(lobby) = [host |-> w.lobbies[l].host,
                           members |-> w.lobbies[l].members \ {p},
                           locked |-> w.lobbies[l].locked]
      BY <1>2 DEF ToldOf
    <2>2. QED
      BY <1>1, <2>1 DEF ToldOf
  <1>5. /\ r.lobbies = [w.lobbies EXCEPT ![l] = lobby]
        /\ r.playerLobby = [w.playerLobby EXCEPT ![p] = None]
        /\ r.told = [w.told EXCEPT ![l] = ToldOf(lobby)]
        /\ r.revision = [w.revision EXCEPT ![l] = @ + 1]
        /\ r.view = w.view
        /\ r = [lobbies |-> r.lobbies, playerLobby |-> r.playerLobby,
                told |-> r.told, revision |-> r.revision, view |-> r.view]
    <2> HIDE DEF lobby
    <2>1. r = [Revise(w, l, lobby) EXCEPT
                 !.playerLobby[p] = None,
                 !.told[l].members = @ \ {p}]
      BY DEF RemoveMember, lobby
    <2> DEFINE v == Revise(w, l, lobby)
               told1 == [w.told[l] EXCEPT !.members = @ \ {p}]
               ns == [w.revision EXCEPT ![l] = @ + 1]
    <2>2. v = [lobbies |-> [w.lobbies EXCEPT ![l] = lobby],
               playerLobby |-> w.playerLobby, told |-> w.told,
               revision |-> ns, view |-> w.view]
      BY <1>1, ReviseRecord
    <2>3. r = [v EXCEPT !.playerLobby = [w.playerLobby EXCEPT ![p] = None],
                        !.told = [w.told EXCEPT ![l] = told1]]
      BY <2>1, <2>2
    <2>4. told1 = ToldOf(lobby)
      BY <1>4
    <2> HIDE DEF v, told1, ns, r
    <2>5. QED
      BY <2>2, <2>3, <2>4 DEF ns
  <1> HIDE DEF lobby, r
  <1>6. ToldOf(lobby) \in Told
    BY <1>3 DEF ToldOf, Told, Lobby
  <1>7. r \in Worlds
    <2>1. /\ r.lobbies \in [LobbyIds -> Lobby \cup {None}]
          /\ r.playerLobby \in [Players -> LobbyIds \cup {None}]
          /\ r.told \in [LobbyIds -> Told \cup {None}]
          /\ r.revision \in [LobbyIds -> Nat]
          /\ r.view \in [Players -> Views \cup {None}]
      BY <1>1, <1>3, <1>5, <1>6 DEF Worlds
    <2>2. QED
      BY <1>5, <2>1 DEF Worlds
  <1>8. SanePlaces(r)
    BY <1>1, <1>2, <1>3, <1>5, NoneAssumption DEF Sane, SanePlaces, Worlds
  <1>9. Updated(w, r, {l})
    <2>1. r.lobbies[l] # None /\ r.revision[l] > w.revision[l]
      BY <1>1, <1>3, <1>5 DEF Worlds
    <2>2. QED
      BY <1>1, <1>2, <1>3, <1>5, <2>1 DEF Updated, Worlds
  <1>10. Sane(r)
    BY <1>7, <1>8, <1>9, UpdateSane
  <1>11. QED
    BY <1>10 DEF r

\* The response shows the lobby as it is.
LEMMA ShowSane ==
    ASSUME NEW w, Sane(w), NEW p \in Players
    PROVE  Sane(Show(w, p))
  <1> DEFINE r == Show(w, p)
             l == w.playerLobby[p]
             seen == IF LobbyOf(w, p) = None THEN None
                     ELSE [id |-> l, revision |-> w.revision[l],
                           lobby |-> w.lobbies[l]]
  <1>1. w \in Worlds /\ l \in LobbyIds \cup {None}
    BY DEF Sane, Worlds
  <1>2. CASE LobbyOf(w, p) = None
    <2>1. seen = None
      BY <1>2
    <2>2. QED
      <3> HIDE DEF seen
      <3>1. /\ r.lobbies = w.lobbies /\ r.playerLobby = w.playerLobby
            /\ r.told = w.told /\ r.revision = w.revision
            /\ r.view = [w.view EXCEPT ![p] = seen]
            /\ r \in Worlds
        BY <1>1, <2>1 DEF Show, Worlds, seen
      <3> HIDE DEF r
      <3>2. SaneLobbies(r) /\ SanePlaces(r)
        BY <3>1 DEF Sane, SaneLobbies, SanePlaces
      <3>3. SaneViews(r)
        BY <1>1, <2>1, <3>1 DEF Sane, SaneViews, Worlds
      <3>4. QED
        BY <3>1, <3>2, <3>3 DEF Sane, r
  <1>3. CASE LobbyOf(w, p) # None
    <2>1. /\ l \in LobbyIds /\ w.lobbies[l] # None /\ w.lobbies[l] \in Lobby
          /\ w.revision[l] \in Nat
      BY <1>1, <1>3 DEF LobbyOf, Worlds
    <2>2. seen = [id |-> l, revision |-> w.revision[l], lobby |-> w.lobbies[l]]
      BY <1>3
    <2>3. /\ seen \in Views /\ seen.id = l /\ seen.lobby = w.lobbies[l]
          /\ seen.revision = w.revision[l]
      <3> HIDE DEF l, seen
      <3>1. QED
        BY <2>1, <2>2 DEF Views
    <2>4. r = [w EXCEPT !.view = [w.view EXCEPT ![p] = seen]]
      BY DEF Show
    <2> HIDE DEF seen, l, r
    <2>5. /\ r.lobbies = w.lobbies /\ r.playerLobby = w.playerLobby
          /\ r.told = w.told /\ r.revision = w.revision
          /\ r.view = [w.view EXCEPT ![p] = seen]
          /\ r \in Worlds
      BY <1>1, <2>3, <2>4 DEF Worlds
    <2>6. SaneLobbies(r) /\ SanePlaces(r)
      BY <2>5 DEF Sane, SaneLobbies, SanePlaces
    <2>7. SaneViews(r)
      BY <1>1, <2>1, <2>3, <2>5 DEF Sane, SaneViews, Worlds
    <2>8. QED
      BY <2>5, <2>6, <2>7 DEF Sane, r
  <1>4. QED
    BY <1>2, <1>3

-----------------------------------------------------------------------------
(***************************************************************************)
(* What the reload and the cleanup do to the lobbies.                      *)
(***************************************************************************)
LEMMA PruneSane ==
    ASSUME NEW w, Sane(w), NEW keep
    PROVE  Sane(Prune(w, keep))
  <1> DEFINE Opened == {l \in LobbyIds : w.lobbies[l] # None}
             closing == {l \in Opened : w.lobbies[l].host \notin keep}
             leaving(l) == w.lobbies[l].members \ keep
             left(l) == Without(w.lobbies[l], leaving(l))
             ls == {l \in Opened : l \in closing \/ leaving(l) # {}}
             r == Prune(w, keep)
  <1>1. w \in Worlds
    BY DEF Sane
  <1>2. \A l \in Opened : SaneLobby(w.lobbies[l]) /\ w.told[l] = ToldOf(w.lobbies[l])
    BY DEF Sane, SaneLobbies
  <1>3. \A l \in Opened \ closing :
           /\ SaneLobby(left(l))
           /\ left(l).members = w.lobbies[l].members \ leaving(l)
           /\ left(l).host = w.lobbies[l].host
           /\ left(l).locked = w.lobbies[l].locked
    BY <1>2, WithoutSane
  <1>4. \A l \in Opened \ closing :
           /\ left(l) # None /\ left(l) \in Lobby
           /\ ToldOf(left(l)) \in Told
           /\ [w.told[l] EXCEPT !.members = @ \ leaving(l)] = ToldOf(left(l))
    <2> SUFFICES ASSUME NEW l \in Opened \ closing
                 PROVE  /\ left(l) # None /\ left(l) \in Lobby
                        /\ ToldOf(left(l)) \in Told
                        /\ [w.told[l] EXCEPT !.members = @ \ leaving(l)]
                              = ToldOf(left(l))
      OBVIOUS
    <2> DEFINE lobby == left(l)
    <2>1. /\ SaneLobby(lobby)
          /\ lobby.members = w.lobbies[l].members \ leaving(l)
          /\ lobby.host = w.lobbies[l].host
          /\ lobby.locked = w.lobbies[l].locked
      BY <1>3
    <2>2. w.told[l] = [host |-> w.lobbies[l].host,
                       members |-> w.lobbies[l].members,
                       locked |-> w.lobbies[l].locked]
      BY <1>2 DEF ToldOf
    <2> HIDE DEF lobby, left, Opened, closing
    <2>3. lobby # None /\ lobby \in Lobby /\ ToldOf(lobby) \in Told
      BY <2>1, NullAssumption DEF SaneLobby, ToldOf, Lobby, Told
    <2>4. [w.told[l] EXCEPT !.members = @ \ leaving(l)] = ToldOf(lobby)
      BY <2>1, <2>2 DEF ToldOf
    <2>5. QED
      BY <2>3, <2>4 DEF lobby
  <1>5. \A l \in Opened \ ls : l \notin closing /\ left(l) = w.lobbies[l]
    <2>1. \A l \in Opened \ ls : l \notin closing /\ leaving(l) = {}
      OBVIOUS
    <2>2. ASSUME NEW lobby \in Lobby PROVE Without(lobby, {}) = lobby
      BY DEF Without, Lobby
    <2>3. \A l \in Opened : w.lobbies[l] \in Lobby
      BY <1>2 DEF SaneLobby
    <2>4. QED
      BY <2>1, <2>2, <2>3
  <1>6. /\ \A l \in LobbyIds : /\ l \in closing => r.lobbies[l] = None /\ r.told[l] = None
                               /\ l \in Opened \ closing =>
                                     r.lobbies[l] = left(l) /\ r.told[l] = ToldOf(left(l))
                               /\ l \notin Opened =>
                                     r.lobbies[l] = None /\ r.told[l] = w.told[l]
        /\ \A p \in Players :
              r.playerLobby[p] = IF \E l \in Opened : /\ p \in w.lobbies[l].members
                                                      /\ l \in closing \/ p \notin keep
                                 THEN None ELSE w.playerLobby[p]
        /\ \A l \in LobbyIds :
              r.revision[l] = IF l \in closing THEN 0
                              ELSE IF l \in Opened
                              THEN w.revision[l] + Cardinality(leaving(l))
                              ELSE w.revision[l]
        /\ r.view = Forget(w.view, closing)
        /\ r = [lobbies |-> [l \in LobbyIds |-> r.lobbies[l]],
                playerLobby |-> [p \in Players |-> r.playerLobby[p]],
                told |-> [l \in LobbyIds |-> r.told[l]],
                revision |-> [l \in LobbyIds |-> r.revision[l]],
                view |-> r.view]
    BY <1>4 DEF Prune
  <1>11. \A l \in Opened :
            /\ Cardinality(leaving(l)) \in Nat
            /\ leaving(l) # {} => Cardinality(leaving(l)) > 0
            /\ leaving(l) = {} => Cardinality(leaving(l)) = 0
    <2>1. \A l \in Opened : leaving(l) \in SUBSET Players
      BY <1>2 DEF SaneLobby, Lobby
    <2>2. ASSUME NEW S \in SUBSET Players
          PROVE  /\ Cardinality(S) \in Nat
                 /\ S # {} => Cardinality(S) > 0
                 /\ S = {} => Cardinality(S) = 0
      <3>1. IsFiniteSet(S) /\ Cardinality(S) \in Nat
        BY MembersFinite
      <3>2. Cardinality(S) = 0 <=> S = {}
        BY <3>1, FS_EmptySet
      <3>3. QED
        BY <3>1, <3>2
    <2> HIDE DEF leaving, Opened
    <2>3. QED
      BY <2>1, <2>2
  <1> HIDE DEF r, left
  <1>7. r \in Worlds
    <2>1. /\ w.told \in [LobbyIds -> Told \cup {None}]
          /\ w.playerLobby \in [Players -> LobbyIds \cup {None}]
          /\ w.view \in [Players -> Views \cup {None}]
      BY <1>1 DEF Worlds
    <2>2. \A l \in LobbyIds : /\ r.lobbies[l] \in Lobby \cup {None}
                              /\ r.told[l] \in Told \cup {None}
      BY <1>4, <1>6, <2>1
    <2>3. \A p \in Players : r.playerLobby[p] \in LobbyIds \cup {None}
      BY <1>6, <2>1
    <2>4. r.view \in [Players -> Views \cup {None}]
      BY <1>6, <2>1, ForgetViews
    <2>7. \A l \in LobbyIds : r.revision[l] \in Nat
      <3>1. w.revision \in [LobbyIds -> Nat]
        BY <1>1 DEF Worlds
      <3> HIDE DEF leaving, Opened, closing
      <3>2. QED
        BY <1>6, <1>11, <3>1
    <2> DEFINE f == [l \in LobbyIds |-> r.lobbies[l]]
               g == [p \in Players |-> r.playerLobby[p]]
               h == [l \in LobbyIds |-> r.told[l]]
               n == [l \in LobbyIds |-> r.revision[l]]
               v == r.view
    <2>5. /\ f \in [LobbyIds -> Lobby \cup {None}]
          /\ g \in [Players -> LobbyIds \cup {None}]
          /\ h \in [LobbyIds -> Told \cup {None}]
          /\ n \in [LobbyIds -> Nat]
          /\ v \in [Players -> Views \cup {None}]
          /\ r = [lobbies |-> f, playerLobby |-> g, told |-> h,
                  revision |-> n, view |-> v]
      BY <1>6, <2>2, <2>3, <2>4, <2>7
    <2> HIDE DEF f, g, h, n, v
    <2>6. QED
      BY <2>5 DEF Worlds
  <1>8. Updated(w, r, ls)
    <2>1. \A l \in LobbyIds \ ls : r.lobbies[l] = w.lobbies[l] /\ r.told[l] = w.told[l]
      BY <1>2, <1>5, <1>6
    <2>2. \A l \in ls : IF r.lobbies[l] = None THEN r.told[l] = None
                        ELSE SaneLobby(r.lobbies[l]) /\ r.told[l] = ToldOf(r.lobbies[l])
      BY <1>3, <1>4, <1>6
    <2>3. w.revision \in [LobbyIds -> Nat] /\ w.view \in [Players -> Views \cup {None}]
      BY <1>1 DEF Worlds
    <2>4. \A l \in LobbyIds \ ls : r.revision[l] = w.revision[l]
      <3>1. \A l \in LobbyIds \ ls : l \in Opened => leaving(l) = {} /\ l \notin closing
        OBVIOUS
      <3>2. \A l \in LobbyIds : l \in closing => l \in Opened
        OBVIOUS
      <3> HIDE DEF leaving, Opened, closing, ls
      <3>3. QED
        BY <1>6, <1>11, <2>3, <3>1, <3>2
    <2>5. \A l \in ls : r.lobbies[l] # None => r.revision[l] > w.revision[l]
      <3>1. \A l \in ls : /\ l \in LobbyIds /\ l \in Opened
                          /\ l \notin closing => leaving(l) # {}
        OBVIOUS
      <3>2. \A l \in ls : r.lobbies[l] # None => l \notin closing
        BY <1>6
      <3> HIDE DEF leaving, Opened, closing, ls
      <3>3. QED
        BY <1>6, <1>11, <2>3, <3>1, <3>2
    <2>6. \A p \in Players, l \in LobbyIds :
             r.view[p] # None /\ r.view[p].id = l =>
                 r.view[p] = w.view[p] /\ l \notin closing
      BY <1>6, <2>3, ForgetViews
    <2>7. \A l \in ls : l \notin closing => r.lobbies[l] # None
      BY <1>4, <1>6
    <2>8. ls \subseteq LobbyIds
      OBVIOUS
    <2> HIDE DEF leaving, Opened, closing, ls
    <2>9. QED
      BY <2>1, <2>2, <2>4, <2>5, <2>6, <2>7, <2>8 DEF Updated
  <1>9. SanePlaces(r)
    <2> SUFFICES ASSUME NEW p \in Players, NEW l \in LobbyIds
                 PROVE  r.playerLobby[p] = l
                          <=> r.lobbies[l] # None /\ p \in r.lobbies[l].members
      BY DEF SanePlaces
    <2>1. \A k \in LobbyIds :
             w.playerLobby[p] = k <=> k \in Opened /\ p \in w.lobbies[k].members
      BY DEF Sane, SanePlaces
    <2>2. r.lobbies[l] # None /\ p \in r.lobbies[l].members
            <=> /\ l \in Opened \ closing /\ p \in w.lobbies[l].members
                /\ p \in keep
      BY <1>3, <1>4, <1>6
    <2>3. r.playerLobby[p] = l
            <=> /\ w.playerLobby[p] = l /\ l \notin closing /\ p \in keep
      BY <1>6, <2>1, NoneAssumption
    <2>4. QED
      BY <2>1, <2>2, <2>3
  <1>10. QED
    BY <1>7, <1>8, <1>9, UpdateSane DEF r

-----------------------------------------------------------------------------
(***************************************************************************)
(* A place taken.                                                          *)
(***************************************************************************)
LEMMA OpenedSane ==
    ASSUME NEW w, Sane(w), NEW l \in LobbyIds, w.lobbies[l] = None,
           NEW p \in Players, LobbyOf(w, p) = None,
           NEW c \in Capacities, NEW s \in Settings
    PROVE  LET r == [w EXCEPT !.lobbies[l] = NewLobby(p, c, s),
                              !.playerLobby[p] = l,
                              !.revision[l] = 1,
                              !.told[l] = [host |-> p, members |-> {p},
                                           locked |-> FALSE]]
           IN  Sane(r)
  <1> DEFINE lobby == NewLobby(p, c, s)
             said == [host |-> p, members |-> {p}, locked |-> FALSE]
             ls == [w.lobbies EXCEPT ![l] = lobby]
             ps == [w.playerLobby EXCEPT ![p] = l]
             ts == [w.told EXCEPT ![l] = said]
             ns == [w.revision EXCEPT ![l] = 1]
             r == [w EXCEPT !.lobbies = ls, !.playerLobby = ps,
                            !.revision = ns, !.told = ts]
  <1>1. w \in Worlds
    BY DEF Sane
  <1>2. /\ lobby \in Lobby /\ lobby.members = {p} /\ lobby.host = p
        /\ lobby.ready = {} /\ lobby.capacity = c /\ lobby.locked = FALSE
    BY DEF NewLobby, Lobby, Phases
  <1>3. SaneLobby(lobby)
    <2>1. Cardinality({p}) = 1 /\ c \in Nat \ {0, 1}
      BY FS_Singleton, CapacityAssumption
    <2>2. Cardinality(lobby.members) <= lobby.capacity
      BY <1>2, <2>1
    <2>3. QED
      BY <1>2, <2>2 DEF SaneLobby
  <1>4. said = ToldOf(lobby) /\ said \in Told /\ lobby # None
    BY <1>2, NullAssumption DEF ToldOf, Told
  <1> HIDE DEF lobby, said
  <1>5. /\ ls \in [LobbyIds -> Lobby \cup {None}]
        /\ ps \in [Players -> LobbyIds \cup {None}]
        /\ ts \in [LobbyIds -> Told \cup {None}]
        /\ ns \in [LobbyIds -> Nat]
    BY <1>1, <1>2, <1>4 DEF Worlds
  <1>6. /\ r.lobbies = ls /\ r.playerLobby = ps /\ r.told = ts
        /\ r.revision = ns /\ r.view = w.view
        /\ r \in Worlds
    <2> HIDE DEF ls, ps, ts, ns
    <2>1. QED
      BY <1>1, <1>5 DEF Worlds
  <1> HIDE DEF r
  <1>7. SaneLobbies(r)
    BY <1>1, <1>3, <1>4, <1>6 DEF Sane, SaneLobbies, Worlds
  <1>8. \A k \in LobbyIds : w.lobbies[k] # None => p \notin w.lobbies[k].members
    BY NoneAssumption DEF Sane, SanePlaces, LobbyOf
  <1>9. SanePlaces(r)
    <2> SUFFICES ASSUME NEW q \in Players, NEW k \in LobbyIds
                 PROVE  r.playerLobby[q] = k
                          <=> r.lobbies[k] # None /\ q \in r.lobbies[k].members
      BY DEF SanePlaces
    <2>1. w.playerLobby[q] = k <=> w.lobbies[k] # None /\ q \in w.lobbies[k].members
      BY DEF Sane, SanePlaces
    <2>2. r.playerLobby[q] = IF q = p THEN l ELSE w.playerLobby[q]
      BY <1>1, <1>6 DEF Worlds
    <2>3. r.lobbies[k] = IF k = l THEN lobby ELSE w.lobbies[k]
      BY <1>1, <1>6 DEF Worlds
    <2>4. QED
      BY <1>2, <1>4, <1>8, <2>1, <2>2, <2>3
  <1>10. SaneViews(r)
    <2> SUFFICES ASSUME NEW q \in Players, NEW k \in LobbyIds,
                        r.view[q] # None, r.view[q].id = k
                 PROVE  /\ r.lobbies[k] # None
                        /\ r.view[q].revision <= r.revision[k]
                        /\ r.view[q].revision = r.revision[k]
                              => r.view[q].lobby = r.lobbies[k]
      BY DEF SaneViews
    <2>1. /\ w.lobbies[k] # None
          /\ w.view[q].revision <= w.revision[k]
          /\ w.view[q].revision = w.revision[k] => w.view[q].lobby = w.lobbies[k]
      BY <1>6 DEF Sane, SaneViews
    <2>2. r.lobbies[k] = w.lobbies[k] /\ r.revision[k] = w.revision[k]
      BY <1>1, <1>6, <2>1 DEF Worlds
    <2>3. QED
      BY <1>6, <2>1, <2>2
  <1>11. Sane(r)
    BY <1>6, <1>7, <1>9, <1>10 DEF Sane
  <1>12. QED
    BY <1>11 DEF r, lobby, said

LEMMA JoinedSane ==
    ASSUME NEW w, Sane(w), NEW l \in LobbyIds, w.lobbies[l] # None,
           NEW p \in Players, w.playerLobby[p] = None, MayJoin(w.lobbies[l])
    PROVE  LET r == [Revise(w, l, [w.lobbies[l] EXCEPT !.members = @ \cup {p}])
                        EXCEPT !.playerLobby[p] = l,
                               !.told[l].members = @ \cup {p}]
           IN  Sane(r)
  <1> DEFINE old == w.lobbies[l]
             lobby == [old EXCEPT !.members = @ \cup {p}]
             said == [w.told[l] EXCEPT !.members = @ \cup {p}]
             v == Revise(w, l, lobby)
             ls == [w.lobbies EXCEPT ![l] = lobby]
             ps == [w.playerLobby EXCEPT ![p] = l]
             ts == [w.told EXCEPT ![l] = said]
             ns == [w.revision EXCEPT ![l] = @ + 1]
             r == [v EXCEPT !.playerLobby[p] = l, !.told[l].members = @ \cup {p}]
  <1>1. w \in Worlds /\ SaneLobby(old) /\ w.told[l] = ToldOf(old)
    BY DEF Sane, SaneLobbies
  <1>2. /\ lobby \in Lobby /\ lobby.members = old.members \cup {p}
        /\ lobby.host = old.host /\ lobby.ready = old.ready
        /\ lobby.capacity = old.capacity /\ lobby.locked = old.locked
    <2> HIDE DEF old
    <2>1. QED
      BY <1>1 DEF SaneLobby, Lobby
  <1>3. SaneLobby(lobby)
    <2>1. old.members \in SUBSET Players /\ old.capacity \in Nat
      BY <1>1, CapacityAssumption DEF SaneLobby, Lobby
    <2>2. IsFiniteSet(old.members) /\ Cardinality(old.members) \in Nat
      BY <2>1, MembersFinite
    <2>3. Cardinality(old.members) < old.capacity
      BY DEF MayJoin
    <2>4. \/ Cardinality(old.members \cup {p}) = Cardinality(old.members)
          \/ Cardinality(old.members \cup {p}) = Cardinality(old.members) + 1
      BY <2>2, FS_AddElement
    <2>5. Cardinality(lobby.members) <= lobby.capacity
      BY <1>2, <2>1, <2>2, <2>3, <2>4
    <2>6. QED
      BY <1>1, <1>2, <2>5 DEF SaneLobby
  <1>4. said = ToldOf(lobby)
    <2>1. w.told[l] = [host |-> old.host, members |-> old.members,
                       locked |-> old.locked]
      BY <1>1 DEF ToldOf
    <2> HIDE DEF old, lobby
    <2>2. QED
      BY <1>2, <2>1 DEF ToldOf
  <1>5. lobby # None /\ said \in Told
    BY <1>2, <1>4, NullAssumption DEF ToldOf, Told, Lobby
  <1>6. /\ r.lobbies = ls /\ r.playerLobby = ps /\ r.told = ts
        /\ r.revision = ns /\ r.view = w.view
        /\ r = [lobbies |-> ls, playerLobby |-> ps, told |-> ts,
                revision |-> ns, view |-> w.view]
    <2>1. v = [lobbies |-> ls, playerLobby |-> w.playerLobby,
               told |-> w.told, revision |-> ns, view |-> w.view]
      BY <1>1, ReviseRecord
    <2>2. v.playerLobby = w.playerLobby /\ v.told = w.told
      <3> HIDE DEF v, ls, ns
      <3>1. QED
        BY <2>1
    <2>3. r = [v EXCEPT !.playerLobby = ps, !.told = ts]
      <3> HIDE DEF v
      <3>1. QED
        BY <2>2
    <2> HIDE DEF r, v, ls, ps, ts, ns
    <2>4. QED
      BY <2>1, <2>3
  <1> HIDE DEF lobby, said, r
  <1>7. /\ ls \in [LobbyIds -> Lobby \cup {None}]
        /\ ps \in [Players -> LobbyIds \cup {None}]
        /\ ts \in [LobbyIds -> Told \cup {None}]
        /\ ns \in [LobbyIds -> Nat]
    BY <1>1, <1>2, <1>5 DEF Worlds
  <1>8. r \in Worlds
    <2> HIDE DEF ls, ps, ts, ns
    <2>1. QED
      BY <1>1, <1>6, <1>7 DEF Worlds
  <1>9. Updated(w, r, {l})
    <2>1. r.lobbies[l] # None /\ r.revision[l] > w.revision[l]
      BY <1>1, <1>5, <1>6 DEF Worlds
    <2>2. QED
      BY <1>1, <1>3, <1>4, <1>5, <1>6, <2>1 DEF Updated, Worlds
  <1>10. SanePlaces(r)
    <2> SUFFICES ASSUME NEW q \in Players, NEW k \in LobbyIds
                 PROVE  r.playerLobby[q] = k
                          <=> r.lobbies[k] # None /\ q \in r.lobbies[k].members
      BY DEF SanePlaces
    <2>1. /\ w.playerLobby[q] = k
               <=> w.lobbies[k] # None /\ q \in w.lobbies[k].members
          /\ w.playerLobby[p] = k
               <=> w.lobbies[k] # None /\ p \in w.lobbies[k].members
      BY DEF Sane, SanePlaces
    <2>2. r.playerLobby[q] = IF q = p THEN l ELSE w.playerLobby[q]
      BY <1>1, <1>6 DEF Worlds
    <2>3. r.lobbies[k] = IF k = l THEN lobby ELSE w.lobbies[k]
      BY <1>1, <1>6 DEF Worlds
    <2>4. QED
      BY <1>2, <1>5, <2>1, <2>2, <2>3, NoneAssumption
  <1>11. Sane(r)
    BY <1>8, <1>9, <1>10, UpdateSane
  <1>12. QED
    BY <1>11 DEF r, lobby, said

-----------------------------------------------------------------------------
(***************************************************************************)
(* The steps.  A handler that ends in Become or Reply leaves a sane world. *)
(***************************************************************************)
LEMMA BecomeSane ==
    ASSUME NEW w, Sane(w), Become(w)
    PROVE  Sane(World)'
  <1>1. w \in Worlds
    BY DEF Sane
  <1>2. /\ lobbies' \in [LobbyIds -> Lobby \cup {None}]
        /\ playerLobby' \in [Players -> LobbyIds \cup {None}]
        /\ told' \in [LobbyIds -> Told \cup {None}]
        /\ revision' \in [LobbyIds -> Nat]
        /\ view' \in [Players -> Views \cup {None}]
    BY <1>1 DEF Worlds, Become
  <1>3. World' \in Worlds
    BY <1>2 DEF World, Worlds
  <1>4. SaneLobbies(World)'
    BY DEF Sane, SaneLobbies, World, Become
  <1>5. SanePlaces(World)'
    BY DEF Sane, SanePlaces, World, Become
  <1>6. SaneViews(World)'
    BY DEF Sane, SaneViews, World, Become
  <1>7. QED
    BY <1>3, <1>4, <1>5, <1>6 DEF Sane

LEMMA ReplySane ==
    ASSUME NEW w, Sane(w), NEW p \in Players, Reply(w, p)
    PROVE  Sane(World)'
  <1>1. Become(Show(w, p)) \/ Become(w)
    BY DEF Reply
  <1>2. Sane(Show(w, p))
    BY ShowSane
  <1>3. QED
    BY <1>1, <1>2, BecomeSane

\* The lobby a player is in.
LEMMA OwnLobby ==
    ASSUME NEW w, Sane(w), NEW p \in Players, LobbyOf(w, p) # None
    PROVE  /\ w.playerLobby[p] \in LobbyIds
           /\ LobbyOf(w, p) = w.lobbies[w.playerLobby[p]]
           /\ SaneLobby(LobbyOf(w, p))
           /\ p \in LobbyOf(w, p).members
  <1>1. w \in Worlds
    BY DEF Sane
  <1>2. w.playerLobby[p] \in LobbyIds /\ LobbyOf(w, p) = w.lobbies[w.playerLobby[p]]
    BY <1>1 DEF LobbyOf, Worlds
  <1>3. QED
    BY <1>2 DEF Sane, SaneLobbies, SanePlaces

\* The fields of an open lobby the handlers change.
LEMMA ReadyChanged ==
    ASSUME NEW lobby, SaneLobby(lobby), NEW ready \in SUBSET lobby.members,
           NEW new, new = [lobby EXCEPT !.ready = ready]
    PROVE  /\ SaneLobby(new)
           /\ new.members = lobby.members /\ new.host = lobby.host
           /\ new.locked = lobby.locked
  BY DEF SaneLobby, Lobby

LEMMA LockChanged ==
    ASSUME NEW lobby, SaneLobby(lobby), NEW locked \in BOOLEAN,
           NEW new, new = [lobby EXCEPT !.locked = locked]
    PROVE  /\ SaneLobby(new)
           /\ new.members = lobby.members /\ new.host = lobby.host
           /\ new.locked = locked
  BY DEF SaneLobby, Lobby

LEMMA HostChanged ==
    ASSUME NEW lobby, SaneLobby(lobby), NEW host \in lobby.members,
           NEW new, new = [lobby EXCEPT !.host = host]
    PROVE  /\ SaneLobby(new)
           /\ new.members = lobby.members /\ new.host = host
           /\ new.locked = lobby.locked
  BY DEF SaneLobby, Lobby

LEMMA ConfiguredSane ==
    ASSUME NEW lobby, SaneLobby(lobby), NEW c \in Capacities, NEW s \in Settings,
           c >= Cardinality(lobby.members)
    PROVE  LET new == Configured(lobby, c, s)
           IN  /\ SaneLobby(new)
               /\ new.members = lobby.members /\ new.host = lobby.host
               /\ new.locked = lobby.locked
  <1>1. lobby \in Lobby
    BY DEF SaneLobby
  <1> DEFINE other == [lobby EXCEPT !.capacity = c, !.settings = s,
                                    !.ready = {}, !.phase = "gathering"]
  <1>2. /\ other \in Lobby /\ other.members = lobby.members
        /\ other.host = lobby.host /\ other.locked = lobby.locked
        /\ other.ready = {} /\ other.capacity = c
    BY <1>1 DEF Lobby, Phases
  <1>3. Configured(lobby, c, s) \in {lobby, other}
    BY DEF Configured
  <1> HIDE DEF other
  <1>4. Cardinality(lobby.members) \in Nat /\ c \in Nat
    BY <1>1, CapacityAssumption, MembersFinite DEF Lobby
  <1>5. SaneLobby(other)
    BY <1>2, <1>4 DEF SaneLobby
  <1>6. QED
    BY <1>2, <1>3, <1>5

-----------------------------------------------------------------------------
LEMMA ReloadedSane ==
    ASSUME Sane(World)
    PROVE  Sane(Reloaded)
  BY PruneSane DEF Reloaded

\* Touch, leave_lobby and close_room.
LEMMA DepartureSane ==
    ASSUME Sane(World), NEW p \in Players, LobbyOf(World, p) # None
    PROVE  /\ Sane(Close(World, playerLobby[p]))
           /\ ~Hosts(World, p) => Sane(RemoveMember(World, playerLobby[p], p))
  <1> DEFINE l == playerLobby[p]
  <1>1. /\ l \in LobbyIds /\ World.lobbies[l] # None
        /\ LobbyOf(World, p) = World.lobbies[l]
        /\ World.playerLobby[p] = l
    BY OwnLobby DEF World
  <1> HIDE DEF l
  <1>2. Sane(Close(World, l))
    BY <1>1, CloseSane
  <1>3. ASSUME ~Hosts(World, p) PROVE Sane(RemoveMember(World, l, p))
    BY <1>1, <1>3, RemoveSane DEF Hosts
  <1>4. QED
    BY <1>2, <1>3 DEF l

LEMMA ReconfigureSane ==
    ASSUME Sane(World), NEW p \in Players
    PROVE  /\ \A ready \in BOOLEAN : SetReady(p, ready) => Sane(World)'
           /\ \A phase \in Phases : \A e : SetPhase(p, phase, e) => Sane(World)'
           /\ \A locked \in BOOLEAN : \A e : SetLocked(p, locked, e) => Sane(World)'
           /\ \A target \in Players : \A e : TransferLobby(p, target, e) => Sane(World)'
  <1> DEFINE l == playerLobby[p]
             lobby == LobbyOf(World, p)
             Open1 == /\ l \in LobbyIds /\ lobby = World.lobbies[l]
                      /\ World.lobbies[l] # None /\ SaneLobby(lobby)
                      /\ p \in lobby.members /\ World.told[l] = ToldOf(lobby)
  <1>1. ASSUME lobby # None PROVE Open1
    <2>1. l \in LobbyIds /\ lobby = World.lobbies[l] /\ SaneLobby(lobby)
          /\ p \in lobby.members
      BY <1>1, OwnLobby DEF World
    <2>2. QED
      BY <1>1, <2>1 DEF Sane, SaneLobbies
  <1>2. ASSUME NEW new, Sane(Revise(World, l, new)),
               Reply(Revise(World, l, new), p)
        PROVE  Sane(World)'
    BY <1>2, ReplySane
  <1>3. ASSUME NEW new, Open1, SaneLobby(new), new.members = lobby.members,
               NEW r, r = [Revise(World, l, new) EXCEPT
                              !.told = [World.told EXCEPT ![l] = ToldOf(new)]],
               Reply(r, p)
        PROVE  Sane(World)'
    <2> HIDE DEF l, lobby
    <2>1. Sane(r)
      BY <1>3, ReviseToldSane
    <2>2. QED
      BY <1>3, <2>1, ReplySane
  <1>4. ASSUME NEW ready \in BOOLEAN, SetReady(p, ready) PROVE Sane(World)'
    <2> DEFINE set == IF ready THEN lobby.ready \cup {p} ELSE lobby.ready \ {p}
               new == [lobby EXCEPT !.ready = set]
    <2>1. Open1 /\ Reply(Revise(World, l, new), p)
      BY <1>1, <1>4 DEF SetReady
    <2>2. set \in SUBSET lobby.members
      BY <2>1 DEF SaneLobby
    <2>3. SaneLobby(new) /\ new.members = lobby.members
          /\ new.host = lobby.host /\ new.locked = lobby.locked
      <3>1. new = [lobby EXCEPT !.ready = set] /\ SaneLobby(lobby)
        BY <2>1
      <3> HIDE DEF set, lobby, l, new
      <3>2. QED
        BY <2>2, <3>1, ReadyChanged
    <2> HIDE DEF new, lobby, l
    <2>4. Sane(Revise(World, l, new))
      BY <2>1, <2>3, ReviseSane
    <2>5. QED
      BY <1>2, <2>1, <2>4
  <1>5. ASSUME NEW phase \in Phases, NEW e, SetPhase(p, phase, e) PROVE Sane(World)'
    <2> DEFINE set == IF phase = "gathering" THEN {} ELSE lobby.ready
               new == [lobby EXCEPT !.phase = phase, !.ready = set]
    <2>1. Open1 /\ Reply(Revise(World, l, new), p)
      BY <1>1, <1>5 DEF SetPhase, Hosts
    <2>2. set \in SUBSET lobby.members
      BY <2>1 DEF SaneLobby
    <2>3. SaneLobby(new) /\ new.members = lobby.members
          /\ new.host = lobby.host /\ new.locked = lobby.locked
      <3>1. new = [lobby EXCEPT !.phase = phase, !.ready = set]
        OBVIOUS
      <3> HIDE DEF set, lobby, l, new
      <3>2. QED
        BY <1>5, <2>1, <2>2, <3>1 DEF SaneLobby, Lobby, Phases
    <2> HIDE DEF new, lobby, l
    <2>4. Sane(Revise(World, l, new))
      BY <2>1, <2>3, ReviseSane
    <2>5. QED
      BY <1>2, <2>1, <2>4
  <1>6. ASSUME NEW locked \in BOOLEAN, NEW e, SetLocked(p, locked, e) PROVE Sane(World)'
    <2> DEFINE new == [lobby EXCEPT !.locked = locked]
               w == Revise(World, l, new)
               r == [w EXCEPT !.told[l].locked = locked]
               said == [World.told[l] EXCEPT !.locked = locked]
    <2>1. Open1 /\ Reply(r, p) /\ World \in Worlds
      BY <1>1, <1>6 DEF SetLocked, Hosts, Sane
    <2>2. SaneLobby(new) /\ new.members = lobby.members
          /\ new.host = lobby.host /\ new.locked = locked
      <3> HIDE DEF lobby, l
      <3>1. QED
        BY <2>1, LockChanged
    <2>3. said = ToldOf(new)
      <3>1. World.told[l] = [host |-> lobby.host, members |-> lobby.members,
                             locked |-> lobby.locked]
        BY <2>1 DEF ToldOf
      <3> HIDE DEF new, lobby, l
      <3>2. QED
        BY <2>2, <3>1 DEF ToldOf
    <2>4. w.told = World.told
      <3> HIDE DEF new, lobby, l
      <3>1. QED
        BY <2>1, ReviseFields
    <2>5. r = [w EXCEPT !.told = [World.told EXCEPT ![l] = said]]
      <3> HIDE DEF w, lobby, l
      <3>1. QED
        BY <2>4
    <2> HIDE DEF r, new, lobby, l, said
    <2>6. QED
      BY <1>3, <2>1, <2>2, <2>3, <2>5
  <1>7. ASSUME NEW target \in Players, NEW e, TransferLobby(p, target, e) PROVE Sane(World)'
    <2> DEFINE new == [lobby EXCEPT !.host = target]
               w == Revise(World, l, new)
               r == [w EXCEPT !.told[l].host = target]
               said == [World.told[l] EXCEPT !.host = target]
    <2>1. /\ Open1 /\ Reply(r, p) /\ World \in Worlds
          /\ target \in lobby.members
      BY <1>1, <1>7 DEF TransferLobby, Hosts, Sane
    <2>2. SaneLobby(new) /\ new.members = lobby.members
          /\ new.host = target /\ new.locked = lobby.locked
      <3> HIDE DEF lobby, l
      <3>1. QED
        BY <2>1, HostChanged
    <2>3. said = ToldOf(new)
      <3>1. World.told[l] = [host |-> lobby.host, members |-> lobby.members,
                             locked |-> lobby.locked]
        BY <2>1 DEF ToldOf
      <3> HIDE DEF new, lobby, l
      <3>2. QED
        BY <2>2, <3>1 DEF ToldOf
    <2>4. w.told = World.told
      <3> HIDE DEF new, lobby, l
      <3>1. QED
        BY <2>1, ReviseFields
    <2>5. r = [w EXCEPT !.told = [World.told EXCEPT ![l] = said]]
      <3> HIDE DEF w, lobby, l
      <3>1. QED
        BY <2>4
    <2> HIDE DEF r, new, lobby, l, said
    <2>6. QED
      BY <1>3, <2>1, <2>2, <2>3, <2>5
  <1>8. QED
    BY <1>4, <1>5, <1>6, <1>7

LEMMA SnapshotSane ==
    ASSUME Sane(World), NEW p \in Players, Snapshot(p)
    PROVE  Sane(World)'
  <1> DEFINE present == {q \in Players : presence'[q] \in {"online", "away"}}
             w == Prune(Reloaded, present)
  <1>1. Sane(w)
    BY ReloadedSane, PruneSane
  <1>2. Reply(w, p)
    BY DEF Snapshot
  <1> HIDE DEF w
  <1>3. QED
    BY <1>1, <1>2, ReplySane

LEMMA UpsertSane ==
    ASSUME Sane(World), NEW p \in Players, NEW c \in Capacities,
           NEW s \in Settings, NEW e, UpsertLobby(p, c, s, e)
    PROVE  Sane(World)'
  <1> DEFINE w == Prune(World, Present)
             mine == LobbyOf(w, p)
             opened(l) == [w EXCEPT !.lobbies[l] = NewLobby(p, c, s),
                                    !.playerLobby[p] = l,
                                    !.revision[l] = 1,
                                    !.told[l] = [host |-> p, members |-> {p},
                                                 locked |-> FALSE]]
             own == w.playerLobby[p]
             new == Configured(mine, c, s)
  <1>1. Sane(w)
    BY PruneSane
  <1>2. \/ /\ mine = None
           /\ \E l \in LobbyIds : w.lobbies[l] = None /\ Reply(opened(l), p)
        \/ /\ mine # None /\ c >= Cardinality(mine.members)
           /\ Reply(Revise(w, own, new), p)
        \/ Become(w)
    BY DEF UpsertLobby
  <1> HIDE DEF w
  <1>3. CASE /\ mine = None
             /\ \E l \in LobbyIds : w.lobbies[l] = None /\ Reply(opened(l), p)
    <2>1. PICK l \in LobbyIds : w.lobbies[l] = None /\ Reply(opened(l), p)
      BY <1>3
    <2>2. Sane(opened(l))
      BY <1>1, <1>3, <2>1, OpenedSane
    <2> HIDE DEF opened
    <2>3. QED
      BY <2>1, <2>2, ReplySane
  <1>4. CASE /\ mine # None /\ c >= Cardinality(mine.members)
             /\ Reply(Revise(w, own, new), p)
    <2>1. own \in LobbyIds /\ mine = w.lobbies[own] /\ SaneLobby(mine)
      BY <1>1, <1>4, OwnLobby
    <2>2. /\ SaneLobby(new) /\ new.members = mine.members
          /\ new.host = mine.host /\ new.locked = mine.locked
      <3> HIDE DEF mine
      <3>1. QED
        BY <1>4, <2>1, ConfiguredSane
    <2> HIDE DEF mine, own, new
    <2>3. Sane(Revise(w, own, new))
      BY <1>1, <1>4, <2>1, <2>2, ReviseSane
    <2>4. QED
      BY <1>4, <2>3, ReplySane
  <1>5. CASE Become(w)
    BY <1>1, <1>5, BecomeSane
  <1>6. QED
    BY <1>2, <1>3, <1>4, <1>5

LEMMA JoinSane ==
    ASSUME Sane(World), NEW p \in Players, NEW l \in LobbyIds, JoinLobby(p, l)
    PROVE  Sane(World)'
  <1> DEFINE w == Prune(World, Present)
             lobby == [w.lobbies[l] EXCEPT !.members = @ \cup {p}]
             v == Revise(w, l, lobby)
             joined == [v EXCEPT !.playerLobby[p] = l,
                                 !.told[l].members = @ \cup {p}]
  <1>1. Sane(w)
    BY PruneSane
  <1>2. \/ w.lobbies[l] # None /\ Reply(w, p)
        \/ /\ w.playerLobby[p] = None /\ w.lobbies[l] # None
           /\ MayJoin(w.lobbies[l]) /\ Reply(joined, p)
        \/ Become(w)
    BY DEF JoinLobby
  <1> HIDE DEF w
  <1>3. CASE w.lobbies[l] # None /\ Reply(w, p)
    BY <1>1, <1>3, ReplySane
  <1>4. CASE /\ w.playerLobby[p] = None /\ w.lobbies[l] # None
             /\ MayJoin(w.lobbies[l]) /\ Reply(joined, p)
    <2>1. Sane(joined)
      BY <1>1, <1>4, JoinedSane
    <2> HIDE DEF joined
    <2>2. QED
      BY <1>4, <2>1, ReplySane
  <1>5. CASE Become(w)
    BY <1>1, <1>5, BecomeSane
  <1>6. QED
    BY <1>2, <1>3, <1>4, <1>5

\* Every step leaves the tables sane.
LEMMA SaneStep ==
    ASSUME Sane(World), [Next]_vars
    PROVE  Sane(World)'
  <1>1. ASSUME UNCHANGED <<lobbies, playerLobby, told, revision, view>> PROVE Sane(World)'
    <2>1. Become(World)
      BY <1>1 DEF Become, World
    <2>2. QED
      BY <2>1, BecomeSane
  <1>2. CASE UpdatePlayers
    BY <1>1, <1>2 DEF UpdatePlayers
  <1>3. CASE UNCHANGED vars
    BY <1>1, <1>3 DEF vars
  <1>4. ASSUME NEW p \in Players,
               Tick(p) \/ Authenticate(p) \/ Touch(p) \/ Operation(p)
        PROVE  Sane(World)'
    <2>1. CASE Tick(p)
      BY <1>1, <2>1 DEF Tick
    <2>2. CASE Authenticate(p)
      BY <2>2, ReloadedSane, BecomeSane DEF Authenticate
    <2>3. CASE Touch(p)
      <3>1. CASE presence[p] # "gone" \/ LobbyOf(World, p) = None
        BY <2>3, <3>1, BecomeSane DEF Touch
      <3>2. CASE ~(presence[p] # "gone" \/ LobbyOf(World, p) = None)
        <4>1. \/ Hosts(World, p) /\ Become(Close(World, playerLobby[p]))
              \/ ~Hosts(World, p) /\ Become(RemoveMember(World, playerLobby[p], p))
          BY <2>3, <3>2 DEF Touch
        <4>2. QED
          BY <3>2, <4>1, DepartureSane, BecomeSane
      <3>3. QED
        BY <3>1, <3>2
    <2>4. CASE Ignore(p) \/ SendMessage(p)
      BY <1>1, <2>4, ReloadedSane, BecomeSane DEF Ignore, SendMessage
    <2>5. CASE Snapshot(p)
      BY <2>5, SnapshotSane
    <2>6. CASE \E c \in Capacities, s \in Settings : \E e : UpsertLobby(p, c, s, e)
      BY <2>6, UpsertSane
    <2>7. CASE \E l \in LobbyIds : JoinLobby(p, l)
      BY <2>7, JoinSane
    <2>8. CASE \E b \in BOOLEAN : \E e : SetReady(p, b) \/ SetLocked(p, b, e)
      BY <2>8, ReconfigureSane
    <2>9. CASE \E ph \in Phases : \E e : SetPhase(p, ph, e)
      BY <2>9, ReconfigureSane
    <2>10. CASE \E q \in Players : \E e : TransferLobby(p, q, e)
      BY <2>10, ReconfigureSane
    <2>11. CASE LeaveLobby(p)
      <3>1. LobbyOf(World, p) # None
        BY <2>11, NoneAssumption DEF LeaveLobby, LobbyOf, Sane, SanePlaces, World, Worlds
      <3>2. \/ Hosts(World, p) /\ Become(Close(World, playerLobby[p]))
            \/ ~Hosts(World, p) /\ Become(RemoveMember(World, playerLobby[p], p))
        BY <2>11, <3>1 DEF LeaveLobby
      <3>3. QED
        BY <3>1, <3>2, DepartureSane, BecomeSane
    <2>12. CASE CloseRoom(p)
      BY <2>12, DepartureSane, BecomeSane DEF CloseRoom, Hosts
    <2>13. QED
      BY <1>4, <2>1, <2>2, <2>3, <2>4, <2>5, <2>6, <2>7, <2>8, <2>9, <2>10,
         <2>11, <2>12 DEF Operation, Revision
  <1>5. QED
    BY <1>2, <1>3, <1>4 DEF Next

-----------------------------------------------------------------------------
(***************************************************************************)
(* The settings a ready check was given for.  ls and rs are the lobbies    *)
(* before and after a handler or a part of one.                            *)
(***************************************************************************)
SameSettings(lobby, new) ==
    new.settings = lobby.settings /\ new.capacity = lobby.capacity

\* What is open in rs was open in ls, with the same settings.
Kept(ls, rs) ==
    \A l \in LobbyIds :
        rs[l] # None => ls[l] # None /\ SameSettings(ls[l], rs[l])

\* What is open in rs has the settings it had in ls, or starts over.
Agreed(ls, rs) ==
    \A l \in LobbyIds :
        rs[l] # None => \/ ls[l] # None /\ SameSettings(ls[l], rs[l])
                        \/ rs[l].ready = {} /\ rs[l].phase = "gathering"

LEMMA KeptAgreed ==
    ASSUME NEW ls, NEW ms, NEW rs, Kept(ls, ms)
    PROVE  /\ Kept(ms, rs) => Kept(ls, rs)
           /\ Agreed(ms, rs) => Agreed(ls, rs)
           /\ Agreed(ls, ls) /\ Agreed(ls, ms)
  BY DEF Kept, Agreed, SameSettings

\* The reload and the cleanup close lobbies and remove members, no more.
LEMMA PruneKeeps ==
    ASSUME NEW w, Sane(w), NEW keep
    PROVE  Kept(w.lobbies, Prune(w, keep).lobbies)
  <1> DEFINE left(l) == Without(w.lobbies[l], w.lobbies[l].members \ keep)
             rs == Prune(w, keep).lobbies
  <1>1. \A l \in LobbyIds :
            rs[l] # None => w.lobbies[l] # None /\ rs[l] = left(l)
    BY DEF Prune
  <1>2. \A l \in LobbyIds :
            w.lobbies[l] # None => SameSettings(w.lobbies[l], left(l))
    BY DEF Sane, SaneLobbies, SaneLobby, Lobby, Without, SameSettings
  <1> HIDE DEF left, rs
  <1>3. Kept(w.lobbies, rs)
    BY <1>1, <1>2 DEF Kept
  <1>4. QED
    BY <1>3 DEF rs

\* One lobby is changed, opened or left as it is.
LEMMA OneChanged ==
    ASSUME NEW w, Sane(w), NEW l \in LobbyIds, NEW lobby,
           \/ w.lobbies[l] # None /\ SameSettings(w.lobbies[l], lobby)
           \/ lobby.ready = {} /\ lobby.phase = "gathering"
    PROVE  Agreed(w.lobbies, [w.lobbies EXCEPT ![l] = lobby])
  <1>1. w.lobbies \in [LobbyIds -> Lobby \cup {None}]
    BY DEF Sane, Worlds
  <1>2. QED
    BY <1>1 DEF Agreed, SameSettings

\* The lobbies of a revision, whatever else the handler writes.
LEMMA RevisedLobbies ==
    ASSUME NEW w, Sane(w), NEW l, NEW lobby
    PROVE  LET v == Revise(w, l, lobby)
               ls == [w.lobbies EXCEPT ![l] = lobby]
           IN  /\ v.lobbies = ls
               /\ \A ps, ts : [v EXCEPT !.playerLobby = ps, !.told = ts].lobbies = ls
               /\ \A ts : [v EXCEPT !.told = ts].lobbies = ls
  <1> DEFINE v == Revise(w, l, lobby)
             ls == [w.lobbies EXCEPT ![l] = lobby]
             ns == [w.revision EXCEPT ![l] = @ + 1]
  <1>1. w \in Worlds
    BY DEF Sane
  <1>2. v = [lobbies |-> ls, playerLobby |-> w.playerLobby,
             told |-> w.told, revision |-> ns, view |-> w.view]
    BY <1>1, ReviseRecord
  <1> HIDE DEF v, ls, ns
  <1>3. /\ v.lobbies = ls
        /\ \A ps, ts : [v EXCEPT !.playerLobby = ps, !.told = ts].lobbies = ls
        /\ \A ts : [v EXCEPT !.told = ts].lobbies = ls
    BY <1>2
  <1>4. QED
    BY <1>3 DEF v, ls

\* The response of a request shows the lobby and changes none.
LEMMA ReplyLobbies ==
    ASSUME NEW w, NEW p, "lobbies" \in DOMAIN w, Reply(w, p)
    PROVE  lobbies' = w.lobbies
  <1>1. Become(Show(w, p)) \/ Become(w)
    BY DEF Reply
  <1>2. Show(w, p).lobbies = w.lobbies
    BY DEF Show
  <1>3. QED
    BY <1>1, <1>2 DEF Become

\* Touch, leave_lobby and close_room.
LEMMA DepartureKeeps ==
    ASSUME Sane(World), NEW p \in Players, LobbyOf(World, p) # None
    PROVE  /\ Agreed(lobbies, Close(World, playerLobby[p]).lobbies)
           /\ Agreed(lobbies, RemoveMember(World, playerLobby[p], p).lobbies)
  <1> DEFINE l == playerLobby[p]
             lobby == World.lobbies[l]
             new == Without(lobby, {p})
  <1>1. /\ l \in LobbyIds /\ lobby # None /\ SaneLobby(lobby)
        /\ World.lobbies = lobbies
    BY OwnLobby DEF World
  <1>2. SameSettings(lobby, new)
    BY <1>1 DEF SaneLobby, Lobby, Without, SameSettings
  <1>3. Agreed(lobbies, [World.lobbies EXCEPT ![l] = new])
    <2> HIDE DEF new, l
    <2>1. QED
      BY <1>1, <1>2, OneChanged
  <1>4. RemoveMember(World, l, p).lobbies = [World.lobbies EXCEPT ![l] = new]
    <2> DEFINE v == Revise(World, l, new)
               ps == [v.playerLobby EXCEPT ![p] = None]
               ts == [v.told EXCEPT ![l].members = @ \ {p}]
    <2>1. RemoveMember(World, l, p) = [v EXCEPT !.playerLobby = ps, !.told = ts]
      BY DEF RemoveMember
    <2> HIDE DEF ps, ts, new, l
    <2>2. [v EXCEPT !.playerLobby = ps, !.told = ts].lobbies
              = [World.lobbies EXCEPT ![l] = new]
      BY RevisedLobbies
    <2>3. QED
      BY <2>1, <2>2
  <1>5. Agreed(lobbies, Close(World, l).lobbies)
    <2>1. Close(World, l).lobbies = [World.lobbies EXCEPT ![l] = None]
      BY DEF Close
    <2>2. lobbies \in [LobbyIds -> Lobby \cup {None}]
      BY DEF Sane, Worlds, World
    <2> HIDE DEF l
    <2>3. QED
      BY <1>1, <2>1, <2>2 DEF Agreed, SameSettings
  <1>6. QED
    BY <1>3, <1>4, <1>5

\* set_lobby_ready, set_lobby_phase, set_lobby_locked and transfer_lobby.
LEMMA ReconfigureKeeps ==
    ASSUME Sane(World), NEW p \in Players
    PROVE  /\ \A ready \in BOOLEAN : SetReady(p, ready) => Agreed(lobbies, lobbies')
           /\ \A phase \in Phases : \A e :
                 SetPhase(p, phase, e) => Agreed(lobbies, lobbies')
           /\ \A locked \in BOOLEAN : \A e :
                 SetLocked(p, locked, e) => Agreed(lobbies, lobbies')
           /\ \A target \in Players : \A e :
                 TransferLobby(p, target, e) => Agreed(lobbies, lobbies')
  <1> DEFINE l == playerLobby[p]
             lobby == LobbyOf(World, p)
             Mine == /\ l \in LobbyIds /\ lobby = World.lobbies[l]
                     /\ World.lobbies[l] # None /\ lobby \in Lobby
  <1>1. ASSUME lobby # None PROVE Mine
    BY <1>1, OwnLobby DEF World, SaneLobby
  <1>2. ASSUME NEW new, Mine, SameSettings(lobby, new), NEW r,
               r.lobbies = [World.lobbies EXCEPT ![l] = new],
               "lobbies" \in DOMAIN r, Reply(r, p)
        PROVE  Agreed(lobbies, lobbies')
    <2>1. lobbies' = [World.lobbies EXCEPT ![l] = new] /\ World.lobbies = lobbies
      BY <1>2, ReplyLobbies DEF World
    <2> HIDE DEF l, lobby
    <2>2. QED
      BY <1>2, <2>1, OneChanged
  <1>3. \A new : /\ Revise(World, l, new).lobbies = [World.lobbies EXCEPT ![l] = new]
                 /\ "lobbies" \in DOMAIN Revise(World, l, new)
    BY RevisedLobbies DEF Revise, World
  <1>4. \A new, ts :
            LET r == [Revise(World, l, new) EXCEPT !.told = ts]
            IN  /\ r.lobbies = [World.lobbies EXCEPT ![l] = new]
                /\ "lobbies" \in DOMAIN r
    BY RevisedLobbies DEF Revise, World
  <1>5. ASSUME NEW ready \in BOOLEAN, SetReady(p, ready)
        PROVE  Agreed(lobbies, lobbies')
    <2> DEFINE set == IF ready THEN lobby.ready \cup {p} ELSE lobby.ready \ {p}
               new == [lobby EXCEPT !.ready = set]
    <2>1. Mine /\ Reply(Revise(World, l, new), p)
      BY <1>1, <1>5 DEF SetReady
    <2>2. SameSettings(lobby, new)
      <3> HIDE DEF set, lobby, l
      <3>1. QED
        BY <2>1 DEF Lobby, SameSettings
    <2> HIDE DEF new, lobby, l
    <2>3. QED
      BY <1>2, <1>3, <2>1, <2>2
  <1>6. ASSUME NEW phase \in Phases, NEW e, SetPhase(p, phase, e)
        PROVE  Agreed(lobbies, lobbies')
    <2> DEFINE set == IF phase = "gathering" THEN {} ELSE lobby.ready
               new == [lobby EXCEPT !.phase = phase, !.ready = set]
    <2>1. Mine /\ Reply(Revise(World, l, new), p)
      BY <1>1, <1>6 DEF SetPhase, Hosts
    <2>2. SameSettings(lobby, new)
      <3> HIDE DEF set, lobby, l
      <3>1. QED
        BY <2>1 DEF Lobby, SameSettings
    <2> HIDE DEF new, lobby, l
    <2>3. QED
      BY <1>2, <1>3, <2>1, <2>2
  <1>7. ASSUME NEW locked \in BOOLEAN, NEW e, SetLocked(p, locked, e)
        PROVE  Agreed(lobbies, lobbies')
    <2> DEFINE new == [lobby EXCEPT !.locked = locked]
               w == Revise(World, l, new)
               r == [w EXCEPT !.told[l].locked = locked]
               ts == [w.told EXCEPT ![l].locked = locked]
    <2>1. Mine /\ Reply(r, p) /\ r = [w EXCEPT !.told = ts]
      BY <1>1, <1>7 DEF SetLocked, Hosts
    <2>2. SameSettings(lobby, new)
      <3> HIDE DEF lobby, l
      <3>1. QED
        BY <2>1 DEF Lobby, SameSettings
    <2> HIDE DEF new, lobby, l, r, ts
    <2>3. r.lobbies = [World.lobbies EXCEPT ![l] = new] /\ "lobbies" \in DOMAIN r
      BY <1>4, <2>1
    <2>4. QED
      BY <1>2, <2>1, <2>2, <2>3
  <1>8. ASSUME NEW target \in Players, NEW e, TransferLobby(p, target, e)
        PROVE  Agreed(lobbies, lobbies')
    <2> DEFINE new == [lobby EXCEPT !.host = target]
               w == Revise(World, l, new)
               r == [w EXCEPT !.told[l].host = target]
               ts == [w.told EXCEPT ![l].host = target]
    <2>1. Mine /\ Reply(r, p) /\ r = [w EXCEPT !.told = ts]
      BY <1>1, <1>8 DEF TransferLobby, Hosts
    <2>2. SameSettings(lobby, new)
      <3> HIDE DEF lobby, l
      <3>1. QED
        BY <2>1 DEF Lobby, SameSettings
    <2> HIDE DEF new, lobby, l, r, ts
    <2>3. r.lobbies = [World.lobbies EXCEPT ![l] = new] /\ "lobbies" \in DOMAIN r
      BY <1>4, <2>1
    <2>4. QED
      BY <1>2, <2>1, <2>2, <2>3
  <1>9. QED
    BY <1>5, <1>6, <1>7, <1>8

LEMMA SnapshotKeeps ==
    ASSUME Sane(World), NEW p \in Players, Snapshot(p)
    PROVE  Agreed(lobbies, lobbies')
  <1> DEFINE present == {q \in Players : presence'[q] \in {"online", "away"}}
             w == Prune(Reloaded, present)
  <1>1. World.lobbies = lobbies /\ Kept(lobbies, World.lobbies)
    BY DEF World, Kept, SameSettings
  <1>2. Kept(lobbies, Reloaded.lobbies)
    BY <1>1, PruneKeeps DEF Reloaded
  <1>3. Kept(lobbies, w.lobbies)
    BY <1>2, ReloadedSane, PruneKeeps, KeptAgreed
  <1>4. "lobbies" \in DOMAIN w
    BY DEF Prune
  <1>5. Reply(w, p)
    BY DEF Snapshot
  <1> HIDE DEF w
  <1>6. lobbies' = w.lobbies
    BY <1>4, <1>5, ReplyLobbies
  <1>7. QED
    BY <1>3, <1>6, KeptAgreed

\* Only a lobby the owner reconfigures starts over, and a new one starts.
LEMMA UpsertKeeps ==
    ASSUME Sane(World), NEW p \in Players, NEW c \in Capacities,
           NEW s \in Settings, NEW e, UpsertLobby(p, c, s, e)
    PROVE  Agreed(lobbies, lobbies')
  <1> DEFINE w == Prune(World, Present)
             mine == LobbyOf(w, p)
             opened(l) == [w EXCEPT !.lobbies[l] = NewLobby(p, c, s),
                                    !.playerLobby[p] = l,
                                    !.revision[l] = 1,
                                    !.told[l] = [host |-> p, members |-> {p},
                                                 locked |-> FALSE]]
             own == w.playerLobby[p]
             new == Configured(mine, c, s)
  <1>1. Sane(w) /\ Kept(lobbies, w.lobbies) /\ "lobbies" \in DOMAIN w
    <2>1. World.lobbies = lobbies
      BY DEF World
    <2>2. QED
      BY <2>1, PruneSane, PruneKeeps DEF Prune
  <1>2. \/ \E l \in LobbyIds : Reply(opened(l), p)
        \/ mine # None /\ Reply(Revise(w, own, new), p)
        \/ Become(w)
    BY DEF UpsertLobby
  <1> HIDE DEF w
  <1>3. Agreed(w.lobbies, lobbies') => Agreed(lobbies, lobbies')
    BY <1>1, KeptAgreed
  <1>4. CASE \E l \in LobbyIds : Reply(opened(l), p)
    <2>1. PICK l \in LobbyIds : Reply(opened(l), p)
      BY <1>4
    <2> DEFINE lobby == NewLobby(p, c, s)
               ls == [w.lobbies EXCEPT ![l] = lobby]
    <2>2. lobby.ready = {} /\ lobby.phase = "gathering"
      BY DEF NewLobby
    <2> HIDE DEF lobby
    <2>3. opened(l).lobbies = ls /\ "lobbies" \in DOMAIN opened(l)
      <3> DEFINE ps == [w.playerLobby EXCEPT ![p] = l]
                 ts == [w.told EXCEPT ![l] = [host |-> p, members |-> {p},
                                              locked |-> FALSE]]
                 ns == [w.revision EXCEPT ![l] = 1]
      <3>1. opened(l) = [w EXCEPT !.lobbies = ls, !.playerLobby = ps,
                                  !.revision = ns, !.told = ts]
        BY DEF lobby
      <3>2. w \in Worlds
        BY <1>1 DEF Sane
      <3> HIDE DEF ls, ps, ts, ns, opened
      <3>3. QED
        BY <3>1, <3>2 DEF Worlds
    <2> HIDE DEF opened
    <2>4. lobbies' = ls
      BY <2>1, <2>3, ReplyLobbies
    <2>5. QED
      BY <1>1, <1>3, <2>2, <2>4, OneChanged
  <1>5. CASE mine # None /\ Reply(Revise(w, own, new), p)
    <2>1. own \in LobbyIds /\ mine = w.lobbies[own] /\ mine \in Lobby
      BY <1>1, <1>5, OwnLobby DEF SaneLobby
    <2>2. \/ SameSettings(mine, new)
          \/ new.ready = {} /\ new.phase = "gathering"
      <3> HIDE DEF mine
      <3>1. QED
        BY <2>1 DEF Configured, SameSettings, Lobby
    <2> HIDE DEF mine, own, new
    <2>3. /\ Revise(w, own, new).lobbies = [w.lobbies EXCEPT ![own] = new]
          /\ "lobbies" \in DOMAIN Revise(w, own, new)
      BY <1>1, RevisedLobbies DEF Revise
    <2>4. lobbies' = [w.lobbies EXCEPT ![own] = new]
      BY <1>5, <2>3, ReplyLobbies
    <2>5. QED
      BY <1>1, <1>3, <1>5, <2>1, <2>2, <2>4, OneChanged
  <1>6. CASE Become(w)
    BY <1>1, <1>6, KeptAgreed DEF Become
  <1>7. QED
    BY <1>2, <1>4, <1>5, <1>6

LEMMA JoinKeeps ==
    ASSUME Sane(World), NEW p \in Players, NEW l \in LobbyIds, JoinLobby(p, l)
    PROVE  Agreed(lobbies, lobbies')
  <1> DEFINE w == Prune(World, Present)
             lobby == [w.lobbies[l] EXCEPT !.members = @ \cup {p}]
             v == Revise(w, l, lobby)
             joined == [v EXCEPT !.playerLobby[p] = l,
                                 !.told[l].members = @ \cup {p}]
  <1>1. Sane(w) /\ Kept(lobbies, w.lobbies) /\ "lobbies" \in DOMAIN w
    <2>1. World.lobbies = lobbies
      BY DEF World
    <2>2. QED
      BY <2>1, PruneSane, PruneKeeps DEF Prune
  <1>2. \/ Reply(w, p)
        \/ w.lobbies[l] # None /\ Reply(joined, p)
        \/ Become(w)
    BY DEF JoinLobby
  <1> HIDE DEF w
  <1>3. CASE Reply(w, p) \/ Become(w)
    <2>1. lobbies' = w.lobbies
      BY <1>1, <1>3, ReplyLobbies DEF Become
    <2>2. QED
      BY <1>1, <2>1, KeptAgreed
  <1>4. CASE w.lobbies[l] # None /\ Reply(joined, p)
    <2>1. SameSettings(w.lobbies[l], lobby)
      BY <1>1, <1>4 DEF Sane, SaneLobbies, SaneLobby, Lobby, SameSettings
    <2> HIDE DEF lobby
    <2>2. joined.lobbies = [w.lobbies EXCEPT ![l] = lobby]
          /\ "lobbies" \in DOMAIN joined
      <3> DEFINE ps == [v.playerLobby EXCEPT ![p] = l]
                 ts == [v.told EXCEPT ![l].members = @ \cup {p}]
      <3>1. joined = [v EXCEPT !.playerLobby = ps, !.told = ts]
        OBVIOUS
      <3>2. "lobbies" \in DOMAIN v
        BY <1>1 DEF Revise
      <3> HIDE DEF ps, ts, joined
      <3>3. QED
        BY <1>1, <3>1, <3>2, RevisedLobbies
    <2> HIDE DEF joined
    <2>3. lobbies' = [w.lobbies EXCEPT ![l] = lobby]
      BY <1>4, <2>2, ReplyLobbies
    <2>4. Agreed(w.lobbies, lobbies')
      BY <1>1, <1>4, <2>1, <2>3, OneChanged
    <2>5. QED
      BY <1>1, <2>4, KeptAgreed
  <1>5. QED
    BY <1>2, <1>3, <1>4

LEMMA AgreedStep ==
    ASSUME Sane(World), [Next]_vars
    PROVE  Agreed(lobbies, lobbies')
  <1>1. Agreed(lobbies, lobbies) /\ Kept(lobbies, lobbies) /\ World.lobbies = lobbies
    BY DEF Agreed, Kept, SameSettings, World
  <1>2. CASE UpdatePlayers \/ UNCHANGED vars
    BY <1>1, <1>2 DEF UpdatePlayers, vars
  <1>3. ASSUME NEW p \in Players,
               Tick(p) \/ Authenticate(p) \/ Touch(p) \/ Operation(p)
        PROVE  Agreed(lobbies, lobbies')
    <2>1. CASE Tick(p) \/ Ignore(p)
      BY <1>1, <2>1 DEF Tick, Ignore
    <2>2. CASE Authenticate(p) \/ SendMessage(p)
      <3>1. Kept(lobbies, Reloaded.lobbies)
        BY <1>1, PruneKeeps DEF Reloaded
      <3>2. QED
        BY <2>2, <3>1, KeptAgreed DEF Authenticate, SendMessage, Become
    <2>3. CASE Touch(p)
      <3>1. CASE presence[p] # "gone" \/ LobbyOf(World, p) = None
        BY <1>1, <2>3, <3>1 DEF Touch, Become
      <3>2. CASE ~(presence[p] # "gone" \/ LobbyOf(World, p) = None)
        BY <2>3, <3>2, DepartureKeeps DEF Touch, Become
      <3>3. QED
        BY <3>1, <3>2
    <2>4. CASE Snapshot(p)
      BY <2>4, SnapshotKeeps
    <2>5. CASE \E c \in Capacities, s \in Settings : \E e : UpsertLobby(p, c, s, e)
      BY <2>5, UpsertKeeps
    <2>6. CASE \E l \in LobbyIds : JoinLobby(p, l)
      BY <2>6, JoinKeeps
    <2>7. CASE \/ \E b \in BOOLEAN : \E e : SetReady(p, b) \/ SetLocked(p, b, e)
               \/ \E ph \in Phases : \E e : SetPhase(p, ph, e)
               \/ \E q \in Players : \E e : TransferLobby(p, q, e)
      BY <2>7, ReconfigureKeeps
    <2>8. CASE LeaveLobby(p)
      <3>1. LobbyOf(World, p) # None
        BY <2>8, NoneAssumption DEF LeaveLobby, LobbyOf, Sane, SanePlaces, World, Worlds
      <3>2. QED
        BY <2>8, <3>1, DepartureKeeps DEF LeaveLobby, Become
    <2>9. CASE CloseRoom(p)
      BY <2>9, DepartureKeeps DEF CloseRoom, Hosts, Become
    <2>10. QED
      BY <1>3, <2>1, <2>2, <2>3, <2>4, <2>5, <2>6, <2>7, <2>8, <2>9
         DEF Operation, Revision
  <1>4. QED
    BY <1>2, <1>3 DEF Next

-----------------------------------------------------------------------------
(***************************************************************************)
(* The theorems.                                                           *)
(***************************************************************************)
Plain == /\ registered \subseteq Players
         /\ changed \in BOOLEAN
         /\ presence \in [Players -> Ages]
         /\ request \in [Players -> Stages]

LEMMA SaneType == ASSUME Plain, Sane(World) PROVE TypeOK
  BY DEF Plain, Sane, World, Worlds, TypeOK

LEMMA PlainStep == ASSUME Plain, [Next]_vars PROVE Plain'
  <1> USE DEF Plain, Ages, Stages
  <1>1. CASE UpdatePlayers
    BY <1>1 DEF UpdatePlayers, Registries
  <1>2. CASE UNCHANGED vars
    BY <1>2 DEF vars
  <1>3. ASSUME NEW p \in Players, Tick(p) PROVE Plain'
    BY <1>3 DEF Tick
  <1>4. ASSUME NEW p \in Players, Authenticate(p) PROVE Plain'
    BY <1>4 DEF Authenticate, Reload
  <1>5. ASSUME NEW p \in Players, Touch(p) PROVE Plain'
    BY <1>5 DEF Touch
  <1>6. ASSUME NEW p \in Players, Operation(p) PROVE Plain'
    <2>1. Serve(p) /\ (Reload \/ UNCHANGED <<changed, presence>>)
      BY <1>6 DEF Operation, Revision, Operate, Ignore, SendMessage, Snapshot,
                  UpsertLobby, JoinLobby, SetReady, SetPhase, SetLocked, TransferLobby, LeaveLobby, CloseRoom
    <2>2. QED
      BY <2>1 DEF Serve, Reload
  <1>7. QED
    BY <1>1, <1>2, <1>3, <1>4, <1>5, <1>6 DEF Next

LEMMA InitSane == Init => Plain /\ Sane(World)
  <1> SUFFICES ASSUME Init PROVE Plain /\ Sane(World)
    OBVIOUS
  <1>1. Plain
    BY DEF Init, Registries, Plain, Ages, Stages
  <1>2. World \in Worlds
    BY DEF Init, World, Worlds
  <1>3. SaneLobbies(World) /\ SanePlaces(World) /\ SaneViews(World)
    BY NoneAssumption DEF Init, World, SaneLobbies, SanePlaces, SaneViews
  <1>4. QED
    BY <1>1, <1>2, <1>3 DEF Sane

\* Every reachable state has its types and sane tables.
THEOREM LobbyInductive == Spec => [](Plain /\ Sane(World))
  <1>1. Plain /\ Sane(World) /\ [Next]_vars => (Plain /\ Sane(World))'
    BY PlainStep, SaneStep
  <1>2. QED
    BY <1>1, InitSane, PTL DEF Spec

\* The variables keep their types.
THEOREM LobbyTypeCorrect == Spec => []TypeOK
  BY LobbyInductive, SaneType, PTL

\* player_lobby and the members of the lobbies agree in every state, with the
\* host among the members, only members ready, and no lobby over its capacity.
THEOREM MembershipConsistentHolds == Spec => []MembershipConsistent
  <1>1. Sane(World) => MembershipConsistent
    BY DEF Sane, SaneLobbies, SanePlaces, SaneLobby, World, MembershipConsistent,
           TablesAgree, HostAndReady, WithinCapacity, Open
  <1>2. QED
    BY <1>1, LobbyInductive, PTL

\* While the lobby a client saw is open, its current number stands for what the
\* client saw: numbers of one lobby never come back.  Of two lobbies they do.
THEOREM ViewIsCurrentHolds == Spec => []ViewIsCurrent
  <1>1. Sane(World) => ViewIsCurrent
    BY DEF Sane, SaneViews, World, ViewIsCurrent
  <1>2. QED
    BY <1>1, LobbyInductive, PTL

\* The event messages of an open lobby add up to its members, host and lock.
THEOREM EventsTellLobbyHolds == Spec => []EventsTellLobby
  <1>1. Sane(World) => EventsTellLobby
    BY DEF Sane, SaneLobbies, World, EventsTellLobby, ToldOf, Open
  <1>2. QED
    BY <1>1, LobbyInductive, PTL

\* No step changes the settings or the capacity of an open lobby and leaves a
\* ready check or a running game that was agreed under the old ones.
THEOREM ReadyForSettingsHolds == Spec => ReadyForSettings
  <1>1. Sane(World) /\ [Next]_vars =>
            [\A l \in LobbyIds :
                /\ l \in Open /\ lobbies'[l] # None
                /\ \/ lobbies'[l].settings # lobbies[l].settings
                   \/ lobbies'[l].capacity # lobbies[l].capacity
                => lobbies'[l].ready = {} /\ lobbies'[l].phase = "gathering"]_vars
    BY AgreedStep DEF Agreed, SameSettings, Open
  <1>2. QED
    BY <1>1, LobbyInductive, PTL DEF Spec, ReadyForSettings
-----------------------------------------------------------------------------
(***************************************************************************)
(* LobbyRules, lobby by lobby: what a request changes in what absence has  *)
(* left of the lobby.                                                      *)
(***************************************************************************)
Changes(l, p) == \E x \in Rules(l)!Remains : Rules(l)!Change(p, x, lobbies'[l])

\* y is what may remain of the lobby x, None if there is none, without the
\* players in out.
Remain(x, y, out) ==
    IF x = None THEN y = None
    ELSE \/ y = None /\ x.host \in out
         \/ \E gone \in SUBSET ((x.members \cap out) \ {x.host}) :
               y = Without(x, gone)

LEMMA RemainsIs ==
    ASSUME NEW l \in LobbyIds, NEW y
    PROVE  y \in Rules(l)!Remains <=> Remain(lobbies[l], y, Absent)
  BY DEF Rules!Remains, Rules!Without, Remain, Without

LEMMA RemainsAsIs ==
    ASSUME NEW x \in Lobby \cup {None}, NEW out
    PROVE  Remain(x, x, out)
  <1>1. CASE x \in Lobby
    <2>1. Without(x, {}) = x
      BY <1>1 DEF Without, Lobby
    <2>2. QED
      BY <1>1, <2>1, NullAssumption DEF Remain
  <1>2. QED
    BY <1>1 DEF Remain

\* What remains of what remained.
LEMMA RemainTwice ==
    ASSUME NEW x \in Lobby \cup {None}, NEW y, NEW z, NEW out,
           Remain(x, y, out), Remain(y, z, out)
    PROVE  Remain(x, z, out)
  <1>1. CASE x = None \/ y = None
    BY <1>1 DEF Remain
  <1>2. CASE x # None /\ y # None
    <2>1. PICK gone \in SUBSET ((x.members \cap out) \ {x.host}) :
             y = Without(x, gone)
      BY <1>2 DEF Remain
    <2>2. x \in Lobby /\ y.host = x.host /\ y.members = x.members \ gone
      BY <1>2, <2>1 DEF Without, Lobby
    <2>3. CASE z = None /\ y.host \in out
      BY <1>2, <2>2, <2>3 DEF Remain
    <2>4. CASE \E more \in SUBSET ((y.members \cap out) \ {y.host}) :
                  z = Without(y, more)
      <3>1. PICK more \in SUBSET ((y.members \cap out) \ {y.host}) :
               z = Without(y, more)
        BY <2>4
      <3>2. gone \cup more \in SUBSET ((x.members \cap out) \ {x.host})
        BY <2>2
      <3>3. z = Without(x, gone \cup more)
        BY <2>1, <2>2, <3>1 DEF Without, Lobby
      <3>4. QED
        BY <1>2, <3>2, <3>3 DEF Remain
    <2>5. QED
      BY <1>2, <2>3, <2>4 DEF Remain
  <1>3. QED
    BY <1>1, <1>2

\* The reload and the cleanup take the places of players not kept.
LEMMA PruneRemains ==
    ASSUME NEW w, Sane(w), NEW keep, NEW out, Players \ keep \subseteq out,
           NEW l \in LobbyIds
    PROVE  Remain(w.lobbies[l], Prune(w, keep).lobbies[l], out)
  <1> DEFINE x == w.lobbies[l]
             leaving == x.members \ keep
             y == Prune(w, keep).lobbies[l]
  <1>1. y = IF x = None \/ x.host \notin keep THEN None ELSE Without(x, leaving)
    BY DEF Prune
  <1>2. x # None => x.members \subseteq Players /\ x.host \in Players
    BY DEF Sane, SaneLobbies, SaneLobby, Lobby
  <1> SUFFICES Remain(x, y, out)
    OBVIOUS
  <1> HIDE DEF x, y
  <1>3. CASE x = None \/ x.host \notin keep
    BY <1>1, <1>2, <1>3 DEF Remain
  <1>4. CASE x # None /\ x.host \in keep
    <2>1. leaving \in SUBSET ((x.members \cap out) \ {x.host})
      BY <1>2, <1>4
    <2>2. QED
      BY <1>1, <1>4, <2>1 DEF Remain
  <1>5. QED
    BY <1>3, <1>4

\* The two modules count alike.
LEMMA SameCardinality ==
    \A l, S : Rules(l)!Cardinality(S) = Cardinality(S)
  BY DEF Cardinality, Rules!Cardinality

LEMMA ReloadedRemains ==
    ASSUME Sane(World)
    PROVE  \A l \in LobbyIds : Remain(lobbies[l], Reloaded.lobbies[l], Absent)
  <1>1. World.lobbies = lobbies /\ Players \ registered \subseteq Absent
    BY DEF World, Absent
  <1>2. \A l \in LobbyIds : Remain(lobbies[l], lobbies[l], Absent)
    BY RemainsAsIs DEF Sane, Worlds, World
  <1>3. \A l \in LobbyIds :
            Remain(lobbies[l], Prune(World, registered).lobbies[l], Absent)
    BY <1>1, PruneRemains
  <1>4. QED
    BY <1>1, <1>2, <1>3 DEF Reloaded

LEMMA CleanRemains ==
    ASSUME Sane(World)
    PROVE  \A l \in LobbyIds :
              Remain(lobbies[l], Prune(World, Present).lobbies[l], Absent)
  <1>1. World.lobbies = lobbies /\ Players \ Present \subseteq Absent
    BY DEF World, Absent, Present
  <1>2. QED
    BY <1>1, PruneRemains

\* A request that changes nothing in what remains.
LEMMA NoChange ==
    ASSUME NEW ls, \A l \in LobbyIds : Remain(lobbies[l], ls[l], Absent),
           lobbies' = ls, NEW p
    PROVE  \A l \in LobbyIds : Changes(l, p)
  BY RemainsIs DEF Changes, Rules!Change

\* A request that changes one lobby in what remains.
LEMMA OneChange ==
    ASSUME NEW ls \in [LobbyIds -> Lobby \cup {None}],
           \A l \in LobbyIds : Remain(lobbies[l], ls[l], Absent),
           NEW k \in LobbyIds, NEW new, lobbies' = [ls EXCEPT ![k] = new],
           NEW p, Rules(k)!Change(p, ls[k], new)
    PROVE  \A l \in LobbyIds : Changes(l, p)
  <1>1. Changes(k, p)
    BY RemainsIs DEF Changes
  <1>2. ASSUME NEW l \in LobbyIds, l # k PROVE Changes(l, p)
    <2>1. lobbies'[l] = ls[l]
      BY <1>2
    <2>2. QED
      BY <2>1, RemainsIs DEF Changes, Rules!Change
  <1>3. QED
    BY <1>1, <1>2

\* The lobbies as they are, for the requests that do not clean up.
LEMMA AsTheyAre ==
    ASSUME Sane(World)
    PROVE  /\ lobbies \in [LobbyIds -> Lobby \cup {None}]
           /\ World.lobbies = lobbies
           /\ \A l \in LobbyIds : Remain(lobbies[l], lobbies[l], Absent)
  <1>1. lobbies \in [LobbyIds -> Lobby \cup {None}] /\ World.lobbies = lobbies
    BY DEF Sane, Worlds, World
  <1>2. QED
    BY <1>1, RemainsAsIs

LEMMA SnapshotRules ==
    ASSUME Sane(World), NEW p \in Players, Snapshot(p)
    PROVE  \A l \in LobbyIds : Changes(l, p)
  <1> DEFINE present == {q \in Players : presence'[q] \in {"online", "away"}}
             w == Prune(Reloaded, present)
  <1>1. Players \ present \subseteq Absent
    BY DEF Snapshot, Reload, Absent
  <1>2. \A l \in LobbyIds : Remain(lobbies[l], w.lobbies[l], Absent)
    <2>1. \A l \in LobbyIds : Remain(Reloaded.lobbies[l], w.lobbies[l], Absent)
      BY <1>1, ReloadedSane, PruneRemains
    <2> HIDE DEF w
    <2>2. QED
      BY <2>1, AsTheyAre, ReloadedRemains, RemainTwice
  <1>3. lobbies' = w.lobbies
    <2>1. "lobbies" \in DOMAIN w
      BY DEF Prune
    <2>2. Reply(w, p)
      BY DEF Snapshot
    <2> HIDE DEF w
    <2>3. QED
      BY <2>1, <2>2, ReplyLobbies
  <1> HIDE DEF w
  <1>4. QED
    BY <1>2, <1>3, NoChange

LEMMA UpsertRules ==
    ASSUME Sane(World), NEW p \in Players, NEW c \in Capacities,
           NEW s \in Settings, NEW e, UpsertLobby(p, c, s, e)
    PROVE  \A l \in LobbyIds : Changes(l, p)
  <1> DEFINE w == Prune(World, Present)
             mine == LobbyOf(w, p)
             opened(l) == [w EXCEPT !.lobbies[l] = NewLobby(p, c, s),
                                    !.playerLobby[p] = l,
                                    !.revision[l] = 1,
                                    !.told[l] = [host |-> p, members |-> {p},
                                                 locked |-> FALSE]]
             own == w.playerLobby[p]
             new == Configured(mine, c, s)
  <1>1. /\ Sane(w) /\ "lobbies" \in DOMAIN w
        /\ \A l \in LobbyIds : Remain(lobbies[l], w.lobbies[l], Absent)
    BY PruneSane, CleanRemains DEF Prune
  <1>2. \/ \E l \in LobbyIds : w.lobbies[l] = None /\ Reply(opened(l), p)
        \/ /\ mine # None /\ mine.host = p /\ c >= Cardinality(mine.members)
           /\ Reply(Revise(w, own, new), p)
        \/ Become(w)
    BY DEF UpsertLobby
  <1> HIDE DEF w
  <1>3. w.lobbies \in [LobbyIds -> Lobby \cup {None}] /\ w \in Worlds
    BY <1>1 DEF Sane, Worlds
  <1>4. CASE \E l \in LobbyIds : w.lobbies[l] = None /\ Reply(opened(l), p)
    <2>1. PICK l \in LobbyIds : w.lobbies[l] = None /\ Reply(opened(l), p)
      BY <1>4
    <2> DEFINE lobby == NewLobby(p, c, s)
               ls == [w.lobbies EXCEPT ![l] = lobby]
    <2>2. opened(l).lobbies = ls /\ "lobbies" \in DOMAIN opened(l)
      <3> DEFINE ps == [w.playerLobby EXCEPT ![p] = l]
                 ts == [w.told EXCEPT ![l] = [host |-> p, members |-> {p},
                                              locked |-> FALSE]]
                 ns == [w.revision EXCEPT ![l] = 1]
      <3>1. opened(l) = [w EXCEPT !.lobbies = ls, !.playerLobby = ps,
                                  !.revision = ns, !.told = ts]
        OBVIOUS
      <3> HIDE DEF ls, ps, ts, ns, opened
      <3>2. QED
        BY <1>3, <3>1 DEF Worlds
    <2> HIDE DEF opened
    <2>3. lobbies' = ls
      BY <2>1, <2>2, ReplyLobbies
    <2>4. Rules(l)!Change(p, w.lobbies[l], lobby)
      BY <2>1 DEF Rules!Change, Rules!Open, NewLobby
    <2> HIDE DEF lobby
    <2>5. QED
      BY <1>1, <1>3, <2>3, <2>4, OneChange
  <1>5. CASE /\ mine # None /\ mine.host = p /\ c >= Cardinality(mine.members)
             /\ Reply(Revise(w, own, new), p)
    <2>1. own \in LobbyIds /\ mine = w.lobbies[own]
      BY <1>1, <1>5, OwnLobby
    <2>2. \/ new = mine
          \/ new = [mine EXCEPT !.capacity = c, !.settings = s,
                                !.ready = {}, !.phase = "gathering"]
      BY DEF Configured
    <2> HIDE DEF mine, own, new
    <2>3. lobbies' = [w.lobbies EXCEPT ![own] = new]
      <3>1. /\ Revise(w, own, new).lobbies = [w.lobbies EXCEPT ![own] = new]
            /\ "lobbies" \in DOMAIN Revise(w, own, new)
        BY <1>1, RevisedLobbies DEF Revise
      <3>2. QED
        BY <1>5, <3>1, ReplyLobbies
    <2>4. Rules(own)!Change(p, mine, new)
      <3>1. new # mine => Rules(own)!Configure(mine, new)
        BY <1>5, <2>2, SameCardinality, Zenon DEF Rules!Configure
      <3>2. QED
        BY <1>5, <3>1 DEF Rules!Change, Rules!Direct
    <2>5. QED
      BY <1>1, <1>3, <2>1, <2>3, <2>4, OneChange
  <1>6. CASE Become(w)
    BY <1>1, <1>6, NoChange DEF Become
  <1>7. QED
    BY <1>2, <1>4, <1>5, <1>6

LEMMA JoinRules ==
    ASSUME Sane(World), NEW p \in Players, NEW k \in LobbyIds, JoinLobby(p, k)
    PROVE  \A l \in LobbyIds : Changes(l, p)
  <1> DEFINE w == Prune(World, Present)
             lobby == [w.lobbies[k] EXCEPT !.members = @ \cup {p}]
             v == Revise(w, k, lobby)
             joined == [v EXCEPT !.playerLobby[p] = k,
                                 !.told[k].members = @ \cup {p}]
  <1>1. /\ Sane(w) /\ "lobbies" \in DOMAIN w
        /\ \A l \in LobbyIds : Remain(lobbies[l], w.lobbies[l], Absent)
    BY PruneSane, CleanRemains DEF Prune
  <1>2. \/ Reply(w, p)
        \/ /\ w.playerLobby[p] = None /\ w.lobbies[k] # None
           /\ MayJoin(w.lobbies[k]) /\ Reply(joined, p)
        \/ Become(w)
    BY DEF JoinLobby
  <1> HIDE DEF w
  <1>3. CASE Reply(w, p) \/ Become(w)
    <2>1. lobbies' = w.lobbies
      BY <1>1, <1>3, ReplyLobbies DEF Become
    <2>2. QED
      BY <1>1, <2>1, NoChange
  <1>4. CASE /\ w.playerLobby[p] = None /\ w.lobbies[k] # None
             /\ MayJoin(w.lobbies[k]) /\ Reply(joined, p)
    <2>1. w.lobbies \in [LobbyIds -> Lobby \cup {None}]
      BY <1>1 DEF Sane, Worlds
    <2>2. p \notin w.lobbies[k].members
      BY <1>1, <1>4, NoneAssumption DEF Sane, SanePlaces
    <2> HIDE DEF lobby
    <2>3. joined.lobbies = [w.lobbies EXCEPT ![k] = lobby]
          /\ "lobbies" \in DOMAIN joined
      <3> DEFINE ps == [v.playerLobby EXCEPT ![p] = k]
                 ts == [v.told EXCEPT ![k].members = @ \cup {p}]
      <3>1. joined = [v EXCEPT !.playerLobby = ps, !.told = ts]
        OBVIOUS
      <3>2. "lobbies" \in DOMAIN v
        BY <1>1 DEF Revise
      <3> HIDE DEF ps, ts, joined
      <3>3. QED
        BY <1>1, <3>1, <3>2, RevisedLobbies
    <2> HIDE DEF joined
    <2>4. lobbies' = [w.lobbies EXCEPT ![k] = lobby]
      BY <1>4, <2>3, ReplyLobbies
    <2>5. Rules(k)!Change(p, w.lobbies[k], lobby)
      <3>1. Rules(k)!Enter(p, w.lobbies[k], lobby)
        BY <1>4, <2>2, SameCardinality, Zenon DEF lobby, Rules!Enter, MayJoin
      <3>2. QED
        BY <1>4, <3>1 DEF Rules!Change
    <2>6. QED
      BY <1>1, <2>1, <2>4, <2>5, OneChange
  <1>5. QED
    BY <1>2, <1>3, <1>4

\* set_lobby_ready, set_lobby_phase, set_lobby_locked and transfer_lobby.
LEMMA ReconfigureRules ==
    ASSUME Sane(World), NEW p \in Players,
           \/ \E b \in BOOLEAN : \E e : SetReady(p, b) \/ SetLocked(p, b, e)
           \/ \E ph \in Phases : \E e : SetPhase(p, ph, e)
           \/ \E q \in Players : \E e : TransferLobby(p, q, e)
    PROVE  \A l \in LobbyIds : Changes(l, p)
  <1> DEFINE k == playerLobby[p]
             lobby == LobbyOf(World, p)
             Mine == k \in LobbyIds /\ lobby = lobbies[k] /\ lobby # None
             Becomes(new) == Mine /\ lobbies' = [lobbies EXCEPT ![k] = new]
  <1>1. ASSUME lobby # None PROVE Mine
    BY <1>1, OwnLobby DEF World
  <1>2. ASSUME NEW new, Becomes(new), Rules(k)!Change(p, lobby, new)
        PROVE  \A l \in LobbyIds : Changes(l, p)
    <2> HIDE DEF k, lobby
    <2>1. QED
      BY <1>2, AsTheyAre, OneChange
  <1>3. \A new, w : /\ Mine /\ Reply(w, p) /\ "lobbies" \in DOMAIN w
                    /\ w.lobbies = [lobbies EXCEPT ![k] = new]
                    => Becomes(new)
    BY ReplyLobbies
  <1>4. \A new : /\ Revise(World, k, new).lobbies = [lobbies EXCEPT ![k] = new]
                 /\ "lobbies" \in DOMAIN Revise(World, k, new)
    BY RevisedLobbies DEF Revise, World
  <1>5. \A new, ts :
            LET w == [Revise(World, k, new) EXCEPT !.told = ts]
            IN  /\ w.lobbies = [lobbies EXCEPT ![k] = new]
                /\ "lobbies" \in DOMAIN w
    BY RevisedLobbies DEF Revise, World
  <1>6. CASE \E b \in BOOLEAN : SetReady(p, b)
    <2>1. PICK ready \in BOOLEAN : SetReady(p, ready)
      BY <1>6
    <2> DEFINE set == IF ready THEN lobby.ready \cup {p} ELSE lobby.ready \ {p}
               new == [lobby EXCEPT !.ready = set]
    <2>2. /\ lobby # None /\ p \in lobby.members /\ lobby.phase = "gathering"
          /\ Reply(Revise(World, k, new), p)
      BY <2>1 DEF SetReady
    <2>3. set \in {lobby.ready \cup {p}, lobby.ready \ {p}}
      OBVIOUS
    <2> HIDE DEF set, Becomes, Mine, k, lobby
    <2>4. Rules(k)!Change(p, lobby, new)
      BY <2>2, <2>3 DEF Rules!Change, Rules!Mark
    <2> HIDE DEF new
    <2>5. Becomes(new)
      BY <1>1, <1>3, <1>4, <2>2
    <2>6. QED
      BY <1>2, <2>4, <2>5
  <1>7. CASE \E ph \in Phases : \E e : SetPhase(p, ph, e)
    <2>1. PICK phase \in Phases : \E e : SetPhase(p, phase, e)
      BY <1>7
    <2> DEFINE set == IF phase = "gathering" THEN {} ELSE lobby.ready
               new == [lobby EXCEPT !.phase = phase, !.ready = set]
    <2>2. /\ lobby # None /\ lobby.host = p
          /\ Reply(Revise(World, k, new), p)
      BY <2>1 DEF SetPhase, Hosts
    <2>3. lobby \in Lobby
      BY <2>2, OwnLobby DEF SaneLobby
    <2> HIDE DEF Becomes, Mine, k, lobby
    <2>4. \/ new = [lobby EXCEPT !.phase = "gathering", !.ready = {}]
          \/ new = [lobby EXCEPT !.phase = "in_game"]
      BY <2>3 DEF Phases, Lobby
    <2> HIDE DEF new
    <2>5. Rules(k)!Change(p, lobby, new)
      BY <2>2, <2>4 DEF Rules!Change, Rules!Direct, Rules!StartOver, Rules!Play
    <2>6. Becomes(new)
      BY <1>1, <1>3, <1>4, <2>2
    <2>7. QED
      BY <1>2, <2>5, <2>6
  <1>8. CASE \E b \in BOOLEAN : \E e : SetLocked(p, b, e)
    <2>1. PICK locked \in BOOLEAN : \E e : SetLocked(p, locked, e)
      BY <1>8
    <2> DEFINE new == [lobby EXCEPT !.locked = locked]
               w == Revise(World, k, new)
               r == [w EXCEPT !.told[k].locked = locked]
               ts == [w.told EXCEPT ![k].locked = locked]
    <2>2. /\ lobby # None /\ lobby.host = p
          /\ Reply(r, p) /\ r = [w EXCEPT !.told = ts]
      BY <2>1 DEF SetLocked, Hosts
    <2> HIDE DEF Becomes, Mine, k, lobby, r, ts
    <2>3. Rules(k)!Change(p, lobby, new)
      BY <2>2 DEF Rules!Change, Rules!Direct, Rules!Lock
    <2> HIDE DEF new
    <2>4. r.lobbies = [lobbies EXCEPT ![k] = new] /\ "lobbies" \in DOMAIN r
      BY <1>5, <2>2
    <2>5. Becomes(new)
      BY <1>1, <1>3, <2>2, <2>4
    <2>6. QED
      BY <1>2, <2>3, <2>5
  <1>9. CASE \E q \in Players : \E e : TransferLobby(p, q, e)
    <2>1. PICK target \in Players : \E e : TransferLobby(p, target, e)
      BY <1>9
    <2> DEFINE new == [lobby EXCEPT !.host = target]
               w == Revise(World, k, new)
               r == [w EXCEPT !.told[k].host = target]
               ts == [w.told EXCEPT ![k].host = target]
    <2>2. /\ lobby # None /\ lobby.host = p /\ target \in lobby.members
          /\ Reply(r, p) /\ r = [w EXCEPT !.told = ts]
      BY <2>1 DEF TransferLobby, Hosts
    <2> HIDE DEF Becomes, Mine, k, lobby, r, ts
    <2>3. Rules(k)!Change(p, lobby, new)
      BY <2>2 DEF Rules!Change, Rules!Direct, Rules!HandOver
    <2> HIDE DEF new
    <2>4. r.lobbies = [lobbies EXCEPT ![k] = new] /\ "lobbies" \in DOMAIN r
      BY <1>5, <2>2
    <2>5. Becomes(new)
      BY <1>1, <1>3, <2>2, <2>4
    <2>6. QED
      BY <1>2, <2>3, <2>5
  <1>10. QED
    BY <1>6, <1>7, <1>8, <1>9

LEMMA RemovedLobbies ==
    ASSUME NEW w, Sane(w), NEW k \in LobbyIds, NEW p \in Players
    PROVE  RemoveMember(w, k, p).lobbies
              = [w.lobbies EXCEPT ![k] = Without(w.lobbies[k], {p})]
  <1> DEFINE new == Without(w.lobbies[k], {p})
             v == Revise(w, k, new)
             ls == [w.lobbies EXCEPT ![k] = new]
             ns == [w.revision EXCEPT ![k] = @ + 1]
             ps == [v.playerLobby EXCEPT ![p] = None]
             ts == [v.told EXCEPT ![k].members = @ \ {p}]
             r == RemoveMember(w, k, p)
  <1>1. v = [lobbies |-> ls, playerLobby |-> w.playerLobby,
             told |-> w.told, revision |-> ns, view |-> w.view]
    BY ReviseRecord DEF Sane
  <1>2. r = [v EXCEPT !.playerLobby = ps, !.told = ts]
    BY DEF RemoveMember
  <1> HIDE DEF v, ls, ns, ps, ts, r
  <1>3. r.lobbies = ls
    BY <1>1, <1>2
  <1>4. QED
    BY <1>3 DEF r, ls

\* The lobby of a player who leaves or is back too late.
LEMMA DepartureOf ==
    ASSUME Sane(World), NEW p \in Players, LobbyOf(World, p) # None,
           \/ Hosts(World, p) /\ Become(Close(World, playerLobby[p]))
           \/ ~Hosts(World, p) /\ Become(RemoveMember(World, playerLobby[p], p))
    PROVE  LET k == playerLobby[p]
               x == lobbies[k]
           IN  /\ k \in LobbyIds /\ x # None /\ p \in x.members
               /\ \/ x.host = p /\ lobbies' = [lobbies EXCEPT ![k] = None]
                  \/ /\ x.host # p
                     /\ lobbies' = [lobbies EXCEPT ![k] = Without(x, {p})]
  <1> DEFINE k == playerLobby[p]
             x == lobbies[k]
             w == World
  <1>1. /\ k \in LobbyIds /\ x # None /\ p \in x.members
        /\ Hosts(World, p) <=> x.host = p
    BY OwnLobby DEF World, Hosts
  <1>2. Become(Close(World, k)) => lobbies' = [lobbies EXCEPT ![k] = None]
    BY DEF Become, Close, World
  <1>3. w.lobbies = lobbies /\ Sane(w)
    BY DEF World
  <1> HIDE DEF k, w
  <1>4. RemoveMember(w, k, p).lobbies
           = [w.lobbies EXCEPT ![k] = Without(w.lobbies[k], {p})]
    BY <1>1, <1>3, RemovedLobbies
  <1>5. Become(RemoveMember(w, k, p))
        => lobbies' = [lobbies EXCEPT ![k] = Without(x, {p})]
    BY <1>3, <1>4 DEF Become
  <1>6. QED
    BY <1>1, <1>2, <1>5 DEF k, w

LEMMA DepartureRules ==
    ASSUME Sane(World), NEW p \in Players, LobbyOf(World, p) # None,
           \/ Hosts(World, p) /\ Become(Close(World, playerLobby[p]))
           \/ ~Hosts(World, p) /\ Become(RemoveMember(World, playerLobby[p], p))
    PROVE  /\ \A l \in LobbyIds : Changes(l, p)
           /\ p \in Absent =>
                 \A l \in LobbyIds : Remain(lobbies[l], lobbies'[l], Absent)
  <1> DEFINE k == playerLobby[p]
             x == lobbies[k]
  <1>1. /\ k \in LobbyIds /\ x # None /\ p \in x.members
        /\ \/ x.host = p /\ lobbies' = [lobbies EXCEPT ![k] = None]
           \/ x.host # p /\ lobbies' = [lobbies EXCEPT ![k] = Without(x, {p})]
    BY DepartureOf
  <1> DEFINE y == IF x.host = p THEN None ELSE Without(x, {p})
  <1>2. lobbies' = [lobbies EXCEPT ![k] = y]
    BY <1>1
  <1> HIDE DEF k, x
  <1>3. x = lobbies[k]
    BY DEF x
  <1>4. Rules(k)!Change(p, x, y)
    BY <1>1
       DEF Rules!Change, Rules!Direct, Rules!Leave, Rules!Without, Without
  <1>5. \A l \in LobbyIds : Changes(l, p)
    BY <1>1, <1>2, <1>3, <1>4, AsTheyAre, OneChange
  <1>6. ASSUME p \in Absent, NEW l \in LobbyIds
        PROVE  Remain(lobbies[l], lobbies'[l], Absent)
    <2>1. CASE l = k
      <3>1. lobbies'[l] = y
        BY <1>2, <2>1, AsTheyAre
      <3>2. x.host # p => {p} \in SUBSET ((x.members \cap Absent) \ {x.host})
        BY <1>1, <1>6
      <3>3. QED
        BY <1>1, <1>2, <1>3, <1>6, <2>1, <3>1, <3>2 DEF Remain
    <2>2. CASE l # k
      BY <1>2, <2>2, AsTheyAre
    <2>3. QED
      BY <2>1, <2>2
  <1>7. QED
    BY <1>5, <1>6

\* What every operation comes to.
LEMMA OperationRules ==
    ASSUME Sane(World), NEW p \in Players, Operation(p)
    PROVE  \A l \in LobbyIds : Changes(l, p)
  <1>1. CASE Ignore(p)
    BY <1>1, AsTheyAre, NoChange DEF Ignore
  <1>9. CASE SendMessage(p)
    BY <1>9, ReloadedRemains, NoChange DEF SendMessage, Become
  <1>2. CASE Snapshot(p)
    BY <1>2, SnapshotRules
  <1>3. CASE \E c \in Capacities, s \in Settings : \E e : UpsertLobby(p, c, s, e)
    BY <1>3, UpsertRules
  <1>4. CASE \E l \in LobbyIds : JoinLobby(p, l)
    BY <1>4, JoinRules
  <1>5. CASE \/ \E b \in BOOLEAN : \E e : SetReady(p, b) \/ SetLocked(p, b, e)
             \/ \E ph \in Phases : \E e : SetPhase(p, ph, e)
             \/ \E q \in Players : \E e : TransferLobby(p, q, e)
    BY <1>5, ReconfigureRules
  <1>6. CASE LeaveLobby(p)
    <2>1. LobbyOf(World, p) # None
      BY <1>6, NoneAssumption DEF LeaveLobby, LobbyOf, Sane, SanePlaces, World, Worlds
    <2>2. \/ Hosts(World, p) /\ Become(Close(World, playerLobby[p]))
          \/ ~Hosts(World, p) /\ Become(RemoveMember(World, playerLobby[p], p))
      BY <1>6, <2>1 DEF LeaveLobby
    <2>3. QED
      BY <2>1, <2>2, DepartureRules
  <1>7. CASE CloseRoom(p)
    BY <1>7, DepartureRules DEF CloseRoom, Hosts
  <1>8. QED
    BY <1>1, <1>2, <1>3, <1>4, <1>5, <1>6, <1>7, <1>9
       DEF Operation, Revision

Asking == {p \in Players : request[p] = "touched"}

LEMMA RulesStep ==
    ASSUME Plain, Sane(World), [Next]_vars, NEW l \in LobbyIds
    PROVE  [Rules(l)!Next]_(Rules(l)!vars)
  <1>1. Absent' \subseteq Players
    BY DEF Absent
  <1>2. Remain(lobbies[l], lobbies[l], Absent)
    BY AsTheyAre
  <1>3. ASSUME Remain(lobbies[l], lobbies'[l], Absent), Asking' = Asking
        PROVE  Rules(l)!Next
    BY <1>1, <1>3, RemainsIs DEF Rules!Next, Rules!Pass, Asking
  <1>4. CASE UNCHANGED vars
    BY <1>4 DEF vars, Rules!vars, Absent
  <1>5. CASE UpdatePlayers
    BY <1>2, <1>3, <1>5 DEF UpdatePlayers, Asking
  <1>6. ASSUME NEW p \in Players, Tick(p) PROVE Rules(l)!Next
    BY <1>2, <1>3, <1>6 DEF Tick, Asking
  <1>7. ASSUME NEW p \in Players, Authenticate(p) PROVE Rules(l)!Next
    <2>1. lobbies' = Reloaded.lobbies
      BY <1>7 DEF Authenticate, Become
    <2>2. Asking' = Asking
      BY <1>7 DEF Authenticate, Asking, Plain
    <2>3. QED
      BY <1>3, <2>1, <2>2, ReloadedRemains
  <1>8. ASSUME NEW p \in Players, Touch(p) PROVE Rules(l)!Next
    <2>1. Remain(lobbies[l], lobbies'[l], Absent)
      <3>1. CASE presence[p] # "gone" \/ LobbyOf(World, p) = None
        BY <1>2, <1>8, <3>1 DEF Touch, Become, World
      <3>2. CASE presence[p] = "gone" /\ LobbyOf(World, p) # None
        <4>1. p \in Absent
          BY <3>2 DEF Absent
        <4>2. \/ Hosts(World, p) /\ Become(Close(World, playerLobby[p]))
              \/ ~Hosts(World, p) /\ Become(RemoveMember(World, playerLobby[p], p))
          BY <1>8, <3>2 DEF Touch
        <4>3. QED
          BY <3>2, <4>1, <4>2, DepartureRules
      <3>3. QED
        BY <3>1, <3>2
    <2>2. Asking' = Asking \cup {p}
      BY <1>8 DEF Touch, Asking, Plain
    <2>3. Rules(l)!Ask(p)
      BY <2>1, <2>2, RemainsIs DEF Rules!Ask, Asking
    <2>4. QED
      BY <1>1, <2>3 DEF Rules!Next
  <1>9. ASSUME NEW p \in Players, Operation(p) PROVE Rules(l)!Next
    <2>1. Serve(p)
      BY <1>9 DEF Operation, Revision, Operate, Ignore, SendMessage, Snapshot,
                  UpsertLobby, JoinLobby, SetReady, SetPhase, SetLocked, TransferLobby, LeaveLobby, CloseRoom
    <2>2. p \in Asking /\ Asking' = Asking \ {p}
      BY <2>1 DEF Serve, Asking, Plain
    <2>3. Changes(l, p)
      BY <1>9, OperationRules
    <2>4. Rules(l)!Serve(p)
      BY <2>2, <2>3 DEF Rules!Serve, Asking, Changes
    <2>5. QED
      BY <1>1, <2>4 DEF Rules!Next
  <1>10. QED
    BY <1>4, <1>5, <1>6, <1>7, <1>8, <1>9 DEF Next

\* Every lobby keeps to LobbyRules, for any number of players, lobbies and
\* requests served at once: nobody is moved, made ready or put out by another
\* player's request but for the host, who decides as the host of that moment.
THEOREM RulesImplemented == Spec => ImplementsRules
  <1>1. Init => \A l \in LobbyIds : Rules(l)!Init
    BY DEF Init, Rules!Init, Absent
  <1>2. Plain /\ Sane(World) /\ [Next]_vars
           => [\A l \in LobbyIds : [Rules(l)!Next]_(Rules(l)!vars)]_vars
    BY RulesStep
  <1>3. QED
    BY <1>1, <1>2, LobbyInductive, PTL DEF Spec, ImplementsRules
-----------------------------------------------------------------------------
(***************************************************************************)
(* What the liveness properties rest on: once the reload or the cleanup    *)
(* comes by, nobody is left in a lobby who does not belong there.          *)
(***************************************************************************)
LEMMA PruneFrees ==
    ASSUME NEW w, Sane(w), NEW keep, NEW p \in Players, p \notin keep
    PROVE  Prune(w, keep).playerLobby[p] = None
  <1> DEFINE r == Prune(w, keep).playerLobby[p]
  <1>1. r = IF \E l \in {k \in LobbyIds : w.lobbies[k] # None} :
                  p \in w.lobbies[l].members
            THEN None ELSE w.playerLobby[p]
    BY DEF Prune
  <1>2. w.playerLobby[p] \in LobbyIds =>
            /\ w.lobbies[w.playerLobby[p]] # None
            /\ p \in w.lobbies[w.playerLobby[p]].members
    BY DEF Sane, SanePlaces
  <1>3. w.playerLobby[p] \in LobbyIds \cup {None}
    BY DEF Sane, Worlds
  <1> HIDE DEF r
  <1>4. r = None
    BY <1>1, <1>2, <1>3
  <1>5. QED
    BY <1>4 DEF r

LEMMA ReplyPlaces ==
    ASSUME NEW w, NEW p, "playerLobby" \in DOMAIN w, Reply(w, p)
    PROVE  playerLobby' = w.playerLobby
  <1>1. Become(Show(w, p)) \/ Become(w)
    BY DEF Reply
  <1>2. Show(w, p).playerLobby = w.playerLobby
    BY DEF Show
  <1>3. QED
    BY <1>1, <1>2 DEF Become

LEMMA SnapshotFrees ==
    ASSUME Sane(World), NEW q \in Players, Snapshot(q),
           NEW p \in Players, presence'[p] \notin {"online", "away"}
    PROVE  playerLobby'[p] = None
  <1> DEFINE present == {r \in Players : presence'[r] \in {"online", "away"}}
             w == Prune(Reloaded, present)
  <1>1. w.playerLobby[p] = None /\ "playerLobby" \in DOMAIN w
    <2>1. Sane(Reloaded) /\ p \notin present
      BY ReloadedSane
    <2>2. "playerLobby" \in DOMAIN w
      BY DEF Prune
    <2> HIDE DEF present
    <2>3. w.playerLobby[p] = None
      BY <2>1, PruneFrees
    <2>4. QED
      BY <2>2, <2>3
  <1>2. Reply(w, q)
    BY DEF Snapshot
  <1> HIDE DEF w
  <1>3. QED
    BY <1>1, <1>2, ReplyPlaces

LEMMA JoinFrees ==
    ASSUME Sane(World), NEW q \in Players, NEW l \in LobbyIds, JoinLobby(q, l),
           NEW p \in Players \ {q}, presence[p] \notin {"online", "away"}
    PROVE  playerLobby'[p] = None
  <1> DEFINE w == Prune(World, Present)
             v == Revise(w, l, [w.lobbies[l] EXCEPT !.members = @ \cup {q}])
             joined == [v EXCEPT !.playerLobby[q] = l,
                                 !.told[l].members = @ \cup {q}]
  <1>1. w.playerLobby[p] = None /\ "playerLobby" \in DOMAIN w /\ w \in Worlds
    <2>1. p \notin Present
      BY DEF Present
    <2>2. "playerLobby" \in DOMAIN w
      BY DEF Prune
    <2>3. w.playerLobby[p] = None
      BY <2>1, PruneFrees
    <2>4. w \in Worlds
      BY PruneSane DEF Sane
    <2>5. QED
      BY <2>2, <2>3, <2>4
  <1>2. Become(w) \/ Reply(w, q) \/ Reply(joined, q)
    BY DEF JoinLobby
  <1> HIDE DEF w
  <1>3. "playerLobby" \in DOMAIN joined /\ joined.playerLobby[p] = None
    <2>1. v.playerLobby = w.playerLobby /\ DOMAIN v = DOMAIN w
      BY <1>1 DEF Revise, Worlds
    <2> DEFINE ps == [v.playerLobby EXCEPT ![q] = l]
               ts == [v.told EXCEPT ![l].members = @ \cup {q}]
    <2>2. joined = [v EXCEPT !.playerLobby = ps, !.told = ts]
      OBVIOUS
    <2>3. ps[p] = None
      BY <1>1, <2>1 DEF Worlds
    <2> HIDE DEF ps, ts, v, joined
    <2>4. QED
      BY <1>1, <2>1, <2>2, <2>3
  <1> HIDE DEF joined
  <1>4. QED
    BY <1>1, <1>2, <1>3, ReplyPlaces DEF Become

LEMMA UpsertFrees ==
    ASSUME Sane(World), NEW q \in Players, NEW c \in Capacities,
           NEW s \in Settings, NEW e, UpsertLobby(q, c, s, e),
           NEW p \in Players \ {q}, presence[p] \notin {"online", "away"}
    PROVE  playerLobby'[p] = None
  <1> DEFINE w == Prune(World, Present)
             mine == LobbyOf(w, q)
             own == w.playerLobby[q]
             v == Revise(w, own, Configured(mine, c, s))
             opened(l) == [w EXCEPT !.lobbies[l] = NewLobby(q, c, s),
                                    !.playerLobby[q] = l,
                                    !.revision[l] = 1,
                                    !.told[l] = [host |-> q, members |-> {q},
                                                 locked |-> FALSE]]
  <1>1. w.playerLobby[p] = None /\ "playerLobby" \in DOMAIN w /\ w \in Worlds
    <2>1. p \notin Present
      BY DEF Present
    <2>2. "playerLobby" \in DOMAIN w
      BY DEF Prune
    <2>3. w.playerLobby[p] = None
      BY <2>1, PruneFrees
    <2>4. w \in Worlds
      BY PruneSane DEF Sane
    <2>5. QED
      BY <2>2, <2>3, <2>4
  <1>2. \/ Become(w)
        \/ Reply(v, q)
        \/ \E l \in LobbyIds : Reply(opened(l), q)
    BY DEF UpsertLobby
  <1> HIDE DEF w
  <1>3. v.playerLobby = w.playerLobby /\ "playerLobby" \in DOMAIN v
    BY <1>1 DEF Revise, Worlds
  <1>4. ASSUME NEW l \in LobbyIds
        PROVE  /\ "playerLobby" \in DOMAIN opened(l)
               /\ opened(l).playerLobby[p] = None
    <2> DEFINE ls == [w.lobbies EXCEPT ![l] = NewLobby(q, c, s)]
               ps == [w.playerLobby EXCEPT ![q] = l]
               ts == [w.told EXCEPT ![l] = [host |-> q, members |-> {q},
                                            locked |-> FALSE]]
               ns == [w.revision EXCEPT ![l] = 1]
    <2>1. opened(l) = [w EXCEPT !.lobbies = ls, !.playerLobby = ps,
                                !.revision = ns, !.told = ts]
      OBVIOUS
    <2>2. ps[p] = None
      BY <1>1 DEF Worlds
    <2> HIDE DEF ls, ps, ts, ns, opened
    <2>3. QED
      BY <1>1, <2>1, <2>2 DEF Worlds
  <1> HIDE DEF v, own, opened
  <1>5. QED
    BY <1>1, <1>2, <1>3, <1>4, ReplyPlaces DEF Become

\* A reload leaves no player in a lobby who was taken out of players.json, and
\* a cleanup none whose presence is over, but for the one who is being served:
\* what AbandonedPlaceIsFreed and RemovedPlayerLeaves need of a single step.
THEOREM CleanupFreesPlaces ==
    Spec => [][\A q \in Players :
                /\ Authenticate(q) /\ changed =>
                      \A p \in Players \ registered : playerLobby'[p] = None
                /\ Snapshot(q) =>
                      \A p \in Players :
                         presence'[p] \notin {"online", "away"}
                            => playerLobby'[p] = None
                /\ \/ \E l \in LobbyIds : JoinLobby(q, l)
                   \/ \E c \in Capacities, s \in Settings : \E e :
                         UpsertLobby(q, c, s, e)
                   => \A p \in Players \ {q} :
                         presence[p] \notin {"online", "away"}
                            => playerLobby'[p] = None]_vars
  <1>1. ASSUME Sane(World), NEW q \in Players, Authenticate(q), changed,
               NEW p \in Players \ registered
        PROVE  playerLobby'[p] = None
    <2>1. playerLobby' = Prune(World, registered).playerLobby
      BY <1>1 DEF Authenticate, Become, Reloaded
    <2>2. QED
      BY <1>1, <2>1, PruneFrees
  <1>2. Plain /\ Sane(World) /\ [Next]_vars =>
            [\A q \in Players :
                /\ Authenticate(q) /\ changed =>
                      \A p \in Players \ registered : playerLobby'[p] = None
                /\ Snapshot(q) =>
                      \A p \in Players :
                         presence'[p] \notin {"online", "away"}
                            => playerLobby'[p] = None
                /\ \/ \E l \in LobbyIds : JoinLobby(q, l)
                   \/ \E c \in Capacities, s \in Settings : \E e :
                         UpsertLobby(q, c, s, e)
                   => \A p \in Players \ {q} :
                         presence[p] \notin {"online", "away"}
                            => playerLobby'[p] = None]_vars
    BY <1>1, SnapshotFrees, JoinFrees, UpsertFrees
  <1>3. QED
    BY <1>2, LobbyInductive, PTL DEF Spec
=============================================================================
