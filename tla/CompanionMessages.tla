-------------------------- MODULE CompanionMessages -------------------------
(***************************************************************************)
(* The two message queues of assets/lan-party-companion.py and the client  *)
(* of assets/windows/LAN-Party-Companion.ps1 that polls them.              *)
(*                                                                         *)
(* A message is known by its number: sent[n] says who sent message n of    *)
(* this instance of the server and to whom, and message_sequence is        *)
(* Len(sent).  The deques hold numbers, and so do a reply and the lists of *)
(* the client, there with the instance that numbered them.                 *)
(*                                                                         *)
(* Who is registered, and who may open, join and leave a lobby, is the     *)
(* subject of CompanionLobby; here any of it happens at any time, with the *)
(* event message it leaves.  A lobby identifier is drawn at random and     *)
(* never comes back.  A request that is refused (an unknown target, the    *)
(* rate of a sender, no lobby) changes nothing and has no action.          *)
(***************************************************************************)
EXTENDS Naturals, FiniteSets, Sequences

CONSTANTS
    Players,        \* player names
    Lobbies,        \* identifiers of lobbies
    Watchers,       \* bound: players whose client is modelled
    Retention,      \* message_retention
    Window,         \* messages of a kind in one reply (100)
    ListSize,       \* messages a list of the client keeps (500)
    Posts,          \* bound: who sends to whom, <<player, target>>
    MaxSent,        \* bound: messages of an instance
    MaxRestarts,    \* bound: restarts of the server
    None

ASSUME NoneAssumption == None \notin Players \cup Lobbies \cup Nat

\* A message is for players, for everyone or for a lobby.
ASSUME LobbyAssumption == Lobbies \cap (Players \cup {"everyone"}) = {}

ASSUME SizeAssumption ==
    /\ {Retention, Window, ListSize} \subseteq Nat \ {0}
    /\ {MaxSent, MaxRestarts} \subseteq Nat
    /\ Watchers \subseteq Players

VARIABLES
    instance,       \* instance_id
    playerLobby,    \* player_lobby
    opened,         \* lobby identifiers drawn so far
    sent,           \* the messages numbered by this instance
    messages,       \* deque of public and private messages
    lobbyMessages,  \* deque of lobby messages and events
    joined,         \* history: message_sequence when a player entered its lobby
    client,         \* state of each watcher's client
    reply           \* answer on its way to each client

serverVars == <<instance, playerLobby, opened, sent, messages,
                lobbyMessages, joined>>
clientVars == <<client, reply>>
vars == <<serverVars, clientVars>>

-----------------------------------------------------------------------------
Everyone == "everyone"
ToLobby == "lobby"
Targets == Players \cup {Everyone}

Numbers == 1..MaxSent
Message == [sender : Players \cup {None},           \* None: an event
            target : Targets \cup Lobbies]
Item == [of : 0..MaxRestarts, number : Numbers]
Reply == [instance : 0..MaxRestarts,
          sequence : 0..MaxSent,
          lobby    : Lobbies \cup {None},
          chat     : Seq(Numbers),
          room     : Seq(Numbers)]
Client == [step     : {"polling", "refetching"},
           instance : 0..MaxRestarts \cup {None},
           cursor   : 0..MaxSent,
           lobby    : Lobbies \cup {None},
           list     : Seq(Item),
           room     : Seq(Item)]

Newest(size, s) == IF Len(s) <= size THEN s
                   ELSE SubSeq(s, Len(s) - size + 1, Len(s))

IsChat(n) == sent[n].target \in Targets

Visible(p, n) == \/ sent[n].target \in {Everyone, p}
                 \/ sent[n].sender = p

Members(l) == {p \in Players : playerLobby[p] = l}

Fresh == [step |-> "polling", instance |-> None, cursor |-> 0,
          lobby |-> None, list |-> << >>, room |-> << >>]

\* Mutant of Push: a deque without a maxlen.
PushUnbounded(queue, n) == Append(queue, n)

\* appending to a deque with a maxlen
Push(queue, n) == Newest(Retention, Append(queue, n))

TypeOK ==
    /\ instance \in 0..MaxRestarts
    /\ playerLobby \in [Players -> Lobbies \cup {None}]
    /\ opened \subseteq Lobbies
    /\ sent \in Seq(Message) /\ Len(sent) <= MaxSent
    /\ messages \in Seq(Numbers) /\ Len(messages) <= Retention
    /\ lobbyMessages \in Seq(Numbers) /\ Len(lobbyMessages) <= Retention
    /\ joined \in [Watchers -> 0..MaxSent]
    /\ client \in [Watchers -> Client]
    /\ reply \in [Watchers -> Reply \cup {None}]

Init ==
    /\ instance = 0
    /\ playerLobby = [p \in Players |-> None]
    /\ opened = {}
    /\ sent = << >>
    /\ messages = << >>
    /\ lobbyMessages = << >>
    /\ joined = [p \in Watchers |-> 0]
    /\ client = [p \in Watchers |-> Fresh]
    /\ reply = [p \in Watchers |-> None]

-----------------------------------------------------------------------------
(* Sending: the last section of a POST.                                    *)

\* numbers the next message
Number(sender, target) ==
    /\ Len(sent) < MaxSent
    /\ sent' = Append(sent, [sender |-> sender, target |-> target])

SendMessage(p, to) ==
    /\ <<p, to>> \in Posts
    /\ Number(p, to)
    /\ messages' = Push(messages, Len(sent'))
    /\ UNCHANGED <<instance, playerLobby, opened, lobbyMessages, joined,
                   clientVars>>

SendLobbyMessage(p) ==
    /\ <<p, ToLobby>> \in Posts
    /\ playerLobby[p] # None
    /\ Number(p, playerLobby[p])
    /\ lobbyMessages' = Push(lobbyMessages, Len(sent'))
    /\ UNCHANGED <<instance, playerLobby, opened, messages, joined, clientVars>>

-----------------------------------------------------------------------------
(* Lobbies, as far as messages depend on them.                             *)

AppendLobbyEvent(l) ==
    /\ Number(None, l)
    /\ lobbyMessages' = Push(lobbyMessages, Len(sent'))

Open(p, l) ==
    /\ l \notin opened
    /\ playerLobby[p] = None
    /\ opened' = opened \cup {l}
    /\ playerLobby' = [playerLobby EXCEPT ![p] = l]
    /\ joined' = [q \in Watchers |-> IF q = p THEN Len(sent) ELSE joined[q]]
    /\ UNCHANGED <<instance, sent, messages, lobbyMessages, clientVars>>

Join(p, l) ==
    /\ Members(l) # {}
    /\ playerLobby[p] = None
    /\ playerLobby' = [playerLobby EXCEPT ![p] = l]
    /\ joined' = [q \in Watchers |-> IF q = p THEN Len(sent) ELSE joined[q]]
    /\ AppendLobbyEvent(l)
    /\ UNCHANGED <<instance, opened, messages, clientVars>>

\* leave_lobby, or _cleanup, of a player who is not the host
Leave(p) ==
    /\ playerLobby[p] # None
    /\ Members(playerLobby[p]) # {p}
    /\ playerLobby' = [playerLobby EXCEPT ![p] = None]
    /\ AppendLobbyEvent(playerLobby[p])
    /\ UNCHANGED <<instance, opened, messages, joined, clientVars>>

\* a phase, a lock or a new host is announced
Announce(l) ==
    /\ Members(l) # {}
    /\ AppendLobbyEvent(l)
    /\ UNCHANGED <<instance, playerLobby, opened, messages, joined, clientVars>>

\* _close_lobby_locked, which announces nothing
Close(l) ==
    /\ Members(l) # {}
    /\ playerLobby' = [p \in Players |->
                         IF playerLobby[p] = l THEN None ELSE playerLobby[p]]
    /\ UNCHANGED <<instance, opened, sent, messages, lobbyMessages,
                   joined, clientVars>>

-----------------------------------------------------------------------------
(* The process.                                                            *)

\* a new process: everything but the players file is gone
Restart ==
    /\ instance < MaxRestarts
    /\ instance' = instance + 1
    /\ playerLobby' = [p \in Players |-> None]
    /\ sent' = << >>
    /\ messages' = << >>
    /\ lobbyMessages' = << >>
    /\ joined' = [p \in Watchers |-> 0]
    /\ UNCHANGED <<opened, clientVars>>

-----------------------------------------------------------------------------
(* Polling.  The client has one request out at a time.                     *)

\* those of a deque that are in wanted, in the order of the deque
Selected(queue, wanted) ==
    LET at == {i \in 1..Len(queue) : queue[i] \in wanted}
        rank(i) == Cardinality({j \in at : j <= i})
    IN  [k \in 1..Cardinality(at) |-> queue[CHOOSE i \in at : rank(i) = k]]

VisibleMessages(p, since) ==
    Newest(Window, Selected(messages,
                     {n \in 1..Len(sent) : n > since /\ Visible(p, n)}))

VisibleLobbyMessages(p, since) ==
    Newest(Window, Selected(lobbyMessages,
                     {n \in 1..Len(sent) : /\ n > since
                                           /\ sent[n].target = playerLobby[p]}))

\* the server's answer to GET /api/v2/state?since=cursor
Snapshot(p) ==
    /\ reply[p] = None
    /\ reply' = [reply EXCEPT ![p] =
         [instance |-> instance,
          sequence |-> Len(sent),
          lobby    |-> playerLobby[p],
          chat     |-> VisibleMessages(p, client[p].cursor),
          room     |-> VisibleLobbyMessages(p, client[p].cursor)]]
    /\ UNCHANGED <<serverVars, client>>

\* Mutant of Forgotten: what is shown stays on the screen.
ForgottenCursor(c) == [c EXCEPT !.step = "refetching", !.cursor = 0]

\* Mutant of Forgotten: the new instance is asked for messages since the
\* cursor of the old one.
ForgottenLists(c) ==
    [c EXCEPT !.step = "refetching", !.list = << >>, !.room = << >>]

\* Mutant of Forgotten: the state is not asked for again.
ForgottenOnly(c) == [c EXCEPT !.cursor = 0, !.list = << >>, !.room = << >>]

Forgotten(c) ==
    [c EXCEPT !.step = "refetching", !.cursor = 0, !.list = << >>, !.room = << >>]

\* Refresh-CompanionState meets another instance: it forgets everything and
\* asks again, from the start
NoticeRestart(p) ==
    /\ reply[p] # None
    /\ client[p].step = "polling"
    /\ client[p].instance \notin {None, reply[p].instance}
    /\ client' = [client EXCEPT ![p] = Forgotten(@)]
    /\ reply' = [reply EXCEPT ![p] = None]
    /\ UNCHANGED serverVars

\* Add-ChatMessage for each of a sequence of messages
Shown(list, of, numbers) ==
    Newest(ListSize, list \o [i \in 1..Len(numbers) |->
                                [of |-> of, number |-> numbers[i]]])

\* Mutant of RoomOf: the messages of the lobby before stay.
RoomAlways(c, lobby) == c.room

\* the messages of the lobby go when the player enters or leaves one
RoomOf(c, lobby) == IF lobby = c.lobby THEN c.room ELSE << >>

\* the rest of Refresh-CompanionState
Show(p) ==
    LET r == reply[p]
        c == client[p]
    IN  /\ r # None
        /\ \/ c.step = "refetching"
           \/ c.instance \in {None, r.instance}
        /\ client' = [client EXCEPT ![p] =
             [step     |-> "polling",
              instance |-> r.instance,
              cursor   |-> r.sequence,
              lobby    |-> r.lobby,
              list     |-> Shown(c.list, r.instance, r.chat),
              room     |-> Shown(RoomOf(c, r.lobby), r.instance, r.room)]]
        /\ reply' = [reply EXCEPT ![p] = None]
        /\ UNCHANGED serverVars

Receive(p) == NoticeRestart(p) \/ Show(p)

\* the request fails or times out, and the client keeps what it has
Lose(p) ==
    /\ reply[p] # None
    /\ reply' = [reply EXCEPT ![p] = None]
    /\ client' = [client EXCEPT ![p].step = "polling"]
    /\ UNCHANGED serverVars

\* the client is closed and started again
Launch(p) ==
    /\ client[p] # Fresh
    /\ client' = [client EXCEPT ![p] = Fresh]
    /\ reply' = [reply EXCEPT ![p] = None]
    /\ UNCHANGED serverVars

-----------------------------------------------------------------------------
Next ==
    \/ \E p \in Players :
          \/ \E to \in Targets : SendMessage(p, to)
          \/ SendLobbyMessage(p)
          \/ \E l \in Lobbies : Open(p, l) \/ Join(p, l)
          \/ Leave(p)
    \/ \E l \in Lobbies : Announce(l) \/ Close(l)
    \/ Restart
    \/ \E p \in Watchers :
          \/ Snapshot(p)
          \/ Receive(p)
          \/ Lose(p)
          \/ Launch(p)

Spec == Init /\ [][Next]_vars

(***************************************************************************)
(* The timer of the client polls for ever.  Replies get lost, but not in   *)
(* step with the client: now and then a poll gets one, and now and then    *)
(* the second request of a client that noticed a restart does.             *)
(***************************************************************************)
FairSpec ==
    /\ Spec
    /\ \A p \in Watchers :
          /\ WF_vars(Snapshot(p))
          /\ SF_vars(Receive(p) /\ client[p].step = "polling")
          /\ SF_vars(Receive(p) /\ client[p].step = "refetching")

-----------------------------------------------------------------------------
Increasing(items) ==
    \A i, j \in 1..Len(items) : i < j => items[i].number < items[j].number

(***************************************************************************)
(* What a client shows are messages of one instance of the server, each    *)
(* once and in the order of their numbers, none beyond its cursor: no      *)
(* message is shown twice after a lost reply, and none of an earlier       *)
(* instance, whose numbers come back, stays after a restart.               *)
(***************************************************************************)
ShownOnceInOrder ==
    \A p \in Watchers :
        \A items \in {client[p].list, client[p].room} :
            /\ Increasing(items)
            /\ \A i \in 1..Len(items) : /\ items[i].of = client[p].instance
                                        /\ items[i].number <= client[p].cursor

NumbersOf(items) == {items[i].number : i \in 1..Len(items)}

\* message n of a sequence in a client's past was pushed out: too many of
\* the deque, or of those the client was to see, are newer
PushedOut(n, inDeque, forClient) ==
    \/ Cardinality({m \in inDeque : m > n}) >= Retention
    \/ Cardinality({m \in forClient : m > n}) >= Window
    \/ Cardinality({m \in forClient : m > n}) >= ListSize

(***************************************************************************)
(* A client shows every public or private message for its player up to its *)
(* cursor, unless enough newer ones pushed it out of the deque, the reply  *)
(* or the list; and a private message to nobody but sender and target.     *)
(***************************************************************************)
ChatComplete ==
    \A p \in Watchers :
        client[p].instance = instance =>
            LET chat == {n \in 1..client[p].cursor : IsChat(n)}
                mine == {n \in chat : Visible(p, n)}
                list == NumbersOf(client[p].list)
            IN  /\ list \subseteq mine
                /\ \A n \in mine \ list : PushedOut(n, chat, mine)

(***************************************************************************)
(* A client that shows the lobby its player is in shows all its messages   *)
(* since the player entered, with the same exceptions, and never a message *)
(* of another lobby.                                                       *)
(***************************************************************************)
RoomComplete ==
    \A p \in Watchers :
        LET c    == client[p]
            room == {n \in 1..c.cursor : ~IsChat(n)}
            mine == {n \in room : sent[n].target = c.lobby}
        IN  c.instance = instance =>
                /\ NumbersOf(c.room) \subseteq mine
                /\ c.lobby # None /\ c.lobby = playerLobby[p] =>
                       \A n \in mine \ NumbersOf(c.room) :
                           n > joined[p] => PushedOut(n, room, mine)

(***************************************************************************)
(* When nobody sends any more, a client has seen all there is in the end,  *)
(* though replies got lost and the server and the client were started      *)
(* again.                                                                  *)
(***************************************************************************)
CaughtUp(p) == /\ client[p].instance = instance
               /\ client[p].cursor = Len(sent)

CatchesUp == \A p \in Watchers : []<>CaughtUp(p)
=============================================================================
