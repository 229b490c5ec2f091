# Verification of openvpn-lan-party

TLA+ modules, TLC configurations and TLAPS proofs about the programs under
`src/`: the enrolment of players into a private OpenVPN network and the LAN
Party Companion they use once they are connected.

Run from this directory:

    tlc -workers 2 -config MCEngine.cfg MCEnrollmentEngine.tla
    tlapm EnrollmentEngineProofs.tla

The runs, with their modules and configurations, are listed in PROJECT.json.

## 1. The system

| Component | Source | State it keeps | Operations |
|---|---|---|---|
| Enrolment engine | `assets/vpn-player-enrollment.py` | `enrollments/<id>.json`, `credential-registry.json`, the verification snapshot, the Easy-RSA PKI | create, submit, import, approve, collect, publish/finalize, reject, revoke (in one or two phases), confirm, retire |
| tls-crypt-v2 verification | the engine's `verify-tls-crypt-v2` command, `assets/verify-tls-crypt-v2-player` | none; reads the snapshot | accept or refuse a connecting client's metadata |
| Enrolment portal | `assets/vpn-enrollment-portal.py` | a spool of `<id>.json` and `<id>.zip` | register, download, challenge, submit, inspect, pending, publish, result, cancel |
| Administrator | `assets/vpn-enrollment-admin.py` | none of its own; drives the engine, the portal, the PKI, the CRL, OpenVPN and the Companion's players file | create, approve, reject, revoke, offboard, confirm, approval pool |
| CSR tool | `assets/vpn-enrollment-csr.py` | none | validate a certificate request |
| ACME manager | `assets/vpn-profile-acme.py`, its renewal service and timer | lego's certificate and key, the portal's, a port mapping on the router, whether the portal runs | ensure, issue, renew |
| Companion | `assets/lan-party-companion.py` | players file, presences, lobbies, messages, manual statuses, rate windows; all but the file in memory | registration, authentication, presence, lobby operations, messages |
| Companion client | `assets/windows/LAN-Party-Companion.ps1` | cursor, instance and lists of messages, the last state with its revision, settings | polling, lobby commands |
| Windows scripts | `assets/windows/*.ps1` | profiles, keys, TAP adapters | join, enrol, test, leave, remove |
| Installer, audit, release | `install-vpn-server.sh`, `assets/audit-openvpn-lan-party`, `build-release.sh` | files of the host | install, audit, package |

How they interact:

- The engine's commands are processes; they share the store under one
  exclusive `flock`. OpenVPN's verifier reads the snapshot without it.
- The administrator's commands are processes too. Each calls the engine (its
  functions take and release the flock), the portal (one request on a Unix
  socket), Easy-RSA (under a PKI lock of its own), systemd and the Companion's
  players file. Nothing spans a whole command, and any step may be the last.
- The portal is a process with one thread per connection and one lock; players
  reach it over HTTPS, the administrator over the socket.
- The Companion is a process with one thread per connection and one lock that
  a request takes several times. It learns of the players through a file the
  administrator replaces. Its clients poll it, each with one request at a time,
  and keep what they show between two polls.
- The ACME manager is a process too, started by a timer or by the installer,
  one at a time; it stops and starts the portal, which reads its certificate
  when it starts.

What is hard: several processes and threads; commands that write several
files one after the other and may die in between; readers without the lock;
checks made in one critical section and used in the next; revision numbers
held by clients; a service that systemd starts again in the middle of
something; work that only happens when somebody's request
comes by (cleanup, reload); replies that get lost after the state changed.

What makes each component correct:

- engine: one security mode per player, one open enrolment per key, a
  certificate only for the requested key, acceptance by OpenVPN only of live
  credentials, no way back from a revocation;
- portal: an answer is for the key that was approved and is handed out once;
  nothing is handed out after a cancellation;
- administrator: a revoked player is cut off everywhere, an interrupted
  command can be repeated, a rejected request leaves nothing usable;
- Companion: its two tables of membership agree, hosts decide on what they
  saw, the event messages tell the whole story, places are freed, removed
  players are out in the end;
- messages and client: a client shows every message for its player once and in
  order, unless the documented limits pushed it out, also over restarts;
- ACME manager: the portal has the old pair or the new one and runs again,
  certificates are renewed in time, and the router is left as it was.

## 2. Modules and plan

Written, in this order:

| Module | Models | Checked by | Proved in |
|---|---|---|---|
| `EnrollmentEngine` | the enrolment engine and the verifier's decision | `MCEnrollmentEngine` | `EnrollmentEngineProofs` |
| `CredentialLifecycle` | what the engine promises of a credential | through `ImplementsLifecycle` | `StoreImplementsLifecycle` |
| `CompanionLobby` | Companion presence, registration, lobbies | `MCCompanionLobby`, `MCLobbyRequests` | `CompanionLobbyProofs` |
| `LobbyRules` | what one lobby promises its players | through `ImplementsRules` | `RulesImplemented` |
| `EnrollmentPortal` | the enrolment portal and the client that enrols through it | `MCEnrollmentPortal` | `EnrollmentPortalProofs` |
| `EnrollmentAdmin` | the administrator's commands over `EnrollmentEngine` and `EnrollmentPortal`, the PKI, the CRL, the sessions of OpenVPN and the players file | `MCEnrollmentAdmin`, `MCAdminCommands` | `EnrollmentAdminProofs` |
| `CompanionMessages` | the Companion's message queues and the client that polls them | `MCCompanionMessages` | `CompanionMessagesProofs` |
| `AcmeManager` | the certificate of the portal: order, deployment, the router | `MCAcmeManager` | `AcmeManagerProofs` |
| `PlayersFile` | the writers of the Companion's players file and the server's copy of it | `MCCompanionAccess` | `PlayersFileProofs` |
| `PlayerRegistry` | what the players file promises | through `ImplementsRegistry` | `RegistryImplemented` |
| `CompanionLimits` | the Companion's limits: failed authentications by source, requests by player | `MCCompanionAccess` | `CompanionLimitsProofs` |

Planned, most important first:

1. `CompanionClient`: the lobby commands of the Windows client (revision,
   settings) composed with `CompanionLobby` and `CompanionMessages`.
2. Liveness of the administrator's commands: a command repeated often enough
   ends, where it does.

## 3. The enrolment engine

`EnrollmentEngine` keeps the three files as variables: `items` (the enrolment
files), `registry` (player ids and credential states), `snapshot` (what the
verifier reads, and whether it can), plus `issued` (the PKI), `expired` (which
invitations ran out) and `tx`, the command that holds the flock.

A command of the code is an action that reads the files, decides, and puts the
writes it is going to make into `tx`; each write is an action of its own, in
the code's order (`Sign`, `WriteRegistry`, `WriteSnapshot`, `ChownSnapshot`,
`WriteItem`). `Interrupt` gives the lock up at any point: the process died, or
an external tool failed and the command raised. The only state that survives is
what was written. A command that refuses is an action that is not enabled.

Identifiers drawn afresh by a command (enrolment id, credential id, serial,
kid, pki name) are represented by the enrolment itself; a token is known by its
purpose; a key by its fingerprint. CSR syntax, certificate text, file modes and
JSON layout are left out.

Expiry is a set that only grows: once an invitation has expired it stays so.
`approve`, `submit`, `collect` and `finalize_publication` refuse an expired
one; revocation does not.

| Run | Instance | Shows |
|---|---|---|
| `engine` | 1 player, 2 enrolments, 2 modes, 2 keys, 2 player ids | `OneModePerPlayer`, `KeyUsedOnce`, `CertifiedKey`, `StablePlayerId`, `AcceptedOnlyWhileLive`, `CollectedWasActivated`, `ImplementsLifecycle` |
| `engine_signed` | 1 of each | `NothingWasSigned` is violated (finding 1) |

`TypeOK` is a part of `AdminTypeOK`, which `admin_commands` checks, and
`TypeCorrect` proves it for the engine alone.

Two enrolments are enough because each of these properties relates two
enrolments at most, one of them being written; both modes and both keys are
needed for a clash, a second player id for a retired player to come back under
a fresh one. One player is, because no property sets two players apart:
`OneModePerPlayer` and `StablePlayerId` look at the enrolments of one, and a key
is refused whoever offers it. Keys, enrolments and player ids are only compared for
equality, so they are symmetric.

**Finding 1** (`engine_signed`). `approve` has Easy-RSA sign before it records
the approval. If it is interrupted in between and the administrator then
rejects the request, the certificate exists, and the administrator is told
"request rejected; nothing was signed".

## 4. The Companion's lobbies

`CompanionLobby` models the state under `CompanionState.lock`. A request is a
thread that takes the lock three times: `Authenticate` (which first reloads the
players file if its signature changed), `Touch` (presence, and the expiry of
the player's old place), and one operation. Other requests, ticks of the clock
and changes of the players file come in between, so that an operation acts on
what the earlier sections no longer guarantee.

- A presence has an age, compared with the two limits of the code: `online`,
  `away`, `gone`; `Tick` lets one get older.
- `_cleanup` and `_reload_players` are `Prune`, applied where the code calls
  them (snapshot, upsert and join clean up first; authenticate and snapshot
  reload first). Operations that do not clean up in the code do not here.
- `revision[l]` is the number of a lobby: 1 when it opens, one more with every
  change, and 1 again in the next lobby. `view[p]` is the last state that reached
  a client: the lobby, its number, and its identifier as long as that lobby
  exists (identifiers are random, and never given twice). `Expected(p)` is what a
  client may send, that number or none; `CheckRevision` compares it, like the
  code, with the lobby the player is in when the request is served. An upsert
  that finds no lobby opens one whatever number was sent.
- `told[l]` is the state a reader of the event messages arrives at.
- A request that fails validation, exceeds a rate, or concerns a status or a
  message to everybody or to the lobby ends in `Ignore`. A message to a player
  reloads the players file first (`SendMessage`).

| Run | Instance | Shows |
|---|---|---|
| `lobby_requests` | 3 players, 1 lobby, 2 capacities, 2 settings, one request at a time; and 2 players, 2 unlocked lobbies of 2, requests interleaved, players removed and added | `TypeOK`, `MembershipConsistent`, `EventsTellLobby`, `ViewIsCurrent`, `ReadyForSettings`, `ImplementsRules` |
| `lobby_removal` | 2 players, 1 of them removable, 1 lobby, 1 setting, fair | `AbandonedPlaceIsFreed`, `RemovedPlayerLeaves` |
| `lobby_revisions` | 2 players, 1 lobby at a time, fair | `ChangesWhatWasSeen` is violated (finding 4) |

`LobbyRules` is the abstract specification of one lobby: its variables are the
lobby, the players about to be served, and the players that are absent (no
presence, or taken out of the file). Absence may cost members their place, and
with the host goes the lobby (`Remains`), at any step and whoever's request
comes by. Apart from that a step serves at most one player that asked, who may
open the lobby, enter it, mark himself ready or not, leave it, or as its host
set the rules (`Change`). `ImplementsRules` maps `lobbies[l]`, the
players whose request is `"touched"` (`asking`) and `Absent` to it for every lobby
`l`. It says what the invariants do not: who is behind a change, that there is no
other way to enter, and that a reload, a cleanup and an operation in one critical
section never add up to more than that, also where the cleanup closes the lobby and the operation opens it again.

Bounds: `MaxRequests` (requests served at once), `Removable` (players the
administrator takes out and puts back), `Deliveries` (whether a response may
get lost), `MaxRevision` (no request revises a lobby while one has this number; the
departures of a cleanup still count). With one request at a time three players
suffice to fill a lobby and to have one refused; with two at a time two players
suffice to interleave every pair of sections. The theorems of section 9 need none of these bounds.

`MCLobbyRequests` explores two instances in one run: `crew`, chosen at the start,
is the players that take part. All three share one lobby with one request at a
time and are never all away; two of them have two requests at a time, two lobbies
of capacity 2, and a players file that changes. `Bounded` cuts the states that belong to neither.
There `MaxRevision` is out of reach, and the numbers themselves are left out of
the comparison of states (`VIEW UpToRevisions`): since no request needs a number
to be accepted, what is to come depends only on whether a client's number is the
current one of the lobby it saw, and a number that is not does not become it
again. In `lobby_removal` no response arrives, so that no client has a number,
and `MaxRevision` 3 lets a lobby open and be revised twice, by whatever requests.

`ViewIsCurrent` is what the numbers do achieve: within one lobby each stands for
one state, whatever changed it.

**Finding 4** (`lobby_revisions`). The numbers of two lobbies say nothing about
each other, and a request does not say which lobby it is about. In the run's
behaviour a host stays away beyond the grace and comes back with an upsert:
`touch` closes its lobby, the upsert opens a new one at revision 1, and the
answer is lost. The client still shows the old lobby, also at revision 1, and its
change of phase with that number is accepted for the new one. COMPANION.md
promises "revision-based conflict protection".

Fairness (`FairSpec`): a player who is not removed keeps a client running,
which polls, so it is authenticated again and again (`WF Authenticate`) and
completes a state request again and again (`SF Snapshot`; strong, because the
client also sends other requests in between). A request that was started ends,
since sockets have a timeout, and time passes for a presence that is not
renewed. Nothing else is assumed: no removed player is assumed to do anything
but finish the request in flight.

A behaviour to know of: `transfer` asks for a presence of the new host, not
for a registration, and does not reload the players file. A host can hand the
lobby to a member who was just taken out, and it closes, for all, with the next
reload or when that presence ends. `LobbyRules` therefore lets `HandOver` pick
any member.

Another: the registration is checked in `authenticate` only. A
request authenticated before its player was removed can open or join a lobby
after another request has reloaded the players file. The player's place goes
away with the grace period (`RemovedPlayerLeaves` shows that it always does),
not with the reload.

## 5. The enrolment portal and the administrator

`EnrollmentPortal` keeps an invitation as the two files it consists of:
`spool[e]` (the JSON file: state, whether the invitation's token still opens
it, the key of the request, the response) and `bundle[e]` (whether the archive
exists). The portal serves a request under one lock, so that a request is one
action, except for those that write both files: `register`, `cancel` and
`result` are two steps, with `task` for the request in hand, and `Crash` may
come between them. A file is replaced by a rename, so that it is either the old
or the new one. The rest:

- `runs[k]` is a run of `Enroll-VPN-High-Assurance.ps1`: it reads the
  challenge, draws a key (`Challenge`), submits (`Submit`), polls (`Poll`) and
  takes the response (`Result`, `Answer`). A run that fails deletes its key, so
  that nothing can be made of a response that certifies it. A POST whose answer
  is lost ends the run; a GET is repeated by the HTTP stack, so that a lost
  response leaves the run waiting (`Receive`).
- `Inspect` puts the fingerprint an administrator saw on the `desk`; `Publish`
  comes with a fingerprint from there, at any later time.
- `Versions` stands for the rest of a response, in which two attempts to
  publish may differ.
- `answers[e]` counts the responses sent; no action tests it.

`EnrollmentAdmin` extends `EnrollmentEngine`, takes an instance of
`EnrollmentPortal`, and adds what the administrator brings together; where a
command of the tool has the name of one of the engine it is called `Admin...`
(`AdminReject` asks the portal, `Reject` is the engine's). Its variables are
`revokedCerts` (the index of Easy-RSA), `crl` (the file OpenVPN reads),
`sessions` (what OpenVPN let in), `companions` (the players file) and
`offboarded` (what an administrator was told). `procs[a]` is a command that
runs: the step it is at, and whom it waits for. The code's calls map to steps:

- a call of the engine is the engine's action, and the process waits until the
  engine's last write (`EngineWrites`) or until the call fails (`EngineFails`);
- a call of the portal is the portal's action; the process waits for a second
  write (`PortalAnswers`), or loses the connection (`PortalFails`), or stops
  waiting, while the portal goes on (`Stop`);
- `PkiFree` is the PKI lock that approve and revoke hold;
- `Connect` is OpenVPN letting a client in: the verifier's decision of
  `EnrollmentEngine`, the CRL, and a client with a profile for the certificate.

A command that is refused has no enabled action but `Stop`; so has one that is
killed. `expired` is shared by engine and portal, which store the same time.

| Run | Instance | Shows |
|---|---|---|
| `portal` | 2 invitations, 3 runs, 2 versions | `AnsweredOnce`, `ProfileFitsKey`, `BundleFollowsState`, `PublishedIsStable` |
| `admin_commands` | 2 processes; 1 enrolment, 2 runs with a key each, every fault, all commands but offboard; and 2 enrolments of 1 player, 1 run, offboard beside create, approve or revoke | `AdminTypeOK`, `RevokedIsCutOff`, `RejectedIsCancelled`, `SessionsAreConfirmed`, `OffboardLeavesNothing` |
| `admin_resume` | 1 of each, create and approve | `PublicationResumes` is violated (finding 2) |
| `admin_companion` | 1 enrolment, 2 processes, create, approve and offboard | `OffboardedHasNoCompanion` is violated (finding 3) |

`AdminTypeOK` includes `TypeOK` of the portal, which `PortalTypeCorrect` proves
for the portal alone. `SessionsAreConfirmed` goes through every component: who
is in a session got there with the key whose request an administrator
inspected, which the engine certified and recorded, and the portal answered.

Bounds: two runs that answer one invitation allow the session to be that of
the one which was not inspected. The properties of the portal relate the runs that share a token, and
three runs allow one to fail, one to wait and one to come in between.
`Commands` and `Faults` choose what the processes are asked to do and what goes
wrong; a process stops at any step in every run, whatever `Faults` says.
`MCAdminCommands` explores two instances in one run, `offboards` says which.
In the one with offboard both processes may be offboarding, or one of them and the
other creates, approves or revokes; pairs of other commands are the subject of the
other one.
No fault occurs in the one with offboard, where it would multiply the states
without adding interleavings between the two processes: what an interrupted call
of the engine leaves behind is the subject of the other one and of the engine's
own runs. In all these runs there may be nothing left to do, when every enrolment
was used and has ended, so that deadlock is not an error.

`OffboardLeavesNothing` holds although the inventory is read once, because
`retire_player` looks again under the engine's lock and refuses while the player
has an open enrolment; it is not the inventory that protects it.

**Finding 2** (`admin_resume`). Publication and activation are two calls. If
the command stops in between and the client collects its response, a repeated
approval is refused by the portal ("enrollment is not pending") before it gets
to the activation, and the installed profile is never accepted. The enrolment
can then only be revoked.

**Finding 3** (`admin_companion`). An approval that took its bundle before the
offboarding of the player registers the Companion token after the offboarding
removed it. The credential is revoked, the Companion registration stays.

Another behaviour to know of: the Companion token of an approval is registered
before the response is published. If that response is lost, the next approval
of the player finds another token registered and tells the player that the
existing identity is preserved, which the player never received.

## 6. The Companion's messages and the client

`CompanionMessages` models what `CompanionState` does with messages and what
`Refresh-CompanionState` makes of the replies.

- A message is its number; `sent[n]` is who sent it to whom, so that
  `message_sequence` is `Len(sent)`. `messages` and `lobbyMessages` are the two
  deques, which share the numbering.
- `playerLobby` changes by `Open`, `Join`, `Leave` and `Close` at any time, with
  the event message each leaves; `Announce` stands for all the other events.
  Which of them is allowed is the subject of `CompanionLobby`.
- A poll is two steps: `Snapshot` is the critical section of the server, with
  the cursor of the request; `Receive` is the client. Between them the server
  goes on, restarts, or the reply is lost (`Lose`). A client that meets another
  `instance_id` (`NoticeRestart`) forgets everything and asks a second time.
- `joined` is a history: where the numbering stood when a player entered its
  lobby.

| Run | Instance | Shows |
|---|---|---|
| `messages` | 2 players, 1 lobby, 1 client, retention 2, replies of 1 message, lists of 2, 3 messages, 1 restart | `TypeOK`, `ShownOnceInOrder`, `ChatComplete`, `RoomComplete`, `CatchesUp` |

Bounds: `Retention`, `Window` and `ListSize` are small so that each of them
pushes messages out; with three messages one more is sent than any of them
keeps. The two properties of completeness say exactly which messages may be
missing, so that a limit that takes one too many is found. `Posts` has a message
for everybody, a private one for the client's player, one the player must not
see, and one to the lobby. A second client would share nothing with the first
but what the other player does already. With one lobby identifier, a player
enters the lobby, leaves it and comes back, but never moves to a second one in
the run; `RoomCompleteHolds` is for any number of them.

Fairness (`FairSpec`): the timer polls for ever (`WF Snapshot`). Replies may be
lost again and again, but a client that polls for ever gets one now and then,
and so does one that asks the second time after it noticed a restart. That
losses are not in step with these two kinds of request is an assumption about
the network. Messages, restarts of the server and of the client are not fair:
`MaxSent` and `MaxRestarts` end the first two, and the second request of a
client is strong fairness against the third.

## 7. The ACME manager

`AcmeManager` is one command at a time (`cmd`, under the `flock`) over two pairs
of files, `source` (lego's) and `deployed` (the portal's). A certificate is the
number of its order; it grows from fresh to due and to expired, which is all that
the checks of validity tell apart (`renew` and `issue` ask for more time than
`ensure`). Each of these steps is an action, and each may fail:

- `CheckDeployed`, `CheckSource`, `Compare`: which material is there already;
- `ListAndAdd`, `Confirm`, `Lego`, `Unmap`, `Delete`: the context manager
  `temporary_mapping` around lego; its `finally` is `Unmap`, which looks up what
  is mapped, and `Delete`;
- `StopPortal`, `WriteCert`, `WriteKey`, `WriteTrust`, `UndoCert`, `UndoKey`,
  `StartPortal`: `deploy_certificate`. An `atomic_write` may raise before or
  after the rename (its last `fsync` comes after it). The `except` clause is the
  two undo steps, the `finally` clause is `StartPortal`.

`Kill` is SIGKILL or the end of `TimeoutStartSec`: no clause runs. lego may be
stopped while it writes and leave a key that is missing or a certificate that
cannot be read (`Torn`); as long as the certificate file is there the code has
lego renew it, which may fail for ever, so that `Lego` lets it. `Reboot`
stops everything and starts the portal, which loads the pair if it fits
(`Load`). The portal may fail at any moment (`Crash`) and is `"activating"` until
systemd starts it again (`Restart=on-failure`) or gives up (`Restart`), and the
administrator may start or stop it (`Operate`), each of them at any step of a
command. A portal that is not active when the command asks is not stopped, and
not started either. The router may carry out a command that it reports as failed.
`cmd.faults` is a history of what went wrong in this command, and `early` one
of who started the portal last: somebody else than a command, after the command
asked whether it is active and before its last write. The properties speak of
them; no action tests them.

| Run | Instance | Shows |
|---|---|---|
| `acme` | 2 certificates, every fault, fair | `TypeOK`, `AllOrNothing`, `PortalIsBack`, `ServesDeployed`, `MappingIsGone`, `Renewed` |

Bounds: `MaxIssued`: the last certificate stays fresh, so that the run ends. With
two a command replaces one certificate by another, fails between them at every
write, and goes back; the safety properties relate the pair before and the pair
after a command, and their theorems hold for any number. Faults are not bounded in
number.

Fairness (`FairSpec`): a command goes on (`WF Command`: every call has a
timeout), and the timer starts `renew` again and again (`SF Start`: other
commands may hold the lock at times). `Renewed` promises nothing while things go
wrong for ever: its premise `Calm` says that from some point on no call fails, no
command is killed and nobody changes the mapping under a command. What went
wrong before that point is arbitrary, but for one thing: a damaged certificate
of lego does not stay for ever (`source.cert # Damaged` again and again), since
neither the code nor, as far as the code can tell, lego replaces it. Nothing is
assumed of systemd or of the administrator.

Behaviour to know of: a run killed between the stop and the start of the portal
leaves it stopped, and no later run starts it, since `was_active` is false then;
`PortalIsBack` is about runs that end by themselves. A mapping somebody else
makes between the look-up and the deletion is deleted.

And the case that `ServesDeployed` excepts (`early`): a portal that failed is
"activating" when the command asks, so that it is not stopped; systemd starts it
before the files are replaced, it loads the old pair, and nothing starts it
again. It serves the old certificate, with no command running, until it is
restarted or the next deployment finds it active. The same happens when the
administrator starts a stopped portal at that moment: `systemctl start` at the
end of the deployment does nothing to a portal that runs. `PortalIsBack` holds of
these portals too, since it only says that they run.

## 8. The Companion's players file and its limits

`PlayersFile` models the processes that write `players.json` and the server
that reads it.

- `file` is the file with its inode, its `mtime` and its entries; `clock` is the
  timestamp a file written now gets, `written` how many files have it already.
- `writers[w]` is a process: `issue-player`, `remove-player`, or the
  administration tool, which calls `ensure_player_registration` and
  `update_player_registration`. `Begin` takes the flock and reads the document
  (`base`), `WriteDraft` writes the new file, `Replace` renames it and releases
  the lock. `issue-player` goes on without the lock (`issued`); if it cannot write
  the client file, `TakeBack` begins a removal of the player. `End` is the end of
  a process at any point, also by a signal, which releases the lock.
- `cache` is what the server knows with the signature it knows it by;
  `StatFile` and `ReadFile` are the two steps of a reload. The server takes no
  flock, so that a replacement may come between them. Files of the same number
  of entries have the same size: a signature tells less here than in the code,
  where names differ in length.

`PlayerRegistry` is the abstract table: a player gets a token nobody has, if
the player has none, or loses the token. `ImplementsRegistry` says that the
entries of the file change like that and in no other way.

`MaxPerTick` is at most 2. The file that is being written has another inode than
the one it replaces, but the one that is replaced next may have the inode of the
one before, which is free then. With three files of one timestamp and as many
entries the first and the third could not be told apart, and the server would
keep the first. Each of them takes a process a lock, a read, a write and an
`fsync` within one tick of the file system's clock, in nanoseconds or some
milliseconds; two are allowed for, three are not.

`CompanionLimits` models `enforce_auth_source`, `record_auth_failure` and
`_enforce_rate_locked`. A time is represented by its age, so that there is no
clock that grows; ages too old to matter are the same.

- `requests[c][i]` is a request of client `c`, a player with an address: the check
  of the source, the authentication, and the limit of the player or the record of
  the failure. The check and the record read the clock before they take the lock
  (`delay`), so that what they compare and append may be `MaxDelay` ticks old.
- The loop that pops old entries stops at the first that is not old; the
  entries need not be in order (`Pops`). `Kept` is the eviction of
  `record_auth_failure`.
- `rates` stands for the deques of one limit. The code has four, each with a
  limit, a window and deques of its own, and one function for them.
- `Revoke` and `Register` are the players file; the reload that drops a
  player's deques happens if the player is gone from it.
- `served` and `failures` are histories of the property; no action tests them.
  They start over with the deques, when a player is taken out of the file and the
  server drops them. A restart of the server, which empties all deques at once, is
  not modelled: `WindowsRespected` speaks of one life of the server and of one
  registration.

| Run | Instance | Shows |
|---|---|---|
| `companion_access` | the file: 2 players, 2 tokens, 2 writers, 2 inodes, 2 timestamps; the limits: a player with 2 requests at a time and a stranger, limit of 2, windows and limit of failures of 1, 1 source kept, fair | `LimitsTypeOK`, `CacheIsCurrent`, `ImplementsRegistry`, `WindowsRespected`, `ServedAgain` |

The two modules have no variable in common. `MCCompanionAccess` explores one or
the other (`part`), not their product.

Bounds: an inode to write to and one to come back to, two files under one
timestamp, and two writers to interleave. Limits of 1 and 2 make the limit, the window
and the eviction all happen within a few ticks; with two requests of one client
both pass the check before either fails. The player's token comes and goes; the
stranger is a second address, whose failures take the place of the player's.
`WindowsRespected` says of failures what the code gives: not `FailLimit` in a window but as many more as requests
that passed the check together, and only as long as the source is not evicted.
`MaxDelay` is at most `FailWindow`: a thread waits for a lock that is held for
moments, the window is a minute. The clock is assumed not to be set back.

Fairness (`FairSpec`): time passes, clients keep asking, and a request that was
begun goes on. `ServedAgain` holds for clients that ask all the time, because a
refused attempt is not recorded.

Behaviour to know of: the rollback of `issue-player` names the player, not the
token. If another process removes the player and registers a new one between the
registration and the rollback, the new registration goes.

## 9. What is proved

All proofs are for arbitrary constants under the assumptions named in the
modules: `None` is no other value (in the composition neither a version nor a
response of the portal), capacities are at least 2, the set of
players is finite, at least one request may be served, at least one certificate
is issued and the faults are among those `AcmeManager` knows; a timestamp has room
for one file or two, the limits are positive, and a request waits for a lock no
longer than the window; retention, window of a reply and list of a client have
room for one message, and a lobby has neither the name of a player nor that of
`everyone`.

`EnrollmentEngineProofs`:

- `TypeCorrect`: `TypeOK` is inductive by itself.
- `ActivationInductive`: `ActivationInv` relates the three files and the
  writes still to come. `AcceptedOnlyWhileLive` is not inductive: between the
  writes of an activation the registry is ahead of the snapshot and the
  snapshot ahead of the enrolment, so the invariant says of every step of `tx`
  which file may be ahead of which, and that only a move that is still pending
  (`PendingMove`) explains a difference. `AcceptedOnlyWhileLiveHolds` and
  `CollectedWasActivatedHolds` follow.
- `StoreImplementsLifecycle`: with the same invariant every step of the store
  is a step of `CredentialLifecycle` or leaves phases and acceptance alone.
- `RecordsInductive`: `RecordsInv` says of the enrolment about to be written
  what the properties say of those on disk. `OneModePerPlayerHolds` and
  `StablePlayerIdHolds` follow.
- `KeysInductive`: likewise for keys and certificates (`KeyUsedOnceHolds`,
  `CertifiedKeyHolds`). `KeysInv` also says that a key once recorded stays, and
  that an enrolment that was approved is never again one that is only offered;
  the composition needs both.

`CompanionLobbyProofs`:

- the operators that rewrite the lobby tables (`Prune`, `Close`,
  `RemoveMember`, `Revise`, ...) are shown once to keep a sane table sane
  (`PruneSane`, `OpenedSane`, `JoinedSane`, ...), and each operation is a
  composition of them;
- `LobbyInductive` is the invariant `Sane` of tables, host, capacity, events
  and views together. Of the views it says that the number a client holds of an
  open lobby is not beyond that lobby's, and that a client that holds the current
  one saw the lobby as it is; a change that counts on makes every number that
  was current an old one. It is one invariant with the tables because the handlers
  find the lobby they revise through the other table.
- `LobbyTypeCorrect`, `MembershipConsistentHolds`, `ViewIsCurrentHolds` and
  `EventsTellLobbyHolds` follow.
- `AgreedStep` is about what a step may do to the settings of a lobby: the reload
  and the cleanup that come first in many operations only close lobbies and
  remove members (`Kept`), and what follows keeps the settings or starts the ready
  check over (`Agreed`); the two compose (`KeptAgreed`), which matters where the
  cleanup closes a lobby and its identifier is used again in the same step.
  `ReadyForSettingsHolds` follows.
- `RulesImplemented` is the refinement of `LobbyRules`, for each lobby. `Remain`
  is what pruning the tables leaves of one lobby; any pruning by absence keeps to
  `LobbyRules`' `Remains` (`PruneRemains`), and two in a row, a reload and a
  cleanup, are one (`RemainTwice`). A request changes the lobby it is about
  like its `Change` says, and no other (`OneChange`). The code finds that lobby in
  the table of the players' lobbies and acts on it in the other table, after a
  cleanup of both (`UpsertRules`, `JoinRules`, `DepartureRules`), so that the
  refinement rests on the tables to agree, `LobbyInductive`.
- `CleanupFreesPlaces` is the step on which the liveness of places rests: after
  a reload no removed player has a place, and after a cleanup nobody whose
  presence is over has, but for the player who is being served.

`EnrollmentPortalProofs`:

- `PortalInductive`: the invariant `Sane` has three parts besides `TypeOK`. `EntrySane` relates the answers
  sent, the response and the archive of an invitation to its state; alone it is
  not inductive, because a request that writes both files is between its writes,
  which `TaskSane` describes; `RunSane` says that a run that waits for a
  response has the key that is in the invitation it submitted to, as long as
  that one is pending or approved, and that a run that ended well has a profile
  for its own key. `DoneStays`: such a run is not touched again.
- `PortalTypeCorrect`, `AnsweredOnceHolds`, `ProfileFitsKeyHolds` and
  `BundleFollowsStateHolds` follow, and `PublishedIsStableHolds` from the same invariant.

`EnrollmentAdminProofs`, for any number of administrators:

- `AdminInductive`: a command reads files at one step and acts on them at a later
  one, with other commands in between. `StepSane` says of every step of a process
  what it has learnt and may still rely on: that there is an enrolment, that a
  key was inspected, that the engine has one. `DeskSane` says that the key in the
  engine, or in the write it is about to make, is the one inspected last, and
  `EntrySane` that the portal keeps that one; they hold because a key once recorded
  stays (`KeysInv`, `PortalNextStays`).
- `EngineImplemented` and `PortalImplemented`: with that invariant every step is
  one of `EnrollmentEngine`, or leaves the store alone, and one of
  `EnrollmentPortal`, or leaves the portal alone. The portal's specification
  allows a response only for the key that was inspected, while the command takes
  it from the engine: that is where `DeskSane` is needed.
- `RevokedIsCutOffHolds`: `RevokedInv` says at each step of a revocation how far
  it has come (in the index, in the CRL, without a session), and the same of the
  write that records it. What is cut off stays cut off, since the CRL only grows
  (`CutOffStep`).
- `RejectedIsCancelledHolds`: `RejectedInv`; the portal was asked first, and what is
  cancelled there stays so.
- `OffboardLeavesNothingHolds`: `OffboardInv` says that at most one process has the
  engine working for it (`OneCaller`), so that from the moment `RetirePlayer` has
  found no open enrolment until the player is reported nothing else is written
  (`RetiringSane`); that sessions belong to enrolments with a certificate, where it
  needs `RevokedInv`; and that neither what is recorded as open nor what is about
  to be is of a player reported as offboarded.
- `StoreHolds` and `PortalHolds`: what is proved of the engine and of the portal
  alone holds of them under the administrator's commands, through
  `EngineImplemented` and `PortalImplemented`.
- `SessionsAreConfirmedHolds`: a session begins with a run of the client whose
  profile fits the certificate (`SessionSane`), and stays one because a
  certificate once issued is the certificate for good (`IssuedStays`) and such a
  run draws no other key (`DoneStays`). That the key is the one the
  administrator inspected is `DeskSane`, that the engine recorded it `KeysInv`,
  and that the enrolment is in a state with a certificate in use `OffboardInv`.

`AcmeManagerProofs`:

- `AcmeTypeCorrect`: `TypeOK` is inductive by itself.
- `DeploymentInductive`: `AllOrNothing` and `ServesDeployed` speak of the end of
  a command. `FilesFollow` says at every step before it how far the files have
  got between the old pair and the source, and that the source fits from the
  comparison on; `PortalFollows` that an active portal loaded what is there
  unless it started early, and that one that is active while files are written
  did. No portal has to be stopped during a deployment for this: systemd and the
  administrator may start it at every step. `AllOrNothingHolds` and
  `ServesDeployedHolds` follow.
- `PortalIsBackHolds` is about the step that ends a command: `was_active` is only
  set from the stop on, and from there the only steps to the end are
  `StartPortal` and a stop that failed.
- `MappingInductive`: a command creates one mapping at most, because lego is
  asked once (`MappingInv`), and leaves `unmap` or `delete` with it gone.
  `MappingIsGoneHolds` follows.

`PlayersFileProofs`:

- `FileInductive`: of the writers `FileIInv` says that one of them holds the lock
  at most, that what it read is what the file still has, and that its draft
  differs from that by the one entry it is about. Of the signatures that the
  server has or has taken it counts the files of one timestamp: if the file, or
  the draft, has the signature's timestamp but not its inode, then two files
  were written under it, so that there will be no third to bring the inode back.
- `FileTypeCorrect` and `CacheIsCurrentHolds` follow, and `RegistryImplemented`:
  a `Replace` is one step of `PlayerRegistry`, all else stutters.

`CompanionLimitsProofs`:

- `LimitsInductive`: `LimitsIInv` says that a deque is the end of its history,
  the same or, for a source, older by `MaxDelay` at most, and that what was popped
  is out of the window (`RateOK`, `FailureOK`); and it counts the failures in the
  deque of a source together with the requests that passed the check and may
  still fail (`CountOK`), which is what bounds a window.
- `LimitsTypeCorrect` follows, with the bound on the sources kept, and
  `WindowsRespectedHolds`.

`CompanionMessagesProofs`, for any retention, window and list size:

- the operators first: how much newer there is than what `Newest` drops
  (`NewestDrops`), what `Selected` returns (`SelectedProps`, by ranks, since a
  recursive definition could not be reasoned about), what a push, a reply and a
  list keep (`PushSane`, `ReplyPart`, `ShownProps`).
- `OrderInductive`: `OrderInv` says of a reply on its way what
  `ShownOnceInOrder` says of the client: the messages in it are newer than the
  client's cursor, which stays where it is until the reply is there or lost. A
  client that asks again after a restart has an empty screen, and no client
  knows of an instance that is yet to come, so that the numbers of a new instance
  never meet those of an old one. `MessagesTypeCorrect` and
  `ShownOnceInOrderHolds` follow.
- `ChatInductive`: a reply has everything since the client's cursor but for what
  the deque dropped or the window cut off (`ReplyChat`); with what the client
  has up to its cursor that makes everything up to the reply's. What was pushed
  out once stays so, because there are only ever more newer messages
  (`PushedOutGrows`). `ChatCompleteHolds` follows.
- `RoomInductive`: likewise for a lobby. A player that is in another lobby than
  its client shows, or than a reply says, entered it after everything the client
  or the reply has seen; this is why nothing is missed when the screen is
  emptied. `RoomCompleteHolds` follows.

Only model-checked: the liveness properties of `lobby_removal`, `messages`,
`acme` and `companion_access` (liveness under fairness is out of the prover's reach, as is
`ENABLED`), and the four violations.

## 10. Not modelled

- Cryptography, certificate and CSR syntax, JSON validation, HTTP framing:
  decisions on one input, tested by the repository's tests.
- The Windows scripts for joining, testing, leaving and removing, the installer,
  the audit and the release script: they act on hosts (adapters, packages,
  services) the repository does not describe.
- See the plan for what is to come, and PROJECT.json for every component.
