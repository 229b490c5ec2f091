--------------------------- MODULE CompanionLimits ---------------------------
(***************************************************************************)
(* How assets/lan-party-companion.py limits requests: failed               *)
(* authentications by source address, and what an authenticated player     *)
(* asks for by player.  A client is a player with the address it has.      *)
(*                                                                         *)
(* A request is served by a thread of its own, with several of a client's  *)
(* at a time.  The two functions about failures read the clock before they *)
(* take the lock, the limits of a player are checked under it.             *)
(*                                                                         *)
(* A time is represented by its age in ticks, so that now - t > window is  *)
(* age > window.  A deque is a sequence of ages, its head first.  A source *)
(* without a deque has an empty one.                                       *)
(***************************************************************************)
EXTENDS Naturals, Sequences, FiniteSets

CONSTANTS
    Clients,        \* players, each with its address
    Slots,          \* bound: for each client, its requests served at a time
    Limit,          \* of _enforce_rate_locked
    Window,
    FailLimit,      \* failures after which a source is refused
    FailWindow,
    MaxSources,     \* sources kept in failed_auth_rates
    MaxDelay        \* bound: ticks from reading the clock to having the lock

ASSUME SetsAssumption ==
    /\ IsFiniteSet(Clients)
    /\ DOMAIN Slots = Clients
    /\ \A c \in Clients : IsFiniteSet(Slots[c])

ASSUME LimitsAssumption ==
    /\ Limit \in Nat \ {0} /\ Window \in Nat
    /\ FailLimit \in Nat \ {0} /\ FailWindow \in Nat
    /\ MaxSources \in Nat \ {0}

ASSUME DelayAssumption == MaxDelay \in 0..FailWindow

VARIABLES
    valid,          \* clients whose token is a registered player's
    rates,          \* the deques of a limit of players: poll_rates
    failedAuth,     \* failed_auth_rates
    requests,       \* progress of the requests of each client
    served,         \* history: the last Limit times a client was served
    failures        \* history: the last failures recorded of a client

limitVars == <<valid, rates, failedAuth, requests, served, failures>>

-----------------------------------------------------------------------------
\* Ages that are too old to matter need not be told apart.
RateAges == 0..Window + 1

FailAges == 0..FailWindow + MaxDelay + 1

\* "checking" and "failing" have read the clock and wait for the lock.
Stages == {"idle", "checking", "verifying", "failing", "allowed"}

Timed == {"checking", "failing"}

Request == [stage : Stages, delay : 0..MaxDelay]

NoRequest == [stage |-> "idle", delay |-> 0]

\* How many failures of a client are in a window at most: one less than the
\* limit were recorded when the last requests passed, as many as there are slots.
MaxFailures(c) == FailLimit - 1 + Cardinality(Slots[c])

Sources(auth) == {c \in Clients : auth[c] # <<>>}

LimitsTypeOK ==
    /\ valid \subseteq Clients
    /\ rates \in [Clients -> Seq(RateAges)]
    /\ failedAuth \in [Clients -> Seq(FailAges)]
    /\ Cardinality(Sources(failedAuth)) <= MaxSources
    /\ DOMAIN requests = Clients
    /\ \A c \in Clients : requests[c] \in [Slots[c] -> Request]
    /\ served \in [Clients -> Seq(RateAges)]
    /\ failures \in [Clients -> Seq(FailAges)]

LimitsInit ==
    /\ valid \in SUBSET Clients
    /\ rates = [c \in Clients |-> <<>>]
    /\ failedAuth = [c \in Clients |-> <<>>]
    /\ requests = [c \in Clients |-> [i \in Slots[c] |-> NoRequest]]
    /\ served = [c \in Clients |-> <<>>]
    /\ failures = [c \in Clients |-> <<>>]

-----------------------------------------------------------------------------
\* Mutant of Pops: an entry as old as the window is popped.
PopsEarly(deque, window, n) ==
    /\ n \in 0..Len(deque)
    /\ \A k \in 1..n : deque[k] >= window
    /\ n < Len(deque) => deque[n + 1] < window

\* The loop that pops the head of a deque as long as it is older than window
\* pops n of its entries.
Pops(deque, window, n) ==
    /\ n \in 0..Len(deque)
    /\ \A k \in 1..n : deque[k] > window
    /\ n < Len(deque) => deque[n + 1] <= window

Rest(deque, n) == SubSeq(deque, n + 1, Len(deque))

\* The last max entries of a history, the newest being now.
Remember(history, max) ==
    IF Len(history) < max THEN Append(history, 0)
    ELSE Append(Rest(history, 1), 0)

In(c, i, stage) == requests[c][i].stage = stage

Delay(c, i) == requests[c][i].delay

Goto(c, i, stage) ==
    requests' = [requests EXCEPT ![c][i] = [stage |-> stage, delay |-> 0]]

Arrive(c, i) ==
    /\ In(c, i, "idle")
    /\ Goto(c, i, "checking")
    /\ UNCHANGED <<valid, rates, failedAuth, served, failures>>

\* enforce_auth_source
PassSource(c, i) ==
    /\ In(c, i, "checking")
    /\ Goto(c, i, "verifying")
    /\ \E n \in 0..Len(failedAuth[c]) :
          /\ Pops(failedAuth[c], FailWindow + Delay(c, i), n)
          /\ Len(failedAuth[c]) - n < FailLimit
          /\ failedAuth' = [failedAuth EXCEPT ![c] = Rest(@, n)]
    /\ UNCHANGED <<valid, rates, served, failures>>

\* Mutant of RefuseSource: an attempt that is refused counts as a failure.
RefuseAndRecord(c, i) ==
    /\ In(c, i, "checking")
    /\ Goto(c, i, "idle")
    /\ Len(failedAuth[c]) >= FailLimit
    /\ failedAuth' = [failedAuth EXCEPT ![c] = Append(Rest(@, 1), 0)]
    /\ UNCHANGED <<valid, rates, served, failures>>

RefuseSource(c, i) ==
    /\ In(c, i, "checking")
    /\ Goto(c, i, "idle")
    /\ \E n \in 0..Len(failedAuth[c]) :
          /\ Pops(failedAuth[c], FailWindow + Delay(c, i), n)
          /\ Len(failedAuth[c]) - n >= FailLimit
          /\ failedAuth' = [failedAuth EXCEPT ![c] = Rest(@, n)]
    /\ UNCHANGED <<valid, rates, served, failures>>

\* authenticate
Authenticate(c, i) ==
    /\ In(c, i, "verifying")
    /\ Goto(c, i, IF c \in valid THEN "allowed" ELSE "failing")
    /\ UNCHANGED <<valid, rates, failedAuth, served, failures>>

Newest(deque) == deque[Len(deque)]

\* Mutant of Kept: only stale sources are dropped.
KeptFresh(auth, delay, kept) ==
    kept = IF Cardinality(Sources(auth)) <= MaxSources THEN Sources(auth)
           ELSE {c \in Sources(auth) : Newest(auth[c]) <= FailWindow + delay}

\* The sources of auth that are kept when there are too many: not the stale
\* ones, nor the one whose last failure is the oldest.
Kept(auth, delay, kept) ==
    LET fresh == {c \in Sources(auth) : Newest(auth[c]) <= FailWindow + delay}
    IN  IF Cardinality(Sources(auth)) <= MaxSources THEN kept = Sources(auth)
        ELSE IF Cardinality(fresh) <= MaxSources THEN kept = fresh
        ELSE \E oldest \in fresh :
                /\ \A c \in fresh : Newest(auth[c]) <= Newest(auth[oldest])
                /\ kept = fresh \ {oldest}

\* record_auth_failure
RecordFailure(c, i) ==
    /\ In(c, i, "failing")
    /\ Goto(c, i, "idle")
    /\ \E n \in 0..Len(failedAuth[c]), kept \in SUBSET Clients :
          /\ Pops(failedAuth[c], FailWindow + Delay(c, i), n)
          /\ LET auth == [failedAuth EXCEPT ![c] = Append(Rest(@, n), Delay(c, i))]
                 past == [failures EXCEPT ![c] = Remember(@, MaxFailures(c))]
             IN  /\ Kept(auth, Delay(c, i), kept)
                 /\ failedAuth' = [d \in Clients |->
                                      IF d \in kept THEN auth[d] ELSE <<>>]
                 /\ failures' = [d \in Clients |->
                                    IF d \in kept THEN past[d] ELSE <<>>]
    /\ UNCHANGED <<valid, rates, served>>

\* _enforce_rate_locked, as called by enforce_poll_rate, set_status and
\* send_message, each with a limit, a window and deques of its own.
Serve(c, i) ==
    /\ In(c, i, "allowed")
    /\ Goto(c, i, "idle")
    /\ \E n \in 0..Len(rates[c]) :
          /\ Pops(rates[c], Window, n)
          /\ Len(rates[c]) - n < Limit
          /\ rates' = [rates EXCEPT ![c] = Append(Rest(@, n), 0)]
    /\ served' = [served EXCEPT ![c] = Remember(@, Limit)]
    /\ UNCHANGED <<valid, failedAuth, failures>>

Refuse(c, i) ==
    /\ In(c, i, "allowed")
    /\ Goto(c, i, "idle")
    /\ \E n \in 0..Len(rates[c]) :
          /\ Pops(rates[c], Window, n)
          /\ Len(rates[c]) - n >= Limit
          /\ rates' = [rates EXCEPT ![c] = Rest(@, n)]
    /\ UNCHANGED <<valid, failedAuth, served, failures>>

\* The players file has no entry for the client's token any more.  If it has
\* none for the player, the reload drops the deques of the player.
Revoke(c) ==
    /\ c \in valid
    /\ valid' = valid \ {c}
    /\ \/ UNCHANGED <<rates, served>>
       \/ /\ rates' = [rates EXCEPT ![c] = <<>>]
          /\ served' = [served EXCEPT ![c] = <<>>]
    /\ UNCHANGED <<failedAuth, requests, failures>>

Register(c) ==
    /\ c \notin valid
    /\ valid' = valid \cup {c}
    /\ UNCHANGED <<rates, failedAuth, requests, served, failures>>

Older(deque, oldest) ==
    [k \in DOMAIN deque |-> IF deque[k] < oldest THEN deque[k] + 1 ELSE oldest]

LimitsTick ==
    /\ \A c \in Clients : \A i \in Slots[c] :
          requests[c][i].stage \in Timed => Delay(c, i) < MaxDelay
    /\ rates' = [c \in Clients |-> Older(rates[c], Window + 1)]
    /\ failedAuth' = [c \in Clients |-> Older(failedAuth[c], FailWindow + MaxDelay + 1)]
    /\ served' = [c \in Clients |-> Older(served[c], Window + 1)]
    /\ failures' = [c \in Clients |-> Older(failures[c], FailWindow - MaxDelay + 1)]
    /\ requests' = [c \in Clients |-> [i \in Slots[c] |->
                       IF requests[c][i].stage \in Timed
                       THEN [requests[c][i] EXCEPT !.delay = @ + 1]
                       ELSE requests[c][i]]]
    /\ UNCHANGED valid

Proceed(c, i) ==
    \/ PassSource(c, i) \/ RefuseSource(c, i)
    \/ Authenticate(c, i) \/ RecordFailure(c, i)
    \/ Serve(c, i) \/ Refuse(c, i)

LimitsNext ==
    \/ \E c \in Clients : \/ Revoke(c) \/ Register(c)
                          \/ \E i \in Slots[c] : Arrive(c, i) \/ Proceed(c, i)
    \/ LimitsTick

LimitsSpec == LimitsInit /\ [][LimitsNext]_limitVars

-----------------------------------------------------------------------------
\* Over any stretch of Window a client is served Limit times at most: when it
\* is served, the time before that by Limit is out of the window.  The history
\* starts over when the player is removed from the file and the server drops
\* the player's deques, as it would when the server starts again, which is
\* left out: a player who comes back is not held to what was served before.
ServedSpacing(c) ==
    (\E i \in Slots[c] : Serve(c, i)) /\ Len(served[c]) = Limit
        => served[c][1] > Window

\* Likewise for the failures that are recorded of a source, as long as it is
\* not dropped to make room for others.  The check and the record are made in
\* different critical sections, so that more failures than FailLimit get
\* through: all the requests that passed the check together.
FailureSpacing(c) ==
    (\E i \in Slots[c] : RecordFailure(c, i)) /\ Len(failures[c]) = MaxFailures(c)
        => failures[c][1] > FailWindow - MaxDelay

WindowsRespected ==
    [][\A c \in Clients : ServedSpacing(c) /\ FailureSpacing(c)]_limitVars

\* A client with a registered token that keeps asking is served again and
\* again, however fast it asks and whatever failures it was refused for before.
ServedAgain ==
    \A c \in Clients :
        <>[](c \in valid)
            => []<>(served[c] # <<>> /\ Newest(served[c]) = 0)
=============================================================================
