--------------------------- MODULE EnrollmentPortal ---------------------------
(***************************************************************************)
(* The enrolment portal of assets/vpn-enrollment-portal.py and the Windows *)
(* client that enrols through it.                                          *)
(*                                                                         *)
(* The portal serves every request under one lock, but two files of an     *)
(* invitation, <id>.json and <id>.zip, are written one after the other:    *)
(* task is the request between its two writes, and the process may stop    *)
(* there.  An answer may be lost after the spool was changed for it.       *)
(*                                                                         *)
(* A run of the client script draws one key, so that a run is known by its *)
(* key; a run that ends without a profile deletes its key.  Its HTTP stack *)
(* repeats a GET whose connection broke.  An approved response is known by *)
(* the key it certifies and by the rest of it, its version, in which two   *)
(* attempts of an administrator may differ.                                *)
(***************************************************************************)
EXTENDS Naturals

CONSTANTS
    Enrollments,    \* enrolment ids
    Keys,           \* SPKI fingerprints, one for each run of the client
    Versions,       \* the rest of a response: profile, Companion assets
    None

ASSUME NoneAssumption == None \notin Enrollments \cup Keys \cup Versions

VARIABLES
    spool,          \* <id>.json
    bundle,         \* whether <id>.zip exists
    expired,        \* invitations whose expires_at has passed
    task,           \* the request between its two writes
    runs,           \* runs of the client script
    answers,        \* times each response was sent to a client
    desk            \* fingerprint an administrator has inspected

vars == <<spool, bundle, expired, task, runs, answers, desk>>

-----------------------------------------------------------------------------
States == {"created", "pending", "approved", "collected", "cancelled"}

Response == [key : Keys, version : Versions]

ASSUME ResponseAssumption == None \notin Response

Entry == [state    : States \cup {"absent"},
          token    : BOOLEAN,
          spki     : Keys \cup {None},
          response : Response \cup {None}]

\* An entry that holds no request and no response.
Bare(state, token) ==
    [state |-> state, token |-> token, spki |-> None, response |-> None]

NoEntry == Bare("absent", FALSE)

Task == [kind : {"none", "register", "cancel", "result"},
         id   : Enrollments \cup {None},
         run  : Keys \cup {None},
         response : Response \cup {None}]

Free == [kind |-> "none", id |-> None, run |-> None, response |-> None]

Run == [stage   : {"new", "keyed", "waiting", "done", "failed"},
        id      : Enrollments \cup {None},
        profile : Response \cup {None}]

TypeOK ==
    /\ spool \in [Enrollments -> Entry]
    /\ bundle \in [Enrollments -> BOOLEAN]
    /\ expired \in SUBSET Enrollments
    /\ task \in Task
    /\ runs \in [Keys -> Run]
    /\ answers \in [Enrollments -> Nat]
    /\ desk \in [Enrollments -> Keys \cup {None}]

Init ==
    /\ spool = [e \in Enrollments |-> NoEntry]
    /\ bundle = [e \in Enrollments |-> FALSE]
    /\ expired = {}
    /\ task = Free
    /\ runs = [k \in Keys |-> [stage |-> "new", id |-> None, profile |-> None]]
    /\ answers = [e \in Enrollments |-> 0]
    /\ desk = [e \in Enrollments |-> None]

-----------------------------------------------------------------------------
(* The spool files, as the operations rewrite them. *)

Save(e, entry) == spool' = [spool EXCEPT ![e] = entry]

\* _by_token: the token is the one registered, and the invitation not expired.
Authorized(e) == spool[e].token /\ e \notin expired

\* The request in hand keeps the lock for its second write.
Hold(kind, e, k, r) ==
    task' = [kind |-> kind, id |-> e, run |-> k, response |-> r]

\* register: the bundle first.
Register(e) ==
    /\ task = Free
    /\ e \notin expired
    /\ spool[e].state = "absent" /\ ~bundle[e]
    /\ bundle' = [bundle EXCEPT ![e] = TRUE]
    /\ Hold("register", e, None, None)
    /\ UNCHANGED <<spool, expired, runs, answers, desk>>

RegisterState ==
    /\ task.kind = "register"
    /\ Save(task.id, Bare("created", TRUE))
    /\ task' = Free
    /\ UNCHANGED <<bundle, expired, runs, answers, desk>>

\* The state cannot be written: the bundle is taken back.
RegisterFails ==
    /\ task.kind = "register"
    /\ bundle' = [bundle EXCEPT ![task.id] = FALSE]
    /\ task' = Free
    /\ UNCHANGED <<spool, expired, runs, answers, desk>>

\* inspect
Inspect(e) ==
    /\ task = Free
    /\ spool[e].state = "pending"
    /\ desk' = [desk EXCEPT ![e] = spool[e].spki]
    /\ UNCHANGED <<spool, bundle, expired, task, runs, answers>>

\* Mutant of MayPublish: a response already published is replaced.
MayRepublish(e, r, spki) ==
    /\ spool[e].state \in {"pending", "approved"}
    /\ spool[e].spki = spki

MayPublish(e, r, spki) ==
    \/ spool[e].state = "approved" /\ spool[e].response = r
    \/ spool[e].state = "pending" /\ spool[e].spki = spki

\* publish: again for the same response.
Publish(e, r, spki) ==
    /\ task = Free
    /\ MayPublish(e, r, spki)
    /\ Save(e, [spool[e] EXCEPT !.state = "approved", !.response = r])
    /\ UNCHANGED <<bundle, expired, task, runs, answers, desk>>

\* cancel: in any state.
Cancel(e) ==
    /\ task = Free
    /\ spool[e].state # "absent"
    /\ Save(e, Bare("cancelled", FALSE))
    /\ Hold("cancel", e, None, None)
    /\ UNCHANGED <<bundle, expired, runs, answers, desk>>

\* The second write of a cancellation: the bundle goes.
CancelBundle ==
    /\ task.kind = "cancel"
    /\ bundle' = [bundle EXCEPT ![task.id] = FALSE]
    /\ task' = Free
    /\ UNCHANGED <<spool, expired, runs, answers, desk>>

-----------------------------------------------------------------------------
(* The client script, and what the portal does on its requests. *)

Ended(k, stage) == [runs EXCEPT ![k].stage = stage]

\* A run reads the challenge and draws its key.
Challenge(e, k) ==
    /\ task = Free
    /\ runs[k].stage = "new"
    /\ Authorized(e)
    /\ runs' = [runs EXCEPT ![k] = [stage |-> "keyed", id |-> e, profile |-> None]]
    /\ UNCHANGED <<spool, bundle, expired, task, answers, desk>>

\* Mutant of MaySubmit: a later request replaces the one submitted.
MayResubmit(e) == Authorized(e) /\ spool[e].state \in {"created", "pending"}

MaySubmit(e) == Authorized(e) /\ spool[e].state = "created"

\* submit; the run also fails when the answer is lost.
Submit(k) ==
    LET e == runs[k].id
    IN  /\ task = Free
        /\ runs[k].stage = "keyed"
        /\ \/ /\ MaySubmit(e)
              /\ Save(e, [spool[e] EXCEPT !.state = "pending", !.spki = k])
              /\ \E s \in {"waiting", "failed"} : runs' = Ended(k, s)
           \/ /\ ~MaySubmit(e)
              /\ runs' = Ended(k, "failed")
              /\ UNCHANGED spool
        /\ UNCHANGED <<bundle, expired, task, answers, desk>>

\* result, before there is a response, or when there is none to be had.
Poll(k) ==
    LET e == runs[k].id
    IN  /\ task = Free
        /\ runs[k].stage = "waiting"
        /\ ~(Authorized(e) /\ spool[e].state \in {"created", "pending", "approved"})
        /\ runs' = Ended(k, "failed")
        /\ UNCHANGED <<spool, bundle, expired, task, answers, desk>>

\* Mutant of Result: the response stays until the answer was sent.
ResultKept(k) ==
    LET e == runs[k].id
    IN  /\ task = Free
        /\ runs[k].stage = "waiting"
        /\ Authorized(e) /\ spool[e].state = "approved"
        /\ Hold("result", e, k, spool[e].response)
        /\ UNCHANGED <<spool, bundle, expired, runs, answers, desk>>

\* result: the response is struck from the spool before it is sent.
Result(k) ==
    LET e == runs[k].id
    IN  /\ task = Free
        /\ runs[k].stage = "waiting"
        /\ Authorized(e) /\ spool[e].state = "approved"
        /\ Save(e, [spool[e] EXCEPT !.state = "collected", !.response = None])
        /\ Hold("result", e, k, spool[e].response)
        /\ UNCHANGED <<bundle, expired, runs, answers, desk>>

\* A response that arrives becomes the profile of the run; when it is lost the
\* run still waits for an answer to its request.
Receive ==
    \/ runs' = [runs EXCEPT ![task.run] =
                    [stage |-> "done", id |-> task.id, profile |-> task.response]]
    \/ UNCHANGED runs

\* Mutant of Answer: the bundle of the invitation is not removed.
AnswerKeepingBundle ==
    /\ task.kind = "result"
    /\ answers' = [answers EXCEPT ![task.id] = @ + 1]
    /\ Receive
    /\ task' = Free
    /\ UNCHANGED <<spool, bundle, expired, desk>>

\* The second write of result, after which the answer is sent.
Answer ==
    /\ task.kind = "result"
    /\ bundle' = [bundle EXCEPT ![task.id] = FALSE]
    /\ answers' = [answers EXCEPT ![task.id] = @ + 1]
    /\ Receive
    /\ task' = Free
    /\ UNCHANGED <<spool, expired, desk>>

\* The script is closed, times out, or does not reach the portal.
GiveUp(k) ==
    /\ runs[k].stage \in {"keyed", "waiting"}
    /\ task.run # k
    /\ runs' = Ended(k, "failed")
    /\ UNCHANGED <<spool, bundle, expired, task, answers, desk>>

-----------------------------------------------------------------------------
\* The process stops and is started again: the request in hand is not answered.
Crash ==
    /\ task # Free
    /\ task' = Free
    /\ UNCHANGED <<spool, bundle, expired, runs, answers, desk>>

Expire(e) ==
    /\ e \notin expired
    /\ expired' = expired \cup {e}
    /\ UNCHANGED <<spool, bundle, task, runs, answers, desk>>

Request(k) ==
    \/ \E e \in Enrollments : Challenge(e, k)
    \/ Submit(k) \/ Poll(k) \/ Result(k) \/ GiveUp(k)

SecondWrite == RegisterState \/ RegisterFails \/ CancelBundle \/ Answer

Next ==
    \/ \E e \in Enrollments :
          \/ Register(e) \/ Inspect(e) \/ Cancel(e) \/ Expire(e)
          \/ \E v \in Versions :
                /\ desk[e] # None
                /\ Publish(e, [key |-> desk[e], version |-> v], desk[e])
    \/ \E k \in Keys : Request(k)
    \/ SecondWrite
    \/ Crash

Spec == Init /\ [][Next]_vars

-----------------------------------------------------------------------------
Open(e) == spool[e].state \in {"created", "pending", "approved"}

\* A response is sent once at most: an answer that was lost is not repeated,
\* and no cancellation or second publication makes the portal send another.
AnsweredOnce == \A e \in Enrollments : answers[e] <= 1

\* The response that reaches a run of the client certifies the key of that run,
\* although several runs may use one token at the same time and an administrator
\* approves a fingerprint inspected earlier.
ProfileFitsKey ==
    \A k \in Keys : runs[k].profile # None => runs[k].profile.key = k

\* An invitation that can still be used can be downloaded, and one whose
\* response was sent cannot, whichever of the two files was written when the
\* process stopped.
BundleFollowsState ==
    \A e \in Enrollments :
        /\ Open(e) => bundle[e]
        /\ answers[e] > 0 => ~bundle[e]

\* What was published for an enrolment is what its client gets: a repeated
\* publication, as after an interrupted approval, does not replace it, and a
\* cancelled or collected one is not brought back.
PublishedIsStable ==
    [][\A e \in Enrollments :
          /\ spool[e].response # None
                => spool'[e].response \in {spool[e].response, None}
          /\ spool[e].state \in {"collected", "cancelled"}
                => spool'[e].state \in {spool[e].state, "cancelled"}]_vars
=============================================================================
