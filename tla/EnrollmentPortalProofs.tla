------------------------ MODULE EnrollmentPortalProofs ------------------------
(***************************************************************************)
(* Proofs about EnrollmentPortal, for every set of enrolments, runs of the *)
(* client and versions of a response.                                      *)
(*                                                                         *)
(* The properties hold by one invariant, Sane: what it says of the two     *)
(* files of an invitation, of the request between its two writes, and of   *)
(* a run of the client.                                                    *)
(***************************************************************************)
EXTENDS EnrollmentPortal, TLAPS

EntrySane(e) ==
    /\ answers[e] <= 1
    /\ answers[e] > 0 => spool[e].state \in {"collected", "cancelled"} /\ ~bundle[e]
    /\ Open(e) => bundle[e]
    /\ spool[e].response = None <=> spool[e].state # "approved"
    /\ spool[e].response # None => spool[e].response.key = spool[e].spki

TaskSane ==
    /\ task.kind # "none" => task.id \in Enrollments
    /\ task.kind = "register" => spool[task.id].state = "absent" /\ bundle[task.id]
    /\ task.kind = "cancel" => spool[task.id].state = "cancelled"
    /\ task.kind = "result" =>
          /\ task.run \in Keys
          /\ task.response \in Response
          /\ task.response.key = task.run
          /\ spool[task.id].state = "collected"
          /\ answers[task.id] = 0
          /\ runs[task.run].stage = "waiting"

RunSane(k) ==
    /\ runs[k].stage \in {"keyed", "waiting"} => runs[k].id \in Enrollments
    /\ runs[k].profile # None => runs[k].profile.key = k
    /\ runs[k].stage = "done" => runs[k].id \in Enrollments /\ runs[k].profile # None
    /\ runs[k].stage = "waiting" =>
          /\ spool[runs[k].id].state \notin {"absent", "created"}
          /\ spool[runs[k].id].state \in {"pending", "approved"}
                => spool[runs[k].id].spki = k

Sane ==
    /\ TypeOK
    /\ \A e \in Enrollments : EntrySane(e)
    /\ TaskSane
    /\ \A k \in Keys : RunSane(k)

-----------------------------------------------------------------------------
(* The initial state. *)

LEMMA InitSane == Init => Sane
<1>1. ASSUME Init PROVE TypeOK
  BY <1>1 DEF Init, TypeOK, Entry, NoEntry, Bare, States, Task, Free, Run
<1>2. ASSUME Init, NEW e \in Enrollments PROVE EntrySane(e)
  <2>1. /\ spool[e].state = "absent" /\ spool[e].response = None
        /\ answers[e] = 0
    BY <1>2 DEF Init, NoEntry, Bare
  <2> QED
    BY <2>1 DEF EntrySane, Open
<1>3. ASSUME Init PROVE TaskSane
  BY <1>3 DEF Init, TaskSane, Free
<1>4. ASSUME Init PROVE \A k \in Keys : RunSane(k)
  BY <1>4 DEF Init, RunSane
<1> QED
  BY <1>1, <1>2, <1>3, <1>4 DEF Sane

-----------------------------------------------------------------------------
(* The requests of administrators. *)

LEMMA RegisterKeeps ==
    ASSUME Sane, NEW e \in Enrollments, Register(e)
    PROVE  Sane'
<1> USE DEF Register, Hold
<1>1. TypeOK'
  BY DEF Sane, TypeOK, Task
<1>2. ASSUME NEW d \in Enrollments PROVE EntrySane(d)'
  BY <1>2 DEF Sane, TypeOK, EntrySane, Open
<1>3. TaskSane'
  BY DEF Sane, TypeOK, TaskSane
<1>4. ASSUME NEW k \in Keys PROVE RunSane(k)'
  BY <1>4 DEF Sane, RunSane
<1> QED
  BY <1>1, <1>2, <1>3, <1>4 DEF Sane

LEMMA RegisterStateKeeps ==
    ASSUME Sane, RegisterState
    PROVE  Sane'
<1> USE DEF RegisterState, Save, Bare
<1>0. task.id \in Enrollments
  BY DEF Sane, TaskSane
<1>1. TypeOK'
  BY <1>0 DEF Sane, TypeOK, Task, Free, Entry, States
<1>2. ASSUME NEW d \in Enrollments PROVE EntrySane(d)'
  BY <1>0, <1>2 DEF Sane, TypeOK, EntrySane, Open, TaskSane, Entry
<1>3. TaskSane'
  BY DEF TaskSane, Free
<1>4. ASSUME NEW k \in Keys PROVE RunSane(k)'
  BY <1>0, <1>4 DEF Sane, TypeOK, RunSane, TaskSane
<1> QED
  BY <1>1, <1>2, <1>3, <1>4 DEF Sane

LEMMA RegisterFailsKeeps ==
    ASSUME Sane, RegisterFails
    PROVE  Sane'
<1> USE DEF RegisterFails
<1>0. task.id \in Enrollments /\ spool[task.id].state = "absent"
  BY DEF Sane, TaskSane
<1>1. TypeOK'
  BY <1>0 DEF Sane, TypeOK, Task, Free
<1>2. ASSUME NEW d \in Enrollments PROVE EntrySane(d)'
  BY <1>0, <1>2 DEF Sane, TypeOK, EntrySane, Open
<1>3. TaskSane'
  BY DEF TaskSane, Free
<1>4. ASSUME NEW k \in Keys PROVE RunSane(k)'
  BY <1>4 DEF Sane, RunSane
<1> QED
  BY <1>1, <1>2, <1>3, <1>4 DEF Sane

LEMMA InspectKeeps ==
    ASSUME Sane, NEW e \in Enrollments, Inspect(e)
    PROVE  Sane'
<1> USE DEF Inspect
<1>1. TypeOK'
  BY DEF Sane, TypeOK, Entry
<1>2. ASSUME NEW d \in Enrollments PROVE EntrySane(d)'
  BY <1>2 DEF Sane, EntrySane, Open
<1>3. TaskSane'
  BY DEF Sane, TaskSane
<1>4. ASSUME NEW k \in Keys PROVE RunSane(k)'
  BY <1>4 DEF Sane, RunSane
<1> QED
  BY <1>1, <1>2, <1>3, <1>4 DEF Sane

LEMMA PublishKeeps ==
    ASSUME Sane, NEW e \in Enrollments, NEW r \in Response, Publish(e, r, r.key)
    PROVE  Sane'
<1> DEFINE entry == [spool[e] EXCEPT !.state = "approved", !.response = r]
<1>0. /\ entry \in Entry
      /\ entry.state = "approved" /\ entry.response = r
      /\ entry.spki = spool[e].spki
  BY DEF Sane, TypeOK, Entry, States
<1>1. spool' = [spool EXCEPT ![e] = entry] /\ task = Free
  BY DEF Publish, Save
<1>2. UNCHANGED <<bundle, expired, task, runs, answers, desk>>
  BY DEF Publish
<1>3. spool[e].state \in {"pending", "approved"} /\ spool[e].spki = r.key
  BY DEF Publish, MayPublish, Sane, EntrySane
<1> HIDE DEF entry
<1>4. TypeOK'
  BY <1>0, <1>1, <1>2 DEF Sane, TypeOK
<1>5. ASSUME NEW d \in Enrollments PROVE EntrySane(d)'
  BY <1>0, <1>1, <1>2, <1>3, <1>5, ResponseAssumption DEF Sane, TypeOK, EntrySane, Open
<1>6. TaskSane'
  BY <1>1, <1>2 DEF TaskSane, Free
<1>7. ASSUME NEW k \in Keys PROVE RunSane(k)'
  BY <1>0, <1>1, <1>2, <1>3, <1>7 DEF Sane, TypeOK, RunSane
<1> QED
  BY <1>4, <1>5, <1>6, <1>7 DEF Sane

LEMMA CancelKeeps ==
    ASSUME Sane, NEW e \in Enrollments, Cancel(e)
    PROVE  Sane'
<1> USE DEF Cancel, Save, Hold, Bare
<1>1. TypeOK'
  BY DEF Sane, TypeOK, Entry, States, Task
<1>2. ASSUME NEW d \in Enrollments PROVE EntrySane(d)'
  BY <1>2 DEF Sane, TypeOK, EntrySane, Open
<1>3. TaskSane'
  BY DEF Sane, TypeOK, TaskSane
<1>4. ASSUME NEW k \in Keys PROVE RunSane(k)'
  BY <1>4 DEF Sane, TypeOK, RunSane
<1> QED
  BY <1>1, <1>2, <1>3, <1>4 DEF Sane

LEMMA CancelBundleKeeps ==
    ASSUME Sane, CancelBundle
    PROVE  Sane'
<1> USE DEF CancelBundle
<1>0. task.id \in Enrollments /\ spool[task.id].state = "cancelled"
  BY DEF Sane, TaskSane
<1>1. TypeOK'
  BY <1>0 DEF Sane, TypeOK, Task, Free
<1>2. ASSUME NEW d \in Enrollments PROVE EntrySane(d)'
  BY <1>0, <1>2 DEF Sane, TypeOK, EntrySane, Open
<1>3. TaskSane'
  BY DEF TaskSane, Free
<1>4. ASSUME NEW k \in Keys PROVE RunSane(k)'
  BY <1>4 DEF Sane, RunSane
<1> QED
  BY <1>1, <1>2, <1>3, <1>4 DEF Sane

-----------------------------------------------------------------------------
(* The requests of clients. *)

LEMMA ChallengeKeeps ==
    ASSUME Sane, NEW e \in Enrollments, NEW k \in Keys, Challenge(e, k)
    PROVE  Sane'
<1> USE DEF Challenge
<1>1. TypeOK'
  BY DEF Sane, TypeOK, Run
<1>2. ASSUME NEW d \in Enrollments PROVE EntrySane(d)'
  BY <1>2 DEF Sane, EntrySane, Open
<1>3. TaskSane'
  BY DEF Sane, TaskSane, Free
<1>4. ASSUME NEW j \in Keys PROVE RunSane(j)'
  BY <1>4 DEF Sane, TypeOK, RunSane
<1> QED
  BY <1>1, <1>2, <1>3, <1>4 DEF Sane

\* A run that fails.
LEMMA FailedKeeps ==
    ASSUME Sane, NEW k \in Keys, runs' = Ended(k, "failed"),
           task = Free \/ task.run # k,
           UNCHANGED <<spool, bundle, expired, task, answers, desk>>
    PROVE  Sane'
<1>1. TypeOK'
  BY DEF Sane, TypeOK, Run, Ended
<1>2. ASSUME NEW d \in Enrollments PROVE EntrySane(d)'
  BY <1>2 DEF Sane, EntrySane, Open
<1>3. TaskSane'
  BY DEF Sane, TypeOK, TaskSane, Ended, Free
<1>4. ASSUME NEW j \in Keys PROVE RunSane(j)'
  BY <1>4 DEF Sane, TypeOK, RunSane, Ended, Run
<1> QED
  BY <1>1, <1>2, <1>3, <1>4 DEF Sane

\* A request that the portal accepts, whether or not the run hears of it.
LEMMA AcceptedKeeps ==
    ASSUME Sane, NEW k \in Keys, NEW e \in Enrollments,
           runs[k].id = e, spool[e].state = "created", task = Free,
           NEW s \in {"waiting", "failed"}, runs' = Ended(k, s),
           Save(e, [spool[e] EXCEPT !.state = "pending", !.spki = k]),
           UNCHANGED <<bundle, expired, task, answers, desk>>
    PROVE  Sane'
<1> DEFINE entry == [spool[e] EXCEPT !.state = "pending", !.spki = k]
           run == [runs[k] EXCEPT !.stage = s]
<1>1. /\ entry \in Entry
      /\ entry.state = "pending" /\ entry.response = spool[e].response
      /\ entry.spki = k
  BY DEF Sane, TypeOK, Entry, States
<1>2. /\ run \in Run
      /\ run.stage = s /\ run.id = e /\ run.profile = runs[k].profile
  BY DEF Sane, TypeOK, Run
<1>3. spool' = [spool EXCEPT ![e] = entry] /\ runs' = [runs EXCEPT ![k] = run]
  BY DEF Save, Ended
<1> HIDE DEF entry, run
<1>4. TypeOK'
  BY <1>1, <1>2, <1>3 DEF Sane, TypeOK
<1>5. ASSUME NEW d \in Enrollments PROVE EntrySane(d)'
  BY <1>1, <1>3, <1>5 DEF Sane, TypeOK, EntrySane, Open
<1>6. TaskSane'
  BY DEF TaskSane, Free
<1>7. ASSUME NEW j \in Keys PROVE RunSane(j)'
  BY <1>1, <1>2, <1>3, <1>7 DEF Sane, TypeOK, RunSane
<1> QED
  BY <1>4, <1>5, <1>6, <1>7 DEF Sane

LEMMA SubmitKeeps ==
    ASSUME Sane, NEW k \in Keys, Submit(k)
    PROVE  Sane'
<1>1. runs[k].id \in Enrollments
  BY DEF Submit, Sane, RunSane
<1>2. CASE MaySubmit(runs[k].id)
  BY <1>1, <1>2, AcceptedKeeps DEF Submit, MaySubmit
<1>3. CASE ~MaySubmit(runs[k].id)
  BY <1>3, FailedKeeps DEF Submit
<1> QED
  BY <1>2, <1>3

LEMMA PollKeeps ==
    ASSUME Sane, NEW k \in Keys, Poll(k) \/ GiveUp(k)
    PROVE  Sane'
  BY FailedKeeps DEF Poll, GiveUp

LEMMA ResultKeeps ==
    ASSUME Sane, NEW k \in Keys, Result(k)
    PROVE  Sane'
<1> DEFINE e == runs[k].id
           entry == [spool[e] EXCEPT !.state = "collected", !.response = None]
           r == spool[e].response
<1>0. /\ e \in Enrollments /\ spool[e].state = "approved"
      /\ task = Free /\ runs[k].stage = "waiting"
  BY DEF Result, Sane, RunSane
<1>1. /\ entry \in Entry
      /\ entry.state = "collected" /\ entry.response = None
  BY <1>0 DEF Sane, TypeOK, Entry, States
<1>2. spool' = [spool EXCEPT ![e] = entry]
  BY DEF Result, Save
<1>3. task' = [kind |-> "result", id |-> e, run |-> k, response |-> r]
  BY DEF Result, Hold
<1>4. UNCHANGED <<bundle, expired, runs, answers, desk>>
  BY DEF Result
<1>5. r \in Response /\ r.key = k /\ answers[e] = 0
  <2>1. spool[e].spki = k
    BY <1>0 DEF Sane, RunSane
  <2>2. r # None /\ r.key = k
    BY <1>0, <2>1 DEF Sane, EntrySane
  <2>3. answers[e] = 0
    BY <1>0 DEF Sane, TypeOK, EntrySane
  <2>4. r \in Response
    BY <1>0, <2>2 DEF Sane, TypeOK, Entry
  <2> QED
    BY <2>2, <2>3, <2>4
<1> HIDE DEF e, entry, r
<1>6. TypeOK'
  BY <1>0, <1>1, <1>2, <1>3, <1>4, <1>5 DEF Sane, TypeOK, Task
<1>7. ASSUME NEW d \in Enrollments PROVE EntrySane(d)'
  BY <1>0, <1>1, <1>2, <1>4, <1>5, <1>7 DEF Sane, TypeOK, EntrySane, Open
<1>8. TaskSane'
  BY <1>0, <1>1, <1>2, <1>3, <1>4, <1>5 DEF Sane, TypeOK, TaskSane
<1>9. ASSUME NEW j \in Keys PROVE RunSane(j)'
  BY <1>0, <1>1, <1>2, <1>4, <1>9 DEF Sane, TypeOK, RunSane
<1> QED
  BY <1>6, <1>7, <1>8, <1>9 DEF Sane

LEMMA AnswerKeeps ==
    ASSUME Sane, Answer
    PROVE  Sane'
<1>0. /\ task.id \in Enrollments /\ task.run \in Keys
      /\ task.response \in Response /\ task.response.key = task.run
      /\ spool[task.id].state = "collected" /\ answers[task.id] = 0
  BY DEF Answer, Sane, TaskSane
<1>1. /\ bundle' = [bundle EXCEPT ![task.id] = FALSE]
      /\ answers' = [answers EXCEPT ![task.id] = 1]
      /\ task' = Free
      /\ UNCHANGED <<spool, expired, desk>>
  BY <1>0 DEF Answer, Sane, TypeOK
<1>2. \/ runs' = [runs EXCEPT ![task.run] =
                     [stage |-> "done", id |-> task.id, profile |-> task.response]]
      \/ UNCHANGED runs
  BY DEF Answer, Receive
<1>3. TypeOK'
  BY <1>0, <1>1, <1>2 DEF Sane, TypeOK, Run, Task, Free
<1>4. ASSUME NEW d \in Enrollments PROVE EntrySane(d)'
  BY <1>0, <1>1, <1>4 DEF Sane, TypeOK, EntrySane, Open
<1>5. TaskSane'
  BY <1>1 DEF TaskSane, Free
<1>6. ASSUME NEW j \in Keys PROVE RunSane(j)'
  BY <1>0, <1>1, <1>2, <1>6, ResponseAssumption DEF Sane, TypeOK, RunSane
<1> QED
  BY <1>3, <1>4, <1>5, <1>6 DEF Sane

-----------------------------------------------------------------------------
(* The rest, and every step. *)

LEMMA CrashKeeps ==
    ASSUME Sane, Crash
    PROVE  Sane'
<1> USE DEF Crash
<1>1. TypeOK'
  BY DEF Sane, TypeOK, Task, Free
<1>2. ASSUME NEW d \in Enrollments PROVE EntrySane(d)'
  BY <1>2 DEF Sane, EntrySane, Open
<1>3. TaskSane'
  BY DEF TaskSane, Free
<1>4. ASSUME NEW k \in Keys PROVE RunSane(k)'
  BY <1>4 DEF Sane, RunSane
<1> QED
  BY <1>1, <1>2, <1>3, <1>4 DEF Sane

LEMMA IdleKeeps ==
    ASSUME Sane, UNCHANGED <<spool, bundle, task, runs, answers, desk>>,
           expired' \in SUBSET Enrollments
    PROVE  Sane'
<1>1. TypeOK'
  BY DEF Sane, TypeOK
<1>2. ASSUME NEW d \in Enrollments PROVE EntrySane(d)'
  BY <1>2 DEF Sane, EntrySane, Open
<1>3. TaskSane'
  BY DEF Sane, TaskSane
<1>4. ASSUME NEW k \in Keys PROVE RunSane(k)'
  BY <1>4 DEF Sane, RunSane
<1> QED
  BY <1>1, <1>2, <1>3, <1>4 DEF Sane

\* A publication of the model is one for the key of its response.
LEMMA PublicationFits ==
    ASSUME Sane, NEW e \in Enrollments, NEW v \in Versions, desk[e] # None
    PROVE  /\ [key |-> desk[e], version |-> v] \in Response
           /\ [key |-> desk[e], version |-> v].key = desk[e]
  BY DEF Sane, TypeOK, Response

\* Sane is inductive.
THEOREM PortalInductive == Spec => []Sane
<1>1. ASSUME Sane, [Next]_vars PROVE Sane'
  <2>1. ASSUME NEW e \in Enrollments, Register(e) PROVE Sane'
    BY <1>1, <2>1, RegisterKeeps
  <2>2. ASSUME NEW e \in Enrollments, Inspect(e) PROVE Sane'
    BY <1>1, <2>2, InspectKeeps
  <2>3. ASSUME NEW e \in Enrollments, Cancel(e) PROVE Sane'
    BY <1>1, <2>3, CancelKeeps
  <2>4. ASSUME NEW e \in Enrollments, Expire(e) PROVE Sane'
    BY <1>1, <2>4, IdleKeeps DEF Expire, Sane, TypeOK
  <2>5. ASSUME NEW e \in Enrollments, NEW v \in Versions, desk[e] # None,
               Publish(e, [key |-> desk[e], version |-> v], desk[e])
        PROVE  Sane'
    <3> DEFINE r == [key |-> desk[e], version |-> v]
    <3>1. r \in Response /\ r.key = desk[e]
      BY <1>1, <2>5, PublicationFits
    <3>2. Publish(e, r, r.key)
      BY <2>5, <3>1
    <3> HIDE DEF r
    <3> QED
      BY <1>1, <2>5, <3>1, <3>2, PublishKeeps
  <2>6. ASSUME NEW k \in Keys, Request(k) PROVE Sane'
    BY <1>1, <2>6, ChallengeKeeps, SubmitKeeps, PollKeeps, ResultKeeps DEF Request
  <2>7. ASSUME SecondWrite PROVE Sane'
    BY <1>1, <2>7, RegisterStateKeeps, RegisterFailsKeeps, CancelBundleKeeps,
       AnswerKeeps DEF SecondWrite
  <2>8. ASSUME Crash PROVE Sane'
    BY <1>1, <2>8, CrashKeeps
  <2>9. ASSUME UNCHANGED vars PROVE Sane'
    BY <1>1, <2>9, IdleKeeps DEF vars, Sane, TypeOK
  <2> QED
    BY <1>1, <2>1, <2>2, <2>3, <2>4, <2>5, <2>6, <2>7, <2>8, <2>9 DEF Next
<1> QED
  BY InitSane, <1>1, PTL DEF Spec

-----------------------------------------------------------------------------
\* The variables of the portal and its clients keep their types.
THEOREM PortalTypeCorrect == Spec => []TypeOK
<1>1. Sane => TypeOK
  BY DEF Sane
<1> QED
  BY PortalInductive, <1>1, PTL

\* PublicStore.result sends the response of an enrolment once at most, whatever
\* is lost, cancelled, published again or stopped.
THEOREM AnsweredOnceHolds == Spec => []AnsweredOnce
<1>1. Sane => AnsweredOnce
  BY DEF Sane, EntrySane, AnsweredOnce
<1> QED
  BY PortalInductive, <1>1, PTL

\* A run of the client that gets a response gets one that certifies its key.
THEOREM ProfileFitsKeyHolds == Spec => []ProfileFitsKey
<1>1. Sane => ProfileFitsKey
  BY DEF Sane, RunSane, ProfileFitsKey
<1> QED
  BY PortalInductive, <1>1, PTL

\* The archive of an invitation is there while the invitation can be used and
\* gone once its response was sent.
THEOREM BundleFollowsStateHolds == Spec => []BundleFollowsState
<1>1. Sane => BundleFollowsState
  BY DEF Sane, EntrySane, BundleFollowsState
<1> QED
  BY PortalInductive, <1>1, PTL

-----------------------------------------------------------------------------
Stable(e) ==
    /\ spool[e].response # None => spool'[e].response \in {spool[e].response, None}
    /\ spool[e].state \in {"collected", "cancelled"}
          => spool'[e].state \in {spool[e].state, "cancelled"}

LEMMA StepIsStable ==
    ASSUME Sane, Next, NEW e \in Enrollments
    PROVE  Stable(e)
<1>0. spool[e].response # None => spool[e].state = "approved"
  BY DEF Sane, EntrySane
<1>1. CASE UNCHANGED spool
  BY <1>1 DEF Stable
<1>2. ASSUME NEW d \in Enrollments, NEW entry, Save(d, entry),
             spool[d].state \notin {"approved", "collected", "cancelled"}
      PROVE  Stable(e)
  BY <1>0, <1>2 DEF Sane, TypeOK, Save, Stable
<1>3. CASE RegisterState
  BY <1>2, <1>3 DEF RegisterState, Sane, TaskSane
<1>4. ASSUME NEW d \in Enrollments, Cancel(d) PROVE Stable(e)
  BY <1>0, <1>4 DEF Cancel, Save, Bare, Sane, TypeOK, Stable
<1>5. ASSUME NEW d \in Enrollments, NEW v \in Versions, desk[d] # None,
             Publish(d, [key |-> desk[d], version |-> v], desk[d])
      PROVE  Stable(e)
  <2> DEFINE r == [key |-> desk[d], version |-> v]
             entry == [spool[d] EXCEPT !.state = "approved", !.response = r]
  <2>1. entry.state = "approved" /\ entry.response = r
    BY DEF Sane, TypeOK, Entry
  <2>2. spool' = [spool EXCEPT ![d] = entry]
    BY <1>5 DEF Publish, Save
  <2>3. \/ spool[d].state = "approved" /\ spool[d].response = r
        \/ spool[d].state = "pending"
    BY <1>5 DEF Publish, MayPublish
  <2> HIDE DEF entry, r
  <2> QED
    BY <1>0, <2>1, <2>2, <2>3 DEF Sane, TypeOK, Stable
<1>6. ASSUME NEW k \in Keys, Submit(k) PROVE Stable(e)
  <2>1. runs[k].id \in Enrollments
    BY <1>6 DEF Submit, Sane, RunSane
  <2> QED
    BY <1>1, <1>2, <1>6, <2>1 DEF Submit, MaySubmit
<1>7. ASSUME NEW k \in Keys, Result(k) PROVE Stable(e)
  <2> DEFINE d == runs[k].id
             entry == [spool[d] EXCEPT !.state = "collected", !.response = None]
  <2>1. d \in Enrollments /\ spool[d].state = "approved"
    BY <1>7 DEF Result, Sane, RunSane
  <2>2. entry.state = "collected" /\ entry.response = None
    BY <2>1 DEF Sane, TypeOK, Entry
  <2>3. spool' = [spool EXCEPT ![d] = entry]
    BY <1>7 DEF Result, Save
  <2> HIDE DEF entry, d
  <2> QED
    BY <1>0, <2>1, <2>2, <2>3 DEF Sane, TypeOK, Stable
<1>8. ASSUME NEW d \in Enrollments, Register(d) \/ Inspect(d) \/ Expire(d) PROVE Stable(e)
  BY <1>1, <1>8 DEF Register, Inspect, Expire
<1>9. ASSUME NEW k \in Keys, Request(k) PROVE Stable(e)
  BY <1>1, <1>6, <1>7, <1>9 DEF Request, Challenge, Poll, GiveUp
<1>10. CASE SecondWrite \/ Crash
  BY <1>1, <1>3, <1>10 DEF SecondWrite, RegisterFails, CancelBundle, Answer, Crash
<1> QED
  BY <1>4, <1>5, <1>8, <1>9, <1>10 DEF Next

\* A run that has its profile keeps it: no request in hand is of that run.
LEMMA DoneStays ==
    ASSUME Sane, [Next]_vars, NEW k \in Keys, runs[k].stage = "done"
    PROVE  runs'[k] = runs[k]
<1>1. ASSUME NEW j \in Keys, NEW s, runs' = Ended(j, s), j # k
      PROVE  runs'[k] = runs[k]
  BY <1>1 DEF Sane, TypeOK, Ended
<1>2. ASSUME NEW j \in Keys, Request(j) PROVE runs'[k] = runs[k]
  BY <1>1, <1>2 DEF Request, Challenge, Submit, Poll, Result, GiveUp, Sane, TypeOK
<1>3. CASE Answer
  BY <1>3 DEF Answer, Receive, Sane, TypeOK, TaskSane
<1>4. CASE UNCHANGED runs
  BY <1>4
<1> QED
  BY <1>2, <1>3, <1>4
     DEF Next, vars, SecondWrite, Register, Inspect, Cancel, Expire, Publish,
         RegisterState, RegisterFails, CancelBundle, Crash

\* What was published stays as it is until it is collected or cancelled, and a
\* cancelled or collected enrolment stays that, whatever administrators publish
\* again and clients submit.
THEOREM PublishedIsStableHolds == Spec => PublishedIsStable
<1>1. ASSUME Sane, [Next]_vars
      PROVE  [\A e \in Enrollments : Stable(e)]_vars
  BY <1>1, StepIsStable
<1>2. ASSUME [\A e \in Enrollments : Stable(e)]_vars
      PROVE  [\A e \in Enrollments :
                 /\ spool[e].response # None
                       => spool'[e].response \in {spool[e].response, None}
                 /\ spool[e].state \in {"collected", "cancelled"}
                       => spool'[e].state \in {spool[e].state, "cancelled"}]_vars
  BY <1>2 DEF Stable
<1> QED
  BY PortalInductive, <1>1, <1>2, PTL DEF Spec, PublishedIsStable
===============================================================================
