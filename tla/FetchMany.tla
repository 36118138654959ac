------------------------------ MODULE FetchMany ------------------------------
(***************************************************************************)
(* concurrency/async_client.py: one call of fetch_many, its tasks on the   *)
(* event loop, the jobs they leave with the executor's threads, and the    *)
(* bench command that runs it.                                             *)
(*                                                                         *)
(* A step is what runs between two awaits.  The loop's queue of ready      *)
(* callbacks is not modelled: any ready task may be the next.  asyncio's   *)
(* Semaphore and TaskGroup and the executor are modelled from what         *)
(* fetch_many needs of them.                                               *)
(***************************************************************************)
EXTENDS Naturals, Sequences, FiniteSets

CONSTANTS
    NumUrls,        \* len(urls)
    Concurrencies,  \* the values of the concurrency argument
    Workers,        \* threads of the loop's default executor
    MayInterrupt    \* TRUE: the caller may be cancelled (Ctrl-C)

ASSUME FetchManyAssumption ==
    /\ NumUrls \in Nat
    /\ Concurrencies \subseteq Nat
    /\ Workers \in Nat \ {0}
    /\ MayInterrupt \in BOOLEAN

Urls == 1 .. NumUrls

VARIABLES
    concurrency, failFast,  \* the arguments; never change
    stage,        \* of the call: "call", "gather", "returned" or "ValueError"; then "exited"
    task,         \* where each fetch_one is
    job,          \* its client.request on the executor
    value,        \* the semaphore's free permits
    waiters,      \* and its queue of tasks not yet woken
    stop,         \* stop_event
    aborting,     \* the TaskGroup has cancelled the tasks that were left
    interrupted,  \* somebody has cancelled the task that runs fetch_many
    completed,    \* indices, in the order of completion; sorted at the end
    errors,       \* likewise
    exitCode      \* of the bench command

argVars == <<concurrency, failFast>>
resultVars == <<completed, errors>>
vars == <<argVars, stage, task, job, value, waiters, stop, aborting, interrupted,
          resultVars, exitCode>>

NoExit == 2

\* No index is recorded twice.
Indices(s) == {s[i] : i \in DOMAIN s}
Distinct(s) == Cardinality(Indices(s)) = Len(s)

TypeOK ==
    /\ concurrency \in Concurrencies
    /\ failFast \in BOOLEAN
    /\ stage \in {"call", "gather", "returned", "ValueError", "exited"}
    /\ task \in [Urls -> {"new", "waiting", "woken", "called", "raised", "done"}]
    /\ job \in [Urls -> {"none", "queued", "running", "ok", "error", "cancelled"}]
    /\ value \in 0 .. concurrency
    /\ waiters \in Seq({u \in Urls : task[u] = "waiting"}) /\ Distinct(waiters)
    /\ stop \in BOOLEAN
    /\ aborting \in BOOLEAN
    /\ interrupted \in BOOLEAN
    /\ completed \in Seq(Urls) /\ Distinct(completed)
    /\ errors \in Seq(Urls) /\ Distinct(errors)
    /\ exitCode \in {0, 1, NoExit}

Init ==
    /\ concurrency \in Concurrencies
    /\ failFast \in BOOLEAN
    /\ stage = "call"
    /\ task = [u \in Urls |-> "new"]
    /\ job = [u \in Urls |-> "none"]
    /\ value = 0
    /\ waiters = <<>>
    /\ stop = FALSE
    /\ aborting = FALSE
    /\ interrupted = FALSE
    /\ completed = <<>>
    /\ errors = <<>>
    /\ exitCode = NoExit

-----------------------------------------------------------------------------
(* asyncio.Semaphore *)

\* Mutant: Semaphore(concurrency + 1).
Permits_OneMore == concurrency + 1

Permits == concurrency

\* A waiter that was woken still counts until it has resumed: nobody overtakes it.
Locked == value = 0 \/ \E u \in Urls : task[u] \in {"waiting", "woken"}

\* Mutant: the permit of a failed request is never given back.
LeaveFailed_Leak(u, end) ==
    /\ task' = [task EXCEPT ![u] = end]
    /\ UNCHANGED <<value, waiters>>

\* A task leaves the "async with": its permit goes to the first waiter, if any.
Leave(u, end) ==
    \/ /\ waiters = <<>>
       /\ task' = [task EXCEPT ![u] = end]
       /\ value' = value + 1
       /\ UNCHANGED waiters
    \/ /\ waiters # <<>>
       /\ task' = [task EXCEPT ![u] = end, ![Head(waiters)] = "woken"]
       /\ waiters' = Tail(waiters)
       /\ UNCHANGED value

LeaveFailed(u, end) == Leave(u, end)

-----------------------------------------------------------------------------
(* fetch_many up to the TaskGroup *)

Begin ==
    /\ stage = "call"
    /\ concurrency >= 1
    /\ stage' = "gather"
    /\ value' = Permits
    /\ UNCHANGED <<argVars, task, job, waiters, stop, aborting, interrupted, resultVars, exitCode>>

Refuse ==
    /\ stage = "call"
    /\ concurrency < 1
    /\ stage' = "ValueError"
    /\ UNCHANGED <<argVars, task, job, value, waiters, stop, aborting, interrupted,
                   resultVars, exitCode>>

-----------------------------------------------------------------------------
(* fetch_one *)

\* A task that was cancelled does nothing any more but unwind.
Ready(u, place) == stage = "gather" /\ ~aborting /\ task[u] = place

\* asyncio.to_thread(client.request, ...)
Submit(u) ==
    /\ task' = [task EXCEPT ![u] = "called"]
    /\ job' = [job EXCEPT ![u] = "queued"]

SkipEarly(u) ==
    /\ Ready(u, "new")
    /\ stop
    /\ task' = [task EXCEPT ![u] = "done"]
    /\ UNCHANGED <<argVars, stage, job, value, waiters, stop, aborting, interrupted,
                   resultVars, exitCode>>

Enter(u) ==
    /\ Ready(u, "new")
    /\ ~stop
    /\ ~Locked
    /\ value' = value - 1
    /\ Submit(u)
    /\ UNCHANGED <<argVars, stage, waiters, stop, aborting, interrupted, resultVars, exitCode>>

Wait(u) ==
    /\ Ready(u, "new")
    /\ ~stop
    /\ Locked
    /\ task' = [task EXCEPT ![u] = "waiting"]
    /\ waiters' = Append(waiters, u)
    /\ UNCHANGED <<argVars, stage, job, value, stop, aborting, interrupted, resultVars, exitCode>>

\* Mutant: stop_event is looked at before the semaphore only.
Resume_OneCheck(u) ==
    /\ Ready(u, "woken")
    /\ Submit(u)
    /\ UNCHANGED <<argVars, stage, value, waiters, stop, aborting, interrupted, resultVars, exitCode>>

\* asyncio then wakes further waiters if permits are still free.  That is left out: it needs a
\* task that starts after another one has given its permit back, and the loop starts all
\* tasks before the first request can have ended.
Resume(u) ==
    /\ Ready(u, "woken")
    /\ ~stop
    /\ Submit(u)
    /\ UNCHANGED <<argVars, stage, value, waiters, stop, aborting, interrupted, resultVars, exitCode>>

\* The second look: the batch was stopped while this task waited for its permit.
SkipLate(u) ==
    /\ Ready(u, "woken")
    /\ stop
    /\ Leave(u, "done")
    /\ UNCHANGED <<argVars, stage, job, stop, aborting, interrupted, resultVars, exitCode>>

Succeed(u) ==
    /\ Ready(u, "called")
    /\ job[u] = "ok"
    /\ completed' = IF stop THEN completed ELSE Append(completed, u)
    /\ Leave(u, "done")
    /\ UNCHANGED <<argVars, stage, job, stop, aborting, interrupted, errors, exitCode>>

\* Mutant: stop_event is set before it is asked whether to record the error.
Recorded_StopFirst(u) == IF stop \/ failFast THEN errors ELSE Append(errors, u)

Recorded(u) == IF stop THEN errors ELSE Append(errors, u)

Fail(u) ==
    /\ Ready(u, "called")
    /\ job[u] = "error"
    /\ errors' = Recorded(u)
    /\ stop' = (stop \/ failFast)
    /\ LeaveFailed(u, IF failFast THEN "raised" ELSE "done")
    /\ UNCHANGED <<argVars, stage, job, aborting, interrupted, completed, exitCode>>

-----------------------------------------------------------------------------
(* asyncio.TaskGroup *)

\* Every task that is left is cancelled at once; the futures of those that wait for
\* a permit are cancelled with them.
Abort ==
    /\ aborting' = TRUE
    /\ waiters' = <<>>

\* The group learns of an exception in a later step than the one that raised it.
Notice(u) ==
    /\ stage = "gather"
    /\ task[u] = "raised"
    /\ task' = [task EXCEPT ![u] = "done"]
    /\ Abort
    /\ UNCHANGED <<argVars, stage, job, value, stop, interrupted, resultVars, exitCode>>

\* Ctrl-C cancels the caller, which learns of it in a later step.
Interrupt ==
    /\ MayInterrupt
    /\ stage = "gather"
    /\ ~interrupted
    /\ interrupted' = TRUE
    /\ UNCHANGED <<argVars, stage, task, job, value, waiters, stop, aborting, resultVars, exitCode>>

NoticeInterrupt ==
    /\ stage = "gather"
    /\ interrupted
    /\ ~aborting
    /\ Abort
    /\ UNCHANGED <<argVars, stage, task, job, value, stop, interrupted, resultVars, exitCode>>

\* CancelledError leaves fetch_one; nothing there catches it.  A task with a permit
\* gives it back.  A job still queued is cancelled, a running one is left alone.
Unwind(u) ==
    /\ stage = "gather"
    /\ aborting
    /\ task[u] \in {"new", "waiting", "woken", "called"}
    /\ task' = [task EXCEPT ![u] = "done"]
    /\ job' = [job EXCEPT ![u] = IF @ = "queued" THEN "cancelled" ELSE @]
    /\ value' = IF task[u] \in {"woken", "called"} THEN value + 1 ELSE value
    /\ UNCHANGED <<argVars, stage, waiters, stop, aborting, interrupted, resultVars, exitCode>>

-----------------------------------------------------------------------------
(* The executor: Workers threads, in no particular order *)

Running == {u \in Urls : job[u] = "running"}

Run(u) ==
    /\ job[u] = "queued"
    /\ Cardinality(Running) < Workers
    /\ job' = [job EXCEPT ![u] = "running"]
    /\ UNCHANGED <<argVars, stage, task, value, waiters, stop, aborting, interrupted,
                   resultVars, exitCode>>

\* client.request returns, or raises an ApiClientError.
Finish(u) ==
    /\ job[u] = "running"
    /\ \E end \in {"ok", "error"} : job' = [job EXCEPT ![u] = end]
    /\ UNCHANGED <<argVars, stage, task, value, waiters, stop, aborting, interrupted,
                   resultVars, exitCode>>

-----------------------------------------------------------------------------
(* The end of fetch_many, and of bench *)

\* Mutant: the results stay in the order of completion.
Sorted_Not(s) == s

\* results.sort(key=index): no index is there twice, so the place of one is how many there
\* are up to it.
Place(s, u) == Cardinality({v \in Indices(s) : v <= u})
Sorted(s) == [i \in DOMAIN s |-> CHOOSE u \in Indices(s) : Place(s, u) = i]

\* Both "except*" clauses let the call go on: an interrupted batch returns, too.
Return ==
    /\ stage = "gather"
    /\ \A u \in Urls : task[u] = "done"
    /\ stage' = "returned"
    /\ completed' = Sorted(completed)
    /\ errors' = Sorted(errors)
    /\ UNCHANGED <<argVars, task, job, value, waiters, stop, aborting, interrupted, exitCode>>

\* asyncio.run joins the executor's threads before handle_bench goes on.
Exit ==
    /\ stage = "returned"
    /\ \A u \in Urls : job[u] \notin {"queued", "running"}
    /\ stage' = "exited"
    /\ exitCode' = IF errors = <<>> THEN 0 ELSE 1
    /\ UNCHANGED <<argVars, task, job, value, waiters, stop, aborting, interrupted, resultVars>>

FetchOne(u) ==
    \/ SkipEarly(u)
    \/ Enter(u)
    \/ Wait(u)
    \/ Resume(u)
    \/ SkipLate(u)
    \/ Succeed(u)
    \/ Fail(u)
    \/ Unwind(u)

Next ==
    \/ Begin
    \/ Refuse
    \/ \E u \in Urls : FetchOne(u)
    \/ \E u \in Urls : Notice(u)
    \/ \E u \in Urls : Run(u)
    \/ \E u \in Urls : Finish(u)
    \/ Interrupt
    \/ NoticeInterrupt
    \/ Return
    \/ Exit

Spec == Init /\ [][Next]_vars

\* The loop runs every ready callback and the executor every job.  That a job ends is not
\* assumed here: by default nothing bounds a request.  Nobody has to press Ctrl-C.
FairSpec ==
    /\ Spec
    /\ WF_vars(Begin \/ Refuse)
    /\ \A u \in Urls : /\ WF_vars(FetchOne(u))
                       /\ WF_vars(Notice(u))
                       /\ WF_vars(Run(u))
    /\ WF_vars(NoticeInterrupt)
    /\ WF_vars(Return)
    /\ WF_vars(Exit)

-----------------------------------------------------------------------------
(***************************************************************************)
(* At no time are more requests under way for this call than concurrency   *)
(* allows, those of cancelled tasks included: these have given their       *)
(* permits back while their threads still run.                             *)
(***************************************************************************)
AtMostConcurrency ==
    Cardinality({u \in Urls : job[u] \in {"queued", "running"}}) <= concurrency

\* Once stop_event is set no request is submitted and nothing is recorded, though
\* woken tasks and finished threads are still served before the group is told.
NothingAfterStop ==
    [][stop => /\ \A u \in Urls : job'[u] = "queued" => job[u] = "queued"
               /\ Indices(completed') = Indices(completed)
               /\ Indices(errors') = Indices(errors)]_vars

(***************************************************************************)
(* What a caller may read off the result.  Unless it was interrupted, a    *)
(* batch without fail_fast has for every URL a response or an error and    *)
(* never both; with fail_fast it has one error, or every response.         *)
(* Responses and errors are in the order of the URLs.                      *)
(***************************************************************************)
BatchIsAccountedFor ==
    stage \in {"returned", "exited"} =>
        LET ok == Indices(completed)
            bad == Indices(errors) IN
        /\ \A s \in {completed, errors} : \A i, j \in DOMAIN s : i < j => s[i] < s[j]
        /\ ok \cap bad = {}
        /\ failFast => Cardinality(bad) <= 1
        /\ ~interrupted => \/ ok \cup bad = Urls
                           \/ failFast /\ bad # {}

\* If its requests end, well or not, so does the batch, interrupted or not: no permit is lost,
\* no task waits for nobody, and cancellation reaches every task.
RequestsEnd == \A u \in Urls : []<>(job[u] # "running")

BatchEnds == RequestsEnd => <>(stage \in {"exited", "ValueError"})

\* A bench run that was interrupted before it had every answer does not exit with 0.
InterruptedIsNotSuccess ==
    exitCode = 0 => ~interrupted \/ Indices(completed) = Urls

=============================================================================
