--------------------------- MODULE FetchMany_proofs ---------------------------
(***************************************************************************)
(* For any number of URLs, any concurrency and any number of threads: no   *)
(* more requests are under way than the semaphore allows, also when the    *)
(* tasks have been cancelled and only their threads are left; what the     *)
(* call returns accounts for every URL; nothing happens after the stop,    *)
(* no task waits for a permit that nobody will give back, and no task or   *)
(* job ever goes back.                                                     *)
(***************************************************************************)
EXTENDS FetchMany, FiniteSetTheorems, SequenceTheorems, TLAPS

Live == {u \in Urls : job[u] \in {"queued", "running"}}

\* Those that hold a permit.
Holders == {u \in Urls : task[u] \in {"woken", "called"}}

Typed ==
    /\ concurrency \in Nat /\ value \in 0 .. concurrency
    /\ stage \in {"call", "gather", "returned", "ValueError", "exited"}
    /\ task \in [Urls -> {"new", "waiting", "woken", "called", "raised", "done"}]
    /\ job \in [Urls -> {"none", "queued", "running", "ok", "error", "cancelled"}]
    /\ waiters \in Seq(Urls)
    /\ aborting \in BOOLEAN

(***************************************************************************)
(* The strengthening.  Queue: who is in the queue waits, and nobody is in  *)
(* it twice, so that each permit that is handed on gets a holder.          *)
(* Conserved: the free permits and the holders are concurrency together,   *)
(* and until the tasks are cancelled a request is its holder's.            *)
(***************************************************************************)
Queue ==
    /\ \A i \in 1 .. Len(waiters) : task[waiters[i]] = "waiting"
    /\ \A i, j \in 1 .. Len(waiters) : waiters[i] = waiters[j] => i = j
    /\ aborting => waiters = <<>>

Fresh ==
    stage = "call" =>
        /\ \A u \in Urls : task[u] = "new" /\ job[u] = "none"
        /\ ~aborting

Conserved ==
    stage = "gather" =>
        /\ value + Cardinality(Holders) = concurrency
        /\ ~aborting => \A u \in Live : task[u] = "called"

IInv == Typed /\ Queue /\ Fresh /\ Conserved /\ AtMostConcurrency

LEMMA UrlsAreFinite ==
    ASSUME NEW S \in SUBSET Urls
    PROVE  IsFiniteSet(S) /\ Cardinality(S) \in Nat
<1>1. IsFiniteSet(Urls)
  BY FetchManyAssumption, FS_Interval DEF Urls
<1> QED
  BY <1>1, FS_Subset, FS_CardinalityType

LEMMA Fewer ==
    ASSUME NEW S \in SUBSET Urls, NEW T \in SUBSET S
    PROVE  Cardinality(T) <= Cardinality(S)
BY UrlsAreFinite, FS_Subset

LEMMA InitIInv == Init => IInv
<1> SUFFICES ASSUME Init PROVE IInv
  OBVIOUS
<1>1. Typed /\ Queue /\ Fresh /\ Conserved
  <2>1. waiters \in Seq(Urls) /\ Len(waiters) = 0
    BY EmptySeq DEF Init
  <2>2. concurrency \in Nat /\ value = 0 /\ 0 \in 0 .. concurrency
    BY FetchManyAssumption DEF Init
  <2>3. Typed
    BY <2>1, <2>2 DEF Init, Typed
  <2> QED
    BY <2>1, <2>3 DEF Init, Queue, Fresh, Conserved
<1>2. {u \in Urls : job[u] \in {"queued", "running"}} = {}
  BY DEF Init
<1>3. AtMostConcurrency
  <2>1. Cardinality({u \in Urls : job[u] \in {"queued", "running"}}) = 0
    BY <1>2, FS_EmptySet
  <2> QED
    BY <1>1, <2>1 DEF AtMostConcurrency, Typed
<1> QED
  BY <1>1, <1>3 DEF IInv

(***************************************************************************)
(* A permit that is given back goes to the first waiter or becomes free.   *)
(***************************************************************************)
LEMMA LeaveEffect ==
    ASSUME Typed, Queue, NEW u \in Holders, NEW end \in {"done", "raised"},
           value \in Nat, Leave(u, end)
    PROVE  /\ task' \in [Urls -> {"new", "waiting", "woken", "called", "raised", "done"}]
           /\ waiters' \in Seq(Urls)
           /\ \A i \in 1 .. Len(waiters') : task'[waiters'[i]] = "waiting"
           /\ \A i, j \in 1 .. Len(waiters') : waiters'[i] = waiters'[j] => i = j
           /\ waiters = <<>> => waiters' = <<>>
           /\ value' \in Nat
           /\ value' + Cardinality(Holders') = value + Cardinality(Holders)
           /\ \A w \in Urls \ {u} : task[w] = "called" => task'[w] = "called"
<1>1. u \in Urls /\ task[u] \in {"woken", "called"}
  BY DEF Holders
<1>2. Holders \in SUBSET Urls
  BY DEF Holders
<1>3. IsFiniteSet(Holders) /\ Cardinality(Holders) \in Nat
  BY <1>2, UrlsAreFinite
<1>4. Cardinality(Holders \ {u}) = Cardinality(Holders) - 1 /\ IsFiniteSet(Holders \ {u})
  BY <1>3, FS_RemoveElement
<1>5. CASE waiters = <<>>
  <2>1. task' = [task EXCEPT ![u] = end] /\ value' = value + 1 /\ waiters' = waiters
    BY <1>5 DEF Leave
  <2>2. Holders' = Holders \ {u}
    BY <1>1, <2>1 DEF Holders, Typed
  <2> QED
    BY <1>1, <1>3, <1>4, <1>5, <2>1, <2>2 DEF Typed, Queue
<1>6. CASE waiters # <<>>
  <2> DEFINE h == Head(waiters)
  <2>1. /\ task' = [task EXCEPT ![u] = end, ![h] = "woken"]
        /\ waiters' = Tail(waiters) /\ value' = value
    BY <1>6 DEF Leave
  <2>2. /\ waiters \in Seq(Urls) /\ Len(waiters) \in Nat /\ Len(waiters) >= 1
        /\ h = waiters[1] /\ h \in Urls
    BY <1>6, HeadTailProperties, EmptySeq, LenProperties DEF Typed
  <2>3. task[h] = "waiting" /\ h # u
    BY <1>1, <2>2 DEF Queue
  <2>4. /\ Tail(waiters) \in Seq(Urls) /\ Len(Tail(waiters)) = Len(waiters) - 1
        /\ \A i \in 1 .. Len(Tail(waiters)) : Tail(waiters)[i] = waiters[i + 1]
    BY <1>6, <2>2, HeadTailProperties DEF Typed
  <2>5. /\ task' \in [Urls -> {"new", "waiting", "woken", "called", "raised", "done"}]
        /\ task'[u] = end /\ task'[h] = "woken"
        /\ \A w \in Urls \ {u, h} : task'[w] = task[w]
    BY <1>1, <2>1, <2>2, <2>3 DEF Typed
  <2> HIDE DEF h
  <2>6. Holders' = (Holders \ {u}) \cup {h}
    BY <1>1, <2>2, <2>3, <2>5 DEF Holders
  <2>7. h \notin Holders \ {u}
    BY <2>3 DEF Holders
  <2>8. Cardinality(Holders') = Cardinality(Holders)
    <3>1. Cardinality((Holders \ {u}) \cup {h}) = Cardinality(Holders \ {u}) + 1
      BY <1>4, <2>7, FS_AddElement
    <3> QED
      BY <1>3, <1>4, <2>6, <3>1
  <2>9. \A i \in 1 .. Len(waiters') : task'[waiters'[i]] = "waiting"
    <3> SUFFICES ASSUME NEW i \in 1 .. Len(waiters') PROVE task'[waiters'[i]] = "waiting"
      OBVIOUS
    <3>1. i + 1 \in 1 .. Len(waiters) /\ waiters'[i] = waiters[i + 1] /\ 1 \in 1 .. Len(waiters)
      BY <2>1, <2>2, <2>4
    <3>2. waiters[i + 1] \in Urls /\ task[waiters[i + 1]] = "waiting" /\ waiters[i + 1] # h
      BY <2>2, <3>1, ElementOfSeq DEF Queue
    <3> QED
      BY <1>1, <2>5, <3>1, <3>2
  <2>10. \A i, j \in 1 .. Len(waiters') : waiters'[i] = waiters'[j] => i = j
    BY <2>1, <2>2, <2>4 DEF Queue
  <2> QED
    BY <1>3, <1>6, <2>1, <2>3, <2>4, <2>5, <2>8, <2>9, <2>10
<1> QED
  BY <1>5, <1>6

\* Requests that are a part of what they were, or of the holders, are not too many.
LEMMA NotMore ==
    ASSUME Typed, AtMostConcurrency, concurrency' = concurrency,
           Live' \subseteq Live \/ (Live' \subseteq Holders' /\ Cardinality(Holders') <= concurrency)
    PROVE  AtMostConcurrency'
<1>1. Cardinality(Live) <= concurrency
  BY DEF AtMostConcurrency, Live
<1>2. Live \in SUBSET Urls /\ Holders' \in SUBSET Urls /\ Live' \in SUBSET Urls
  BY DEF Live, Holders, Urls
<1>3. /\ Cardinality(Live) \in Nat /\ Cardinality(Live') \in Nat /\ Cardinality(Holders') \in Nat
      /\ concurrency \in Nat
  BY <1>2, UrlsAreFinite DEF Typed
<1>4. Cardinality(Live') <= concurrency
  <2>1. CASE Live' \subseteq Live
    <3>1. Cardinality(Live') <= Cardinality(Live)
      BY <1>2, <2>1, Fewer
    <3> QED
      BY <1>1, <1>3, <3>1
  <2>2. CASE Live' \subseteq Holders' /\ Cardinality(Holders') <= concurrency
    <3>1. Cardinality(Live') <= Cardinality(Holders')
      BY <1>2, <2>2, Fewer
    <3> QED
      BY <1>3, <2>2, <3>1
  <2> QED
    BY <2>1, <2>2
<1> QED
  BY <1>4 DEF AtMostConcurrency, Live

\* The steps in which a task gives its permit back.
LEMMA LeaveStep ==
    ASSUME IInv, NEW u \in Urls, NEW end \in {"done", "raised"}, Leave(u, end),
           stage = "gather", ~aborting, task[u] \in {"woken", "called"}, u \notin Live,
           UNCHANGED <<concurrency, stage, job, aborting>>
    PROVE  IInv'
<1>1. u \in Holders /\ value \in Nat
  BY DEF IInv, Holders, Typed
<1>2. /\ task' \in [Urls -> {"new", "waiting", "woken", "called", "raised", "done"}]
      /\ waiters' \in Seq(Urls)
      /\ \A i \in 1 .. Len(waiters') : task'[waiters'[i]] = "waiting"
      /\ \A i, j \in 1 .. Len(waiters') : waiters'[i] = waiters'[j] => i = j
      /\ value' \in Nat
      /\ value' + Cardinality(Holders') = value + Cardinality(Holders)
      /\ \A w \in Urls \ {u} : task[w] = "called" => task'[w] = "called"
  BY <1>1, LeaveEffect DEF IInv
<1>3. Live' = Live
  BY DEF Live
<1>4. AtMostConcurrency'
  BY <1>3, NotMore DEF IInv
<1>5. \A w \in Live : task'[w] = "called"
  BY <1>2 DEF IInv, Conserved, Live
<1>6. value' + Cardinality(Holders') = concurrency
  BY <1>2 DEF IInv, Conserved
<1>7. Typed' /\ Queue' /\ Fresh'
  <2>1. Holders' \in SUBSET Urls
    BY DEF Holders, Urls
  <2>2. concurrency \in Nat /\ Cardinality(Holders') \in Nat
    BY <2>1, UrlsAreFinite DEF IInv, Typed
  <2>3. value' \in 0 .. concurrency
    BY <1>2, <1>6, <2>2
  <2> QED
    BY <1>2, <2>3 DEF IInv, Typed, Queue, Fresh
<1>8. Conserved'
  BY <1>2, <1>3, <1>5, <1>6 DEF Conserved
<1> QED
  BY <1>4, <1>7, <1>8 DEF IInv

\* The steps that submit a request, or move a task that holds nothing.
LEMMA FetchOneStep ==
    ASSUME IInv, NEW u \in Urls, FetchOne(u)
    PROVE  IInv'
<1>1. concurrency' = concurrency /\ concurrency \in Nat
  BY DEF IInv, Typed, FetchOne, SkipEarly, Enter, Wait, Resume, SkipLate, Succeed, Fail, Unwind, argVars
<1>2. Typed /\ Queue /\ Fresh /\ Conserved /\ AtMostConcurrency
  BY DEF IInv
<1>3. /\ IsFiniteSet(Holders) /\ Cardinality(Holders) \in Nat
      /\ IsFiniteSet(Holders') /\ Cardinality(Holders') \in Nat
  <2>1. Holders \in SUBSET Urls /\ Holders' \in SUBSET Urls
    BY DEF Holders, Urls
  <2> QED
    BY <2>1, UrlsAreFinite
<1>4. CASE SkipEarly(u)
  <2>1. /\ task[u] = "new" /\ task' = [task EXCEPT ![u] = "done"] /\ stage = "gather"
        /\ UNCHANGED <<stage, job, value, waiters, aborting>> /\ ~aborting
    BY <1>4 DEF SkipEarly, Ready
  <2>2. Holders' = Holders
    BY <1>2, <2>1 DEF Holders, Typed
  <2>3. Live' = Live
    BY <2>1 DEF Live
  <2>4. Typed' /\ Queue' /\ Fresh'
    BY <1>1, <1>2, <2>1, ElementOfSeq DEF Typed, Queue, Fresh
  <2>5. Conserved'
    BY <1>1, <1>2, <2>1, <2>2, <2>3 DEF Conserved, Typed, Live
  <2> QED
    BY <1>1, <1>2, <2>3, <2>4, <2>5, NotMore DEF IInv
<1>5. CASE Enter(u)
  <2>1. /\ task[u] = "new" /\ task' = [task EXCEPT ![u] = "called"] /\ stage = "gather" /\ ~aborting
        /\ job' = [job EXCEPT ![u] = "queued"] /\ value # 0 /\ value' = value - 1
        /\ UNCHANGED <<stage, waiters, aborting>>
    BY <1>5 DEF Enter, Ready, Submit, Locked
  <2>2. Holders' = Holders \cup {u} /\ u \notin Holders
    BY <1>2, <2>1 DEF Holders, Typed
  <2>3. Live' = Live \cup {u}
    BY <1>2, <2>1 DEF Live, Typed
  <2>4. Typed' /\ Queue' /\ Fresh'
    <3>1. value' \in 0 .. concurrency
      BY <1>2, <2>1 DEF Typed
    <3> QED
      BY <1>1, <1>2, <2>1, <3>1, ElementOfSeq DEF Typed, Queue, Fresh
  <2>5. Cardinality(Holders') = Cardinality(Holders) + 1
    BY <1>3, <2>2, FS_AddElement
  <2>6. value' \in Nat /\ value' + Cardinality(Holders') = concurrency
    BY <1>1, <1>2, <1>3, <2>1, <2>5 DEF Conserved, Typed
  <2>7. \A w \in Live' : task'[w] = "called"
    BY <1>2, <2>1, <2>3 DEF Conserved, Typed, Live
  <2>8. Conserved'
    BY <1>1, <2>6, <2>7 DEF Conserved
  <2>9. Live' \subseteq Holders' /\ Cardinality(Holders') <= concurrency
    BY <1>1, <1>3, <2>6, <2>7 DEF Live, Holders
  <2> QED
    BY <1>1, <1>2, <2>4, <2>8, <2>9, NotMore DEF IInv
<1>6. CASE Wait(u)
  <2>1. /\ task[u] = "new" /\ task' = [task EXCEPT ![u] = "waiting"] /\ stage = "gather" /\ ~aborting
        /\ waiters' = Append(waiters, u) /\ UNCHANGED <<stage, job, value, aborting>>
    BY <1>6 DEF Wait, Ready
  <2>2. Holders' = Holders /\ Live' = Live
    BY <1>2, <2>1 DEF Holders, Live, Typed
  <2>3. /\ waiters' \in Seq(Urls) /\ Len(waiters') = Len(waiters) + 1 /\ Len(waiters) \in Nat
        /\ \A i \in 1 .. Len(waiters) : waiters'[i] = waiters[i]
        /\ waiters'[Len(waiters) + 1] = u
    BY <1>2, <2>1, AppendProperties, LenProperties DEF Typed
  <2>4. Typed'
    BY <1>1, <1>2, <2>1, <2>3 DEF Typed
  <2>5. \A i \in 1 .. Len(waiters) : waiters[i] \in Urls /\ waiters[i] # u
    BY <1>2, <2>1, ElementOfSeq DEF Typed, Queue
  <2>6. \A i \in 1 .. Len(waiters') : i = Len(waiters) + 1 \/ i \in 1 .. Len(waiters)
    BY <2>3
  <2>7. \A i \in 1 .. Len(waiters') : task'[waiters'[i]] = "waiting"
    BY <1>2, <2>1, <2>3, <2>5, <2>6 DEF Typed, Queue
  <2>8. \A i, j \in 1 .. Len(waiters') : waiters'[i] = waiters'[j] => i = j
    BY <1>2, <2>3, <2>5, <2>6 DEF Queue
  <2>9. Conserved'
    BY <1>1, <1>2, <2>1, <2>2 DEF Conserved, Typed, Live
  <2> QED
    BY <1>1, <1>2, <2>1, <2>2, <2>4, <2>7, <2>8, <2>9, NotMore DEF IInv, Queue, Fresh
<1>7. CASE Resume(u)
  <2>1. /\ task[u] = "woken" /\ task' = [task EXCEPT ![u] = "called"] /\ stage = "gather" /\ ~aborting
        /\ job' = [job EXCEPT ![u] = "queued"] /\ UNCHANGED <<stage, value, waiters, aborting>>
    BY <1>7 DEF Resume, Ready, Submit
  <2>2. Holders' = Holders
    BY <1>2, <2>1 DEF Holders, Typed
  <2>3. Live' = Live \cup {u}
    BY <1>2, <2>1 DEF Live, Typed
  <2>4. Typed' /\ Queue' /\ Fresh'
    BY <1>1, <1>2, <2>1, ElementOfSeq DEF Typed, Queue, Fresh
  <2>5. \A w \in Live' : task'[w] = "called"
    BY <1>2, <2>1, <2>3 DEF Conserved, Typed, Live
  <2>6. Conserved'
    BY <1>1, <1>2, <2>1, <2>2, <2>5 DEF Conserved
  <2>7. Live' \subseteq Holders' /\ Cardinality(Holders') <= concurrency
    <3>1. value \in Nat /\ value + Cardinality(Holders) = concurrency
      BY <1>1, <1>2, <2>1 DEF Typed, Conserved
    <3>2. Cardinality(Holders') <= concurrency
      BY <1>1, <1>3, <2>2, <3>1
    <3> QED
      BY <2>5, <3>2 DEF Live, Holders
  <2> QED
    BY <1>1, <1>2, <2>4, <2>6, <2>7, NotMore DEF IInv
<1>8. CASE SkipLate(u)
  <2>1. /\ task[u] = "woken" /\ stage = "gather" /\ ~aborting /\ Leave(u, "done")
        /\ UNCHANGED <<concurrency, stage, job, aborting>>
    BY <1>8 DEF SkipLate, Ready, argVars
  <2>2. u \notin Live
    BY <1>2, <2>1 DEF Conserved
  <2> QED
    BY <2>1, <2>2, LeaveStep
<1>9. CASE Succeed(u)
  <2>1. /\ task[u] = "called" /\ stage = "gather" /\ ~aborting /\ Leave(u, "done") /\ job[u] = "ok"
        /\ UNCHANGED <<concurrency, stage, job, aborting>>
    BY <1>9 DEF Succeed, Ready, argVars
  <2>2. u \notin Live
    BY <2>1 DEF Live
  <2> QED
    BY <2>1, <2>2, LeaveStep
<1>10. CASE Fail(u)
  <2>1. /\ task[u] = "called" /\ stage = "gather" /\ ~aborting /\ job[u] = "error"
        /\ UNCHANGED <<concurrency, stage, job, aborting>>
    BY <1>10 DEF Fail, Ready, argVars
  <2>2. PICK end \in {"done", "raised"} : Leave(u, end)
    BY <1>10 DEF Fail, LeaveFailed
  <2>3. u \notin Live
    BY <2>1 DEF Live
  <2> QED
    BY <2>1, <2>2, <2>3, LeaveStep
<1>11. CASE Unwind(u)
  <2>1. /\ aborting /\ stage = "gather" /\ task' = [task EXCEPT ![u] = "done"]
        /\ job' = [job EXCEPT ![u] = IF @ = "queued" THEN "cancelled" ELSE @]
        /\ UNCHANGED <<stage, waiters, aborting>>
    BY <1>11 DEF Unwind
  <2>2. Live' \subseteq Live
    BY <1>2, <2>1 DEF Live, Typed
  <2>3. value' + Cardinality(Holders') = concurrency
    <3>1. CASE task[u] \in {"woken", "called"}
      <4>1. Holders' = Holders \ {u} /\ u \in Holders /\ value' = value + 1
        BY <1>2, <1>11, <2>1, <3>1 DEF Holders, Typed, Unwind
      <4>2. Cardinality(Holders') = Cardinality(Holders) - 1
        BY <1>3, <4>1, FS_RemoveElement
      <4> QED
        BY <1>2, <1>3, <2>1, <4>1, <4>2 DEF Conserved, Typed
    <3>2. CASE task[u] \notin {"woken", "called"}
      <4>1. Holders' = Holders /\ value' = value
        BY <1>2, <1>11, <2>1, <3>2 DEF Holders, Typed, Unwind
      <4> QED
        BY <1>1, <1>2, <2>1, <4>1 DEF Conserved
    <3> QED
      BY <3>1, <3>2
  <2>4. Typed'
    <3>1. value' \in Nat
      BY <1>2, <1>11 DEF Typed, Unwind
    <3>2. value' \in 0 .. concurrency
      BY <1>1, <1>3, <2>3, <3>1
    <3> QED
      BY <1>1, <1>2, <2>1, <3>2 DEF Typed
  <2>5. waiters = <<>> /\ Len(waiters) = 0
    BY <1>2, <2>1, EmptySeq DEF Queue
  <2>6. Queue' /\ Fresh' /\ Conserved'
    BY <1>1, <2>1, <2>3, <2>5 DEF Queue, Fresh, Conserved
  <2> QED
    BY <1>1, <1>2, <2>2, <2>6, <2>4, NotMore DEF IInv
<1> QED
  BY <1>4, <1>5, <1>6, <1>7, <1>8, <1>9, <1>10, <1>11 DEF FetchOne

LEMMA NextStep ==
    ASSUME IInv, [Next]_vars
    PROVE  IInv'
<1>1. Typed /\ Queue /\ Fresh /\ Conserved /\ AtMostConcurrency
  BY DEF IInv
<1>2. concurrency' = concurrency /\ concurrency \in Nat
  BY <1>1 DEF Typed, Next, vars, argVars, Begin, Refuse, FetchOne, SkipEarly, Enter, Wait, Resume,
              SkipLate, Succeed, Fail, Unwind, Notice, Run, Finish, Interrupt, NoticeInterrupt,
              Return, Exit
<1>3. CASE Begin
  <2>1. /\ stage = "call" /\ stage' = "gather" /\ value' = concurrency
        /\ UNCHANGED <<task, job, waiters, aborting>>
    BY <1>3 DEF Begin, Permits
  <2>2. Holders' = {} /\ Live' = {} /\ Live' = Live
    BY <1>1, <2>1 DEF Holders, Live, Fresh
  <2>3. Cardinality(Holders') = 0
    BY <2>2, FS_EmptySet
  <2>4. Typed' /\ Queue' /\ Fresh'
    BY <1>1, <1>2, <2>1 DEF Typed, Queue, Fresh
  <2>5. Conserved'
    BY <1>2, <2>1, <2>2, <2>3 DEF Conserved
  <2> QED
    BY <1>1, <1>2, <2>2, <2>4, <2>5, NotMore DEF IInv
<1>4. CASE \E u \in Urls : FetchOne(u)
  BY <1>4, FetchOneStep
<1>5. CASE \E u \in Urls : Notice(u)
  <2>1. PICK u \in Urls : Notice(u)
    BY <1>5
  <2>2. /\ stage' = stage /\ stage = "gather" /\ task' = [task EXCEPT ![u] = "done"]
        /\ job' = job /\ aborting' = TRUE /\ waiters' = <<>> /\ value' = value
        /\ task[u] = "raised"
    BY <2>1 DEF Notice, Abort
  <2>3. waiters' \in Seq(Urls) /\ Len(waiters') = 0
    BY <2>2, EmptySeq
  <2>4. Live' = Live
    BY <2>2 DEF Live
  <2>5. Holders' = Holders
    BY <1>1, <2>2 DEF Holders, Typed
  <2>6. Typed' /\ Queue' /\ Fresh' /\ Conserved'
    BY <1>1, <1>2, <2>2, <2>3, <2>5 DEF Typed, Queue, Fresh, Conserved
  <2> QED
    BY <1>1, <1>2, <2>4, <2>6, NotMore DEF IInv
<1>6. CASE NoticeInterrupt
  <2>1. /\ stage' = stage /\ stage = "gather" /\ UNCHANGED <<task, job, value>>
        /\ aborting' = TRUE /\ waiters' = <<>>
    BY <1>6 DEF NoticeInterrupt, Abort
  <2>2. waiters' \in Seq(Urls) /\ Len(waiters') = 0
    BY <2>1, EmptySeq
  <2>3. Live' = Live /\ Holders' = Holders
    BY <2>1 DEF Live, Holders
  <2>4. Typed' /\ Queue' /\ Fresh' /\ Conserved'
    BY <1>1, <1>2, <2>1, <2>2, <2>3 DEF Typed, Queue, Fresh, Conserved
  <2> QED
    BY <1>1, <1>2, <2>3, <2>4, NotMore DEF IInv
<1>7. CASE \E u \in Urls : Run(u) \/ Finish(u)
  <2>1. PICK u \in Urls : Run(u) \/ Finish(u)
    BY <1>7
  <2>2. /\ UNCHANGED <<stage, task, value, waiters, aborting>> /\ u \in Live
        /\ \E end \in {"running", "ok", "error"} : job' = [job EXCEPT ![u] = end]
    BY <2>1 DEF Run, Finish, Live
  <2>3. Live' \subseteq Live
    BY <1>1, <2>2 DEF Live, Typed
  <2>4. Holders' = Holders
    BY <2>2 DEF Holders
  <2>5. Typed' /\ Queue'
    BY <1>1, <1>2, <2>2 DEF Typed, Queue
  <2>6. stage # "call"
    BY <1>1, <2>2 DEF Fresh, Live
  <2>7. Fresh' /\ Conserved'
    BY <1>1, <1>2, <2>2, <2>3, <2>4, <2>6 DEF Fresh, Conserved
  <2> QED
    BY <1>1, <1>2, <2>3, <2>5, <2>7, NotMore DEF IInv
<1>8. CASE Refuse \/ Return \/ Exit
  <2>1. /\ UNCHANGED <<task, job, value, waiters, aborting>>
        /\ stage' \in {"ValueError", "returned", "exited"}
    BY <1>8 DEF Refuse, Return, Exit
  <2>2. Live' = Live
    BY <2>1 DEF Live
  <2>3. Typed' /\ Queue' /\ Fresh' /\ Conserved'
    BY <1>1, <1>2, <2>1 DEF Typed, Queue, Fresh, Conserved
  <2> QED
    BY <1>1, <1>2, <2>2, <2>3, NotMore DEF IInv
<1>9. CASE Interrupt \/ UNCHANGED vars
  <2>1. UNCHANGED <<stage, task, job, value, waiters, aborting>>
    BY <1>9 DEF Interrupt, vars
  <2>2. Live' = Live /\ Holders' = Holders
    BY <2>1 DEF Live, Holders
  <2>3. Typed' /\ Queue' /\ Fresh' /\ Conserved'
    BY <1>1, <1>2, <2>1, <2>2 DEF Typed, Queue, Fresh, Conserved
  <2> QED
    BY <1>1, <1>2, <2>2, <2>3, NotMore DEF IInv
<1> QED
  BY <1>3, <1>4, <1>5, <1>6, <1>7, <1>8, <1>9 DEF Next

-----------------------------------------------------------------------------
(***************************************************************************)
(* The semaphore does what it is there for, for any batch: asyncio.to_thread*)
(* never has more than concurrency requests of this call with the executor.*)
(***************************************************************************)
THEOREM PermitsBoundRequests == Spec => []AtMostConcurrency
<1>1. IInv => AtMostConcurrency
  BY DEF IInv
<1> QED
  BY <1>1, InitIInv, NextStep, PTL DEF Spec

(***************************************************************************)
(* No permit is lost or made up, however the tasks end: what is free and   *)
(* what is held is concurrency, after a cancellation, too.                 *)
(***************************************************************************)
THEOREM PermitsConserved == Spec => []Conserved
<1>1. IInv => Conserved
  BY DEF IInv
<1> QED
  BY <1>1, InitIInv, NextStep, PTL DEF Spec

-----------------------------------------------------------------------------
(***************************************************************************)
(* What is recorded.  Once: no index is recorded twice, and none whose     *)
(* task has not ended.  Stopped: stop_event is set with the first error of *)
(* a batch that fails fast, and nothing else ends it before its time but   *)
(* an interruption.  Complete: as long as neither has happened a task that *)
(* has ended has left its result.                                          *)
(***************************************************************************)
Args ==
    /\ concurrency \in Concurrencies
    /\ failFast \in BOOLEAN
    /\ stop \in BOOLEAN
    /\ interrupted \in BOOLEAN
    /\ exitCode \in {0, 1, NoExit}

NoRepeat(s) == \A i, j \in 1 .. Len(s) : s[i] = s[j] => i = j

Once ==
    /\ completed \in Seq(Urls) /\ NoRepeat(completed)
    /\ errors \in Seq(Urls) /\ NoRepeat(errors)
    /\ Indices(completed) \cap Indices(errors) = {}
    /\ \A u \in Indices(completed) \cup Indices(errors) : task[u] \in {"raised", "done"}

Stopped ==
    /\ stop <=> failFast /\ errors # <<>>
    /\ failFast => Len(errors) <= 1
    /\ (\E u \in Urls : task[u] = "raised") => stop
    /\ aborting => interrupted \/ stop

Complete ==
    ~stop /\ ~aborting =>
        \A u \in Urls : task[u] = "done" => u \in Indices(completed) \cup Indices(errors)

Ascending(s) == \A i, j \in 1 .. Len(s) : i < j => s[i] < s[j]

Closed ==
    stage \in {"returned", "exited"} =>
        /\ \A u \in Urls : task[u] = "done"
        /\ Ascending(completed) /\ Ascending(errors)

RInv == Args /\ Once /\ Stopped /\ Complete /\ Closed

LEMMA IndicesOf ==
    ASSUME NEW s \in Seq(Urls)
    PROVE  /\ DOMAIN s = 1 .. Len(s) /\ Len(s) \in Nat
           /\ Indices(s) \in SUBSET Urls
           /\ \A i \in 1 .. Len(s) : s[i] \in Indices(s)
           /\ \A u \in Indices(s) : \E i \in 1 .. Len(s) : s[i] = u
<1>1. DOMAIN s = 1 .. Len(s) /\ Len(s) \in Nat
  BY LenProperties
<1>2. \A i \in 1 .. Len(s) : s[i] \in Urls
  BY ElementOfSeq
<1> QED
  BY <1>1, <1>2 DEF Indices

\* The number of different indices is the length: s is a bijection onto them.
LEMMA NoRepeatIsDistinct ==
    ASSUME NEW s \in Seq(Urls), NoRepeat(s)
    PROVE  Distinct(s)
<1>1. s \in Surjection(1 .. Len(s), Indices(s)) /\ s \in Injection(1 .. Len(s), Indices(s))
  <2>1. s = [i \in 1 .. Len(s) |-> s[i]]
    BY SeqDef, LenProperties
  <2>2. s \in [1 .. Len(s) -> Indices(s)]
    BY <2>1, IndicesOf
  <2> QED
    BY <2>2, IndicesOf DEF Surjection, Injection, IsInjective, NoRepeat
<1>2. IsFiniteSet(1 .. Len(s)) /\ Cardinality(1 .. Len(s)) = Len(s)
  BY IndicesOf, FS_Interval
<1> QED
  BY <1>1, <1>2, FS_Surjection DEF Distinct

LEMMA RecordOne ==
    ASSUME NEW s \in Seq(Urls), NoRepeat(s), NEW u \in Urls, u \notin Indices(s)
    PROVE  /\ Append(s, u) \in Seq(Urls) /\ NoRepeat(Append(s, u))
           /\ Indices(Append(s, u)) = Indices(s) \cup {u}
           /\ Len(Append(s, u)) = Len(s) + 1
           /\ Append(s, u) # <<>>
<1> DEFINE t == Append(s, u)
<1>1. /\ t \in Seq(Urls) /\ Len(t) = Len(s) + 1 /\ Len(s) \in Nat
      /\ \A i \in 1 .. Len(s) : t[i] = s[i]
      /\ t[Len(s) + 1] = u
  BY AppendProperties, LenProperties
<1> HIDE DEF t
<1>2. \A i \in 1 .. Len(t) : i = Len(s) + 1 \/ i \in 1 .. Len(s)
  BY <1>1
<1>3. NoRepeat(t)
  BY <1>1, <1>2, IndicesOf DEF NoRepeat
<1>4. Indices(t) \subseteq Indices(s) \cup {u}
  <2> SUFFICES ASSUME NEW v \in Indices(t) PROVE v \in Indices(s) \cup {u}
    OBVIOUS
  <2>1. PICK i \in 1 .. Len(t) : t[i] = v
    BY <1>1, IndicesOf
  <2> QED
    BY <1>1, <1>2, <2>1, IndicesOf
<1>5. Indices(s) \cup {u} \subseteq Indices(t)
  <2>1. \A i \in 1 .. Len(t) : t[i] \in Indices(t)
    BY <1>1, IndicesOf
  <2>2. Len(s) + 1 \in 1 .. Len(t) /\ 1 .. Len(s) \subseteq 1 .. Len(t)
    BY <1>1
  <2>3. u \in Indices(t)
    BY <1>1, <2>1, <2>2
  <2>4. ASSUME NEW v \in Indices(s) PROVE v \in Indices(t)
    <3>1. PICK i \in 1 .. Len(s) : s[i] = v
      BY IndicesOf
    <3> QED
      BY <1>1, <2>1, <2>2, <3>1
  <2> QED
    BY <2>3, <2>4
<1>6. t # <<>>
  BY <1>1, EmptySeq
<1> QED
  BY <1>1, <1>3, <1>4, <1>5, <1>6 DEF t

\* results.sort puts every index where it belongs, and loses none.
LEMMA SortedIsAscending ==
    ASSUME NEW s \in Seq(Urls), NoRepeat(s)
    PROVE  /\ Sorted(s) \in Seq(Urls)
           /\ Len(Sorted(s)) = Len(s)
           /\ Ascending(Sorted(s))
           /\ Indices(Sorted(s)) = Indices(s)
<1> DEFINE S == Indices(s)
           n == Len(s)
           place == [u \in S |-> Place(s, u)]
<1>1. /\ S \in SUBSET Urls /\ n \in Nat /\ DOMAIN s = 1 .. n
      /\ \A u \in S : u \in Int
      /\ IsFiniteSet(S) /\ Cardinality(S) = n
  <2>1. S \in SUBSET Urls /\ n \in Nat /\ DOMAIN s = 1 .. n
    BY IndicesOf
  <2>2. \A u \in S : u \in Int
    BY <2>1 DEF Urls
  <2> QED
    BY <2>1, <2>2, UrlsAreFinite, NoRepeatIsDistinct DEF Distinct
<1> HIDE DEF S, n
<1>2. ASSUME NEW u \in S
      PROVE  /\ {v \in S : v <= u} \in SUBSET S
             /\ IsFiniteSet({v \in S : v <= u})
             /\ Place(s, u) = Cardinality({v \in S : v <= u})
             /\ Place(s, u) \in 1 .. n /\ Place(s, u) \in Int
  <2>1. {v \in S : v <= u} \in SUBSET S
    OBVIOUS
  <2>2. /\ IsFiniteSet({v \in S : v <= u}) /\ Cardinality({v \in S : v <= u}) \in Nat
        /\ Cardinality({v \in S : v <= u}) <= n
    BY <1>1, <2>1, FS_Subset, FS_CardinalityType
  <2>3. u \in {v \in S : v <= u}
    BY <1>1
  <2>4. Cardinality({v \in S : v <= u}) # 0
    BY <2>2, <2>3, FS_EmptySet
  <2> QED
    BY <1>1, <2>1, <2>2, <2>4 DEF Place, S
<1>3. ASSUME NEW u \in S, NEW v \in S, u < v
      PROVE  Place(s, u) < Place(s, v)
  <2> DEFINE A == {w \in S : w <= u}
             B == {w \in S : w <= v}
  <2>1. A \in SUBSET B /\ v \in B /\ v \notin A
    BY <1>1, <1>3
  <2>2. IsFiniteSet(B) /\ Place(s, u) = Cardinality(A) /\ Place(s, v) = Cardinality(B)
    BY <1>2
  <2>3. Place(s, u) \in Int /\ Place(s, v) \in Int
    BY <1>2
  <2> HIDE DEF A, B
  <2>4. Cardinality(A) <= Cardinality(B) /\ Cardinality(A) # Cardinality(B)
    BY <2>1, <2>2, FS_Subset
  <2> QED
    BY <2>2, <2>3, <2>4
<1>4. place \in Injection(S, 1 .. n)
  <2>1. place \in [S -> 1 .. n]
    BY <1>2
  <2>2. ASSUME NEW u \in S, NEW v \in S, place[u] = place[v] PROVE u = v
    <3>1. Place(s, u) = Place(s, v) /\ Place(s, u) \in Int /\ u \in Int /\ v \in Int
      BY <1>1, <1>2, <2>2
    <3> QED
      BY <1>3, <3>1
  <2> QED
    BY <2>1, <2>2 DEF Injection, IsInjective
<1>5. IsFiniteSet(1 .. n) /\ Cardinality(1 .. n) = n
  BY <1>1, FS_Interval
<1>6. place \in Surjection(S, 1 .. n)
  BY <1>1, <1>4, <1>5, FS_Injection
<1>7. \A i \in 1 .. n : \E u \in S : Place(s, u) = i
  BY <1>6 DEF Surjection
<1> DEFINE t == Sorted(s)
<1>8. t = [i \in 1 .. n |-> CHOOSE u \in S : Place(s, u) = i]
  BY <1>1 DEF Sorted, S
<1> HIDE DEF t
<1>9. \A i \in 1 .. n : t[i] \in S /\ Place(s, t[i]) = i
  BY <1>7, <1>8
<1>10. t \in [1 .. n -> Urls] /\ DOMAIN t = 1 .. n
  BY <1>1, <1>8, <1>9
<1>11. t \in Seq(Urls) /\ Len(t) = n
  BY <1>1, <1>10, SeqDef, LenProperties
<1>12. Ascending(t)
  <2> SUFFICES ASSUME NEW i \in 1 .. n, NEW j \in 1 .. n, i < j PROVE t[i] < t[j]
    BY <1>11 DEF Ascending
  <2>1. /\ t[i] \in S /\ t[j] \in S /\ t[i] \in Int /\ t[j] \in Int
        /\ Place(s, t[i]) = i /\ Place(s, t[j]) = j
    BY <1>1, <1>9
  <2>2. t[i] # t[j] /\ ~(t[j] < t[i])
    BY <1>3, <2>1
  <2> QED
    BY <2>1, <2>2
<1>13. Indices(t) = S
  <2>1. \A u \in Indices(t) : u \in S
    BY <1>9, <1>10 DEF Indices
  <2>2. ASSUME NEW u \in S PROVE u \in Indices(t)
    <3>1. Place(s, u) \in 1 .. n
      BY <1>2
    <3>2. t[Place(s, u)] \in S /\ Place(s, t[Place(s, u)]) = Place(s, u)
      BY <1>9, <3>1
    <3>3. t[Place(s, u)] = u
      <4>1. place[t[Place(s, u)]] = place[u]
        BY <3>2
      <4> QED
        BY <1>4, <3>2, <4>1 DEF Injection, IsInjective
    <3> QED
      BY <1>10, <3>1, <3>3 DEF Indices
  <2> QED
    BY <2>1, <2>2
<1> QED
  BY <1>11, <1>12, <1>13 DEF S, n, t

LEMMA InitRInv == Init => RInv
<1> SUFFICES ASSUME Init PROVE RInv
  OBVIOUS
<1>1. /\ completed \in Seq(Urls) /\ Len(completed) = 0 /\ Indices(completed) = {}
      /\ errors \in Seq(Urls) /\ Len(errors) = 0 /\ Indices(errors) = {}
  BY EmptySeq, LenProperties DEF Init, Indices
<1>2. Args
  BY DEF Init, Args
<1>3. Once
  BY <1>1 DEF Once, NoRepeat
<1> QED
  BY <1>1, <1>2, <1>3 DEF Init, RInv, Stopped, Complete, Closed

Ended == {"raised", "done"}

\* A step of one task moves no other to its end, or away from it.
LEMMA OneTask ==
    ASSUME Typed, Queue, NEW u \in Urls, FetchOne(u)
    PROVE  /\ stage = "gather" /\ task[u] \notin Ended
           /\ UNCHANGED <<concurrency, failFast, stage, interrupted, exitCode, aborting>>
           /\ \A w \in Urls \ {u} : \A e \in Ended : task[w] = e <=> task'[w] = e
<1>1. ASSUME NEW end \in Ended, Leave(u, end)
      PROVE  /\ \A w \in Urls \ {u} : \A e \in Ended : task[w] = e <=> task'[w] = e
             /\ task[u] \in {"woken", "called"} => task'[u] = end
  <2>1. CASE waiters = <<>>
    BY <1>1, <2>1 DEF Leave, Typed
  <2>2. CASE waiters # <<>>
    <3>1. Head(waiters) \in Urls /\ task[Head(waiters)] = "waiting"
      <4>1. Head(waiters) = waiters[1] /\ 1 \in 1 .. Len(waiters) /\ Head(waiters) \in Urls
        BY <2>2, HeadTailProperties, EmptySeq, LenProperties DEF Typed
      <4> QED
        BY <4>1 DEF Queue
    <3>2. task' = [task EXCEPT ![u] = end, ![Head(waiters)] = "woken"]
      BY <1>1, <2>2 DEF Leave
    <3> QED
      BY <3>1, <3>2 DEF Typed, Ended
  <2> QED
    BY <2>1, <2>2
<1>2. CASE SkipEarly(u) \/ Enter(u) \/ Wait(u) \/ Resume(u) \/ Unwind(u)
  BY <1>2 DEF SkipEarly, Enter, Wait, Resume, Unwind, Ready, Submit, Typed, Ended, argVars
<1>3. CASE SkipLate(u) \/ Succeed(u) \/ Fail(u)
  <2>1. /\ stage = "gather" /\ task[u] \notin Ended
        /\ UNCHANGED <<concurrency, failFast, stage, interrupted, exitCode, aborting>>
    BY <1>3 DEF SkipLate, Succeed, Fail, Ready, Ended, argVars
  <2>2. PICK end \in Ended : Leave(u, end)
    BY <1>3 DEF SkipLate, Succeed, Fail, LeaveFailed, Ended
  <2> QED
    BY <1>1, <2>1, <2>2
<1> QED
  BY <1>2, <1>3 DEF FetchOne

LEMMA FetchOneRecord ==
    ASSUME Typed, Queue, RInv, NEW u \in Urls, FetchOne(u)
    PROVE  RInv'
<1>1. /\ stage = "gather" /\ task[u] \notin Ended
      /\ UNCHANGED <<concurrency, failFast, stage, interrupted, exitCode, aborting>>
      /\ \A w \in Urls \ {u} : \A e \in Ended : task[w] = e <=> task'[w] = e
  BY OneTask
<1>2. Args /\ Once /\ Stopped /\ Complete /\ Closed
  BY DEF RInv
<1>3. /\ u \notin Indices(completed) /\ u \notin Indices(errors)
      /\ \A w \in Indices(completed) \cup Indices(errors) :
           w \in Urls /\ w # u /\ task'[w] \in Ended
  <2>1. Indices(completed) \in SUBSET Urls /\ Indices(errors) \in SUBSET Urls
    BY <1>2, IndicesOf DEF Once
  <2> QED
    BY <1>1, <1>2, <2>1 DEF Once, Ended
<1>4. Closed'
  BY <1>1 DEF Closed
<1>5. CASE UNCHANGED <<completed, errors, stop>> /\ task'[u] # "raised"
           /\ (task'[u] = "done" => stop \/ aborting)
  <2>1. Args' /\ Once'
    <3>1. Args'
      BY <1>1, <1>2, <1>5 DEF Args
    <3>2. Indices(completed') = Indices(completed) /\ Indices(errors') = Indices(errors)
      BY <1>5
    <3> QED
      BY <1>2, <1>3, <1>5, <3>1, <3>2 DEF Once, NoRepeat, Ended
  <2>2. Stopped' /\ Complete'
    BY <1>1, <1>2, <1>5 DEF Stopped, Complete, Indices, Ended
  <2> QED
    BY <1>4, <2>1, <2>2 DEF RInv
<1>6. CASE Succeed(u)
  <2>1. /\ completed' = IF stop THEN completed ELSE Append(completed, u)
        /\ UNCHANGED <<errors, stop>> /\ task'[u] = "done"
    BY <1>6 DEF Succeed, Ready, Leave, Typed
  <2>2. CASE stop
    BY <1>5, <2>1, <2>2
  <2>3. CASE ~stop
    <3>1. /\ completed' \in Seq(Urls) /\ NoRepeat(completed')
          /\ Indices(completed') = Indices(completed) \cup {u}
      BY <1>2, <1>3, <2>1, <2>3, RecordOne DEF Once
    <3>2. Args' /\ Stopped'
      BY <1>1, <1>2, <2>1 DEF Args, Stopped, Ended
    <3>3. Indices(errors') = Indices(errors)
      BY <2>1
    <3>4. Once'
      BY <1>2, <1>3, <2>1, <3>1, <3>3 DEF Once, NoRepeat, Ended
    <3>5. Complete'
      BY <1>1, <1>2, <2>1, <3>1, <3>3 DEF Complete, Ended
    <3> QED
      BY <1>4, <3>2, <3>4, <3>5 DEF RInv
  <2> QED
    BY <2>2, <2>3
<1>7. CASE Fail(u)
  <2>1. /\ errors' = IF stop THEN errors ELSE Append(errors, u)
        /\ stop' = (stop \/ failFast) /\ completed' = completed
        /\ task'[u] = IF failFast THEN "raised" ELSE "done"
    <3>1. task[u] = "called"
      BY <1>7 DEF Fail, Ready
    <3>2. waiters # <<>> => Head(waiters) # u
      BY <3>1, HeadTailProperties, EmptySeq, LenProperties DEF Typed, Queue
    <3> QED
      BY <1>7, <3>1, <3>2 DEF Fail, LeaveFailed, Leave, Recorded, Typed
  <2>2. Args'
    BY <1>1, <1>2, <2>1 DEF Args
  <2>3. Indices(completed') = Indices(completed)
    BY <2>1
  <2>4. CASE stop
    <3>1. failFast /\ stop' /\ UNCHANGED <<errors, completed>>
      BY <1>2, <2>1, <2>4 DEF Stopped
    <3>2. Once'
      BY <1>2, <1>3, <2>1, <3>1 DEF Once, NoRepeat, Indices, Ended
    <3>3. Stopped' /\ Complete'
      BY <1>1, <1>2, <2>4, <3>1 DEF Stopped, Complete
    <3> QED
      BY <1>4, <2>2, <3>2, <3>3 DEF RInv
  <2>5. CASE ~stop
    <3>1. /\ errors' \in Seq(Urls) /\ NoRepeat(errors')
          /\ Indices(errors') = Indices(errors) \cup {u}
          /\ Len(errors') = Len(errors) + 1 /\ errors' # <<>>
      BY <1>2, <1>3, <2>1, <2>5, RecordOne DEF Once
    <3>2. failFast => errors = <<>> /\ Len(errors) = 0
      BY <1>2, <2>5, EmptySeq DEF Stopped
    <3>3. Once'
      BY <1>2, <1>3, <2>1, <2>3, <3>1 DEF Once, NoRepeat, Ended
    <3>4. Stopped'
      <4>1. stop' <=> failFast' /\ errors' # <<>>
        BY <1>1, <1>2, <2>1, <2>5, <3>1 DEF Args
      <4>2. failFast' => Len(errors') <= 1
        BY <1>1, <3>1, <3>2
      <4>3. (\E w \in Urls : task'[w] = "raised") => stop'
        BY <1>1, <1>2, <2>1, <2>5 DEF Stopped, Ended
      <4>4. aborting' => interrupted' \/ stop'
        BY <1>1, <1>2, <2>1, <2>5 DEF Stopped
      <4> QED
        BY <4>1, <4>2, <4>3, <4>4 DEF Stopped
    <3>5. Complete'
      BY <1>1, <1>2, <2>1, <2>3, <2>5, <3>1 DEF Complete, Ended
    <3> QED
      BY <1>4, <2>2, <3>3, <3>4, <3>5 DEF RInv
  <2> QED
    BY <2>4, <2>5
<1>8. CASE SkipEarly(u) \/ Enter(u) \/ Wait(u) \/ Resume(u) \/ Unwind(u)
  BY <1>5, <1>8 DEF SkipEarly, Enter, Wait, Resume, Unwind, Ready, Submit, Typed, resultVars
<1>9. CASE SkipLate(u)
  <2>1. UNCHANGED <<completed, errors, stop>> /\ stop /\ task[u] = "woken" /\ Leave(u, "done")
    BY <1>9 DEF SkipLate, Ready, resultVars
  <2>2. task'[u] # "raised"
    BY <2>1 DEF Leave, Typed
  <2> QED
    BY <1>5, <2>1, <2>2
<1> QED
  BY <1>6, <1>7, <1>8, <1>9 DEF FetchOne

LEMMA NextRecord ==
    ASSUME IInv, RInv, [Next]_vars
    PROVE  RInv'
<1>1. Typed /\ Queue /\ Args /\ Once /\ Stopped /\ Complete /\ Closed
  BY DEF IInv, RInv
<1>2. CASE \E u \in Urls : FetchOne(u)
  BY <1>1, <1>2, FetchOneRecord
<1>3. CASE \E u \in Urls : Notice(u)
  <2>1. PICK u \in Urls : Notice(u)
    BY <1>3
  <2>2. /\ task[u] = "raised" /\ task' = [task EXCEPT ![u] = "done"] /\ aborting'
        /\ stage = "gather" /\ UNCHANGED <<argVars, stage, stop, interrupted, resultVars, exitCode>>
    BY <2>1 DEF Notice, Abort
  <2>3. stop
    BY <1>1, <2>2 DEF Stopped
  <2>4. Args' /\ Once'
    <3>1. Indices(completed) \in SUBSET Urls /\ Indices(errors) \in SUBSET Urls
      BY <1>1, IndicesOf DEF Once
    <3>2. \A w \in Urls : task[w] \in {"raised", "done"} => task'[w] \in {"raised", "done"}
      BY <1>1, <2>2 DEF Typed
    <3>3. /\ UNCHANGED <<concurrency, failFast, stop, interrupted, exitCode, completed, errors>>
          /\ Indices(completed') = Indices(completed) /\ Indices(errors') = Indices(errors)
      BY <2>2 DEF argVars, resultVars
    <3>4. Args'
      BY <1>1, <3>3 DEF Args
    <3> QED
      BY <1>1, <3>1, <3>2, <3>3, <3>4 DEF Once, NoRepeat
  <2>5. Stopped' /\ Complete' /\ Closed'
    BY <1>1, <2>2, <2>3 DEF Stopped, Complete, Closed, Typed, argVars, resultVars
  <2> QED
    BY <2>4, <2>5 DEF RInv
<1>4. CASE Return
  <2>1. /\ \A u \in Urls : task[u] = "done"
        /\ completed' = Sorted(completed) /\ errors' = Sorted(errors)
        /\ UNCHANGED <<argVars, task, stop, aborting, interrupted, exitCode>>
    BY <1>4 DEF Return
  <2>2. /\ completed' \in Seq(Urls) /\ Len(completed') = Len(completed) /\ Ascending(completed')
        /\ Indices(completed') = Indices(completed)
        /\ errors' \in Seq(Urls) /\ Len(errors') = Len(errors) /\ Ascending(errors')
        /\ Indices(errors') = Indices(errors)
    BY <1>1, <2>1, SortedIsAscending DEF Once
  <2>3. ASSUME NEW s \in Seq(Urls), Ascending(s) PROVE NoRepeat(s)
    <3>1. \A i \in 1 .. Len(s) : s[i] \in Urls
      BY ElementOfSeq
    <3>2. \A u \in Urls : ~(u < u)
      BY DEF Urls
    <3>3. \A i, j \in 1 .. Len(s) : i < j \/ j < i \/ i = j
      BY LenProperties
    <3> QED
      BY <2>3, <3>1, <3>2, <3>3 DEF Ascending, NoRepeat
  <2>4. Once'
    BY <1>1, <2>1, <2>2, <2>3 DEF Once
  <2>5. errors' # <<>> <=> errors # <<>>
    BY <1>1, <2>2, EmptySeq DEF Once
  <2> QED
    BY <1>1, <2>1, <2>2, <2>4, <2>5 DEF RInv, Args, Stopped, Complete, Closed, argVars
<1>5. CASE Begin \/ Refuse \/ NoticeInterrupt \/ Interrupt
  <2>1. /\ UNCHANGED <<concurrency, failFast, task, stop, completed, errors, exitCode>>
        /\ interrupted' \in BOOLEAN /\ (interrupted => interrupted')
        /\ aborting' # aborting => aborting' /\ interrupted
        /\ stage' \notin {"returned", "exited"}
    BY <1>1, <1>5 DEF Begin, Refuse, NoticeInterrupt, Abort, Interrupt, Args, Typed, argVars, resultVars
  <2>2. Args' /\ Once' /\ Closed'
    BY <1>1, <2>1 DEF Args, Once, NoRepeat, Indices, Closed
  <2>3. Stopped' /\ Complete'
    BY <1>1, <2>1 DEF Stopped, Complete, Indices
  <2> QED
    BY <2>2, <2>3 DEF RInv
<1>6. CASE (\E u \in Urls : Run(u) \/ Finish(u)) \/ Exit \/ UNCHANGED vars
  <2>1. /\ UNCHANGED <<concurrency, failFast, task, stop, aborting, interrupted, completed, errors>>
        /\ exitCode' \in {0, 1, NoExit}
        /\ stage' = stage \/ stage = "returned"
    BY <1>1, <1>6 DEF Run, Finish, Exit, Args, argVars, resultVars, vars
  <2>2. Args' /\ Once' /\ Closed'
    BY <1>1, <2>1 DEF Args, Once, NoRepeat, Indices, Closed, Ascending
  <2>3. Stopped' /\ Complete'
    BY <1>1, <2>1 DEF Stopped, Complete, Indices
  <2> QED
    BY <2>2, <2>3 DEF RInv
<1> QED
  BY <1>2, <1>3, <1>4, <1>5, <1>6 DEF Next

LEMMA BothInvariants == Spec => [](IInv /\ RInv)
BY InitIInv, NextStep, InitRInv, NextRecord, PTL DEF Spec

-----------------------------------------------------------------------------
(***************************************************************************)
(* The variables have their types, for any batch: in particular the queue  *)
(* of the semaphore holds waiting tasks only, each of them once.           *)
(***************************************************************************)
THEOREM TypeCorrect == Spec => []TypeOK
<1>1. ASSUME IInv, RInv PROVE TypeOK
  <2> USE DEF IInv, RInv
  <2>1. waiters \in Seq({u \in Urls : task[u] = "waiting"})
    <3>1. waiters \in Seq(Urls) /\ \A i \in 1 .. Len(waiters) : task[waiters[i]] = "waiting"
      BY <1>1 DEF Typed, Queue
    <3>2. \A i \in 1 .. Len(waiters) : waiters[i] \in {u \in Urls : task[u] = "waiting"}
      BY <3>1, ElementOfSeq
    <3> QED
      BY <3>1, <3>2, SeqDef, LenProperties
  <2>2. Distinct(waiters)
    BY <1>1, NoRepeatIsDistinct DEF Typed, Queue, NoRepeat
  <2>3. Distinct(completed) /\ Distinct(errors)
    BY <1>1, NoRepeatIsDistinct DEF Once
  <2> QED
    BY <1>1, <2>1, <2>2, <2>3 DEF TypeOK, Typed, Args, Once
<1> QED
  BY <1>1, BothInvariants, PTL

(***************************************************************************)
(* The contract of fetch_many, for any number of URLs, any concurrency and *)
(* any order of answers, failures and cancellations: each URL is accounted *)
(* for once, fail_fast keeps one error, and the lists come back sorted.    *)
(***************************************************************************)
THEOREM EveryUrlIsAccountedFor == Spec => []BatchIsAccountedFor
<1>1. ASSUME IInv, RInv PROVE BatchIsAccountedFor
  <2> SUFFICES ASSUME stage \in {"returned", "exited"}
               PROVE  /\ \A s \in {completed, errors} : \A i, j \in DOMAIN s : i < j => s[i] < s[j]
                      /\ Indices(completed) \cap Indices(errors) = {}
                      /\ failFast => Cardinality(Indices(errors)) <= 1
                      /\ ~interrupted =>
                           \/ Indices(completed) \cup Indices(errors) = Urls
                           \/ failFast /\ Indices(errors) # {}
    BY DEF BatchIsAccountedFor
  <2>1. Once /\ Stopped /\ Complete /\ Closed /\ Args /\ Typed
    BY <1>1 DEF RInv, IInv
  <2>2. \A s \in {completed, errors} : \A i, j \in DOMAIN s : i < j => s[i] < s[j]
    BY <2>1, IndicesOf DEF Once, Closed, Ascending
  <2>3. failFast => Cardinality(Indices(errors)) <= 1
    BY <2>1, NoRepeatIsDistinct DEF Once, Stopped, Distinct
  <2>4. errors # <<>> => Indices(errors) # {}
    <3>1. errors \in Seq(Urls)
      BY <2>1 DEF Once
    <3>2. errors # <<>> => 1 \in 1 .. Len(errors)
      BY <3>1, EmptySeq, LenProperties
    <3> QED
      BY <3>1, <3>2, IndicesOf
  <2>5. ASSUME ~interrupted, ~stop PROVE Indices(completed) \cup Indices(errors) = Urls
    <3>1. ~aborting
      BY <2>1, <2>5 DEF Stopped
    <3>2. \A u \in Urls : u \in Indices(completed) \cup Indices(errors)
      BY <2>1, <2>5, <3>1 DEF Closed, Complete
    <3>3. Indices(completed) \in SUBSET Urls /\ Indices(errors) \in SUBSET Urls
      BY <2>1, IndicesOf DEF Once
    <3> QED
      BY <3>2, <3>3
  <2> QED
    BY <2>1, <2>2, <2>3, <2>4, <2>5 DEF Once, Stopped
<1> QED
  BY <1>1, BothInvariants, PTL

(***************************************************************************)
(* Once stop_event is set no step of any task submits a request or records *)
(* anything, and the final sort changes nothing but the order.             *)
(***************************************************************************)
THEOREM StopIsFinal == Spec => NothingAfterStop
<1> DEFINE Quiet == stop => /\ \A u \in Urls : job'[u] = "queued" => job[u] = "queued"
                            /\ Indices(completed') = Indices(completed)
                            /\ Indices(errors') = Indices(errors)
<1>1. ASSUME IInv, RInv, [Next]_vars PROVE Quiet
  <2> SUFFICES ASSUME stop PROVE /\ \A u \in Urls : job'[u] = "queued" => job[u] = "queued"
                                 /\ Indices(completed') = Indices(completed)
                                 /\ Indices(errors') = Indices(errors)
    OBVIOUS
  <2>1. job \in [Urls -> {"none", "queued", "running", "ok", "error", "cancelled"}]
    BY <1>1 DEF IInv, Typed
  <2>2. CASE \E u \in Urls : FetchOne(u)
    <3>1. PICK u \in Urls : FetchOne(u)
      BY <2>2
    <3>2. UNCHANGED <<completed, errors>>
      BY <3>1 DEF FetchOne, SkipEarly, Enter, Wait, Resume, SkipLate, Succeed, Fail, Recorded, Unwind,
                  resultVars
    <3>3. \A w \in Urls : job'[w] = "queued" => job[w] = "queued"
      BY <2>1, <3>1 DEF FetchOne, SkipEarly, Enter, Wait, Resume, SkipLate, Succeed, Fail, Unwind
    <3> QED
      BY <3>2, <3>3
  <2>3. CASE \E u \in Urls : Notice(u) \/ Run(u) \/ Finish(u)
    BY <2>1, <2>3 DEF Notice, Run, Finish, resultVars
  <2>4. CASE Return
    BY <1>1, <2>4, SortedIsAscending DEF Return, RInv, Once
  <2>5. CASE Begin \/ Refuse \/ Interrupt \/ NoticeInterrupt \/ Exit \/ UNCHANGED vars
    BY <2>5 DEF Begin, Refuse, Interrupt, NoticeInterrupt, Exit, vars, resultVars
  <2> QED
    BY <1>1, <2>2, <2>3, <2>4, <2>5 DEF Next
<1>2. IInv /\ RInv /\ [Next]_vars => [Quiet]_vars
  BY <1>1
<1> QED
  BY <1>2, BothInvariants, PTL DEF Spec, NothingAfterStop

-----------------------------------------------------------------------------
(***************************************************************************)
(* Nobody waits for a permit that nobody will give back.  Awaited is       *)
(* inductive with IInv: a task waits only while one holds a permit, since  *)
(* the queue has all that wait and each that leaves wakes its head; and    *)
(* who holds a permit has been woken, or has a request under way or        *)
(* answered.                                                               *)
(***************************************************************************)
InQueue == \A u \in Urls : task[u] = "waiting" => \E i \in 1 .. Len(waiters) : waiters[i] = u

Served == (\E u \in Urls : task[u] = "waiting") => Holders # {}

Asked == \A u \in Urls : task[u] = "called" => job[u] \in {"queued", "running", "ok", "error"}

Awaited ==
    stage = "gather" => concurrency >= 1 /\ (~aborting => InQueue /\ Served /\ Asked)

LEMMA LeaveAwaited ==
    ASSUME Typed, Queue, InQueue, Asked, NEW u \in Holders, NEW end \in {"done", "raised"},
           Leave(u, end), UNCHANGED job
    PROVE  InQueue' /\ Served' /\ Asked'
<1>1. u \in Urls /\ task \in [Urls -> {"new", "waiting", "woken", "called", "raised", "done"}]
  BY DEF Holders, Typed
<1>2. waiters \in Seq(Urls)
  BY DEF Typed
<1>3. CASE waiters = <<>>
  <2>1. task' = [task EXCEPT ![u] = end] /\ waiters' = waiters /\ Len(waiters) = 0
    BY <1>2, <1>3 DEF Leave
  <2>2. \A w \in Urls : task[w] # "waiting"
    BY <2>1 DEF InQueue
  <2>3. \A w \in Urls : task'[w] # "waiting"
    BY <1>1, <2>1, <2>2
  <2> QED
    BY <1>1, <2>1, <2>3 DEF InQueue, Served, Asked
<1>4. CASE waiters # <<>>
  <2> DEFINE head == Head(waiters)
  <2>1. task' = [task EXCEPT ![u] = end, ![head] = "woken"] /\ waiters' = Tail(waiters)
    BY <1>4 DEF Leave
  <2>2. /\ head \in Urls /\ head = waiters[1] /\ Len(waiters) \in Nat \ {0}
        /\ Len(Tail(waiters)) = Len(waiters) - 1
        /\ \A i \in 1 .. Len(waiters) - 1 : Tail(waiters)[i] = waiters[i + 1]
    BY <1>2, <1>4, HeadTailProperties, EmptySeq, LenProperties
  <2> HIDE DEF head
  <2>3. task'[head] = "woken"
    BY <1>1, <2>1, <2>2
  <2>4. InQueue'
    <3> SUFFICES ASSUME NEW w \in Urls, task'[w] = "waiting"
                 PROVE  \E i \in 1 .. Len(waiters') : waiters'[i] = w
      BY DEF InQueue
    <3>1. w # head /\ task[w] = "waiting"
      BY <1>1, <2>1, <2>3
    <3>2. PICK i \in 1 .. Len(waiters) : waiters[i] = w
      BY <3>1 DEF InQueue
    <3>3. i # 1 /\ i - 1 \in 1 .. Len(waiters) - 1 /\ (i - 1) + 1 = i
      BY <2>2, <3>1, <3>2
    <3>4. waiters'[i - 1] = w /\ i - 1 \in 1 .. Len(waiters')
      BY <2>1, <2>2, <3>2, <3>3
    <3> QED
      BY <3>4
  <2>5. Served'
    BY <2>2, <2>3 DEF Served, Holders
  <2>6. Asked'
    BY <1>1, <2>1, <2>2, <2>3 DEF Asked
  <2> QED
    BY <2>4, <2>5, <2>6
<1> QED
  BY <1>3, <1>4

LEMMA AwaitedStep ==
    ASSUME IInv, Awaited, [Next]_vars
    PROVE  Awaited'
<1>1. Typed /\ Queue /\ Fresh /\ Conserved
  BY DEF IInv
<1>2. concurrency' = concurrency
  BY DEF Next, vars, argVars, Begin, Refuse, FetchOne, SkipEarly, Enter, Wait, Resume, SkipLate,
         Succeed, Fail, Unwind, Notice, Run, Finish, Interrupt, NoticeInterrupt, Return, Exit
<1>3. /\ waiters \in Seq(Urls) /\ Len(waiters) \in Nat /\ concurrency \in Nat
      /\ task \in [Urls -> {"new", "waiting", "woken", "called", "raised", "done"}]
      /\ job \in [Urls -> {"none", "queued", "running", "ok", "error", "cancelled"}]
  BY <1>1, LenProperties DEF Typed
<1>4. CASE Begin
  <2>1. /\ stage = "call" /\ concurrency >= 1 /\ UNCHANGED <<task, job, waiters>>
    BY <1>4 DEF Begin
  <2>2. \A u \in Urls : task'[u] = "new"
    BY <1>1, <2>1 DEF Fresh
  <2> QED
    BY <1>2, <2>1, <2>2 DEF Awaited, InQueue, Served, Asked
<1>5. CASE \E u \in Urls : FetchOne(u) /\ ~aborting
  <2>1. PICK u \in Urls : FetchOne(u) /\ ~aborting
    BY <1>5
  <2>2. stage = "gather" /\ stage' = "gather" /\ concurrency >= 1 /\ InQueue /\ Served /\ Asked
    BY <2>1 DEF Awaited, FetchOne, SkipEarly, Enter, Wait, Resume, SkipLate, Succeed, Fail,
                Unwind, Ready
  <2> SUFFICES InQueue' /\ Served' /\ Asked'
    BY <1>2, <2>2 DEF Awaited
  <2>3. CASE SkipEarly(u)
    <3>1. task[u] = "new" /\ task' = [task EXCEPT ![u] = "done"] /\ UNCHANGED <<job, waiters>>
      BY <2>3 DEF SkipEarly, Ready
    <3> QED
      BY <1>3, <2>2, <3>1 DEF InQueue, Served, Asked, Holders
  <2>4. CASE Enter(u) \/ Resume(u)
    <3>1. /\ task[u] \in {"new", "woken"} /\ task' = [task EXCEPT ![u] = "called"]
          /\ job' = [job EXCEPT ![u] = "queued"] /\ waiters' = waiters
      BY <2>4 DEF Enter, Resume, Ready, Submit
    <3>2. u \in Holders'
      BY <1>3, <3>1 DEF Holders
    <3> QED
      BY <1>3, <2>2, <3>1, <3>2 DEF InQueue, Served, Asked
  <2>5. CASE Wait(u)
    <3>1. /\ task[u] = "new" /\ task' = [task EXCEPT ![u] = "waiting"] /\ job' = job
          /\ waiters' = Append(waiters, u) /\ Locked
      BY <2>5 DEF Wait, Ready
    <3>2. Holders # {}
      <4>1. CASE value = 0
        <5>1. Cardinality(Holders) >= 1
          <6>1. Holders \in SUBSET Urls
            BY DEF Holders
          <6> QED
            BY <1>1, <1>3, <2>2, <4>1, <6>1, UrlsAreFinite DEF Conserved
        <5> QED
          BY <5>1, FS_EmptySet
      <4>2. CASE \E w \in Urls : task[w] \in {"waiting", "woken"}
        BY <2>2, <4>2 DEF Served, Holders
      <4> QED
        BY <3>1, <4>1, <4>2 DEF Locked
    <3>3. Holders' = Holders
      BY <1>3, <3>1 DEF Holders
    <3>4. /\ Len(waiters') = Len(waiters) + 1 /\ waiters'[Len(waiters) + 1] = u
          /\ \A i \in 1 .. Len(waiters) : waiters'[i] = waiters[i]
      BY <1>3, <3>1, AppendProperties
    <3>5. InQueue'
      <4> SUFFICES ASSUME NEW w \in Urls, task'[w] = "waiting"
                   PROVE  \E i \in 1 .. Len(waiters') : waiters'[i] = w
        BY DEF InQueue
      <4>1. CASE w = u
        BY <1>3, <3>4, <4>1
      <4>2. CASE w # u
        <5>1. task[w] = "waiting"
          BY <1>3, <3>1, <4>2
        <5>2. PICK i \in 1 .. Len(waiters) : waiters[i] = w
          BY <2>2, <5>1 DEF InQueue
        <5>3. i \in 1 .. Len(waiters')
          BY <1>3, <3>4
        <5> QED
          BY <3>4, <5>2, <5>3
      <4> QED
        BY <4>1, <4>2
    <3> QED
      BY <1>3, <2>2, <3>1, <3>2, <3>3, <3>5 DEF Served, Asked
  <2>6. CASE SkipLate(u) \/ Succeed(u) \/ Fail(u)
    <3>1. /\ u \in Holders /\ UNCHANGED job
          /\ Leave(u, "done") \/ Leave(u, "raised")
      BY <2>6 DEF SkipLate, Succeed, Fail, LeaveFailed, Ready, Holders
    <3> QED
      BY <1>1, <2>2, <3>1, LeaveAwaited
  <2> QED
    BY <2>1, <2>3, <2>4, <2>5, <2>6 DEF FetchOne, Unwind
<1>6. CASE \E u \in Urls : Run(u) \/ Finish(u)
  <2>1. PICK u \in Urls : Run(u) \/ Finish(u)
    BY <1>6
  <2>2. /\ UNCHANGED <<stage, task, waiters, aborting>>
        /\ \E end \in {"running", "ok", "error"} : job' = [job EXCEPT ![u] = end]
    BY <2>1 DEF Run, Finish
  <2>3. Asked => Asked'
    BY <1>3, <2>2 DEF Asked
  <2> QED
    BY <1>2, <2>2, <2>3 DEF Awaited, InQueue, Served, Holders
<1>7. CASE (\E u \in Urls : Notice(u)) \/ NoticeInterrupt
  <2>1. aborting' /\ stage = "gather"
    BY <1>7 DEF Notice, NoticeInterrupt, Abort
  <2> QED
    BY <1>2, <2>1 DEF Awaited
<1>8. CASE \E u \in Urls : FetchOne(u) /\ aborting
  <2>1. aborting' /\ stage = "gather"
    BY <1>8 DEF FetchOne, SkipEarly, Enter, Wait, Resume, SkipLate, Succeed, Fail, Unwind, Ready
  <2> QED
    BY <1>2, <2>1 DEF Awaited
<1>9. CASE Refuse \/ Return \/ Exit
  BY <1>9 DEF Refuse, Return, Exit, Awaited
<1>10. CASE Interrupt \/ UNCHANGED vars
  <2>1. UNCHANGED <<stage, task, job, waiters, aborting>>
    BY <1>10 DEF Interrupt, vars
  <2> QED
    BY <1>2, <2>1 DEF Awaited, InQueue, Served, Asked, Holders
<1> QED
  BY <1>4, <1>5, <1>6, <1>7, <1>8, <1>9, <1>10 DEF Next

(***************************************************************************)
(* No wake-up is lost and fetch_many does not deadlock on its semaphore:   *)
(* while a task waits, another one has been woken, or its request is with  *)
(* the executor or has come back.  With fair scheduling and requests that  *)
(* end that is what BatchEnds rests on.                                    *)
(***************************************************************************)
THEOREM NobodyWaitsForNobody ==
    Spec => [](stage = "gather" /\ ~aborting /\ (\E u \in Urls : task[u] = "waiting") =>
                   \E u \in Urls :
                       \/ task[u] = "woken"
                       \/ task[u] = "called" /\ job[u] \in {"queued", "running", "ok", "error"})
<1>1. Init => Awaited
  BY DEF Init, Awaited
<1>2. IInv /\ Awaited /\ [Next]_vars => Awaited'
  BY AwaitedStep
<1>3. Awaited =>
          (stage = "gather" /\ ~aborting /\ (\E u \in Urls : task[u] = "waiting") =>
               \E u \in Urls :
                   \/ task[u] = "woken"
                   \/ task[u] = "called" /\ job[u] \in {"queued", "running", "ok", "error"})
  BY DEF Awaited, Served, Asked, Holders
<1> QED
  BY <1>1, <1>2, <1>3, InitIInv, NextStep, PTL DEF Spec

(***************************************************************************)
(* What a script may conclude from bench's exit code 0: every URL has its  *)
(* response, unless somebody interrupted the run (InterruptedIsNotSuccess  *)
(* is violated by that alone).                                             *)
(***************************************************************************)
Reported == exitCode = 0 => stage = "exited" /\ errors = <<>>

THEOREM SuccessMeansEveryResponse ==
    Spec => [](exitCode = 0 /\ ~interrupted => Indices(completed) = Urls)
<1>1. Init => Reported
  BY DEF Init, Reported, NoExit
<1>2. Reported /\ [Next]_vars => Reported'
  <2> SUFFICES ASSUME Reported, [Next]_vars, exitCode' = 0
               PROVE  stage' = "exited" /\ errors' = <<>>
    BY DEF Reported
  <2>1. CASE Exit
    BY <2>1 DEF Exit, resultVars
  <2>2. CASE ~Exit
    <3>1. exitCode' = exitCode /\ (stage = "exited" => UNCHANGED <<stage, errors>>)
      BY <2>2 DEF Next, vars, resultVars, Begin, Refuse, FetchOne, SkipEarly, Enter, Wait, Resume,
                  SkipLate, Succeed, Fail, Unwind, Ready, Notice, Run, Finish, Interrupt,
                  NoticeInterrupt, Return
    <3> QED
      BY <3>1 DEF Reported
  <2> QED
    BY <2>1, <2>2
<1>3. Reported /\ BatchIsAccountedFor =>
          (exitCode = 0 /\ ~interrupted => Indices(completed) = Urls)
  <2> SUFFICES ASSUME Reported, BatchIsAccountedFor, exitCode = 0, ~interrupted
               PROVE  Indices(completed) = Urls
    OBVIOUS
  <2>1. Indices(errors) = {}
    BY DEF Reported, Indices
  <2> QED
    BY <2>1 DEF Reported, BatchIsAccountedFor
<1> QED
  BY <1>1, <1>2, <1>3, EveryUrlIsAccountedFor, PTL DEF Spec

-----------------------------------------------------------------------------
(***************************************************************************)
(* How far a batch has come: the places of a task, of its job and of the   *)
(* call, by what is still ahead of them.                                   *)
(***************************************************************************)
TaskRank == [new |-> 5, waiting |-> 4, woken |-> 3, called |-> 2, raised |-> 1, done |-> 0]

JobRank == [none |-> 3, queued |-> 2, running |-> 1, ok |-> 0, error |-> 0, cancelled |-> 0]

StageRank == [call |-> 3, gather |-> 2, returned |-> 1, ValueError |-> 0, exited |-> 0]

NothingGoesBack ==
    /\ \A u \in Urls : /\ TaskRank[task'[u]] <= TaskRank[task[u]]
                       /\ JobRank[job'[u]] <= JobRank[job[u]]
    /\ StageRank[stage'] <= StageRank[stage]
    /\ interrupted => interrupted'
    /\ aborting => aborting'

SomethingMoves ==
    \/ \E u \in Urls : TaskRank[task'[u]] < TaskRank[task[u]] \/ JobRank[job'[u]] < JobRank[job[u]]
    \/ StageRank[stage'] < StageRank[stage]
    \/ interrupted' # interrupted
    \/ aborting' # aborting

\* A task that leaves moves, and so does the one it wakes.
LEMMA LeaveMoves ==
    ASSUME Typed, Queue, NEW u \in Holders, NEW end \in {"done", "raised"}, Leave(u, end)
    PROVE  /\ \A w \in Urls : TaskRank[task'[w]] <= TaskRank[task[w]]
           /\ TaskRank[task'[u]] < TaskRank[task[u]]
           /\ \A w \in Urls : task'[w] \in {"new", "waiting", "woken"} =>
                                 task[w] \in {"new", "waiting", "woken"}
<1>1. /\ u \in Urls /\ task[u] \in {"woken", "called"}
      /\ task \in [Urls -> {"new", "waiting", "woken", "called", "raised", "done"}]
  BY DEF Holders, Typed
<1>2. CASE waiters = <<>>
  <2>1. task' = [task EXCEPT ![u] = end]
    BY <1>2 DEF Leave
  <2>2. \A w \in Urls : task'[w] = IF w = u THEN end ELSE task[w]
    BY <1>1, <2>1
  <2> QED
    BY <1>1, <2>2 DEF TaskRank
<1>3. CASE waiters # <<>>
  <2>1. /\ Head(waiters) \in Urls /\ Head(waiters) = waiters[1] /\ 1 \in 1 .. Len(waiters)
    BY <1>3, HeadTailProperties, EmptySeq, LenProperties DEF Typed
  <2>2. PICK h \in Urls : h = Head(waiters) /\ task[h] = "waiting"
    BY <2>1 DEF Queue
  <2>3. task' = [task EXCEPT ![u] = end, ![h] = "woken"] /\ h # u
    BY <1>1, <1>3, <2>2 DEF Leave
  <2>4. \A w \in Urls : task'[w] = IF w = u THEN end ELSE IF w = h THEN "woken" ELSE task[w]
    BY <1>1, <2>3
  <2> QED
    BY <1>1, <2>2, <2>3, <2>4 DEF TaskRank
<1> QED
  BY <1>2, <1>3

\* Who has not been served has no request: a URL is asked for once.
Unasked == \A u \in Urls : task[u] \in {"new", "waiting", "woken"} => job[u] = "none"

LEMMA UnaskedStep ==
    ASSUME IInv, Unasked, [Next]_vars
    PROVE  Unasked'
<1>1. Typed /\ Queue
  BY DEF IInv
<1>2. /\ task \in [Urls -> {"new", "waiting", "woken", "called", "raised", "done"}]
      /\ job \in [Urls -> {"none", "queued", "running", "ok", "error", "cancelled"}]
  BY <1>1 DEF Typed
<1>3. CASE \E u \in Urls : SkipEarly(u) \/ Wait(u) \/ Notice(u)
  <2>1. PICK u \in Urls : SkipEarly(u) \/ Wait(u) \/ Notice(u)
    BY <1>3
  <2>2. /\ job' = job /\ task[u] \in {"new", "raised"}
        /\ \E end \in {"waiting", "done"} : task' = [task EXCEPT ![u] = end]
        /\ task'[u] = "waiting" => task[u] = "new"
    BY <1>2, <2>1 DEF SkipEarly, Wait, Notice, Ready
  <2> QED
    BY <1>2, <2>2 DEF Unasked
<1>4. CASE \E u \in Urls : Enter(u) \/ Resume(u) \/ Unwind(u)
  <2>1. PICK u \in Urls : Enter(u) \/ Resume(u) \/ Unwind(u)
    BY <1>4
  <2>2. /\ \E end \in {"called", "done"} : task' = [task EXCEPT ![u] = end]
        /\ \E how \in {"queued", "cancelled", job[u]} : job' = [job EXCEPT ![u] = how]
    BY <2>1 DEF Enter, Resume, Submit, Unwind
  <2> QED
    BY <1>2, <2>2 DEF Unasked
<1>5. CASE \E u \in Urls : SkipLate(u) \/ Succeed(u) \/ Fail(u)
  <2>1. PICK u \in Urls : SkipLate(u) \/ Succeed(u) \/ Fail(u)
    BY <1>5
  <2>2. PICK end \in {"done", "raised"} : Leave(u, end)
    BY <2>1 DEF SkipLate, Succeed, Fail, LeaveFailed
  <2>3. u \in Holders /\ job' = job
    BY <2>1 DEF SkipLate, Succeed, Fail, Ready, Holders
  <2>4. \A w \in Urls : task'[w] \in {"new", "waiting", "woken"} =>
                            task[w] \in {"new", "waiting", "woken"}
    BY <1>1, <2>2, <2>3, LeaveMoves
  <2> QED
    BY <2>3, <2>4 DEF Unasked
<1>6. CASE \E u \in Urls : Run(u) \/ Finish(u)
  <2>1. PICK u \in Urls : Run(u) \/ Finish(u)
    BY <1>6
  <2>2. /\ task' = task /\ job[u] \in {"queued", "running"}
        /\ \E end \in {"running", "ok", "error"} : job' = [job EXCEPT ![u] = end]
    BY <2>1 DEF Run, Finish
  <2> QED
    BY <1>2, <2>2 DEF Unasked
<1>7. CASE UNCHANGED <<task, job>>
  BY <1>7 DEF Unasked
<1> QED
  BY <1>3, <1>4, <1>5, <1>6, <1>7
     DEF Next, FetchOne, vars, Begin, Refuse, Interrupt, NoticeInterrupt, Abort, Return, Exit

LEMMA StepAdvances ==
    ASSUME IInv, Unasked, Next
    PROVE  NothingGoesBack /\ SomethingMoves
<1>1. Typed /\ Queue
  BY DEF IInv
<1>2. /\ task \in [Urls -> {"new", "waiting", "woken", "called", "raised", "done"}]
      /\ job \in [Urls -> {"none", "queued", "running", "ok", "error", "cancelled"}]
      /\ stage \in {"call", "gather", "returned", "ValueError", "exited"}
  BY <1>1 DEF Typed
<1>3. /\ \A u \in Urls : TaskRank[task[u]] \in 0 .. 5 /\ JobRank[job[u]] \in 0 .. 3
      /\ StageRank[stage] \in 0 .. 3
  BY <1>2 DEF TaskRank, JobRank, StageRank
<1>4. CASE \E u \in Urls : FetchOne(u)
  <2>1. PICK u \in Urls : FetchOne(u)
    BY <1>4
  <2>2. UNCHANGED <<stage, interrupted, aborting>>
    BY <2>1 DEF FetchOne, SkipEarly, Enter, Wait, Resume, SkipLate, Succeed, Fail, Unwind
  <2>3. SUFFICES /\ \A w \in Urls : /\ TaskRank[task'[w]] <= TaskRank[task[w]]
                                    /\ JobRank[job'[w]] <= JobRank[job[w]]
                 /\ TaskRank[task'[u]] < TaskRank[task[u]]
    BY <1>3, <2>2 DEF NothingGoesBack, SomethingMoves
  <2>4. CASE SkipEarly(u) \/ Wait(u)
    <3>1. /\ task[u] = "new" /\ job' = job
          /\ \E end \in {"waiting", "done"} : task' = [task EXCEPT ![u] = end]
      BY <2>4 DEF SkipEarly, Wait, Ready
    <3>2. PICK end \in {"waiting", "done"} : task' = [task EXCEPT ![u] = end]
      BY <3>1
    <3>3. \A w \in Urls : task'[w] = IF w = u THEN end ELSE task[w]
      BY <1>2, <3>2
    <3> QED
      BY <1>3, <3>1, <3>2, <3>3 DEF TaskRank
  <2>5. CASE Enter(u) \/ Resume(u)
    <3>1. /\ task[u] \in {"new", "woken"} /\ task' = [task EXCEPT ![u] = "called"]
          /\ job' = [job EXCEPT ![u] = "queued"]
      BY <2>5 DEF Enter, Resume, Ready, Submit
    <3>2. job[u] = "none"
      BY <3>1 DEF Unasked
    <3> QED
      BY <1>2, <1>3, <3>1, <3>2 DEF TaskRank, JobRank
  <2>6. CASE SkipLate(u) \/ Succeed(u) \/ Fail(u)
    <3>1. u \in Holders /\ job' = job /\ (Leave(u, "done") \/ Leave(u, "raised"))
      BY <2>6 DEF SkipLate, Succeed, Fail, LeaveFailed, Ready, Holders
    <3> QED
      BY <1>1, <1>3, <3>1, LeaveMoves
  <2>7. CASE Unwind(u)
    <3>1. /\ task[u] \in {"new", "waiting", "woken", "called"} /\ task' = [task EXCEPT ![u] = "done"]
          /\ job' = [job EXCEPT ![u] = IF job[u] = "queued" THEN "cancelled" ELSE job[u]]
      BY <2>7 DEF Unwind
    <3>2. \A w \in Urls : job'[w] = IF w = u /\ job[u] = "queued" THEN "cancelled" ELSE job[w]
      BY <1>2, <3>1
    <3>3. \A w \in Urls : task'[w] = IF w = u THEN "done" ELSE task[w]
      BY <1>2, <3>1
    <3> QED
      BY <1>3, <3>1, <3>2, <3>3 DEF TaskRank, JobRank
  <2> QED
    BY <2>1, <2>4, <2>5, <2>6, <2>7 DEF FetchOne
<1>5. CASE \E u \in Urls : Notice(u)
  <2>1. PICK u \in Urls : Notice(u)
    BY <1>5
  <2>2. /\ task[u] = "raised" /\ task' = [task EXCEPT ![u] = "done"] /\ aborting' = TRUE
        /\ UNCHANGED <<stage, job, interrupted>>
    BY <2>1 DEF Notice, Abort
  <2>3. \A w \in Urls : task'[w] = IF w = u THEN "done" ELSE task[w]
    BY <1>2, <2>2
  <2>4. \A w \in Urls : TaskRank[task'[w]] <= TaskRank[task[w]]
    BY <1>3, <2>2, <2>3 DEF TaskRank
  <2>5. TaskRank[task'[u]] < TaskRank[task[u]]
    BY <2>2, <2>3 DEF TaskRank
  <2>6. (aborting => aborting') /\ (interrupted => interrupted')
    BY <2>2
  <2>7. /\ \A w \in Urls : JobRank[job'[w]] <= JobRank[job[w]]
        /\ StageRank[stage'] <= StageRank[stage]
    BY <1>3, <2>2
  <2> QED
    BY <2>4, <2>5, <2>6, <2>7 DEF NothingGoesBack, SomethingMoves
<1>6. CASE \E u \in Urls : Run(u) \/ Finish(u)
  <2>1. PICK u \in Urls : Run(u) \/ Finish(u)
    BY <1>6
  <2>2. UNCHANGED <<stage, task, interrupted, aborting>>
    BY <2>1 DEF Run, Finish
  <2>3. PICK end \in {"running", "ok", "error"} :
            /\ job' = [job EXCEPT ![u] = end]
            /\ job[u] = (IF end = "running" THEN "queued" ELSE "running")
    <3>1. CASE Run(u)
      BY <3>1 DEF Run
    <3>2. CASE Finish(u)
      BY <3>2 DEF Finish
    <3> QED
      BY <2>1, <3>1, <3>2
  <2>4. \A w \in Urls : job'[w] = IF w = u THEN end ELSE job[w]
    BY <1>2, <2>3
  <2>5. \A w \in Urls : JobRank[job'[w]] <= JobRank[job[w]]
    BY <1>3, <2>3, <2>4 DEF JobRank
  <2>6. JobRank[job'[u]] < JobRank[job[u]]
    BY <2>3, <2>4 DEF JobRank
  <2> QED
    BY <1>3, <2>2, <2>5, <2>6 DEF NothingGoesBack, SomethingMoves
<1>7. CASE Begin \/ Refuse \/ Return \/ Exit
  <2>1. UNCHANGED <<task, job, interrupted, aborting>>
    BY <1>7 DEF Begin, Refuse, Return, Exit
  <2>2. StageRank[stage'] < StageRank[stage]
    BY <1>7 DEF Begin, Refuse, Return, Exit, StageRank
  <2>3. /\ \A w \in Urls : /\ TaskRank[task'[w]] <= TaskRank[task[w]]
                           /\ JobRank[job'[w]] <= JobRank[job[w]]
        /\ StageRank[stage'] <= StageRank[stage]
    <3>1. StageRank[stage'] \in 0 .. 3
      BY <1>7 DEF Begin, Refuse, Return, Exit, StageRank
    <3> QED
      BY <1>3, <2>1, <2>2, <3>1
  <2>4. (aborting => aborting') /\ (interrupted => interrupted')
    BY <2>1
  <2> QED
    BY <2>2, <2>3, <2>4 DEF NothingGoesBack, SomethingMoves
<1>8. CASE Interrupt \/ NoticeInterrupt
  <2>1. UNCHANGED <<stage, task, job>>
    BY <1>8 DEF Interrupt, NoticeInterrupt
  <2>2. /\ interrupted' # interrupted \/ aborting' # aborting
        /\ interrupted => interrupted'
        /\ aborting => aborting'
    BY <1>8 DEF Interrupt, NoticeInterrupt, Abort
  <2> QED
    BY <1>3, <2>1, <2>2 DEF NothingGoesBack, SomethingMoves
<1> QED
  BY <1>4, <1>5, <1>6, <1>7, <1>8 DEF Next

(***************************************************************************)
(* A batch cannot go on for ever: no task, job or call ever goes back, and *)
(* each step moves one of them, which with finitely many URLs happens      *)
(* finitely often.  No URL is asked for twice, either.  With               *)
(* NobodyWaitsForNobody it is the safety in BatchEnds.                     *)
(***************************************************************************)
THEOREM EveryStepAdvances ==
    Spec => [][NothingGoesBack /\ SomethingMoves]_vars
<1>1. Init => Unasked
  BY DEF Init, Unasked
<1>2. IInv /\ Unasked /\ [Next]_vars => Unasked'
  BY UnaskedStep
<1>3. IInv /\ Unasked /\ [Next]_vars => [NothingGoesBack /\ SomethingMoves]_vars
  BY StepAdvances
<1> QED
  BY <1>1, <1>2, <1>3, InitIInv, NextStep, PTL DEF Spec

================================================================================
