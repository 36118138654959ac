-------------------------- MODULE ApiClient_proofs --------------------------
(***************************************************************************)
(* The safety of ApiClient.send for every policy, every set of origins,    *)
(* methods and statuses, and any number of calls.                          *)
(***************************************************************************)
EXTENDS ApiClient, TLAPS

\* The history variable has an entry for the hop under way from its first attempt on.
Current(n) == Len(sent) = hop + 1 /\ sent[hop + 1] = [request |-> request, times |-> n]

Stage ==
    /\ pc # "idle" => policy.maxHops >= 0 /\ outcome = "none"
    /\ pc = "send" => IF attempt = 1 THEN Len(sent) = hop ELSE Current(attempt - 1)
    /\ pc = "judge" => Current(attempt)
    /\ pc # "idle" /\ attempt > 1 => MethodAllowsRetry

BodyFits == pc # "idle" => (request.body <=> request.method \in BodyMethods)

\* The credential a Location can bring along is one that its server has seen.
RequestIsHome ==
    pc # "idle" /\ ~policy.preserveAuth =>
        /\ request.url.key => request.url.origin = Home
        /\ request.header =>
              /\ request.url.origin = Home
              /\ \A i \in 1 .. Len(sent) : sent[i].request.url.origin = Home
        /\ pc = "judge" /\ reply.location \in Url /\ reply.location.key =>
              request.url.origin = Home

IInv ==
    /\ TypeOK
    /\ Stage
    /\ BodyFits
    /\ RequestIsHome
    /\ CredentialsStayHome
    /\ AttemptsBounded
    /\ ExhaustedMeansTried
    /\ HistoryLinked
    /\ BodyFollowsMethod

LEMMA ClientInit == Init => IInv
<1> SUFFICES ASSUME Init PROVE IInv
    OBVIOUS
<1> USE ClientAssumption DEF Init
<1>1. policy \in Policy
    OBVIOUS
<1>2. TypeOK
    BY <1>1 DEF TypeOK, Policy, MaxAttempts, Request, Url, Reply, NoReply, Outcomes
<1>3. Stage /\ BodyFits /\ RequestIsHome
    BY DEF Stage, BodyFits, RequestIsHome
<1>4. CredentialsStayHome /\ AttemptsBounded /\ ExhaustedMeansTried
    BY <1>1 DEF CredentialsStayHome, AttemptsBounded, ExhaustedMeansTried, Policy
<1>5. HistoryLinked /\ BodyFollowsMethod
    BY DEF HistoryLinked, BodyFollowsMethod
<1> QED
    BY <1>2, <1>3, <1>4, <1>5 DEF IInv

LEMMA BeginInv == IInv /\ Begin => IInv'
<1> SUFFICES ASSUME IInv, Begin PROVE IInv'
    OBVIOUS
<1> USE ClientAssumption DEF Begin
<1>1. policy \in Policy
    BY DEF IInv, TypeOK
<1>2. TypeOK'
    BY <1>1 DEF IInv, TypeOK, Policy, MaxAttempts, Request, Url, Reply, NoReply, Outcomes
<1>3. Stage' /\ BodyFits' /\ RequestIsHome'
    <2>1. Stage'
        BY DEF Stage
    <2>2. BodyFits'
        <3>1. PICK method \in Methods :
                  request'.method = method /\ request'.body = (method \in BodyMethods)
            OBVIOUS
        <3> QED
            BY <3>1 DEF BodyFits
    <2>3. RequestIsHome'
        BY DEF RequestIsHome
    <2> QED
        BY <2>1, <2>2, <2>3
<1>4. CredentialsStayHome' /\ AttemptsBounded' /\ ExhaustedMeansTried'
    BY <1>1 DEF CredentialsStayHome, AttemptsBounded, ExhaustedMeansTried, Policy
<1>5. HistoryLinked' /\ BodyFollowsMethod'
    BY DEF HistoryLinked, BodyFollowsMethod
<1> QED
    BY <1>2, <1>3, <1>4, <1>5 DEF IInv

LEMMA BeginFailsInv == IInv /\ BeginFails => IInv'
<1> SUFFICES ASSUME IInv, BeginFails PROVE IInv'
    OBVIOUS
<1> USE DEF BeginFails
<1>1. TypeOK'
    BY DEF IInv, TypeOK, MaxAttempts, Outcomes
<1>2. Stage' /\ BodyFits' /\ RequestIsHome'
    BY DEF Stage, BodyFits, RequestIsHome
<1>3. CredentialsStayHome' /\ AttemptsBounded' /\ ExhaustedMeansTried'
    BY DEF IInv, CredentialsStayHome, AttemptsBounded, ExhaustedMeansTried, MaxAttempts
<1>4. HistoryLinked' /\ BodyFollowsMethod'
    BY DEF IInv, HistoryLinked, BodyFollowsMethod
<1> QED
    BY <1>1, <1>2, <1>3, <1>4 DEF IInv

\* What transport.send adds to the record of what was sent.
LEMMA TransmitEffect ==
    ASSUME IInv, Transmit
    PROVE  /\ sent' \in Seq(Sent)
           /\ Len(sent') = hop + 1
           /\ sent'[hop + 1] = [request |-> request, times |-> attempt]
           /\ \A i \in 1 .. hop : i \in 1 .. Len(sent) /\ sent'[i] = sent[i]
<1> USE DEF IInv, TypeOK, Stage, Transmit
<1>1. /\ sent \in Seq(Sent) /\ Len(sent) \in Nat /\ hop \in Nat /\ request \in Request
      /\ attempt \in Nat \ {0}
    BY ClientAssumption DEF MaxAttempts, Policy
<1>2. CASE attempt = 1
    <2>1. Len(sent) = hop /\ sent' = Append(sent, [request |-> request, times |-> 1])
        BY <1>2
    <2>2. [request |-> request, times |-> 1] \in Sent
        BY <1>1 DEF Sent
    <2> QED
        BY <1>1, <1>2, <2>1, <2>2
<1>3. CASE attempt # 1
    <2>1. Len(sent) = hop + 1 /\ sent[hop + 1] = [request |-> request, times |-> attempt - 1]
        BY <1>3 DEF Current
    <2>2. sent' = [sent EXCEPT ![hop + 1].times = @ + 1]
        BY <1>1, <2>1
    <2>3. sent' = [sent EXCEPT ![hop + 1] = [request |-> request, times |-> attempt]]
        <3>1. [[request |-> request, times |-> attempt - 1] EXCEPT !.times = @ + 1]
                  = [request |-> request, times |-> attempt - 1 + 1]
            OBVIOUS
        <3>2. attempt - 1 + 1 = attempt
            BY <1>1
        <3>3. sent' = [sent EXCEPT ![hop + 1] = [sent[hop + 1] EXCEPT !.times = @ + 1]]
            BY <2>2
        <3> QED
            BY <2>1, <3>1, <3>2, <3>3
    <2>4. [request |-> request, times |-> attempt] \in Sent
        BY <1>1 DEF Sent
    <2> QED
        BY <1>1, <2>1, <2>3, <2>4
<1> QED
    BY <1>2, <1>3

LEMMA TransmitInv == IInv /\ Transmit => IInv'
<1> SUFFICES ASSUME IInv, Transmit PROVE IInv'
    OBVIOUS
<1>1. /\ sent' \in Seq(Sent)
      /\ Len(sent') = hop + 1
      /\ sent'[hop + 1] = [request |-> request, times |-> attempt]
      /\ \A i \in 1 .. hop : i \in 1 .. Len(sent) /\ sent'[i] = sent[i]
    BY TransmitEffect
<1>2. /\ hop \in Nat /\ policy \in Policy /\ request \in Request
      /\ attempt \in Nat /\ 1 <= attempt /\ attempt <= MaxAttempts
      /\ policy.maxHops >= 0 /\ hop <= policy.maxHops /\ outcome = "none"
    BY ClientAssumption DEF IInv, TypeOK, Stage, Transmit, MaxAttempts, Policy
<1>3. UNCHANGED <<policy, opts, request, hop, attempt, history, outcome, call,
                  lastRequest, lastTrace>>
      /\ pc = "send" /\ pc' = "judge"
    BY DEF Transmit
<1>4. reply' \in Reply
    BY DEF Transmit, Reply, NoReply
<1>5. TypeOK'
    BY <1>1, <1>3, <1>4 DEF IInv, TypeOK, MaxAttempts
<1>6. Stage'
    BY <1>1, <1>2, <1>3 DEF IInv, Stage, Current, MethodAllowsRetry
<1>7. BodyFits' /\ BodyFollowsMethod'
    BY <1>1, <1>2, <1>3 DEF IInv, BodyFits, BodyFollowsMethod
<1>8. CredentialsStayHome'
    <2> SUFFICES ASSUME ~policy.preserveAuth, NEW i \in 1 .. Len(sent')
                 PROVE  /\ sent'[i].request.url.key => sent'[i].request.url.origin = Home
                        /\ sent'[i].request.header =>
                              \A j \in 1 .. i : sent'[j].request.url.origin = Home
        BY <1>3 DEF CredentialsStayHome
    <2>1. /\ request.url.key => request.url.origin = Home
          /\ request.header =>
                /\ request.url.origin = Home
                /\ \A j \in 1 .. Len(sent) : sent[j].request.url.origin = Home
        BY <1>3 DEF IInv, RequestIsHome
    <2>2. CASE i = hop + 1
        BY <1>1, <1>2, <2>1, <2>2
    <2>3. CASE i \in 1 .. hop
        BY <1>1, <1>2, <2>3 DEF IInv, CredentialsStayHome
    <2> QED
        BY <1>1, <1>2, <2>2, <2>3
<1>9. RequestIsHome'
    <2> SUFFICES ASSUME ~policy.preserveAuth PROVE RequestIsHome'
        BY <1>3 DEF RequestIsHome
    <2>1. /\ request.url.key => request.url.origin = Home
          /\ request.header =>
                /\ request.url.origin = Home
                /\ \A j \in 1 .. Len(sent) : sent[j].request.url.origin = Home
        BY <1>3 DEF IInv, RequestIsHome
    <2>2. request.header => \A j \in 1 .. Len(sent') : sent'[j].request.url.origin = Home
        BY <1>1, <1>2, <2>1
    <2>3. ASSUME reply'.location \in Url, reply'.location.key
          PROVE  request.url.origin = Home
        <3>1. Knows(request.url.origin)
            BY <2>3, NotUrls DEF Transmit, NoReply
        <3>2. ASSUME NEW i \in 1 .. Len(sent),
                     sent[i].request.url = [origin |-> request.url.origin, key |-> TRUE]
              PROVE  request.url.origin = Home
            BY <3>2 DEF IInv, CredentialsStayHome
        <3> QED
            BY <3>1, <3>2 DEF Knows
    <2> QED
        BY <1>3, <2>1, <2>2, <2>3 DEF RequestIsHome
<1>10. AttemptsBounded'
    <2>1. ASSUME NEW i \in 1 .. hop
          PROVE  sent'[i].times <=
                     IF policy.retryUnsafe \/ sent'[i].request.method \in IdempotentMethods
                     THEN MaxAttempts ELSE 1
        BY <1>1 DEF IInv, AttemptsBounded
    <2>2. attempt <= IF MethodAllowsRetry THEN MaxAttempts ELSE 1
        BY <1>2, <1>3 DEF IInv, Stage, MaxAttempts, Policy
    <2>3. Len(sent') <= policy.maxHops + 1
        BY <1>1, <1>2 DEF Policy
    <2>4. ASSUME NEW i \in 1 .. Len(sent')
          PROVE  sent'[i].times <=
                     IF policy.retryUnsafe \/ sent'[i].request.method \in IdempotentMethods
                     THEN MaxAttempts ELSE 1
        BY <1>1, <1>2, <2>1, <2>2 DEF MethodAllowsRetry
    <2> QED
        BY <1>2, <1>3, <2>3, <2>4 DEF AttemptsBounded, MaxAttempts
<1>11. ExhaustedMeansTried'
    BY <1>2, <1>3 DEF ExhaustedMeansTried
<1>12. HistoryLinked'
    BY <1>1, <1>2, <1>3 DEF IInv, HistoryLinked
<1> QED
    BY <1>5, <1>6, <1>7, <1>8, <1>9, <1>10, <1>11, <1>12 DEF IInv

\* Another attempt at the same hop.
LEMMA TryAgainInv ==
    ASSUME IInv, pc = "judge", MethodAllowsRetry, attempt < MaxAttempts, TryAgain
    PROVE  IInv'
<1> USE ClientAssumption DEF TryAgain
<1>1. attempt \in Nat \ {0} /\ MaxAttempts \in Nat /\ hop \in Nat
    BY DEF IInv, TypeOK, Policy, MaxAttempts
<1>2. TypeOK'
    BY <1>1 DEF IInv, TypeOK, MaxAttempts, Reply, NoReply
<1>3. Stage'
    BY <1>1 DEF IInv, Stage, Current, MethodAllowsRetry
<1>4. BodyFits' /\ RequestIsHome'
    BY DEF IInv, BodyFits, RequestIsHome
<1>5. CredentialsStayHome' /\ AttemptsBounded' /\ ExhaustedMeansTried'
    BY DEF IInv, CredentialsStayHome, AttemptsBounded, ExhaustedMeansTried, MaxAttempts
<1>6. HistoryLinked' /\ BodyFollowsMethod'
    BY DEF IInv, HistoryLinked, BodyFollowsMethod
<1> QED
    BY <1>2, <1>3, <1>4, <1>5, <1>6 DEF IInv

\* The end of a call; RetryExhausted only after the last attempt.
LEMMA EndInv ==
    ASSUME NEW how \in Outcomes, IInv, pc = "judge", pc' = "idle", outcome' = how,
           reply' = NoReply, lastTrace' \in Nat,
           UNCHANGED <<policy, opts, request, hop, attempt, history, sent, call, lastRequest>>,
           how = "RetryExhausted" => policy.retries > 0 /\ attempt >= MaxAttempts
    PROVE  IInv'
<1> USE ClientAssumption
<1>1. TypeOK'
    BY DEF IInv, TypeOK, MaxAttempts, Reply, NoReply
<1>2. Stage' /\ BodyFits' /\ RequestIsHome'
    BY DEF Stage, BodyFits, RequestIsHome
<1>3. CredentialsStayHome' /\ AttemptsBounded'
    BY DEF IInv, CredentialsStayHome, AttemptsBounded, MaxAttempts
<1>4. ExhaustedMeansTried'
    <2>1. Len(sent) = hop + 1 /\ sent[hop + 1].times = attempt /\ sent \in Seq(Sent)
        BY DEF IInv, TypeOK, Stage, Current
    <2>2. attempt <= MaxAttempts /\ MaxAttempts = policy.retries + 1 /\ hop \in Nat
          /\ attempt \in Nat /\ policy.retries \in Nat
        BY DEF IInv, TypeOK, MaxAttempts, Policy
    <2> QED
        BY <2>1, <2>2 DEF ExhaustedMeansTried
<1>5. HistoryLinked' /\ BodyFollowsMethod'
    BY DEF IInv, HistoryLinked, BodyFollowsMethod
<1> QED
    BY <1>1, <1>2, <1>3, <1>4, <1>5 DEF IInv

\* The step to the next hop: what is sent there keeps the rules, and the record made
\* of the redirect joins the request just answered to it.
LEMMA FollowInv == IInv /\ Follow => IInv'
<1> SUFFICES ASSUME IInv, Follow PROVE IInv'
    OBVIOUS
<1> DEFINE next == NextRequest(request, reply.status, reply.location)
<1>1. /\ pc = "judge" /\ pc' = "send" /\ hop < policy.maxHops /\ hop' = hop + 1
      /\ attempt' = 1 /\ reply' = NoReply /\ request' = next
      /\ history' = Append(history, [url |-> request.url, location |-> next.url,
                                     method |-> request.method])
      /\ UNCHANGED <<policy, opts, sent, outcome, call, lastRequest, lastTrace>>
    BY DEF Follow, Settled
<1>2. /\ hop \in Nat /\ policy \in Policy /\ request \in Request /\ sent \in Seq(Sent)
      /\ reply.location \in Url /\ Len(sent) = hop + 1
      /\ sent[hop + 1].request = request /\ outcome = "none"
      /\ history \in Seq(Record) /\ Len(history) = hop
    BY ClientAssumption, <1>1
    DEF IInv, TypeOK, Stage, Current, HistoryLinked, Follow, IsRedirect, Reply
<1>3. /\ request.method \in Methods /\ request.url \in Url
      /\ request.header \in BOOLEAN /\ request.body \in BOOLEAN
      /\ reply.location.origin \in Origins /\ reply.location.key \in BOOLEAN
    BY <1>2 DEF Request, Url
<1>4. /\ next.method \in Methods
      /\ next.url = [origin |-> reply.location.origin,
                     key    |-> /\ reply.location.key
                                /\ policy.preserveAuth
                                      \/ reply.location.origin = request.url.origin]
      /\ next.header <=> /\ request.header
                         /\ policy.preserveAuth
                               \/ reply.location.origin = request.url.origin
      /\ next.header \in BOOLEAN /\ next.body \in BOOLEAN
    BY ClientAssumption, <1>2, <1>3 DEF NextRequest, Url
<1>5. next \in Request
    <2>1. next = [method |-> next.method, url |-> next.url, header |-> next.header,
                  body |-> next.body]
        BY DEF NextRequest
    <2>2. next.url \in Url
        BY <1>3, <1>4 DEF Url
    <2> HIDE DEF next
    <2> QED
        BY <1>4, <2>1, <2>2 DEF Request
<1>6. next.body <=> next.method \in BodyMethods
    BY ClientAssumption, <1>1 DEF IInv, BodyFits, NextRequest
<1> HIDE DEF next
<1>7. [url |-> request.url, location |-> next.url, method |-> request.method] \in Record
    BY <1>3, <1>5 DEF Record, Request
<1>8. TypeOK'
    BY ClientAssumption, <1>1, <1>2, <1>5, <1>7
    DEF IInv, TypeOK, MaxAttempts, Policy, Reply, NoReply
<1>9. Stage' /\ BodyFits'
    BY <1>1, <1>2, <1>6 DEF IInv, Stage, BodyFits
<1>10. RequestIsHome'
    BY <1>1, <1>2, <1>3, <1>4 DEF IInv, RequestIsHome
<1>11. CredentialsStayHome' /\ AttemptsBounded' /\ ExhaustedMeansTried' /\ BodyFollowsMethod'
    BY <1>1 DEF IInv, CredentialsStayHome, AttemptsBounded, ExhaustedMeansTried,
                BodyFollowsMethod, MaxAttempts
<1>12. HistoryLinked'
    <2>1. /\ Len(history') = hop + 1
          /\ history'[hop + 1] = [url |-> request.url, location |-> next.url,
                                  method |-> request.method]
          /\ \A i \in 1 .. hop : history'[i] = history[i]
        BY <1>1, <1>2, <1>7
    <2>2. \A i \in 1 .. hop :
              /\ i <= Len(sent)
              /\ history[i].url = sent[i].request.url
              /\ history[i].method = sent[i].request.method
              /\ history[i].location = IF i < hop THEN history[i + 1].url ELSE request.url
        BY DEF IInv, HistoryLinked
    <2>3. ASSUME NEW i \in 1 .. hop + 1
          PROVE  /\ i <= Len(sent)
                 /\ history'[i].url = sent[i].request.url
                 /\ history'[i].method = sent[i].request.method
                 /\ history'[i].location =
                       IF i < hop + 1 THEN history'[i + 1].url ELSE next.url
        <3>1. CASE i = hop + 1
            BY <1>2, <2>1, <3>1
        <3>2. CASE i \in 1 .. hop
            BY <1>2, <2>1, <2>2, <3>2
        <3> QED
            BY <1>2, <3>1, <3>2
    <2> QED
        BY <1>1, <2>1, <2>3 DEF HistoryLinked
<1> QED
    BY <1>8, <1>9, <1>10, <1>11, <1>12 DEF IInv

LEMMA JudgeInv == IInv /\ Judge => IInv'
<1> SUFFICES ASSUME IInv, Judge PROVE IInv'
    OBVIOUS
<1> USE DEF Raise, Outcomes
<1>0. /\ lastTrace \in Nat /\ call \in Nat
      /\ attempt \in Nat /\ MaxAttempts \in Nat
    BY ClientAssumption DEF IInv, TypeOK, MaxAttempts, Policy
<1>1. CASE RetryAfterError
    BY <1>1, TryAgainInv DEF RetryAfterError, CanTryAgain
<1>2. CASE GiveUpAfterError
    <2> DEFINE how == IF MethodAllowsRetry /\ Exhausted
                      THEN "RetryExhausted" ELSE "TransportError"
    <2>1. how = "RetryExhausted" => policy.retries > 0 /\ attempt >= MaxAttempts
        BY <1>0, <1>2 DEF Exhausted, CanTryAgain
    <2>2. /\ pc = "judge" /\ pc' = "idle" /\ outcome' = how /\ reply' = NoReply
          /\ UNCHANGED <<policy, opts, request, hop, attempt, history, sent, call,
                         lastRequest, lastTrace>>
        BY <1>2 DEF GiveUpAfterError
    <2>3. how \in Outcomes
        OBVIOUS
    <2> HIDE DEF how
    <2> QED
        BY <1>0, <2>1, <2>2, <2>3, EndInv
<1>3. CASE Propagate
    BY <1>0, <1>3, EndInv DEF Propagate
<1>4. CASE RetryAfterStatus
    BY <1>4, TryAgainInv DEF RetryAfterStatus, ShouldRetryResponse
<1>5. CASE GiveUpAfterStatus
    BY <1>0, <1>5, EndInv DEF GiveUpAfterStatus
<1>6. CASE Return
    <2> DEFINE how == IF opts.fail /\ ~Ok THEN "HttpStatusError" ELSE "response"
    <2>1. /\ pc = "judge" /\ pc' = "idle" /\ outcome' = how /\ reply' = NoReply
          /\ lastTrace' = call
          /\ UNCHANGED <<policy, opts, request, hop, attempt, history, sent, call, lastRequest>>
        BY <1>6 DEF Return, Settled
    <2>2. how \in Outcomes /\ how # "RetryExhausted"
        OBVIOUS
    <2> HIDE DEF how
    <2> QED
        BY <1>0, <2>1, <2>2, EndInv
<1>7. CASE TooManyRedirects
    BY <1>0, <1>7, EndInv DEF TooManyRedirects, Settled
<1>8. CASE UnusableLocation
    <2>1. PICK error \in {"RedirectError", "OtherError"} : Raise(error)
        BY <1>8 DEF UnusableLocation
    <2> QED
        BY <1>0, <1>8, <2>1, EndInv DEF UnusableLocation, Settled
<1>9. CASE Follow
    BY <1>9, FollowInv
<1> QED
    BY <1>1, <1>2, <1>3, <1>4, <1>5, <1>6, <1>7, <1>8, <1>9 DEF Judge

LEMMA ClientNext == IInv /\ [Next]_vars => IInv'
<1> SUFFICES ASSUME IInv, [Next]_vars PROVE IInv'
    OBVIOUS
<1>1. CASE Begin
    BY <1>1, BeginInv
<1>2. CASE Transmit
    BY <1>2, TransmitInv
<1>3. CASE Judge
    BY <1>3, JudgeInv
<1>4. CASE UNCHANGED vars
    <2> USE <1>4 DEF vars
    <2>1. TypeOK' /\ Stage' /\ BodyFits' /\ RequestIsHome'
        BY DEF IInv, TypeOK, MaxAttempts, Stage, Current, MethodAllowsRetry, BodyFits,
               RequestIsHome
    <2>2. CredentialsStayHome' /\ AttemptsBounded' /\ ExhaustedMeansTried'
        BY DEF IInv, CredentialsStayHome, AttemptsBounded, ExhaustedMeansTried, MaxAttempts
    <2>3. HistoryLinked' /\ BodyFollowsMethod'
        BY DEF IInv, HistoryLinked, BodyFollowsMethod
    <2> QED
        BY <2>1, <2>2, <2>3 DEF IInv
<1>5. CASE BeginFails
    BY <1>5, BeginFailsInv
<1> QED
    BY <1>1, <1>2, <1>3, <1>4, <1>5 DEF Next

\* The inductive invariant of the two loops.
THEOREM ClientInvariant == Spec => []IInv
    BY ClientInit, ClientNext, PTL DEF Spec

\* The variables keep their types; the loop counters stay within the policy.
THEOREM ClientTypeOK == Spec => []TypeOK
<1>1. IInv => TypeOK
    BY DEF IInv
<1> QED
    BY <1>1, ClientInvariant, PTL

\* No credential that the auth strategy attached leaves the first origin, over any
\* number of redirects through any number of origins.
THEOREM ClientCredentialsStayHome == Spec => []CredentialsStayHome
<1>1. IInv => CredentialsStayHome
    BY DEF IInv
<1> QED
    BY <1>1, ClientInvariant, PTL

\* Attempts per hop, and hops, never exceed the policy, for any policy; a request
\* that may not be repeated goes out once.
THEOREM ClientAttemptsBounded == Spec => []AttemptsBounded
<1>1. IInv => AttemptsBounded
    BY DEF IInv
<1> QED
    BY <1>1, ClientInvariant, PTL

\* RetryExhausted is raised after exactly the configured number of retries.
THEOREM ClientExhaustedMeansTried == Spec => []ExhaustedMeansTried
<1>1. IInv => ExhaustedMeansTried
    BY DEF IInv
<1> QED
    BY <1>1, ClientInvariant, PTL

\* The history of a response is the path its requests took, of any length.
THEOREM ClientHistoryLinked == Spec => []HistoryLinked
<1>1. IInv => HistoryLinked
    BY DEF IInv
<1> QED
    BY <1>1, ClientInvariant, PTL

\* A body goes with the methods callers send one with, over any chain of redirects.
THEOREM ClientBodyFollowsMethod == Spec => []BodyFollowsMethod
<1>1. IInv => BodyFollowsMethod
    BY DEF IInv
<1> QED
    BY <1>1, ClientInvariant, PTL

-----------------------------------------------------------------------------
(***************************************************************************)
(* Why a call ends: what is left of it, in steps.  The rest of the hops    *)
(* have MaxAttempts attempts each, an attempt is a transmission and its    *)
(* judgement.                                                              *)
(***************************************************************************)
StepsLeft ==
    2 * ((policy.maxHops - hop) * MaxAttempts + (MaxAttempts - attempt))
        + IF pc = "send" THEN 2 ELSE 1

LEMMA Rounds ==
    ASSUME NEW h \in Nat, NEW m \in Nat
    PROVE  /\ h * m \in Nat
           /\ h >= 1 => (h - 1) * m = h * m - m
    OBVIOUS

LEMMA Counters ==
    ASSUME IInv, pc # "idle"
    PROVE  /\ MaxAttempts \in Nat \ {0} /\ attempt \in 1 .. MaxAttempts
           /\ policy.maxHops \in Nat /\ hop \in Nat /\ policy.maxHops - hop \in Nat
<1>1. policy \in Policy /\ policy.maxHops >= 0
    BY ClientAssumption DEF IInv, TypeOK, Stage
<1> QED
    BY <1>1 DEF IInv, TypeOK, Policy, MaxAttempts

(***************************************************************************)
(* Neither loop can go on for ever: each step of a call that does not end  *)
(* it leaves fewer, and there is at least one while it goes on.  If every  *)
(* transport.send ends, that is CallEnds, after at most                    *)
(* 2 * (maxHops + 1) * MaxAttempts steps.                                  *)
(***************************************************************************)
THEOREM ClientLoopsAreBounded ==
    Spec => /\ [](pc # "idle" =>
                    StepsLeft \in 1 .. 2 * (policy.maxHops + 1) * MaxAttempts)
            /\ [][pc # "idle" => pc' = "idle" \/ StepsLeft' < StepsLeft]_vars
<1>1. IInv /\ pc # "idle" => StepsLeft \in 1 .. 2 * (policy.maxHops + 1) * MaxAttempts
    <2> SUFFICES ASSUME IInv, pc # "idle"
                 PROVE  StepsLeft \in 1 .. 2 * (policy.maxHops + 1) * MaxAttempts
        OBVIOUS
    <2> DEFINE rest == (policy.maxHops - hop) * MaxAttempts
               all == policy.maxHops * MaxAttempts
    <2>1. /\ MaxAttempts \in Nat \ {0} /\ attempt \in 1 .. MaxAttempts
          /\ policy.maxHops \in Nat /\ hop \in Nat /\ policy.maxHops - hop \in Nat
        BY Counters
    <2>2. rest \in Nat /\ all \in Nat
        BY <2>1, Rounds
    <2>3. rest = all - hop * MaxAttempts /\ hop * MaxAttempts \in Nat
        <3>1. \A a, b \in Nat, m \in Nat : (a - b) * m = a * m - b * m /\ b * m \in Nat
            OBVIOUS
        <3> QED
            BY <2>1, <3>1
    <2>4. 2 * (policy.maxHops + 1) * MaxAttempts = 2 * (all + MaxAttempts)
        BY <2>1
    <2>5. StepsLeft = 2 * (rest + (MaxAttempts - attempt)) + IF pc = "send" THEN 2 ELSE 1
        BY DEF StepsLeft
    <2> HIDE DEF rest, all
    <2> QED
        BY <2>1, <2>2, <2>3, <2>4, <2>5
<1>2. IInv /\ [Next]_vars /\ pc # "idle" /\ ~UNCHANGED vars =>
          pc' = "idle" \/ StepsLeft' < StepsLeft
    <2> SUFFICES ASSUME IInv, Next, pc # "idle", pc' # "idle"
                 PROVE  StepsLeft' < StepsLeft
        OBVIOUS
    <2> DEFINE rest == (policy.maxHops - hop) * MaxAttempts
    <2>1. /\ MaxAttempts \in Nat \ {0} /\ attempt \in 1 .. MaxAttempts
          /\ policy.maxHops \in Nat /\ hop \in Nat /\ policy.maxHops - hop \in Nat
        BY Counters
    <2>2. rest \in Nat
        BY <2>1, Rounds
    <2>3. UNCHANGED policy /\ MaxAttempts' = MaxAttempts
        BY DEF Next, Begin, BeginFails, Transmit, Judge, RetryAfterError, GiveUpAfterError, Propagate,
               RetryAfterStatus, GiveUpAfterStatus, Return, TooManyRedirects,
               UnusableLocation, Follow, TryAgain, Raise, MaxAttempts
    <2>4. StepsLeft = 2 * (rest + (MaxAttempts - attempt)) + IF pc = "send" THEN 2 ELSE 1
        BY DEF StepsLeft
    <2>5. StepsLeft' = 2 * (rest' + (MaxAttempts - attempt')) + IF pc' = "send" THEN 2 ELSE 1
        BY <2>3 DEF StepsLeft
    <2>6. hop' = hop => rest' = rest
        BY <2>3
    <2>7. CASE Transmit
        <3>1. pc = "send" /\ pc' = "judge" /\ hop' = hop /\ attempt' = attempt
            BY <2>7 DEF Transmit
        <3> HIDE DEF rest
        <3> QED
            BY <2>1, <2>2, <2>4, <2>5, <2>6, <3>1
    <2>8. CASE RetryAfterError \/ RetryAfterStatus
        <3>1. pc = "judge" /\ pc' = "send" /\ hop' = hop /\ attempt' = attempt + 1
            BY <2>8 DEF RetryAfterError, RetryAfterStatus, TryAgain
        <3> HIDE DEF rest
        <3> QED
            BY <2>1, <2>2, <2>4, <2>5, <2>6, <3>1
    <2>9. CASE Follow
        <3>1. pc = "judge" /\ pc' = "send" /\ hop' = hop + 1 /\ attempt' = 1 /\ hop < policy.maxHops
            BY <2>9 DEF Follow, Settled
        <3>2. policy.maxHops - hop >= 1 /\ policy.maxHops - hop' = (policy.maxHops - hop) - 1
            BY <2>1, <3>1
        <3>3. rest' = rest - MaxAttempts
            BY <2>1, <2>3, <3>2, Rounds
        <3> HIDE DEF rest
        <3> QED
            BY <2>1, <2>2, <2>4, <2>5, <3>1, <3>3
    <2>10. CASE Begin \/ BeginFails \/ GiveUpAfterError \/ Propagate \/ GiveUpAfterStatus \/ Return
                 \/ TooManyRedirects \/ UnusableLocation
        BY <2>10 DEF Begin, BeginFails, GiveUpAfterError, Propagate, GiveUpAfterStatus, Return,
                     TooManyRedirects, UnusableLocation, Raise
    <2> QED
        BY <2>7, <2>8, <2>9, <2>10 DEF Next, Judge
<1>3. IInv /\ [Next]_vars => [pc # "idle" => pc' = "idle" \/ StepsLeft' < StepsLeft]_vars
    BY <1>2
<1> QED
    BY <1>1, <1>3, ClientInvariant, PTL DEF Spec

(***************************************************************************)
(* What --show-request and --show-trace print belongs together after a     *)
(* response and after HttpStatusError: only the other exceptions leave     *)
(* last_trace behind (LastIsOfThisCall as it stands does not hold).        *)
(***************************************************************************)
Shown ==
    /\ pc # "idle" => lastRequest = call
    /\ outcome \in {"response", "HttpStatusError"} =>
          pc = "idle" /\ lastRequest = call /\ lastTrace = call

THEOREM ClientShowsTheCallThatAnswered ==
    Spec => [](outcome \in {"response", "HttpStatusError"} => LastIsOfThisCall)
<1>1. Init => Shown
    BY DEF Init, Shown
<1>2. Shown /\ [Next]_vars => Shown'
    <2> SUFFICES ASSUME Shown, [Next]_vars PROVE Shown'
        OBVIOUS
    <2> USE DEF Shown
    <2>1. CASE Begin \/ BeginFails
        BY <2>1 DEF Begin, BeginFails
    <2>2. CASE Transmit
        BY <2>2 DEF Transmit
    <2>3. CASE RetryAfterError \/ RetryAfterStatus
        BY <2>3 DEF RetryAfterError, RetryAfterStatus, TryAgain
    <2>4. CASE GiveUpAfterError \/ Propagate \/ GiveUpAfterStatus \/ TooManyRedirects
                \/ UnusableLocation
        BY <2>4 DEF GiveUpAfterError, Propagate, GiveUpAfterStatus, TooManyRedirects,
                    UnusableLocation, Raise
    <2>5. CASE Return
        BY <2>5 DEF Return, Settled
    <2>6. CASE Follow
        BY <2>6 DEF Follow, Settled
    <2>7. CASE UNCHANGED vars
        BY <2>7 DEF vars
    <2> QED
        BY <2>1, <2>2, <2>3, <2>4, <2>5, <2>6, <2>7 DEF Next, Judge
<1>3. Shown => (outcome \in {"response", "HttpStatusError"} => LastIsOfThisCall)
    BY DEF Shown, LastIsOfThisCall
<1> QED
    BY <1>1, <1>2, <1>3, PTL DEF Spec

=============================================================================
