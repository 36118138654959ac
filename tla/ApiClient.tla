----------------------------- MODULE ApiClient -----------------------------
(***************************************************************************)
(* client.py: ApiClient.send, the loop of hops over the loop of attempts,  *)
(* with resilience/retry.py (what is tried again), http/redirects.py (what *)
(* is sent next) and the auth strategies (what is attached at the start).  *)
(* The transport is abstract: any reply, or one of its exceptions.         *)
(***************************************************************************)
EXTENDS Integers, Sequences

CONSTANTS
    Origins,            \* (scheme, host, port)
    Home,               \* the origin of the URL the caller gives
    Policies,           \* the retry and redirect policies to consider
    Statuses,           \* status codes a server may answer with
    RetryStatuses,      \* RetryPolicy.retry_statuses
    RedirectStatuses,   \* RedirectPolicy.allowed_statuses
    Methods,
    IdempotentMethods,  \* RetryPolicy.idempotent_methods
    BodyMethods,        \* methods the callers send a body with
    NoUrl, BadUrl,      \* no Location header; one that is empty or that urljoin rejects
    MaxCalls            \* bound of the run on calls of one client

Policy == [retries : Nat, maxHops : Int, retryUnsafe : BOOLEAN,
           preserveAuth : BOOLEAN, rewritePost : BOOLEAN]

ASSUME ClientAssumption ==
    /\ Home \in Origins
    /\ Policies \subseteq Policy
    /\ Statuses \subseteq Nat
    /\ IdempotentMethods \subseteq Methods
    /\ BodyMethods \subseteq Methods
    /\ {"GET", "HEAD", "POST"} \subseteq Methods
    /\ BodyMethods \cap {"GET", "HEAD"} = {}
    /\ MaxCalls \in Nat

\* key: the query string carries the credential of ApiKeyQueryAuth.
Url == [origin : Origins, key : BOOLEAN]

ASSUME NotUrls == NoUrl \notin Url /\ BadUrl \notin Url

\* header: a header that the auth strategy set is present.
Request == [method : Methods, url : Url, header : BOOLEAN, body : BOOLEAN]

\* One entry per hop: what was sent, and how many times.
Sent == [request : Request, times : Nat]

Record == [url : Url, location : Url, method : Methods]

Reply == [kind : {"none", "response", "TransportError", "OtherError"},
          status : Statuses \cup {0}, location : Url \cup {NoUrl, BadUrl}]

NoReply == [kind |-> "none", status |-> 0, location |-> NoUrl]

Outcomes == {"none", "response", "HttpStatusError", "RedirectError", "RetryExhausted",
             "TransportError", "OtherError"}

VARIABLES
    policy,        \* retry_policy and redirect_policy of this client
    pc,            \* "idle", "send" (about to call the transport), "judge"
    opts,          \* follow_redirects and fail of this call
    request,       \* current
    hop, attempt,  \* the two loop counters
    reply,         \* what transport.send did, until it is judged
    history,       \* the RedirectRecords so far
    sent,          \* history variable: what went out, hop by hop
    outcome,       \* how the last call ended
    call,          \* number of this call
    lastRequest,   \* the call whose request / trace the client shows as
    lastTrace      \* last_request / last_trace

vars == <<policy, pc, opts, request, hop, attempt, reply, history, sent, outcome, call,
          lastRequest, lastTrace>>

\* max(1, retries + 1)
MaxAttempts == policy.retries + 1

TypeOK ==
    /\ policy \in Policies
    /\ pc \in {"idle", "send", "judge"}
    /\ opts \in [follow : BOOLEAN, fail : BOOLEAN]
    /\ request \in Request
    /\ hop \in Nat /\ (policy.maxHops >= 0 => hop <= policy.maxHops)
    /\ attempt \in 1 .. MaxAttempts
    /\ reply \in Reply
    /\ history \in Seq(Record)
    /\ sent \in Seq(Sent)
    /\ outcome \in Outcomes
    /\ call \in Nat
    /\ lastRequest \in Nat
    /\ lastTrace \in Nat

Init ==
    /\ policy \in Policies
    /\ pc = "idle"
    /\ opts = [follow |-> TRUE, fail |-> FALSE]
    /\ request = [method |-> "GET", url |-> [origin |-> Home, key |-> FALSE],
                  header |-> FALSE, body |-> FALSE]
    /\ hop = 0 /\ attempt = 1
    /\ reply = NoReply
    /\ history = <<>> /\ sent = <<>>
    /\ outcome = "none"
    /\ call = 0 /\ lastRequest = 0 /\ lastTrace = 0

-----------------------------------------------------------------------------
(* The policies. *)

MethodAllowsRetry == policy.retryUnsafe \/ request.method \in IdempotentMethods

ShouldRetryResponse ==
    reply.kind = "response" /\ MethodAllowsRetry /\ reply.status \in RetryStatuses

IsRedirect ==
    opts.follow /\ reply.status \in RedirectStatuses /\ reply.location # NoUrl

ShouldRewriteToGet(method, status) ==
    \/ status = 303 /\ method \notin {"GET", "HEAD"}
    \/ status \in {301, 302} /\ method = "POST"

\* Mutant: the credential headers go, the query parameters stay.
NextRequest_KeepsKey(r, status, location) ==
    LET toGet == policy.rewritePost /\ ShouldRewriteToGet(r.method, status)
        strip == ~policy.preserveAuth /\ location.origin # r.url.origin
    IN  [method |-> IF toGet THEN "GET" ELSE r.method,
         url    |-> location,
         header |-> r.header /\ ~strip,
         body   |-> r.body /\ ~toGet]

\* Mutant: the method is rewritten and the body is not dropped.
NextRequest_KeepsBody(r, status, location) ==
    LET toGet == policy.rewritePost /\ ShouldRewriteToGet(r.method, status)
        strip == ~policy.preserveAuth /\ location.origin # r.url.origin
    IN  [method |-> IF toGet THEN "GET" ELSE r.method,
         url    |-> [location EXCEPT !.key = @ /\ ~strip],
         header |-> r.header /\ ~strip,
         body   |-> r.body]

\* RedirectPolicy.next_request.
NextRequest(r, status, location) ==
    LET toGet == policy.rewritePost /\ ShouldRewriteToGet(r.method, status)
        strip == ~policy.preserveAuth /\ location.origin # r.url.origin
    IN  [method |-> IF toGet THEN "GET" ELSE r.method,
         url    |-> [location EXCEPT !.key = @ /\ ~strip],
         header |-> r.header /\ ~strip,
         body   |-> r.body /\ ~toGet]

-----------------------------------------------------------------------------

\* send, up to the loops.  auth is "header" for Bearer, Basic and ApiKeyHeader,
\* "query" for ApiKeyQuery.  With max_hops < 0 the loop over hops has no turn.
Begin ==
    \E method \in Methods, auth \in {"none", "header", "query"}, follow, fail \in BOOLEAN :
        /\ pc = "idle" /\ call < MaxCalls
        /\ request' = [method |-> method,
                       url |-> [origin |-> Home, key |-> auth = "query"],
                       header |-> auth = "header", body |-> method \in BodyMethods]
        /\ opts' = [follow |-> follow, fail |-> fail]
        /\ call' = call + 1
        /\ lastRequest' = call + 1
        /\ hop' = 0 /\ attempt' = 1 /\ reply' = NoReply
        /\ history' = <<>> /\ sent' = <<>>
        /\ IF policy.maxHops >= 0
           THEN pc' = "send" /\ outcome' = "none"
           ELSE pc' = "idle" /\ outcome' = "RedirectError"
        /\ UNCHANGED <<policy, lastTrace>>

\* require_http_url or auth.apply raises, before last_request is set.
BeginFails ==
    /\ pc = "idle" /\ call < MaxCalls
    /\ call' = call + 1
    /\ outcome' = "OtherError"
    /\ UNCHANGED <<policy, pc, opts, request, hop, attempt, reply, history, sent,
                   lastRequest, lastTrace>>

\* What the servers of an origin can put in a Location: the credential only if it
\* is theirs or has been sent to them.
Knows(o) ==
    o = Home \/ \E i \in 1 .. Len(sent) : sent[i].request.url = [origin |-> o, key |-> TRUE]

\* transport.send.  (A Location beside a status that is no redirect is not looked at.)
Transmit ==
    /\ pc = "send"
    /\ pc' = "judge"
    /\ sent' = IF Len(sent) = hop
               THEN Append(sent, [request |-> request, times |-> 1])
               ELSE [sent EXCEPT ![hop + 1].times = @ + 1]
    /\ \/ \E error \in {"TransportError", "OtherError"} :
             reply' = [NoReply EXCEPT !.kind = error]
       \/ \E status \in Statuses, location \in Url \cup {NoUrl, BadUrl} :
             /\ status \notin RedirectStatuses => location = NoUrl
             /\ location \in Url /\ location.key => Knows(request.url.origin)
             /\ reply' = [kind |-> "response", status |-> status, location |-> location]
    /\ UNCHANGED <<policy, opts, request, hop, attempt, history, outcome, call,
                   lastRequest, lastTrace>>

\* Mutant: the attempt counter is not advanced.
TryAgain_Stuck ==
    /\ pc' = "send"
    /\ reply' = NoReply
    /\ UNCHANGED <<policy, opts, request, hop, attempt, history, sent, outcome, call,
                   lastRequest, lastTrace>>

\* continue, after the sleep.
TryAgain ==
    /\ pc' = "send"
    /\ attempt' = attempt + 1
    /\ reply' = NoReply
    /\ UNCHANGED <<policy, opts, request, hop, history, sent, outcome, call,
                   lastRequest, lastTrace>>

Raise(error) ==
    /\ pc' = "idle"
    /\ outcome' = error
    /\ reply' = NoReply
    /\ UNCHANGED <<policy, opts, request, hop, attempt, history, sent, call,
                   lastRequest, lastTrace>>

\* Mutant: attempt <= max_attempts.
CanTryAgain_OneMore == attempt <= MaxAttempts /\ policy.retries > 0

CanTryAgain == attempt < MaxAttempts /\ policy.retries > 0

\* Mutant: RetryExhausted also when the policy retries nothing.
Exhausted_Always == ~CanTryAgain

\* The retries that were asked for are used up.
Exhausted == ~CanTryAgain /\ policy.retries > 0

RetryAfterError ==
    /\ pc = "judge" /\ reply.kind = "TransportError"
    /\ MethodAllowsRetry /\ CanTryAgain
    /\ TryAgain

GiveUpAfterError ==
    /\ pc = "judge" /\ reply.kind = "TransportError"
    /\ ~(MethodAllowsRetry /\ CanTryAgain)
    /\ Raise(IF MethodAllowsRetry /\ Exhausted THEN "RetryExhausted" ELSE "TransportError")

\* ProtocolError and whatever else is not a TransportError.
Propagate ==
    /\ pc = "judge" /\ reply.kind = "OtherError"
    /\ Raise("OtherError")

RetryAfterStatus ==
    /\ pc = "judge" /\ ShouldRetryResponse
    /\ attempt < MaxAttempts
    /\ TryAgain

GiveUpAfterStatus ==
    /\ pc = "judge" /\ ShouldRetryResponse
    /\ attempt >= MaxAttempts /\ policy.retries > 0
    /\ Raise("RetryExhausted")

\* Mutant: no return of the response at the last attempt.
Settled_NoReturn ==
    pc = "judge" /\ reply.kind = "response" /\ ~ShouldRetryResponse

\* _send_with_retries returns its response.
Settled ==
    /\ pc = "judge" /\ reply.kind = "response"
    /\ ShouldRetryResponse => attempt >= MaxAttempts /\ policy.retries = 0

Ok == 200 <= reply.status /\ reply.status < 400

Return ==
    /\ Settled /\ ~IsRedirect
    /\ pc' = "idle"
    /\ outcome' = IF opts.fail /\ ~Ok THEN "HttpStatusError" ELSE "response"
    /\ lastTrace' = call
    /\ reply' = NoReply
    /\ UNCHANGED <<policy, opts, request, hop, attempt, history, sent, call, lastRequest>>

TooManyRedirects ==
    /\ Settled /\ IsRedirect /\ hop >= policy.maxHops
    /\ Raise("RedirectError")

\* next_request raises RedirectError for an empty Location, resolve_redirect_url ValueError.
\* (A Location with another scheme is followed: it is an origin for which transport.send
\* raises InvalidUrlError.)
UnusableLocation ==
    /\ Settled /\ IsRedirect /\ hop < policy.maxHops
    /\ reply.location = BadUrl
    /\ \E error \in {"RedirectError", "OtherError"} : Raise(error)

\* Mutant: the record is made before the parameters are stripped.
Follow_RecordsRaw ==
    LET next == NextRequest(request, reply.status, reply.location) IN
    /\ Settled /\ IsRedirect /\ hop < policy.maxHops
    /\ reply.location # BadUrl
    /\ history' = Append(history, [url |-> request.url, location |-> reply.location,
                                   method |-> request.method])
    /\ request' = next
    /\ hop' = hop + 1
    /\ attempt' = 1
    /\ pc' = "send"
    /\ reply' = NoReply
    /\ UNCHANGED <<policy, opts, sent, outcome, call, lastRequest, lastTrace>>

\* The next turn of the loop over hops.
Follow ==
    LET next == NextRequest(request, reply.status, reply.location) IN
    /\ Settled /\ IsRedirect /\ hop < policy.maxHops
    /\ reply.location # BadUrl
    /\ history' = Append(history, [url |-> request.url, location |-> next.url,
                                   method |-> request.method])
    /\ request' = next
    /\ hop' = hop + 1
    /\ attempt' = 1
    /\ pc' = "send"
    /\ reply' = NoReply
    /\ UNCHANGED <<policy, opts, sent, outcome, call, lastRequest, lastTrace>>

Judge ==
    \/ RetryAfterError
    \/ GiveUpAfterError
    \/ Propagate
    \/ RetryAfterStatus
    \/ GiveUpAfterStatus
    \/ Return
    \/ TooManyRedirects
    \/ UnusableLocation
    \/ Follow

Next == Begin \/ BeginFails \/ Transmit \/ Judge

Spec == Init /\ [][Next]_vars

\* What comes after transport.send is plain Python and a sleep.  That transport.send itself
\* ends is not assumed here: by default nothing bounds it (TimeoutConfig.total is None).
FairSpec == Spec /\ WF_vars(Judge)

-----------------------------------------------------------------------------
(***************************************************************************)
(* Unless the policy says otherwise, what the auth strategy attached goes  *)
(* to the first origin only, however the redirects wind: a header that was *)
(* dropped on the way out does not come back on the way home, and a query  *)
(* credential in a Location that leads elsewhere is cut off.               *)
(***************************************************************************)
CredentialsStayHome ==
    ~policy.preserveAuth =>
        \A i \in 1 .. Len(sent) :
            /\ sent[i].request.url.key => sent[i].request.url.origin = Home
            /\ sent[i].request.header =>
                  \A j \in 1 .. i : sent[j].request.url.origin = Home

\* A request goes out at most max_attempts times per hop, once if its method must
\* not be repeated, and over at most max_hops + 1 hops; the method that counts is
\* the one of the hop, which a redirect may have changed.
AttemptsBounded ==
    /\ Len(sent) <= IF policy.maxHops >= 0 THEN policy.maxHops + 1 ELSE 0
    /\ \A i \in 1 .. Len(sent) :
          sent[i].times <= IF policy.retryUnsafe \/ sent[i].request.method \in IdempotentMethods
                           THEN MaxAttempts ELSE 1

\* RetryExhausted says that the configured retries were made, all of them, and
\* for a request that may be repeated.
ExhaustedMeansTried ==
    outcome = "RetryExhausted" =>
        /\ policy.retries > 0
        /\ sent # <<>>
        /\ sent[Len(sent)].times = policy.retries + 1

\* response.history is the path that was taken: each record leads to the next one,
\* the last one to the request in hand, and record i is about the i-th request sent.
HistoryLinked ==
    /\ Len(history) = hop
    /\ \A i \in 1 .. hop :
          /\ i <= Len(sent)
          /\ history[i].url = sent[i].request.url
          /\ history[i].method = sent[i].request.method
          /\ history[i].location = IF i < hop THEN history[i + 1].url ELSE request.url

\* However methods are rewritten on the way, a body goes with the methods that the
\* caller sends one with, and with no other.
BodyFollowsMethod ==
    \A i \in 1 .. Len(sent) :
        sent[i].request.body <=> sent[i].request.method \in BodyMethods

\* If each transport.send ends, so does the call: neither loop can go on for ever.
\* (With a total timeout a send of the raw transport does end: CallEnds of Deadline.)
TransportEnds == []<>(pc # "send")

CallEnds == TransportEnds => ((pc # "idle") ~> (pc = "idle"))

\* When a call is over, last_request is its request and last_trace its trace; a
\* client that has traced nothing yet may show an empty one.  It does not hold after a
\* failure, see section 4 of the README.
LastIsOfThisCall == pc = "idle" => lastRequest = call /\ lastTrace \in {0, call}

=============================================================================
