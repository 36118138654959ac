-------------------------------- MODULE Deadline --------------------------------
(***************************************************************************)
(* One send of a transport against a clock: which timeout is in force at   *)
(* each call that blocks, and what becomes of it when it strikes.          *)
(*                                                                         *)
(* The raw transport (socket_transport.py) has the connect timeout for     *)
(* each address and for the TLS handshake, the read timeout for the write  *)
(* and the reads, and the total timeout as a deadline that it looks at in  *)
(* between.  The urllib transport has one timeout, for every call.         *)
(*                                                                         *)
(* A tick is an arbitrary unit.  The peer may be slow at every call, and   *)
(* it may send its response in any number of pieces.                       *)
(***************************************************************************)
EXTENDS Integers

CONSTANTS
    Timeouts,       \* values of connect and read
    Totals,         \* values of total; None is a member of its own
    None,
    MaxAddresses,
    Horizon         \* the clock stops here, which matters to calls without a deadline only

ASSUME DeadlineAssumption ==
    /\ Timeouts \subseteq Nat
    /\ None \notin Int
    /\ Totals \ {None} \subseteq Nat
    /\ MaxAddresses \in Nat \ {0}
    /\ Horizon \in Nat

VARIABLES
    transport, tls, pooled,     \* what is used; pooled: acquire has found a connection
    connect, read, total,       \* TimeoutConfig
    now,        \* monotonic() - total_start
    pc,         \* the call that blocks
    limit,      \* the timeout in force for it; None where there is none
    waited,     \* how long it has blocked
    addresses,  \* how many getaddrinfo has found
    left,       \* those that _connect has not given up
    resolved,   \* history variable: when getaddrinfo returned
    outcome

config == <<transport, tls, pooled, connect, read, total>>
vars == <<config, now, pc, limit, waited, addresses, left, resolved, outcome>>

Min2(a, b) == IF a < b THEN a ELSE b
Max2(a, b) == IF a > b THEN a ELSE b

Outcomes == {"none", "Response", "RequestTimeout", "ConnectionFailure", "ProtocolError",
             "HTTPException", "TimeoutError", "OSError"}

\* "body" is urllib's raw_response.read(); the raw transport reads everything in "recv".
Waits == {"preflight", "dns", "connect", "handshake", "send", "recv", "body"}

TypeOK ==
    /\ transport \in {"raw", "urllib"}
    /\ {tls, pooled} \subseteq BOOLEAN
    /\ {connect, read} \subseteq Timeouts
    /\ total \in Totals
    /\ now \in 0 .. Horizon
    /\ pc \in Waits \cup {"done"}
    /\ limit \in Nat \cup {None}
    /\ waited \in Nat
    /\ {addresses, left} \subseteq 0 .. MaxAddresses
    /\ resolved \in 0 .. Horizon
    /\ outcome \in Outcomes

-----------------------------------------------------------------------------

\* Mutant: what is left may be less than nothing.
Remaining_Signed == total - now

Remaining == Max2(0, total - now)

\* Mutant: the deadline is left to the reads.
Bounded_ValueOnly(value) == value

\* _bounded
Bounded(value) == IF total = None THEN value ELSE Min2(value, Remaining)

\* effective_timeout of urllib_transport
Effective == IF total # None THEN total ELSE Max2(connect, read)

ConnectLimit == IF transport = "raw" THEN Bounded(connect) ELSE Effective

SendLimit == IF transport = "raw" THEN Bounded(read) ELSE Effective

\* The raw transport takes a pooled connection, or asks for addresses; urllib always asks, once
\* for the trace and once to connect.
Init ==
    /\ transport \in {"raw", "urllib"}
    /\ tls \in BOOLEAN
    /\ pooled \in BOOLEAN /\ (pooled => transport = "raw")
    /\ connect \in Timeouts
    /\ read \in Timeouts
    /\ total \in Totals
    /\ now = 0
    /\ pc = IF pooled THEN "send" ELSE IF transport = "raw" THEN "dns" ELSE "preflight"
    /\ limit = IF pooled THEN SendLimit ELSE None
    /\ waited = 0
    /\ addresses = 0
    /\ left = 0
    /\ resolved = 0
    /\ outcome = "none"

\* The next call that blocks, and its timeout.
Call(where, timeout) ==
    /\ pc' = where
    /\ limit' = timeout
    /\ waited' = 0
    /\ UNCHANGED outcome

End(how) ==
    /\ pc' = "done"
    /\ outcome' = how
    /\ UNCHANGED <<limit, waited>>

\* Time passes in a call until its timeout strikes.
Tick ==
    /\ pc \in Waits
    /\ limit # None => waited < limit
    /\ now' = Min2(now + 1, Horizon)
    /\ waited' = IF limit = None THEN waited ELSE waited + 1
    /\ UNCHANGED <<config, pc, limit, addresses, left, resolved, outcome>>

Struck == limit # None /\ limit > 0 /\ waited = limit

\* A timeout of zero makes the socket non-blocking.
WouldBlock == limit = 0

\* Its failure is ignored.
Preflight ==
    /\ pc = "preflight"
    /\ Call("dns", None)
    /\ UNCHANGED <<config, now, addresses, left, resolved>>

\* getaddrinfo returns at least one address or raises.
Resolve ==
    /\ pc = "dns"
    /\ \E n \in 1 .. MaxAddresses : addresses' = n /\ left' = n
    /\ resolved' = now
    /\ Call("connect", ConnectLimit)
    /\ UNCHANGED <<config, now>>

DnsFails ==
    /\ pc = "dns"
    /\ resolved' = now
    /\ End("ConnectionFailure")
    /\ UNCHANGED <<config, now, addresses, left>>

\* The handshake runs with the timeout that the socket has from connect.
Connected ==
    /\ pc = "connect"
    /\ ~WouldBlock
    /\ IF tls THEN Call("handshake", limit) ELSE Call("send", SendLimit)
    /\ UNCHANGED <<config, now, addresses, left, resolved>>

\* urllib turns what its request() raises into URLError, an OSError.
TimedOut == IF transport = "raw" THEN "RequestTimeout" ELSE "ConnectionFailure"

\* An address that refuses, would block or times out; the error of the last one counts.
AddressFails ==
    /\ pc = "connect"
    /\ \E error \in {"ConnectionFailure"} \cup {e \in {TimedOut} : Struck} :
          IF left > 1 THEN Call("connect", limit) ELSE End(error)
    /\ left' = left - 1
    /\ UNCHANGED <<config, now, addresses, resolved>>

HandshakeDone ==
    /\ pc = "handshake"
    /\ Call("send", SendLimit)
    /\ UNCHANGED <<config, now, addresses, left, resolved>>

HandshakeFails ==
    /\ pc = "handshake"
    /\ \E error \in {"ConnectionFailure"} \cup {e \in {TimedOut} : Struck} : End(error)
    /\ UNCHANGED <<config, now, addresses, left, resolved>>

\* Mutant: the timeout is set for each recv, but nobody looks at the deadline.
Receive_NoDeadline == Call("recv", limit)

\* _FirstByteSocket.recv: the deadline if there is one; else the socket still has the read
\* timeout, and urllib's has its only one.
Receive ==
    IF transport = "raw" /\ total # None
    THEN IF Remaining <= 0 THEN End("RequestTimeout") ELSE Call("recv", Remaining)
    ELSE Call("recv", limit)

\* Even a socket that does not block may take the whole request.
Sent ==
    /\ pc = "send"
    /\ Receive
    /\ UNCHANGED <<config, now, addresses, left, resolved>>

SendFails ==
    /\ pc = "send"
    /\ \E error \in {"ConnectionFailure"} \cup {e \in {TimedOut} : Struck} : End(error)
    /\ UNCHANGED <<config, now, addresses, left, resolved>>

\* Bytes that do not complete the response, or a response that is informational.  (A recv that
\* must not block returns what has arrived already.)
Arrives ==
    /\ pc = "recv"
    /\ Receive
    /\ UNCHANGED <<config, now, addresses, left, resolved>>

Completes ==
    /\ pc = "recv"
    /\ IF transport = "raw" THEN End("Response") ELSE Call("body", limit)
    /\ UNCHANGED <<config, now, addresses, left, resolved>>

\* getresponse() is outside of what urllib wraps, but inside of the try of the transport.
Malformed == IF transport = "raw" THEN "ProtocolError" ELSE "HTTPException"

RecvFails ==
    /\ pc = "recv"
    /\ \E error \in {"ConnectionFailure", Malformed} \cup {e \in {"RequestTimeout"} : Struck} :
          End(error)
    /\ UNCHANGED <<config, now, addresses, left, resolved>>

BodyArrives ==
    /\ pc = "body"
    /\ Call("body", limit)
    /\ UNCHANGED <<config, now, addresses, left, resolved>>

\* raw_response.read() is outside of that try as well.
BodyEnds ==
    /\ pc = "body"
    /\ \E how \in {"Response", "OSError", "HTTPException"} \cup {e \in {"TimeoutError"} : Struck} : End(how)
    /\ UNCHANGED <<config, now, addresses, left, resolved>>

Peer ==
    \/ Preflight
    \/ Resolve \/ DnsFails
    \/ Connected \/ AddressFails
    \/ HandshakeDone \/ HandshakeFails
    \/ Sent \/ SendFails
    \/ Arrives \/ Completes \/ RecvFails
    \/ BodyArrives \/ BodyEnds

Next == Tick \/ Peer

(***************************************************************************)
(* Time passes, a name server answers or gives up, and the kernel does not *)
(* sleep through a timeout.  Nothing is assumed of the HTTP server.        *)
(***************************************************************************)
Strikes == (Struck \/ WouldBlock) /\ (AddressFails \/ HandshakeFails \/ SendFails \/ RecvFails \/ BodyEnds)

Fairness ==
    /\ WF_vars(Tick)
    /\ WF_vars(Preflight)
    /\ WF_vars(Resolve \/ DnsFails)
    /\ WF_vars(Strikes)

Spec == Init /\ [][Next]_vars /\ Fairness
-----------------------------------------------------------------------------
(***************************************************************************)
(* With a total timeout the raw transport returns a response in time or    *)
(* not at all, however long it took to get a connection.                   *)
(***************************************************************************)
Expired == transport = "raw" /\ total # None /\ now > total

NoLateResponse == Expired => outcome # "Response"

(***************************************************************************)
(* What a hard deadline would mean: apart from the name server, which      *)
(* nothing interrupts, the raw transport waits for nobody past the total.  *)
(* It does not hold: each address, and then the handshake, may take what   *)
(* remained when the name server had answered.  The run deadline_hard      *)
(* finds it violated.                                                      *)
(***************************************************************************)
HardDeadline == Expired /\ resolved <= total /\ pc # "dns" => pc = "done"

(***************************************************************************)
(* How late the code may really be, which is what is left of that          *)
(* deadline: the time of the name server and one such wait for each        *)
(* address and for the handshake.  Once connected nothing waits past it.   *)
(***************************************************************************)
Overrun ==
    LET each == Min2(connect, Max2(0, total - resolved)) IN
    resolved + (addresses + IF tls THEN 1 ELSE 0) * each

DeadlineHolds == Expired /\ pc # "dns" => now <= Overrun

(***************************************************************************)
(* With a total timeout the raw transport ends, whatever the server sends, *)
(* informational responses without an end included.                        *)
(***************************************************************************)
CallEnds == (transport = "raw" /\ total # None) ~> (pc = "done")

\* The read timeout bounds each read.  It does not hold where there is a total timeout, see
\* section 4 of the README.
ReadTimeoutHolds == transport = "raw" /\ pc = "recv" => waited <= read

===============================================================================
