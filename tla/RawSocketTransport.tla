------------------------ MODULE RawSocketTransport ------------------------
(***************************************************************************)
(* transport/socket_transport.py: RawSocketTransport.send run by several   *)
(* worker threads over one ConnectionPool, and the servers at the other    *)
(* end of the sockets.                                                     *)
(*                                                                         *)
(* A call of send is a thread of its own (a retry is another call).  A     *)
(* message on the wire is one whole response, named after the request it   *)
(* answers; what read_response makes of one message is the parser's        *)
(* business, how the bytes on one connection reach the right call is the   *)
(* matter here.                                                            *)
(***************************************************************************)
EXTENDS Naturals, Sequences, FiniteSets

CONSTANTS
    Origins, TlsOrigins, Socks, MaxPerHost, MaxIdleSeconds, MaxTime,
    Calls,             \* the calls of send
    NoSock, NoCall,    \* "no socket", "no request"
    MaxStray,          \* bound of the run on unsolicited messages
    LateThreads        \* TRUE: close() may find sends still running

ASSUME TransportAssumption ==
    /\ TlsOrigins \subseteq Origins
    /\ MaxPerHost \in Nat \ {0}
    /\ MaxIdleSeconds \in Nat \ {0}
    /\ MaxTime \in Nat
    /\ NoSock \notin Socks
    /\ NoCall \notin Calls
    /\ MaxStray \in Nat
    /\ LateThreads \in BOOLEAN

VARIABLES
    idle, fd, now,     \* the pool and its descriptors
    pc,                \* where each call of send is
    sock,              \* its local variable sock
    result,            \* how it ended
    got,               \* the request its response was the answer to
    key,               \* the (scheme, host, port) of its URL; never changes
    outbox,            \* requests on the wire, per socket
    inbox,             \* bytes received and not read, as messages
    eof,               \* the server has closed its end
    hangup,            \* the server has announced that it will
    stray,             \* unsolicited messages so far
    closed             \* ApiClient.close() has run

wireVars == <<outbox, inbox, eof, hangup, stray>>
callVars == <<pc, sock, result, got, key>>
vars == <<idle, fd, now, callVars, wireVars, closed>>

\* TransportError stands for itself, RequestTimeout and ConnectionFailure: what the
\* retry loop catches.  OtherError is what it does not: ProtocolError, ValueError.
Results == {"none", "response", "TransportError", "OtherError"}

(***************************************************************************)
(* A response as the pooling decision sees it: "last" is one that          *)
(* _can_pool_response refuses (Connection says close or upgrade, or        *)
(* HTTP/1.0 without keep-alive), "untilClose" one it accepts though the    *)
(* body ends with the connection, "persistent" any other.                  *)
(***************************************************************************)
Message == [answers : Calls \cup {NoCall}, kind : {"persistent", "last", "untilClose"}]

Lent == [o \in Origins |->
           {sock[c] : c \in {d \in Calls : key[d] = o /\ sock[d] # NoSock}}]

Quiet == [s \in Socks |-> inbox[s] = <<>> /\ ~eof[s]]

Pool == INSTANCE ConnectionPool WITH lent <- Lent, quiet <- Quiet

TypeOK ==
    /\ Pool!TypeOK
    /\ pc \in [Calls -> {"start", "connect", "write", "read", "release", "close", "done"}]
    /\ sock \in [Calls -> Socks \cup {NoSock}]
    /\ result \in [Calls -> Results]
    /\ got \in [Calls -> Calls \cup {NoCall}]
    /\ key \in [Calls -> Origins]
    /\ outbox \in [Socks -> Seq(Calls)]
    /\ inbox \in [Socks -> Seq(Message)]
    /\ eof \in [Socks -> BOOLEAN]
    /\ hangup \in [Socks -> BOOLEAN]
    /\ stray \in 0 .. MaxStray
    /\ closed \in BOOLEAN

Init ==
    /\ idle = [o \in Origins |-> <<>>]
    /\ fd = [s \in Socks |-> "unused"]
    /\ now = 0
    /\ pc = [c \in Calls |-> "start"]
    /\ sock = [c \in Calls |-> NoSock]
    /\ result = [c \in Calls |-> "none"]
    /\ got = [c \in Calls |-> NoCall]
    /\ key \in [Calls -> Origins]
    /\ outbox = [s \in Socks |-> <<>>]
    /\ inbox = [s \in Socks |-> <<>>]
    /\ eof = [s \in Socks |-> FALSE]
    /\ hangup = [s \in Socks |-> FALSE]
    /\ stray = 0
    /\ closed = FALSE

-----------------------------------------------------------------------------

At(c, place) == pc[c] = place
GoTo(c, place) == pc' = [pc EXCEPT ![c] = place]

\* Nothing refuses a send on a closed client; a program that waits for its threads
\* before it closes makes none.
MayStart(c) == At(c, "start") /\ (LateThreads \/ ~closed)

\* _acquire_pooled_socket found a connection.
Reuse(c) ==
    \E k \in Pool!Slots(key[c]) :
        /\ MayStart(c)
        /\ GoTo(c, "write")
        /\ sock' = [sock EXCEPT ![c] = idle[key[c]][k].sock]
        /\ UNCHANGED <<result, got, key, wireVars, closed>>
        /\ Pool!AcquireHit(key[c], k)

\* The pool had none: getaddrinfo and _connect are next.
Miss(c) ==
    /\ MayStart(c)
    /\ GoTo(c, "connect")
    /\ UNCHANGED <<sock, result, got, key, wireVars, closed>>
    /\ Pool!AcquireMiss(key[c])

\* The peek of a pooled TLS socket raised; none of send's handlers is for
\* ValueError, and sock was never assigned.
PeekRaises(c) ==
    \E k \in Pool!Slots(key[c]) :
        /\ MayStart(c)
        /\ GoTo(c, "done")
        /\ result' = [result EXCEPT ![c] = "OtherError"]
        /\ UNCHANGED <<sock, got, key, wireVars, closed>>
        /\ Pool!AcquireRaises(key[c], k)

\* DNS, TCP connect and, for https, the handshake succeed.
Connect(c) ==
    \E s \in Socks :
        /\ At(c, "connect")
        /\ fd[s] = "unused"
        /\ GoTo(c, "write")
        /\ sock' = [sock EXCEPT ![c] = s]
        /\ fd' = [fd EXCEPT ![s] = "open"]
        /\ UNCHANGED <<idle, now, result, got, key, wireVars, closed>>

\* _serialize_request and sendall.  Writing to a peer that has closed may still
\* succeed: the reset comes later.
Write(c) ==
    /\ At(c, "write")
    /\ GoTo(c, "read")
    /\ outbox' = [outbox EXCEPT ![sock[c]] = IF eof[sock[c]] THEN @ ELSE Append(@, c)]
    /\ UNCHANGED <<idle, fd, now, sock, result, got, key, inbox, eof, hangup, stray, closed>>

\* Mutant: send without _can_pool_response.
Read_IgnoresClose(c) ==
    LET s == sock[c] IN
    /\ At(c, "read")
    /\ inbox[s] # <<>>
    /\ LET m == Head(inbox[s]) IN
       \E n \in 1 .. Len(inbox[s]), asked \in BOOLEAN :
          /\ m.kind = "untilClose" => eof[s] /\ n = Len(inbox[s])
          /\ GoTo(c, IF asked THEN "release" ELSE "close")
          /\ got' = [got EXCEPT ![c] = m.answers]
          /\ inbox' = [inbox EXCEPT ![s] = SubSeq(@, n + 1, Len(@))]
    /\ UNCHANGED <<idle, fd, now, sock, result, key, outbox, eof, hangup, stray, closed>>

(***************************************************************************)
(* read_response takes the first message.  Its socket wrapper asks for     *)
(* 4096 bytes at a time and what comes after the message in the same read  *)
(* is dropped with the wrapper, so any number n of further messages may go *)
(* with it.  A body that is framed by the end of the connection takes      *)
(* everything and needs the EOF.  asked is keep_alive_requested.           *)
(***************************************************************************)
Read(c) ==
    LET s == sock[c] IN
    /\ At(c, "read")
    /\ inbox[s] # <<>>
    /\ LET m == Head(inbox[s]) IN
       \E n \in 1 .. Len(inbox[s]), asked \in BOOLEAN :
          /\ m.kind = "untilClose" => eof[s] /\ n = Len(inbox[s])
          /\ GoTo(c, IF asked /\ m.kind # "last" THEN "release" ELSE "close")
          /\ got' = [got EXCEPT ![c] = m.answers]
          /\ inbox' = [inbox EXCEPT ![s] = SubSeq(@, n + 1, Len(@))]
    /\ UNCHANGED <<idle, fd, now, sock, result, key, outbox, eof, hangup, stray, closed>>

\* The end of the try block: the socket goes back to the pool and sock = None.
GiveBack(c) ==
    /\ At(c, "release")
    /\ GoTo(c, "done")
    /\ sock' = [sock EXCEPT ![c] = NoSock]
    /\ result' = [result EXCEPT ![c] = "response"]
    /\ UNCHANGED <<got, key, wireVars, closed>>
    /\ Pool!Release(key[c], sock[c])

\* Mutant: no finally.
Finish_NoClose(c, outcome) ==
    /\ GoTo(c, "done")
    /\ result' = [result EXCEPT ![c] = outcome]
    /\ sock' = [sock EXCEPT ![c] = NoSock]
    /\ UNCHANGED <<idle, fd, now, got, key, wireVars, closed>>

\* finally: a call that still has its socket closes it.
Finish(c, outcome) ==
    /\ GoTo(c, "done")
    /\ result' = [result EXCEPT ![c] = outcome]
    /\ sock' = [sock EXCEPT ![c] = NoSock]
    /\ fd' = [s \in Socks |-> IF s = sock[c] THEN "closed" ELSE fd[s]]
    /\ UNCHANGED <<idle, now, got, key, wireVars, closed>>

HangUp(c) ==
    /\ At(c, "close")
    /\ Finish(c, "response")

\* TimeoutError, ssl.SSLError and OSError, from the lookup to the last recv;
\* CR or LF in a header; no usable address.
Fail(c) ==
    /\ pc[c] \in {"connect", "write", "read"}
    /\ Finish(c, "TransportError")

\* A host or a header that cannot be encoded; bytes that read_response cannot parse,
\* or the end of the connection before the end of the message.
Garbled(c) ==
    /\ \/ pc[c] \in {"connect", "write"}
       \/ At(c, "read") /\ (inbox[sock[c]] # <<>> \/ eof[sock[c]])
    /\ Finish(c, "OtherError")

\* ApiClient.close(), at the end of the with block.
CloseClient ==
    /\ ~closed
    /\ LateThreads \/ \A c \in Calls : pc[c] \in {"start", "done"}
    /\ closed' = TRUE
    /\ UNCHANGED <<callVars, wireVars>>
    /\ Pool!Close

-----------------------------------------------------------------------------
(* The servers and the clock. *)

\* The oldest request on a connection is answered, unless the previous answer
\* said that it was the last.
Answer(s) ==
    /\ fd[s] = "open" /\ ~eof[s] /\ ~hangup[s]
    /\ outbox[s] # <<>>
    /\ \E m \in Message :
         /\ m.answers = Head(outbox[s])
         /\ inbox' = [inbox EXCEPT ![s] = Append(@, m)]
         /\ hangup' = [hangup EXCEPT ![s] = m.kind # "persistent"]
    /\ outbox' = [outbox EXCEPT ![s] = Tail(@)]
    /\ UNCHANGED <<idle, fd, now, callVars, eof, stray, closed>>

ServerClose(s) ==
    /\ fd[s] = "open" /\ ~eof[s]
    /\ eof' = [eof EXCEPT ![s] = TRUE]
    /\ UNCHANGED <<idle, fd, now, callVars, outbox, inbox, hangup, stray, closed>>

\* Unsolicited bytes (a 408 before the server gives up an idle connection), while
\* no call has the socket: HTTP/1.1 itself cannot tell them from the answer to a
\* request that is already on its way.
Stray(s) ==
    /\ fd[s] = "open" /\ ~eof[s]
    /\ stray < MaxStray
    /\ \A c \in Calls : sock[c] # s
    /\ stray' = stray + 1
    /\ inbox' = [inbox EXCEPT ![s] = Append(@, [answers |-> NoCall, kind |-> "persistent"])]
    /\ UNCHANGED <<idle, fd, now, callVars, outbox, eof, hangup, closed>>

Tick ==
    /\ now < MaxTime
    /\ now' = now + 1
    /\ UNCHANGED <<idle, fd, callVars, wireVars, closed>>

Next ==
    \/ \E c \in Calls : Reuse(c)
    \/ \E c \in Calls : Miss(c)
    \/ \E c \in Calls : PeekRaises(c)
    \/ \E c \in Calls : Connect(c)
    \/ \E c \in Calls : Write(c)
    \/ \E c \in Calls : Read(c)
    \/ \E c \in Calls : GiveBack(c)
    \/ \E c \in Calls : HangUp(c)
    \/ \E c \in Calls : Fail(c)
    \/ \E c \in Calls : Garbled(c)
    \/ CloseClient
    \/ \E s \in Socks : Answer(s)
    \/ \E s \in Socks : ServerClose(s)
    \/ \E s \in Socks : Stray(s)
    \/ Tick

Spec == Init /\ [][Next]_vars

-----------------------------------------------------------------------------
(***************************************************************************)
(* Every caller gets the answer to its own request: not the late answer to *)
(* a request that timed out, nor bytes that came while the connection was  *)
(* idle, nor the answer to another thread's request.                       *)
(***************************************************************************)
NoCrossTalk == \A c \in Calls : result[c] = "response" => got[c] = c

\* The code keeps no connection that its server has announced to close: such a
\* socket is never handed to a request that could not be answered on it.  (A body
\* framed by the end of the connection is that announcement too; the code does not
\* heed it, and pools the socket when the connection is already at its end.)
KeepsNoAnnouncedHangup ==
    \A o \in Origins : \A i \in Pool!Slots(o) :
        LET s == idle[o][i].sock IN hangup[s] => eof[s]

\* Threads and servers use the pool only as its specification foresees, and what
\* the pool promises holds of their interleavings.
PoolIsUsedCorrectly == Pool!Spec

\* When the client is closed and no send is running, no descriptor is left open,
\* but for those that the peek of a TLS socket lost, one for each call it failed.
NothingOpenAfterClose ==
    closed /\ (\A c \in Calls : pc[c] \in {"start", "done"}) =>
        Cardinality({s \in Socks : fd[s] = "open"}) <=
            Cardinality({c \in Calls : key[c] \in TlsOrigins /\ result[c] = "OtherError"})

=============================================================================
