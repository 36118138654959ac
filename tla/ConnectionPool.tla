--------------------------- MODULE ConnectionPool ---------------------------
(***************************************************************************)
(* transport/pool.py: the idle connection pool of one ApiClient, shared by *)
(* the worker threads of fetch_many.                                       *)
(*                                                                         *)
(* acquire, release and close hold one lock from their first statement to  *)
(* their last, so each is one action.  acquire reads the clock and peeks   *)
(* once per entry while the peers and the clock go on; that is still one   *)
(* action because a rejection is stable (an expired entry stays expired, a *)
(* socket with bytes or an EOF pending keeps it until somebody reads), so  *)
(* every rejection can be moved to the instant of the last age check.      *)
(*                                                                         *)
(* The callers are abstract: lent[o] holds the sockets that callers of     *)
(* origin o have in hand.  RawSocketTransport puts the real callers there. *)
(***************************************************************************)
EXTENDS Naturals, Sequences

CONSTANTS
    Origins,         \* the pool keys (scheme, host, port)
    TlsOrigins,      \* the keys whose scheme is https
    Socks,           \* socket objects; the run's bound on connections opened
    MaxPerHost,
    MaxIdleSeconds,
    MaxTime          \* bound of the run on the clock

\* __init__ raises ValueError unless both limits are positive.
ASSUME PoolAssumption ==
    /\ TlsOrigins \subseteq Origins
    /\ MaxPerHost \in Nat \ {0}
    /\ MaxIdleSeconds \in Nat \ {0}
    /\ MaxTime \in Nat

VARIABLES
    idle,    \* _idle: per key, the deque of entries, oldest release first
    fd,      \* descriptor of each socket object
    quiet,   \* a peek of the socket would block: no byte and no EOF pending
    lent,    \* sockets in a caller's hands, per key
    now      \* monotonic()

poolVars == <<idle, fd, quiet, lent, now>>

Entry == [sock : Socks, returnedAt : Nat]

TypeOK ==
    /\ idle \in [Origins -> Seq(Entry)]
    /\ fd \in [Socks -> {"unused", "open", "closed"}]
    /\ quiet \in [Socks -> BOOLEAN]
    /\ lent \in [Origins -> SUBSET Socks]
    /\ now \in Nat

Init ==
    /\ idle = [o \in Origins |-> <<>>]
    /\ fd = [s \in Socks |-> "unused"]
    /\ quiet = [s \in Socks |-> TRUE]
    /\ lent = [o \in Origins |-> {}]
    /\ now = 0

-----------------------------------------------------------------------------

Slots(o) == 1 .. Len(idle[o])

IdleSocks(o) == {idle[o][i].sock : i \in Slots(o)}

\* _safe_close on every socket of S.
SafeClose(S) == fd' = [s \in Socks |-> IF s \in S THEN "closed" ELSE fd[s]]

Expired(e) == now - e.returnedAt > MaxIdleSeconds

\* Mutant: acquire without _looks_alive.
Rejected_NoPeek(o, e) == Expired(e)

(***************************************************************************)
(* The two reasons for which acquire closes an entry and goes on.  Only a  *)
(* plain socket can be rejected by the peek: on an SSLSocket               *)
(* recv(1, MSG_PEEK) raises ValueError, which _looks_alive does not catch. *)
(***************************************************************************)
Rejected(o, e) == Expired(e) \/ (o \notin TlsOrigins /\ ~quiet[e.sock])

FirstKept(o, k) ==
    /\ ~Rejected(o, idle[o][k])
    /\ \A i \in 1 .. (k - 1) : Rejected(o, idle[o][i])

\* Mutant: the entry is looked at (bucket[0]) and not popped.
PopThrough_Peek(o, k) ==
    /\ idle' = [idle EXCEPT ![o] = SubSeq(@, k, Len(@))]
    /\ SafeClose({idle[o][i].sock : i \in 1 .. (k - 1)})

\* Entries 1 .. k leave the bucket; those before k are closed.
PopThrough(o, k) ==
    /\ idle' = [idle EXCEPT ![o] = SubSeq(@, k + 1, Len(@))]
    /\ SafeClose({idle[o][i].sock : i \in 1 .. (k - 1)})

\* acquire returns the first entry that is neither too old nor readable.
AcquireHit(o, k) ==
    /\ o \notin TlsOrigins
    /\ FirstKept(o, k)
    /\ PopThrough(o, k)
    /\ lent' = [lent EXCEPT ![o] = @ \cup {idle[o][k].sock}]
    /\ UNCHANGED <<quiet, now>>

\* acquire returns None: no bucket, an empty one, or every entry rejected.
AcquireMiss(o) ==
    /\ \A i \in Slots(o) : Rejected(o, idle[o][i])
    /\ PopThrough(o, Len(idle[o]) + 1)
    /\ UNCHANGED <<quiet, lent, now>>

\* acquire leaves with the ValueError of the peek: the entry is popped, and the
\* socket is neither closed nor returned.
AcquireRaises(o, k) ==
    /\ o \in TlsOrigins
    /\ FirstKept(o, k)
    /\ PopThrough(o, k)
    /\ UNCHANGED <<quiet, lent, now>>

\* What the mutants of release share with it.
GiveUp(o, s) ==
    /\ s \in lent[o]
    /\ lent' = [lent EXCEPT ![o] = @ \ {s}]
    /\ UNCHANGED <<quiet, now>>

NewEntryOf(s) == [sock |-> s, returnedAt |-> now]

\* Mutant: the socket is queued without its _Entry.
Release_NoEntry(o, s) ==
    /\ GiveUp(o, s)
    /\ idle' = [idle EXCEPT ![o] = Append(@, s)]
    /\ UNCHANGED fd

\* Mutant: len(bucket) > max_per_host.
Release_OffByOne(o, s) ==
    LET full == Len(idle[o]) > MaxPerHost IN
    /\ GiveUp(o, s)
    /\ idle' = [idle EXCEPT ![o] = Append(IF full THEN Tail(@) ELSE @, NewEntryOf(s))]
    /\ SafeClose(IF full THEN {Head(idle[o]).sock} ELSE {})

\* Mutant: appendleft.
Release_Front(o, s) ==
    LET full == Len(idle[o]) >= MaxPerHost IN
    /\ GiveUp(o, s)
    /\ idle' = [idle EXCEPT ![o] = <<NewEntryOf(s)>> \o (IF full THEN Tail(@) ELSE @)]
    /\ SafeClose(IF full THEN {Head(idle[o]).sock} ELSE {})

\* Mutant: the newest entry is dropped and the oldest one is closed.
Release_WrongEnd(o, s) ==
    LET full == Len(idle[o]) >= MaxPerHost IN
    /\ GiveUp(o, s)
    /\ idle' = [idle EXCEPT ![o] =
                  Append(IF full THEN SubSeq(@, 1, Len(@) - 1) ELSE @, NewEntryOf(s))]
    /\ SafeClose(IF full THEN {Head(idle[o]).sock} ELSE {})

\* release: a full bucket loses its oldest entry first.
Release(o, s) ==
    LET entry == [sock |-> s, returnedAt |-> now]
        full  == Len(idle[o]) >= MaxPerHost
    IN  /\ s \in lent[o]
        /\ idle' = [idle EXCEPT ![o] = Append(IF full THEN Tail(@) ELSE @, entry)]
        /\ SafeClose(IF full THEN {Head(idle[o]).sock} ELSE {})
        /\ lent' = [lent EXCEPT ![o] = @ \ {s}]
        /\ UNCHANGED <<quiet, now>>

\* close: every idle socket is closed and every bucket dropped.  The pool keeps
\* no "closed" flag: a release that comes later pools its socket again.
Close ==
    /\ SafeClose(UNION {IdleSocks(o) : o \in Origins})
    /\ idle' = [o \in Origins |-> <<>>]
    /\ UNCHANGED <<quiet, lent, now>>

-----------------------------------------------------------------------------
(* The environment of the pool: its callers, the peers and the clock.      *)

\* A caller connects after a miss.
Open(o, s) ==
    /\ fd[s] = "unused"
    /\ fd' = [fd EXCEPT ![s] = "open"]
    /\ lent' = [lent EXCEPT ![o] = @ \cup {s}]
    /\ UNCHANGED <<idle, quiet, now>>

\* A caller closes the socket it has instead of giving it back.
Discard(o, s) ==
    /\ s \in lent[o]
    /\ fd' = [fd EXCEPT ![s] = "closed"]
    /\ lent' = [lent EXCEPT ![o] = @ \ {s}]
    /\ UNCHANGED <<idle, quiet, now>>

\* Bytes or an EOF arrive.
PeerSpeaks(s) ==
    /\ fd[s] = "open"
    /\ quiet[s]
    /\ quiet' = [quiet EXCEPT ![s] = FALSE]
    /\ UNCHANGED <<idle, fd, lent, now>>

\* A caller reads what is pending on its socket.
Drain(o, s) ==
    /\ s \in lent[o]
    /\ ~quiet[s]
    /\ quiet' = [quiet EXCEPT ![s] = TRUE]
    /\ UNCHANGED <<idle, fd, lent, now>>

Tick ==
    /\ now < MaxTime
    /\ now' = now + 1
    /\ UNCHANGED <<idle, fd, quiet, lent>>

Next ==
    \/ \E o \in Origins : AcquireMiss(o)
    \/ \E o \in Origins : \E k \in Slots(o) : AcquireHit(o, k)
    \/ \E o \in Origins : \E k \in Slots(o) : AcquireRaises(o, k)
    \/ \E o \in Origins : \E s \in Socks : Release(o, s)
    \/ Close
    \/ \E o \in Origins : \E s \in Socks : Open(o, s)
    \/ \E o \in Origins : \E s \in Socks : Discard(o, s)
    \/ \E s \in Socks : PeerSpeaks(s)
    \/ \E o \in Origins : \E s \in Socks : Drain(o, s)
    \/ Tick

Spec == Init /\ [][Next]_poolVars

-----------------------------------------------------------------------------
(***************************************************************************)
(* No two threads ever get the same connection: a socket is in at most one *)
(* place among all the slots of all the buckets and all the callers' hands.*)
(***************************************************************************)
SlotsDistinct ==
    \A o, p \in Origins : \A i \in Slots(o), j \in Slots(p) :
        idle[o][i].sock = idle[p][j].sock => o = p /\ i = j

IdleNotLent ==
    \A o, p \in Origins : IdleSocks(o) \cap lent[p] = {}

LentOnce ==
    \A o, p \in Origins : lent[o] \cap lent[p] # {} => o = p

Exclusive == SlotsDistinct /\ IdleNotLent /\ LentOnce

\* What is pooled or lent has an open descriptor: the pool never closes a socket
\* some thread is using, and never keeps one it has closed.
HeldIsOpen ==
    \A o \in Origins : \A s \in IdleSocks(o) \cup lent[o] : fd[s] = "open"

\* The bucket of a key never grows beyond max_per_host.
WithinCapacity == \A o \in Origins : Len(idle[o]) <= MaxPerHost

\* A bucket is sorted by release time, none of it in the future: what popleft
\* evicts is the entry nearest to its expiry.
AgeOrdered ==
    \A o \in Origins : \A i \in Slots(o) :
        /\ idle[o][i].returnedAt <= now
        /\ \A j \in 1 .. i : idle[o][j].returnedAt <= idle[o][i].returnedAt

\* acquire stops at the first usable entry, and yet leaves no expired entry
\* behind it in the bucket: this rests on the order of the bucket.
NothingExpiredBehindAHit ==
    [][\A o \in Origins :
         lent'[o] \cap IdleSocks(o) # {} =>
            \A i \in 1 .. Len(idle'[o]) :
                now - idle'[o][i].returnedAt <= MaxIdleSeconds]_poolVars

\* Every open socket is in a bucket or in a caller's hands: an entry that acquire
\* takes out of a bucket is either returned or closed.
NoSocketLost ==
    \A s \in Socks : fd[s] = "open" =>
        \E o \in Origins : s \in IdleSocks(o) \cup lent[o]

=============================================================================
