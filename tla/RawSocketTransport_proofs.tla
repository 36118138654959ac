---------------------- MODULE RawSocketTransport_proofs ----------------------
(***************************************************************************)
(* The transport implements the pool's specification, for any number of    *)
(* calls, sockets and origins; with the pool's own theorems this gives     *)
(* that the answers on the wire reach the calls they belong to, and that   *)
(* closing the client leaves nothing open.                                 *)
(***************************************************************************)
EXTENDS RawSocketTransport, SequenceTheorems, FiniteSetTheorems, TLAPS

\* The theorems about the pool, under the mapping that Pool has.
PoolFacts == INSTANCE ConnectionPool_proofs WITH lent <- Lent, quiet <- Quiet

PoolInv ==
    /\ Pool!TypeOK
    /\ Pool!Exclusive
    /\ Pool!HeldIsOpen
    /\ Pool!WithinCapacity
    /\ Pool!AgeOrdered

HasSock == {"write", "read", "release", "close"}

\* A call has a socket exactly between acquire or connect and the end, and one of its own.
Owns ==
    /\ \A c \in Calls : sock[c] # NoSock <=> pc[c] \in HasSock
    /\ \A c, d \in Calls : sock[c] = sock[d] /\ sock[c] # NoSock => c = d

\* Nothing has been sent on a socket that is not connected, nor received from it.
FreshWire ==
    \A s \in Socks : fd[s] = "unused" => outbox[s] = <<>> /\ inbox[s] = <<>> /\ ~hangup[s]

\* Nobody is owed an answer on a pooled connection.
IdleWire ==
    \A o \in Origins : \A s \in Pool!IdleSocks(o) : outbox[s] = <<>> /\ (hangup[s] => eof[s])

\* A request is written to a wire without anything on it.
ReadyToWrite(c) ==
    pc[c] = "write" => outbox[sock[c]] = <<>> /\ inbox[sock[c]] = <<>> /\ ~hangup[sock[c]]

\* While a call waits there is at most its request on the wire, or the answer to it.
Awaiting(c) ==
    \/ outbox[sock[c]] \in {<<>>, <<c>>} /\ inbox[sock[c]] = <<>> /\ ~hangup[sock[c]]
    \/ /\ outbox[sock[c]] = <<>>
       /\ \E m \in Message :
             /\ inbox[sock[c]] = <<m>>
             /\ m.answers = c
             /\ m.kind = "persistent" => ~hangup[sock[c]]

ReadyToGiveBack(c) ==
    pc[c] = "release" => outbox[sock[c]] = <<>> /\ (hangup[sock[c]] => eof[sock[c]])

CallGood(c) ==
    /\ ReadyToWrite(c)
    /\ pc[c] = "read" => Awaiting(c)
    /\ ReadyToGiveBack(c)
    /\ pc[c] \in {"release", "close"} \/ result[c] = "response" => got[c] = c
    /\ result[c] # "none" => pc[c] = "done"

CallWire == \A c \in Calls : CallGood(c)

IInv == TypeOK /\ PoolInv /\ Owns /\ FreshWire /\ IdleWire /\ CallWire

-----------------------------------------------------------------------------
(* The pool's theorems, in the names of the transport. *)

\* What a call may do to the pool without losing a socket.
Lossless ==
    \/ \E o \in Origins : Pool!AcquireMiss(o)
    \/ \E o \in Origins : \E k \in Pool!Slots(o) : Pool!AcquireHit(o, k)
    \/ \E o \in Origins : \E s \in Socks : Pool!Release(o, s)
    \/ Pool!Close
    \/ \E o \in Origins : \E s \in Socks : Pool!Open(o, s)
    \/ \E o \in Origins : \E s \in Socks : Pool!Discard(o, s)
    \/ \E s \in Socks : Pool!PeerSpeaks(s)
    \/ \E o \in Origins : \E s \in Socks : Pool!Drain(o, s)
    \/ Pool!Tick

LEMMA SamePool ==
    /\ Pool!Init <=> PoolFacts!Init
    /\ Pool!Next <=> PoolFacts!Next
    /\ Lossless <=> PoolFacts!Lossless
    /\ Pool!poolVars = PoolFacts!poolVars
    /\ PoolInv <=> PoolFacts!IInv
    /\ \A o \in Origins : Pool!IdleSocks(o) = PoolFacts!IdleSocks(o)
    /\ \A o \in Origins : Pool!Slots(o) = PoolFacts!Slots(o)
<1>1. Pool!Init <=> PoolFacts!Init
  BY DEF Pool!Init, PoolFacts!Init
<1>2. Pool!Next <=> PoolFacts!Next
  BY DEF Pool!Next, PoolFacts!Next,
      Pool!Slots, PoolFacts!Slots,
      Pool!IdleSocks, PoolFacts!IdleSocks,
      Pool!SafeClose, PoolFacts!SafeClose,
      Pool!Expired, PoolFacts!Expired,
      Pool!Rejected, PoolFacts!Rejected,
      Pool!FirstKept, PoolFacts!FirstKept,
      Pool!PopThrough, PoolFacts!PopThrough,
      Pool!AcquireHit, PoolFacts!AcquireHit,
      Pool!AcquireMiss, PoolFacts!AcquireMiss,
      Pool!AcquireRaises, PoolFacts!AcquireRaises,
      Pool!Release, PoolFacts!Release,
      Pool!Close, PoolFacts!Close,
      Pool!Open, PoolFacts!Open,
      Pool!Discard, PoolFacts!Discard,
      Pool!PeerSpeaks, PoolFacts!PeerSpeaks,
      Pool!Drain, PoolFacts!Drain,
      Pool!Tick, PoolFacts!Tick
<1>4. Lossless <=> PoolFacts!Lossless
  BY DEF Lossless, PoolFacts!Lossless, Pool!Slots, PoolFacts!Slots,
      Pool!IdleSocks, PoolFacts!IdleSocks,
      Pool!SafeClose, PoolFacts!SafeClose,
      Pool!Expired, PoolFacts!Expired,
      Pool!Rejected, PoolFacts!Rejected,
      Pool!FirstKept, PoolFacts!FirstKept,
      Pool!PopThrough, PoolFacts!PopThrough,
      Pool!AcquireHit, PoolFacts!AcquireHit,
      Pool!AcquireMiss, PoolFacts!AcquireMiss,
      Pool!Release, PoolFacts!Release,
      Pool!Close, PoolFacts!Close,
      Pool!Open, PoolFacts!Open,
      Pool!Discard, PoolFacts!Discard,
      Pool!PeerSpeaks, PoolFacts!PeerSpeaks,
      Pool!Drain, PoolFacts!Drain,
      Pool!Tick, PoolFacts!Tick
<1>3. PoolInv <=> PoolFacts!IInv
  BY DEF PoolInv, PoolFacts!IInv,
      Pool!TypeOK, PoolFacts!TypeOK,
      Pool!Exclusive, PoolFacts!Exclusive,
      Pool!HeldIsOpen, PoolFacts!HeldIsOpen,
      Pool!WithinCapacity, PoolFacts!WithinCapacity,
      Pool!AgeOrdered, PoolFacts!AgeOrdered,
      Pool!SlotsDistinct, PoolFacts!SlotsDistinct,
      Pool!IdleNotLent, PoolFacts!IdleNotLent,
      Pool!LentOnce, PoolFacts!LentOnce,
      Pool!Entry, PoolFacts!Entry,
      Pool!Slots, PoolFacts!Slots,
      Pool!IdleSocks, PoolFacts!IdleSocks
<1> QED
  BY <1>1, <1>2, <1>3, <1>4
  DEF Pool!poolVars, PoolFacts!poolVars,
      Pool!IdleSocks, PoolFacts!IdleSocks,
      Pool!Slots, PoolFacts!Slots

LEMMA PoolInitially == Pool!Init => PoolInv
BY SamePool, PoolFacts!InitInv, TransportAssumption DEF PoolFacts!PoolAssumption

LEMMA PoolStep ==
    ASSUME PoolInv, [Pool!Next]_Pool!poolVars
    PROVE  PoolInv'
<1>1. PoolFacts!IInv'
  <2>1. [PoolFacts!Next]_PoolFacts!poolVars
    BY SamePool DEF Pool!poolVars, PoolFacts!poolVars
  <2>2. PoolFacts!IInv
    BY SamePool
  <2> QED
    BY <2>1, <2>2, PoolFacts!NextInv, TransportAssumption DEF PoolFacts!PoolAssumption
<1>2. PoolInv' <=> PoolFacts!IInv'
  BY SamePool, PTL
<1> QED BY <1>1, <1>2

LEMMA OnlyReleasePools ==
    ASSUME PoolInv, [Pool!Next]_Pool!poolVars,
           NEW o \in Origins, NEW s \in Pool!IdleSocks(o)', s \notin Pool!IdleSocks(o)
    PROVE  Pool!Release(o, s)
<1>1. [PoolFacts!Next]_PoolFacts!poolVars
  BY SamePool DEF Pool!poolVars, PoolFacts!poolVars
<1>2. s \in PoolFacts!IdleSocks(o)' /\ s \notin PoolFacts!IdleSocks(o)
  BY DEF Pool!IdleSocks, PoolFacts!IdleSocks,
          Pool!Slots, PoolFacts!Slots
<1>3. PoolFacts!Release(o, s)
  BY <1>1, <1>2, SamePool, PoolFacts!OnlyReleasePools, TransportAssumption
  DEF PoolFacts!PoolAssumption
<1> QED
  BY <1>3 DEF Pool!Release, PoolFacts!Release,
          Pool!SafeClose, PoolFacts!SafeClose

LEMMA HitIsIdleAndQuiet ==
    ASSUME PoolInv, NEW o \in Origins, NEW k \in Pool!Slots(o), Pool!AcquireHit(o, k)
    PROVE  /\ idle[o][k].sock \in Pool!IdleSocks(o) \cap Socks
           /\ Quiet[idle[o][k].sock]
<1>1. PoolFacts!AcquireHit(o, k) /\ k \in PoolFacts!Slots(o)
  BY DEF Pool!AcquireHit, PoolFacts!AcquireHit,
          Pool!FirstKept, PoolFacts!FirstKept,
          Pool!Rejected, PoolFacts!Rejected,
          Pool!Expired, PoolFacts!Expired,
          Pool!PopThrough, PoolFacts!PopThrough,
          Pool!SafeClose, PoolFacts!SafeClose,
          Pool!Slots, PoolFacts!Slots
<1>2. idle[o][k].sock \in PoolFacts!IdleSocks(o) \cap Socks /\ Quiet[idle[o][k].sock]
  BY <1>1, SamePool, PoolFacts!HitIsIdleAndQuiet, TransportAssumption DEF PoolFacts!PoolAssumption
<1> QED
  BY <1>2 DEF Pool!IdleSocks, PoolFacts!IdleSocks,
          Pool!Slots, PoolFacts!Slots

-----------------------------------------------------------------------------
(* What the pool lends is what the calls have. *)

LEMMA LentAfterTaking ==
    ASSUME TypeOK, NEW c \in Calls, NEW s \in Socks, sock[c] = NoSock,
           sock' = [sock EXCEPT ![c] = s], key' = key
    PROVE  Lent' = [Lent EXCEPT ![key[c]] = @ \cup {s}]
<1>1. key[c] \in Origins /\ s # NoSock
  BY TransportAssumption DEF TypeOK
<1>2. \A d \in Calls : sock'[d] = IF d = c THEN s ELSE sock[d]
  BY DEF TypeOK
<1>3. ASSUME NEW o \in Origins
      PROVE  Lent'[o] = IF o = key[c] THEN Lent[o] \cup {s} ELSE Lent[o]
  BY <1>1, <1>2 DEF Lent
<1> QED BY <1>1, <1>3 DEF Lent

LEMMA LentAfterReturning ==
    ASSUME TypeOK, Owns, NEW c \in Calls, sock[c] # NoSock,
           sock' = [sock EXCEPT ![c] = NoSock], key' = key
    PROVE  Lent' = [Lent EXCEPT ![key[c]] = @ \ {sock[c]}]
<1>1. key[c] \in Origins
  BY DEF TypeOK
<1>2. \A d \in Calls : sock'[d] = IF d = c THEN NoSock ELSE sock[d]
  BY DEF TypeOK
<1>3. ASSUME NEW o \in Origins
      PROVE  Lent'[o] = IF o = key[c] THEN Lent[o] \ {sock[c]} ELSE Lent[o]
  BY <1>1, <1>2 DEF Lent, Owns
<1> QED BY <1>1, <1>3 DEF Lent

LEMMA OwnerHoldsIt ==
    ASSUME TypeOK, PoolInv, NEW c \in Calls, sock[c] # NoSock
    PROVE  /\ key[c] \in Origins /\ sock[c] \in Socks
           /\ sock[c] \in Lent[key[c]]
           /\ fd[sock[c]] = "open"
           /\ \A o \in Origins : sock[c] \notin Pool!IdleSocks(o)
<1>1. key[c] \in Origins /\ sock[c] \in Socks /\ sock[c] \in Lent[key[c]]
  BY DEF TypeOK, Lent
<1> QED
  BY <1>1 DEF PoolInv, Pool!Exclusive, Pool!IdleNotLent, Pool!HeldIsOpen

-----------------------------------------------------------------------------
(***************************************************************************)
(* Refinement, step by step: what a call does to the pool is an operation  *)
(* of the pool or of its environment, or nothing.                          *)
(***************************************************************************)
LEMMA FinishMaps ==
    ASSUME TypeOK, PoolInv, Owns, NEW c \in Calls, NEW outcome, Finish(c, outcome)
    PROVE  [Lossless]_Pool!poolVars
<1>1. Quiet' = Quiet
  BY DEF Finish, wireVars, Quiet
<1>2. CASE sock[c] = NoSock
  <2>1. fd' = fd /\ sock' = sock
    BY <1>2, TransportAssumption DEF Finish, TypeOK, Pool!TypeOK
  <2>2. Lent' = Lent
    BY <2>1 DEF Lent, Finish
  <2> QED BY <1>1, <2>1, <2>2 DEF Finish, Pool!poolVars
<1>3. CASE sock[c] # NoSock
  <2>1. Lent' = [Lent EXCEPT ![key[c]] = @ \ {sock[c]}]
    BY <1>3, LentAfterReturning DEF Finish
  <2>2. fd' = [fd EXCEPT ![sock[c]] = "closed"]
    BY DEF Finish, TypeOK, Pool!TypeOK
  <2>3. Pool!Discard(key[c], sock[c])
    BY <1>1, <1>3, <2>1, <2>2, OwnerHoldsIt DEF Finish, Pool!Discard
  <2> QED BY <1>3, <2>3, OwnerHoldsIt DEF Lossless
<1> QED BY <1>2, <1>3

\* Bytes that arrive or are read on one socket.
LEMMA WireMaps ==
    ASSUME TypeOK, NEW s \in Socks, UNCHANGED <<idle, fd, now, sock, key>>,
           \A t \in Socks \ {s} : inbox'[t] = inbox[t] /\ eof'[t] = eof[t],
           Quiet'[s] = Quiet[s] \/ (Quiet[s] /\ fd[s] = "open")
              \/ (~Quiet[s] /\ \E c \in Calls : sock[c] = s)
    PROVE  [Lossless]_Pool!poolVars
<1>1. Lent' = Lent
  BY DEF Lent
<1>2. Quiet' = [Quiet EXCEPT ![s] = Quiet'[s]] /\ Quiet'[s] \in BOOLEAN /\ Quiet[s] \in BOOLEAN
  BY DEF Quiet
<1>3. CASE Quiet'[s] = Quiet[s]
  <2>1. Quiet' = Quiet
    BY <1>2, <1>3 DEF Quiet
  <2> QED BY <1>1, <2>1 DEF Pool!poolVars
<1>4. CASE Quiet[s] /\ ~Quiet'[s] /\ fd[s] = "open"
  <2>1. Quiet' = [Quiet EXCEPT ![s] = FALSE]
    BY <1>2, <1>4
  <2> QED BY <1>1, <1>4, <2>1 DEF Pool!PeerSpeaks, Lossless
<1>5. CASE ~Quiet[s] /\ Quiet'[s] /\ \E c \in Calls : sock[c] = s
  <2>1. Quiet' = [Quiet EXCEPT ![s] = TRUE]
    BY <1>2, <1>5
  <2>2. \E o \in Origins : s \in Lent[o]
    BY <1>5, TransportAssumption DEF Lent, TypeOK
  <2> QED BY <1>1, <1>5, <2>1, <2>2 DEF Pool!Drain, Lossless
<1> QED BY <1>2, <1>3, <1>4, <1>5

LEMMA StepLosesNothing ==
    ASSUME IInv, Next, \A c \in Calls : ~PeekRaises(c)
    PROVE  [Lossless]_Pool!poolVars
<1>0. TypeOK /\ PoolInv /\ Owns /\ CallWire
  BY DEF IInv
<1>1. ASSUME NEW c \in Calls, Reuse(c) \/ Miss(c) \/ GiveBack(c)
      PROVE  Lossless
  <2>1. key[c] \in Origins
    BY <1>0 DEF TypeOK
  <2>2. GiveBack(c) => sock[c] \in Socks
    BY <1>0, OwnerHoldsIt DEF GiveBack, At, Owns, HasSock
  <2> QED BY <1>1, <2>1, <2>2 DEF Reuse, Miss, GiveBack, Lossless
<1>2. ASSUME NEW c \in Calls, Connect(c)
      PROVE  Lossless
  <2>1. PICK s \in Socks : /\ fd[s] = "unused" /\ fd' = [fd EXCEPT ![s] = "open"]
                           /\ sock' = [sock EXCEPT ![c] = s] /\ pc[c] = "connect"
                           /\ UNCHANGED <<idle, now, key, wireVars>>
    BY <1>2 DEF Connect, At
  <2>2. key[c] \in Origins /\ sock[c] = NoSock
    BY <1>0, <2>1 DEF TypeOK, Owns, HasSock
  <2>3. Quiet' = Quiet
    BY <2>1 DEF Quiet, wireVars
  <2>4. Lent' = [Lent EXCEPT ![key[c]] = @ \cup {s}]
    BY <1>0, <2>1, <2>2, LentAfterTaking
  <2> QED BY <2>1, <2>2, <2>3, <2>4 DEF Pool!Open, Lossless
<1>3. ASSUME NEW c \in Calls, Write(c)
      PROVE  UNCHANGED Pool!poolVars
  BY <1>3 DEF Write, Pool!poolVars, Lent, Quiet
<1>4. ASSUME NEW c \in Calls, Read(c)
      PROVE  [Lossless]_Pool!poolVars
  <2>1. sock[c] \in Socks
    BY <1>0, <1>4, OwnerHoldsIt DEF Read, At, Owns, HasSock
  <2>2. ~Quiet[sock[c]] /\ \A t \in Socks \ {sock[c]} : inbox'[t] = inbox[t]
    BY <1>0, <1>4, <2>1 DEF Read, Quiet, TypeOK
  <2>3. UNCHANGED <<idle, fd, now, sock, key, eof>>
    BY <1>4 DEF Read
  <2> QED BY <1>0, <2>1, <2>2, <2>3, WireMaps DEF Quiet
<1>5. ASSUME NEW c \in Calls, HangUp(c) \/ Fail(c) \/ Garbled(c)
      PROVE  [Lossless]_Pool!poolVars
  BY <1>0, <1>5, FinishMaps DEF HangUp, Fail, Garbled
<1>6. CASE CloseClient
  BY <1>6 DEF CloseClient, Lossless
<1>7. ASSUME NEW s \in Socks, Answer(s) \/ ServerClose(s) \/ Stray(s)
      PROVE  [Lossless]_Pool!poolVars
  <2>1. UNCHANGED <<idle, fd, now, sock, key>> /\ fd[s] = "open" /\ ~eof[s]
    BY <1>7 DEF Answer, ServerClose, Stray, callVars
  <2>2. \A t \in Socks \ {s} : inbox'[t] = inbox[t] /\ eof'[t] = eof[t]
    BY <1>0, <1>7 DEF Answer, ServerClose, Stray, TypeOK
  <2>3. inbox'[s] = inbox[s] \/ \E m \in Message : inbox'[s] = Append(inbox[s], m)
    <3>1. [answers |-> NoCall, kind |-> "persistent"] \in Message
      BY DEF Message
    <3> QED BY <1>0, <1>7, <3>1 DEF Answer, ServerClose, Stray, TypeOK
  <2>4. inbox[s] \in Seq(Message)
    BY <1>0 DEF TypeOK
  <2>5. inbox'[s] = inbox[s] \/ inbox'[s] # <<>>
    BY <2>3, <2>4, AppendProperties, EmptySeq
  <2> QED BY <1>0, <2>1, <2>2, <2>5, WireMaps DEF Quiet
<1>8. CASE Tick
  <2>1. Quiet' = Quiet /\ Lent' = Lent
    BY <1>8 DEF Tick, callVars, wireVars, Quiet, Lent
  <2> QED BY <1>8, <2>1 DEF Tick, Pool!Tick, Lossless
<1> QED BY <1>1, <1>2, <1>3, <1>4, <1>5, <1>6, <1>7, <1>8 DEF Next

LEMMA StepMaps ==
    ASSUME IInv, Next
    PROVE  [Pool!Next]_Pool!poolVars
<1>1. ASSUME NEW c \in Calls, PeekRaises(c)
      PROVE  Pool!Next
  BY <1>1 DEF PeekRaises, Pool!Next, IInv, TypeOK
<1>2. Lossless => Pool!Next
  BY DEF Lossless, Pool!Next
<1> QED BY <1>1, <1>2, StepLosesNothing

\* What every step leaves to the other invariants.
LEMMA PoolAfterStep ==
    ASSUME IInv, Next
    PROVE  /\ PoolInv'
           /\ \A o \in Origins : \A s \in Pool!IdleSocks(o)' :
                 s \in Pool!IdleSocks(o) \/ Pool!Release(o, s)
           /\ \A s \in Socks : fd'[s] = "unused" => fd[s] = "unused"
<1>1. PoolInv /\ [Pool!Next]_Pool!poolVars
  BY StepMaps DEF IInv
<1>2. \A s \in Socks : fd'[s] = "unused" => fd[s] = "unused"
  BY <1>1
  DEF PoolInv, Pool!TypeOK, Pool!Next, Pool!poolVars, Pool!AcquireHit, Pool!AcquireMiss,
      Pool!AcquireRaises, Pool!PopThrough, Pool!Release, Pool!Close, Pool!SafeClose, Pool!Open,
      Pool!Discard, Pool!PeerSpeaks, Pool!Drain, Pool!Tick
<1> QED BY <1>1, <1>2, PoolStep, OnlyReleasePools

-----------------------------------------------------------------------------
(* The invariant. *)

LEMMA InitIInv == Init => IInv /\ Pool!Init
<1> SUFFICES ASSUME Init PROVE IInv /\ Pool!Init
  OBVIOUS
<1>1. Pool!Init
  BY TransportAssumption DEF Init, Pool!Init, Lent, Quiet
<1>2. PoolInv /\ Pool!TypeOK
  BY <1>1, PoolInitially DEF PoolInv
<1>3. TypeOK
  <2>1. <<>> \in Seq(Calls) /\ <<>> \in Seq(Message)
    BY EmptySeq
  <2>2. 0 \in 0 .. MaxStray
    BY TransportAssumption
  <2> QED BY <1>2, <2>1, <2>2 DEF Init, TypeOK, Results
<1>4. \A o \in Origins : Pool!IdleSocks(o) = {}
  <2>1. Len(<<>>) = 0 /\ 1 .. 0 = {}
    BY EmptySeq
  <2> QED BY <2>1 DEF Init, Pool!IdleSocks, Pool!Slots
<1>5. Owns /\ FreshWire /\ IdleWire
  BY <1>4 DEF Init, Owns, HasSock, FreshWire, IdleWire
<1>6. CallWire
  BY DEF Init, CallWire, CallGood, ReadyToWrite, ReadyToGiveBack
<1> QED BY <1>1, <1>2, <1>3, <1>5, <1>6 DEF IInv

\* A call that reads finds the answer to its own request, and nothing after it.
LEMMA ReadEffect ==
    ASSUME IInv, NEW c \in Calls, Read(c)
    PROVE  /\ sock[c] \in Socks /\ outbox[sock[c]] = <<>>
           /\ inbox' = [inbox EXCEPT ![sock[c]] = <<>>]
           /\ got' = [got EXCEPT ![c] = c]
           /\ \E place \in {"release", "close"} :
                 /\ pc' = [pc EXCEPT ![c] = place]
                 /\ place = "release" => (hangup[sock[c]] => eof[sock[c]])
<1> DEFINE s == sock[c]
<1>1. s \in Socks /\ Awaiting(c) /\ inbox[s] # <<>>
  BY OwnerHoldsIt DEF Read, At, IInv, Owns, HasSock, CallWire, CallGood
<1>2. PICK m \in Message : /\ inbox[s] = <<m>> /\ m.answers = c
                           /\ m.kind = "persistent" => ~hangup[s]
  BY <1>1 DEF Awaiting
<1>3. outbox[s] = <<>>
  BY <1>1 DEF Awaiting
<1>4. Len(inbox[s]) = 1 /\ Head(inbox[s]) = m /\ SubSeq(inbox[s], 2, 1) = <<>>
  BY <1>2
<1>5. PICK n \in 1 .. Len(inbox[s]), asked \in BOOLEAN :
         /\ m.kind = "untilClose" => eof[s]
         /\ GoTo(c, IF asked /\ m.kind # "last" THEN "release" ELSE "close")
         /\ got' = [got EXCEPT ![c] = m.answers]
         /\ inbox' = [inbox EXCEPT ![s] = SubSeq(@, n + 1, Len(@))]
  BY <1>4 DEF Read
<1>6. n = 1
  BY <1>4
<1>7. inbox' = [inbox EXCEPT ![s] = <<>>]
  <2>1. SubSeq(inbox[s], n + 1, Len(inbox[s])) = <<>>
    BY <1>4, <1>6
  <2> QED BY <1>5, <2>1
<1>8. m.kind \in {"persistent", "last", "untilClose"}
  BY DEF Message
<1> QED BY <1>1, <1>2, <1>3, <1>5, <1>7, <1>8 DEF GoTo

\* The types of what the pool does not know.
LocalTypes ==
    /\ pc \in [Calls -> {"start", "connect", "write", "read", "release", "close", "done"}]
    /\ sock \in [Calls -> Socks \cup {NoSock}]
    /\ result \in [Calls -> Results]
    /\ got \in [Calls -> Calls \cup {NoCall}]
    /\ key \in [Calls -> Origins]
    /\ outbox \in [Socks -> Seq(Calls)]
    /\ inbox \in [Socks -> Seq(Message)]
    /\ eof \in [Socks -> BOOLEAN] /\ hangup \in [Socks -> BOOLEAN]
    /\ stray \in 0 .. MaxStray /\ closed \in BOOLEAN

LEMMA TypesNext ==
    ASSUME IInv, Next
    PROVE  TypeOK'
<1>0. TypeOK /\ LocalTypes
  BY DEF IInv, TypeOK, LocalTypes
<1>1. Pool!TypeOK'
  BY PoolAfterStep DEF PoolInv
<1>2. ASSUME NEW c \in Calls, Reuse(c)
      PROVE  LocalTypes'
  <2>1. PICK k \in Pool!Slots(key[c]) :
           Pool!AcquireHit(key[c], k) /\ sock' = [sock EXCEPT ![c] = idle[key[c]][k].sock]
    BY <1>2 DEF Reuse
  <2>2. idle[key[c]][k].sock \in Socks
    BY <1>0, <2>1, HitIsIdleAndQuiet DEF IInv, TypeOK
  <2> QED BY <1>0, <1>2, <2>1, <2>2 DEF Reuse, LocalTypes, GoTo, wireVars
<1>3. ASSUME NEW c \in Calls,
             Miss(c) \/ PeekRaises(c) \/ Connect(c) \/ GiveBack(c)
                \/ HangUp(c) \/ Fail(c) \/ Garbled(c)
      PROVE  LocalTypes'
  <2>1. UNCHANGED <<got, key, wireVars, closed>>
    BY <1>3 DEF Miss, PeekRaises, Connect, GiveBack, HangUp, Fail, Garbled, Finish
  <2>2. \E place \in {"connect", "write", "done"} : pc' = [pc EXCEPT ![c] = place]
    BY <1>3 DEF Miss, PeekRaises, Connect, GiveBack, HangUp, Fail, Garbled, Finish, GoTo
  <2>3. sock' = sock \/ \E t \in Socks \cup {NoSock} : sock' = [sock EXCEPT ![c] = t]
    BY <1>3 DEF Miss, PeekRaises, Connect, GiveBack, HangUp, Fail, Garbled, Finish
  <2>4. result' = result \/ \E r \in Results : result' = [result EXCEPT ![c] = r]
    BY <1>3 DEF Miss, PeekRaises, Connect, GiveBack, HangUp, Fail, Garbled, Finish, Results
  <2> QED BY <1>0, <2>1, <2>2, <2>3, <2>4 DEF LocalTypes, wireVars
<1>4. ASSUME NEW c \in Calls, Write(c)
      PROVE  LocalTypes'
  <2>1. Append(outbox[sock[c]], c) \in Seq(Calls) /\ outbox[sock[c]] \in Seq(Calls)
    BY <1>0, <1>4, OwnerHoldsIt, AppendProperties
    DEF LocalTypes, IInv, Owns, HasSock, Write, At
  <2> QED BY <1>0, <1>4, <2>1 DEF LocalTypes, Write, GoTo
<1>5. ASSUME NEW c \in Calls, Read(c)
      PROVE  LocalTypes'
  <2>1. <<>> \in Seq(Message)
    BY EmptySeq
  <2>2. /\ inbox' = [inbox EXCEPT ![sock[c]] = <<>>]
        /\ got' = [got EXCEPT ![c] = c]
        /\ \E place \in {"release", "close"} : pc' = [pc EXCEPT ![c] = place]
    BY <1>5, ReadEffect
  <2>3. UNCHANGED <<sock, result, key, outbox, eof, hangup, stray, closed>>
    BY <1>5 DEF Read
  <2> QED BY <1>0, <2>1, <2>2, <2>3 DEF LocalTypes
<1>6. ASSUME NEW s \in Socks, Answer(s)
      PROVE  LocalTypes'
  <2>1. outbox[s] \in Seq(Calls) /\ outbox[s] # <<>> /\ inbox[s] \in Seq(Message)
    BY <1>0, <1>6 DEF LocalTypes, Answer
  <2>2. Tail(outbox[s]) \in Seq(Calls)
    BY <2>1, HeadTailProperties
  <2>3. PICK m \in Message : /\ inbox' = [inbox EXCEPT ![s] = Append(@, m)]
                             /\ hangup' = [hangup EXCEPT ![s] = m.kind # "persistent"]
    BY <1>6 DEF Answer
  <2>4. Append(inbox[s], m) \in Seq(Message)
    BY <2>1, AppendProperties
  <2> QED BY <1>0, <1>6, <2>2, <2>3, <2>4 DEF LocalTypes, Answer, callVars
<1>7. ASSUME NEW s \in Socks, Stray(s)
      PROVE  LocalTypes'
  <2>1. Append(inbox[s], [answers |-> NoCall, kind |-> "persistent"]) \in Seq(Message)
    BY <1>0, AppendProperties DEF LocalTypes, Message
  <2>2. stray + 1 \in 0 .. MaxStray
    BY <1>0, <1>7, TransportAssumption DEF LocalTypes, Stray
  <2> QED BY <1>0, <1>7, <2>1, <2>2 DEF LocalTypes, Stray, callVars
<1>8. ASSUME CloseClient \/ (\E s \in Socks : ServerClose(s)) \/ Tick
      PROVE  LocalTypes'
  BY <1>0, <1>8 DEF LocalTypes, CloseClient, ServerClose, Tick, callVars, wireVars
<1>9. LocalTypes'
  BY <1>2, <1>3, <1>4, <1>5, <1>6, <1>7, <1>8 DEF Next
<1> QED BY <1>1, <1>9 DEF TypeOK, LocalTypes

LEMMA OwnsNext ==
    ASSUME IInv, Next
    PROVE  Owns'
<1>0. TypeOK /\ PoolInv /\ Owns
  BY DEF IInv
<1>1. ASSUME NEW c \in Calls, NEW t \in Socks, sock[c] = NoSock, \A d \in Calls : sock[d] # t,
             sock' = [sock EXCEPT ![c] = t], GoTo(c, "write")
      PROVE  Owns'
  BY <1>0, <1>1, TransportAssumption DEF Owns, HasSock, GoTo, TypeOK
<1>2. ASSUME NEW c \in Calls, Reuse(c)
      PROVE  Owns'
  <2>1. PICK k \in Pool!Slots(key[c]) :
           Pool!AcquireHit(key[c], k) /\ sock' = [sock EXCEPT ![c] = idle[key[c]][k].sock]
    BY <1>2 DEF Reuse
  <2>2. idle[key[c]][k].sock \in Pool!IdleSocks(key[c]) \cap Socks
    BY <1>0, <2>1, HitIsIdleAndQuiet DEF TypeOK
  <2>3. \A d \in Calls : sock[d] # idle[key[c]][k].sock
    BY <1>0, <2>2, OwnerHoldsIt, TransportAssumption DEF TypeOK
  <2> QED BY <1>0, <1>1, <1>2, <2>1, <2>2, <2>3 DEF Reuse, MayStart, At, Owns, HasSock
<1>3. ASSUME NEW c \in Calls, Connect(c)
      PROVE  Owns'
  <2>1. PICK t \in Socks : fd[t] = "unused" /\ sock' = [sock EXCEPT ![c] = t]
    BY <1>3 DEF Connect
  <2>2. \A d \in Calls : sock[d] # t
    BY <1>0, <2>1, OwnerHoldsIt, TransportAssumption
  <2> QED BY <1>0, <1>1, <1>3, <2>1, <2>2 DEF Connect, At, Owns, HasSock
<1>4. ASSUME NEW c \in Calls, Miss(c) \/ PeekRaises(c)
      PROVE  Owns'
  BY <1>0, <1>4 DEF Miss, PeekRaises, MayStart, At, Owns, HasSock, GoTo, TypeOK
<1>5. ASSUME NEW c \in Calls, Write(c)
      PROVE  Owns'
  BY <1>0, <1>5 DEF Write, At, Owns, HasSock, GoTo, TypeOK
<1>6. ASSUME NEW c \in Calls, Read(c)
      PROVE  Owns'
  <2>1. sock' = sock /\ pc[c] = "read" /\ \E place \in HasSock : pc' = [pc EXCEPT ![c] = place]
    BY <1>6, ReadEffect DEF Read, At, HasSock
  <2> QED BY <1>0, <2>1 DEF Owns, HasSock, TypeOK
<1>7. ASSUME NEW c \in Calls, GiveBack(c) \/ HangUp(c) \/ Fail(c) \/ Garbled(c)
      PROVE  Owns'
  <2>1. sock' = [sock EXCEPT ![c] = NoSock] /\ pc' = [pc EXCEPT ![c] = "done"]
    BY <1>7 DEF GiveBack, HangUp, Fail, Garbled, Finish, GoTo
  <2> QED BY <1>0, <2>1 DEF Owns, HasSock, TypeOK
<1>8. ASSUME UNCHANGED <<pc, sock>>
      PROVE  Owns'
  BY <1>0, <1>8 DEF Owns
<1> QED
  BY <1>2, <1>3, <1>4, <1>5, <1>6, <1>7, <1>8
  DEF Next, CloseClient, Answer, ServerClose, Stray, Tick, callVars

\* Bytes move on open connections only.
LEMMA SilentUnlessOpen ==
    ASSUME IInv, Next, NEW s \in Socks, fd[s] # "open"
    PROVE  outbox'[s] = outbox[s] /\ inbox'[s] = inbox[s] /\ hangup'[s] = hangup[s]
<1>0. TypeOK /\ PoolInv /\ Owns
  BY DEF IInv
<1>1. ASSUME NEW c \in Calls, Write(c) \/ Read(c)
      PROVE  outbox'[s] = outbox[s] /\ inbox'[s] = inbox[s] /\ hangup'[s] = hangup[s]
  <2>1. sock[c] # s
    BY <1>0, <1>1, OwnerHoldsIt DEF Write, Read, At, Owns, HasSock
  <2> QED BY <1>0, <1>1, <2>1 DEF Write, Read, TypeOK
<1>2. ASSUME NEW t \in Socks, Answer(t) \/ ServerClose(t) \/ Stray(t)
      PROVE  outbox'[s] = outbox[s] /\ inbox'[s] = inbox[s] /\ hangup'[s] = hangup[s]
  <2>1. t # s
    BY <1>2 DEF Answer, ServerClose, Stray
  <2> QED BY <1>0, <1>2, <2>1 DEF Answer, ServerClose, Stray, TypeOK
<1>3. CASE UNCHANGED wireVars
  BY <1>3 DEF wireVars
<1> QED
  BY <1>1, <1>2, <1>3
  DEF Next, Reuse, Miss, PeekRaises, Connect, GiveBack, HangUp, Fail, Garbled, Finish, CloseClient,
      Tick

LEMMA FreshWireNext ==
    ASSUME IInv, Next
    PROVE  FreshWire'
<1> SUFFICES ASSUME NEW s \in Socks, fd'[s] = "unused"
             PROVE  outbox'[s] = <<>> /\ inbox'[s] = <<>> /\ ~hangup'[s]
  BY DEF FreshWire
<1>1. fd[s] = "unused"
  BY PoolAfterStep
<1> QED BY <1>1, SilentUnlessOpen DEF IInv, FreshWire

\* A socket gets into a bucket when its call is over, and in no other way.
LEMMA OnlyGiveBackPools ==
    ASSUME IInv, Next, NEW o \in Origins,
           NEW s \in Pool!IdleSocks(o)', s \notin Pool!IdleSocks(o)
    PROVE  \E c \in Calls : GiveBack(c) /\ sock[c] = s
<1>0. TypeOK /\ Owns /\ Pool!Release(o, s)
  BY PoolAfterStep DEF IInv
<1>1. idle' # idle
  BY DEF Pool!IdleSocks, Pool!Slots
<1>2. s \in Lent[o] /\ s \notin Lent'[o]
  BY <1>0 DEF Pool!Release, Lent
<1>3. key' = key
  BY DEF Next, Reuse, Miss, PeekRaises, Connect, Write, Read, GiveBack, HangUp, Fail, Garbled,
         Finish, CloseClient, Answer, ServerClose, Stray, Tick, callVars
<1>4. PICK c \in Calls : sock[c] = s /\ sock'[c] # s /\ s # NoSock
  BY <1>2, <1>3 DEF Lent
<1>5. ASSUME NEW d \in Calls, Reuse(d) \/ Connect(d) PROVE FALSE
  <2>1. sock[d] = NoSock
    BY <1>0, <1>5 DEF Reuse, Connect, MayStart, At, Owns, HasSock
  <2>2. \E t : sock' = [sock EXCEPT ![d] = t]
    BY <1>5 DEF Reuse, Connect
  <2> QED BY <1>0, <1>4, <2>1, <2>2 DEF TypeOK
<1>6. ASSUME NEW d \in Calls, GiveBack(d) PROVE d = c
  BY <1>0, <1>4, <1>6 DEF GiveBack, TypeOK
<1> QED
  BY <1>1, <1>4, <1>5, <1>6
  DEF Next, Miss, PeekRaises, Write, Read, HangUp, Fail, Garbled, Finish, CloseClient, Answer,
      ServerClose, Stray, Tick, callVars

LEMMA IdleWireNext ==
    ASSUME IInv, Next
    PROVE  IdleWire'
<1> SUFFICES ASSUME NEW o \in Origins, NEW s \in Pool!IdleSocks(o)'
             PROVE  outbox'[s] = <<>> /\ (hangup'[s] => eof'[s])
  BY DEF IdleWire
<1>0. TypeOK /\ PoolInv /\ Owns /\ IdleWire /\ CallWire
  BY DEF IInv
<1>1. CASE s \notin Pool!IdleSocks(o)
  <2>1. PICK c \in Calls : GiveBack(c) /\ sock[c] = s
    BY <1>1, OnlyGiveBackPools
  <2> QED BY <1>0, <2>1 DEF GiveBack, At, wireVars, CallWire, CallGood, ReadyToGiveBack
<1>2. CASE s \in Pool!IdleSocks(o)
  <2>1. outbox[s] = <<>> /\ (hangup[s] => eof[s]) /\ s \in Socks
    <3>1. PICK i \in 1 .. Len(idle[o]) : s = idle[o][i].sock
      BY <1>2 DEF Pool!IdleSocks, Pool!Slots
    <3>2. idle[o] \in Seq(Pool!Entry)
      BY <1>0 DEF PoolInv, Pool!TypeOK
    <3>3. idle[o][i] \in Pool!Entry
      BY <3>1, <3>2, ElementOfSeq
    <3> QED BY <1>0, <1>2, <3>1, <3>3 DEF IdleWire, Pool!Entry
  <2>2. ASSUME NEW c \in Calls, Write(c) \/ Read(c)
        PROVE  outbox'[s] = outbox[s] /\ hangup'[s] = hangup[s] /\ eof'[s] = eof[s]
    <3>1. sock[c] # s
      BY <1>0, <1>2, <2>2, OwnerHoldsIt DEF Write, Read, At, Owns, HasSock
    <3> QED BY <1>0, <2>1, <2>2, <3>1 DEF Write, Read, TypeOK
  <2>3. ASSUME NEW t \in Socks, Answer(t) \/ ServerClose(t) \/ Stray(t)
        PROVE  outbox'[s] = <<>> /\ (hangup'[s] => eof'[s])
    BY <1>0, <2>1, <2>3 DEF Answer, ServerClose, Stray, TypeOK
  <2>4. CASE UNCHANGED wireVars
    BY <2>1, <2>4 DEF wireVars
  <2> QED
    BY <2>1, <2>2, <2>3, <2>4
    DEF Next, Reuse, Miss, PeekRaises, Connect, GiveBack, HangUp, Fail, Garbled, Finish,
        CloseClient, Tick
<1> QED BY <1>1, <1>2

\* What one call does to its socket does not concern the others.
LEMMA OthersStayGood ==
    ASSUME IInv, NEW c \in Calls,
           \A d \in Calls \ {c} : /\ pc'[d] = pc[d] /\ sock'[d] = sock[d]
                                  /\ result'[d] = result[d] /\ got'[d] = got[d],
           \A s \in Socks \ {sock[c]} : /\ outbox'[s] = outbox[s] /\ inbox'[s] = inbox[s]
                                        /\ hangup'[s] = hangup[s] /\ eof'[s] = eof[s],
           CallGood(c)'
    PROVE  CallWire'
<1> SUFFICES ASSUME NEW d \in Calls \ {c} PROVE CallGood(d)'
  BY DEF CallWire
<1>1. CallGood(d) /\ TypeOK /\ Owns
  BY DEF IInv, CallWire
<1>2. pc[d] \in HasSock => sock[d] \in Socks \ {sock[c]}
  BY <1>1 DEF Owns, TypeOK
<1> QED
  BY <1>1, <1>2 DEF CallGood, ReadyToWrite, ReadyToGiveBack, Awaiting, HasSock

\* The servers and the clock leave the calls where they are.
LEMMA WireStaysGood ==
    ASSUME IInv, UNCHANGED <<pc, sock, result, got>>, NEW s \in Socks,
           \A t \in Socks \ {s} : /\ outbox'[t] = outbox[t] /\ inbox'[t] = inbox[t]
                                  /\ hangup'[t] = hangup[t] /\ eof'[t] = eof[t],
           \A c \in Calls : sock[c] = s => CallGood(c)'
    PROVE  CallWire'
<1> SUFFICES ASSUME NEW d \in Calls, sock[d] # s PROVE CallGood(d)'
  BY DEF CallWire
<1>1. CallGood(d) /\ TypeOK /\ Owns
  BY DEF IInv, CallWire
<1>2. pc[d] \in HasSock => sock[d] \in Socks \ {s}
  BY <1>1 DEF Owns, TypeOK
<1> QED
  BY <1>1, <1>2 DEF CallGood, ReadyToWrite, ReadyToGiveBack, Awaiting, HasSock

LEMMA CallWireNext ==
    ASSUME IInv, Next
    PROVE  CallWire'
<1>0. TypeOK /\ PoolInv /\ Owns /\ FreshWire /\ IdleWire /\ CallWire
  BY DEF IInv
<1>1. ASSUME NEW c \in Calls, Reuse(c)
      PROVE  CallWire'
  <2>1. PICK k \in Pool!Slots(key[c]) :
           Pool!AcquireHit(key[c], k) /\ sock' = [sock EXCEPT ![c] = idle[key[c]][k].sock]
    BY <1>1 DEF Reuse
  <2> DEFINE s == idle[key[c]][k].sock
  <2>2. key[c] \in Origins /\ s \in Pool!IdleSocks(key[c]) \cap Socks /\ Quiet[s]
    BY <1>0, <2>1, HitIsIdleAndQuiet DEF TypeOK
  <2>3. inbox[s] = <<>> /\ outbox[s] = <<>> /\ ~hangup[s]
    BY <1>0, <2>2 DEF Quiet, IdleWire
  <2>4. sock'[c] = s /\ pc'[c] = "write" /\ result' = result /\ result[c] = "none"
    BY <1>0, <1>1, <2>1
    DEF Reuse, MayStart, At, GoTo, TypeOK, CallWire, CallGood
  <2>5. CallGood(c)'
    BY <1>1, <2>3, <2>4
    DEF Reuse, wireVars, CallGood, ReadyToWrite, ReadyToGiveBack
  <2> QED BY <1>0, <1>1, <2>5, OthersStayGood DEF Reuse, GoTo, wireVars, TypeOK
<1>2. ASSUME NEW c \in Calls, Connect(c)
      PROVE  CallWire'
  <2>1. PICK s \in Socks : fd[s] = "unused" /\ sock' = [sock EXCEPT ![c] = s]
    BY <1>2 DEF Connect
  <2>2. inbox[s] = <<>> /\ outbox[s] = <<>> /\ ~hangup[s]
    BY <1>0, <2>1 DEF FreshWire
  <2>3. sock'[c] = s /\ pc'[c] = "write" /\ result' = result /\ result[c] = "none"
    BY <1>0, <1>2, <2>1 DEF Connect, At, GoTo, TypeOK, CallWire, CallGood
  <2>4. CallGood(c)'
    BY <1>2, <2>2, <2>3 DEF Connect, wireVars, CallGood, ReadyToWrite, ReadyToGiveBack
  <2> QED BY <1>0, <1>2, <2>4, OthersStayGood DEF Connect, GoTo, wireVars, TypeOK
<1>3. ASSUME NEW c \in Calls, Miss(c) \/ PeekRaises(c)
      PROVE  CallWire'
  <2>1. result[c] = "none" /\ UNCHANGED <<sock, got, wireVars>>
    BY <1>0, <1>3 DEF Miss, PeekRaises, MayStart, At, CallWire, CallGood
  <2>2. \/ pc' = [pc EXCEPT ![c] = "connect"] /\ result' = result
        \/ pc' = [pc EXCEPT ![c] = "done"] /\ result' = [result EXCEPT ![c] = "OtherError"]
    BY <1>3 DEF Miss, PeekRaises, GoTo
  <2>3. CallGood(c)'
    BY <1>0, <2>1, <2>2 DEF CallGood, ReadyToWrite, ReadyToGiveBack, TypeOK
  <2> QED BY <1>0, <2>1, <2>2, <2>3, OthersStayGood DEF wireVars, TypeOK
<1>4. ASSUME NEW c \in Calls, Write(c)
      PROVE  CallWire'
  <2>1. /\ outbox[sock[c]] = <<>> /\ inbox[sock[c]] = <<>> /\ ~hangup[sock[c]]
        /\ result[c] = "none" /\ sock[c] \in Socks
    BY <1>0, <1>4, OwnerHoldsIt
    DEF Write, At, CallWire, CallGood, ReadyToWrite, Owns, HasSock
  <2>2. Append(<<>>, c) = <<c>>
    OBVIOUS
  <2>3. outbox'[sock[c]] \in {<<>>, <<c>>}
    BY <1>0, <1>4, <2>1, <2>2 DEF Write, TypeOK
  <2>4. pc'[c] = "read"
    BY <1>0, <1>4 DEF Write, GoTo, TypeOK
  <2>5. CallGood(c)'
    BY <1>4, <2>1, <2>3, <2>4 DEF Write, CallGood, Awaiting, ReadyToWrite, ReadyToGiveBack
  <2> QED BY <1>0, <1>4, <2>5, OthersStayGood DEF Write, GoTo, TypeOK
<1>5. ASSUME NEW c \in Calls, Read(c)
      PROVE  CallWire'
  <2>1. UNCHANGED <<sock, result, outbox, eof, hangup>>
    BY <1>5 DEF Read
  <2>2. PICK place \in {"release", "close"} :
           /\ pc' = [pc EXCEPT ![c] = place]
           /\ place = "release" => (hangup[sock[c]] => eof[sock[c]])
    BY <1>5, ReadEffect
  <2>3. /\ outbox[sock[c]] = <<>> /\ sock[c] \in Socks
        /\ inbox' = [inbox EXCEPT ![sock[c]] = <<>>]
        /\ got' = [got EXCEPT ![c] = c]
    BY <1>5, ReadEffect
  <2>4. result[c] = "none"
    BY <1>0, <1>5 DEF Read, At, CallWire, CallGood
  <2>5. CallGood(c)'
    BY <1>0, <2>1, <2>2, <2>3, <2>4 DEF CallGood, ReadyToWrite, ReadyToGiveBack, TypeOK
  <2> QED BY <1>0, <2>1, <2>2, <2>3, <2>5, OthersStayGood DEF TypeOK
<1>6. ASSUME NEW c \in Calls, GiveBack(c) \/ HangUp(c) \/ Fail(c) \/ Garbled(c)
      PROVE  CallWire'
  <2>1. /\ pc' = [pc EXCEPT ![c] = "done"] /\ sock' = [sock EXCEPT ![c] = NoSock]
        /\ UNCHANGED <<got, wireVars>>
    BY <1>6 DEF GiveBack, HangUp, Fail, Garbled, Finish, GoTo
  <2>2. PICK r \in Results : /\ result' = [result EXCEPT ![c] = r]
                             /\ r = "response" => pc[c] \in {"release", "close"}
    <3>1. CASE GiveBack(c) \/ HangUp(c)
      BY <3>1 DEF GiveBack, HangUp, Finish, At, Results
    <3>2. CASE Fail(c) \/ Garbled(c)
      BY <3>2 DEF Fail, Garbled, Finish, Results
    <3> QED BY <1>6, <3>1, <3>2
  <2>3. CallGood(c)'
    BY <1>0, <2>1, <2>2 DEF CallWire, CallGood, ReadyToWrite, ReadyToGiveBack, TypeOK
  <2> QED BY <1>0, <2>1, <2>2, <2>3, OthersStayGood DEF wireVars, TypeOK
<1>7. ASSUME NEW s \in Socks, Answer(s)
      PROVE  CallWire'
  <2>1. PICK m \in Message :
           /\ m.answers = Head(outbox[s])
           /\ inbox' = [inbox EXCEPT ![s] = Append(@, m)]
           /\ hangup' = [hangup EXCEPT ![s] = m.kind # "persistent"]
    BY <1>7 DEF Answer
  <2>2. outbox[s] # <<>> /\ outbox' = [outbox EXCEPT ![s] = Tail(@)] /\ UNCHANGED callVars
    BY <1>7 DEF Answer
  <2>3. ASSUME NEW c \in Calls, sock[c] = s, pc[c] = "read"
        PROVE  Awaiting(c)'
    <3>1. outbox[s] = <<c>> /\ inbox[s] = <<>>
      BY <1>0, <2>2, <2>3 DEF CallWire, CallGood, Awaiting
    <3>2. Tail(<<c>>) = <<>> /\ Head(<<c>>) = c /\ Append(<<>>, m) = <<m>>
      OBVIOUS
    <3>3. outbox'[s] = <<>> /\ inbox'[s] = <<m>> /\ m.answers = c
      BY <1>0, <2>1, <2>2, <3>1, <3>2 DEF TypeOK
    <3>4. m.kind = "persistent" => ~hangup'[s]
      BY <1>0, <2>1 DEF TypeOK
    <3>5. sock'[c] = s
      BY <2>2, <2>3 DEF callVars
    <3> QED BY <3>3, <3>4, <3>5 DEF Awaiting
  <2>4. ASSUME NEW c \in Calls, sock[c] = s
        PROVE  CallGood(c)'
    BY <1>0, <2>2, <2>3, <2>4
    DEF CallWire, CallGood, ReadyToWrite, ReadyToGiveBack, callVars
  <2> QED BY <1>0, <1>7, <2>4, WireStaysGood DEF Answer, callVars, TypeOK
<1>8. ASSUME NEW s \in Socks, ServerClose(s) \/ Stray(s)
      PROVE  CallWire'
  <2>1. UNCHANGED <<pc, sock, result, got, outbox, hangup>>
    BY <1>8 DEF ServerClose, Stray, callVars
  <2>2. ASSUME NEW c \in Calls, sock[c] = s
        PROVE  CallGood(c)'
    BY <1>0, <1>8, <2>1, <2>2
    DEF ServerClose, Stray, CallWire, CallGood, ReadyToWrite, ReadyToGiveBack, Awaiting, TypeOK
  <2> QED BY <1>0, <1>8, <2>1, <2>2, WireStaysGood DEF ServerClose, Stray, TypeOK
<1>9. CASE UNCHANGED <<callVars, wireVars>>
  BY <1>0, <1>9
  DEF callVars, wireVars, CallWire, CallGood, ReadyToWrite, ReadyToGiveBack, Awaiting
<1> QED
  BY <1>1, <1>2, <1>3, <1>4, <1>5, <1>6, <1>7, <1>8, <1>9 DEF Next, CloseClient, Tick

LEMMA IInvStutters ==
    ASSUME IInv, UNCHANGED vars
    PROVE  IInv'
<1>1. UNCHANGED Pool!poolVars
  BY DEF vars, callVars, wireVars, Pool!poolVars, Lent, Quiet
<1>2. PoolInv'
  BY <1>1, PoolStep DEF IInv
<1>3. TypeOK'
  BY <1>2 DEF IInv, PoolInv, TypeOK, vars, callVars, wireVars
<1>4. Owns' /\ FreshWire' /\ IdleWire'
  BY DEF IInv, Owns, FreshWire, IdleWire, Pool!IdleSocks, Pool!Slots, vars, callVars, wireVars
<1>5. CallWire'
  BY DEF IInv, CallWire, CallGood, ReadyToWrite, ReadyToGiveBack, Awaiting, vars, callVars, wireVars
<1> QED BY <1>2, <1>3, <1>4, <1>5 DEF IInv

LEMMA IInvNext == IInv /\ [Next]_vars => IInv'
<1>1. ASSUME IInv, Next PROVE IInv'
  BY <1>1, PoolAfterStep, TypesNext, OwnsNext, FreshWireNext, IdleWireNext, CallWireNext DEF IInv
<1> QED BY <1>1, IInvStutters

(***************************************************************************)
(* The inductive invariant of the transport: the pool in order, each call  *)
(* with a socket of its own, and on every wire nothing but what the call   *)
(* that has it is waiting for.                                             *)
(***************************************************************************)
THEOREM TransportInvariant == Spec => []IInv
<1>1. Init => IInv
  BY InitIInv
<1> QED BY <1>1, IInvNext, PTL DEF Spec

\* Type correctness.
THEOREM TransportTypeOK == Spec => []TypeOK
<1>1. IInv => TypeOK
  BY DEF IInv
<1> QED BY <1>1, TransportInvariant, PTL

(***************************************************************************)
(* send uses the pool as its specification foresees: every step of a call, *)
(* a server or the clock is a step of ConnectionPool, or changes nothing   *)
(* of it.  So all theorems about the pool hold of the real callers.        *)
(***************************************************************************)
THEOREM TransportImplementsPool == Spec => PoolIsUsedCorrectly
<1>1. Init => Pool!Init
  BY InitIInv
<1>2. IInv /\ [Next]_vars => [Pool!Next]_Pool!poolVars
  <2>1. UNCHANGED vars => UNCHANGED Pool!poolVars
    BY DEF vars, callVars, wireVars, Pool!poolVars, Lent, Quiet
  <2> QED BY <2>1, StepMaps
<1> QED BY <1>1, <1>2, TransportInvariant, PTL DEF Spec, PoolIsUsedCorrectly, Pool!Spec

(***************************************************************************)
(* Every caller gets the answer to its own request, whatever is late, lost *)
(* or unsolicited, and whoever else uses the pool.                         *)
(***************************************************************************)
THEOREM TransportNoCrossTalk == Spec => []NoCrossTalk
<1>1. IInv => NoCrossTalk
  BY DEF IInv, CallWire, CallGood, NoCrossTalk
<1> QED BY <1>1, TransportInvariant, PTL

\* A connection whose end the server has announced is not pooled, or is at its end.
THEOREM TransportKeepsNoAnnouncedHangup == Spec => []KeepsNoAnnouncedHangup
<1>1. IInv => KeepsNoAnnouncedHangup
  BY DEF IInv, IdleWire, KeepsNoAnnouncedHangup, Pool!IdleSocks
<1> QED BY <1>1, TransportInvariant, PTL

-----------------------------------------------------------------------------
(* Nothing is left open, but what the peek of a TLS socket lost. *)

\* The calls that the peek failed (and others that ended in such an error).
Charged == {c \in Calls : key[c] \in TlsOrigins /\ result[c] = "OtherError"}

LossIsCharged ==
    /\ IsFiniteSet(PoolFacts!Lost)
    /\ Cardinality(PoolFacts!Lost) <= Cardinality(Charged)

\* close found the buckets and no call at work, and none starts after it.
ClosedForGood ==
    closed => /\ \A c \in Calls : pc[c] \in {"start", "done"}
              /\ \A o \in Origins : idle[o] = <<>>

\* A call that has failed stays so.
LEMMA ChargedGrows ==
    ASSUME IInv, Next
    PROVE  Charged \subseteq Charged'
<1>0. TypeOK /\ CallWire /\ \A c \in Calls : result[c] # "none" => pc[c] = "done"
  BY DEF IInv, CallWire, CallGood
<1>1. ASSUME NEW c \in Calls, result[c] # "none"
      PROVE  result'[c] = result[c]
  BY <1>0, <1>1
  DEF TypeOK, Next, Reuse, Miss, PeekRaises, Connect, Write, Read, GiveBack, HangUp, Fail, Garbled,
      Finish, MayStart, At, CloseClient, Answer, ServerClose, Stray, Tick, callVars
<1>2. key' = key
  BY DEF Next, Reuse, Miss, PeekRaises, Connect, Write, Read, GiveBack, HangUp, Fail, Garbled,
         Finish, CloseClient, Answer, ServerClose, Stray, Tick, callVars
<1> QED BY <1>1, <1>2 DEF Charged

LEMMA LossNext ==
    ASSUME IInv, Next, IsFiniteSet(Calls), LossIsCharged
    PROVE  LossIsCharged'
<1>0. /\ TypeOK /\ PoolInv /\ CallWire
      /\ IsFiniteSet(Charged) /\ IsFiniteSet(Charged')
      /\ Cardinality(Charged) \in Nat /\ Cardinality(Charged') \in Nat
      /\ Cardinality(PoolFacts!Lost) \in Nat
  BY FS_Subset, FS_CardinalityType DEF IInv, Charged, LossIsCharged
<1>1. Cardinality(Charged) <= Cardinality(Charged')
  BY <1>0, ChargedGrows, FS_Subset
<1>2. ASSUME NEW c \in Calls, PeekRaises(c)
      PROVE  LossIsCharged'
  <2>1. PICK k \in Pool!Slots(key[c]) : Pool!AcquireRaises(key[c], k)
    BY <1>2 DEF PeekRaises
  <2> DEFINE s == idle[key[c]][k].sock
  <2>2. PoolFacts!AcquireRaises(key[c], k) /\ k \in PoolFacts!Slots(key[c]) /\ key[c] \in Origins
    BY <1>0, <2>1
    DEF TypeOK, Pool!AcquireRaises, PoolFacts!AcquireRaises, Pool!FirstKept, PoolFacts!FirstKept,
        Pool!Rejected, PoolFacts!Rejected, Pool!Expired, PoolFacts!Expired, Pool!PopThrough,
        PoolFacts!PopThrough, Pool!SafeClose, PoolFacts!SafeClose, Pool!Slots, PoolFacts!Slots
  <2>3. PoolFacts!Lost' \subseteq PoolFacts!Lost \cup {s}
    BY <1>0, <2>2, SamePool, PoolFacts!RaisesLosesOne, TransportAssumption
    DEF PoolFacts!PoolAssumption
  <2>4. c \notin Charged /\ c \in Charged'
    <3>1. result[c] = "none" /\ result' = [result EXCEPT ![c] = "OtherError"] /\ key' = key
      BY <1>0, <1>2 DEF PeekRaises, MayStart, At, CallWire, CallGood
    <3>2. key[c] \in TlsOrigins
      BY <2>1 DEF Pool!AcquireRaises
    <3> QED BY <1>0, <3>1, <3>2 DEF Charged, TypeOK
  <2>5. /\ IsFiniteSet(Charged \cup {c})
        /\ Cardinality(Charged \cup {c}) = Cardinality(Charged) + 1
    BY <1>0, <2>4, FS_AddElement
  <2>6. Cardinality(Charged) + 1 <= Cardinality(Charged')
    BY <1>0, <2>4, <2>5, ChargedGrows, FS_Subset
  <2>7. /\ IsFiniteSet(PoolFacts!Lost \cup {s})
        /\ Cardinality(PoolFacts!Lost \cup {s}) <= Cardinality(PoolFacts!Lost) + 1
    <3>1. CASE s \in PoolFacts!Lost
      <4>1. PoolFacts!Lost \cup {s} = PoolFacts!Lost
        BY <3>1
      <4> QED BY <1>0, <4>1 DEF LossIsCharged
    <3>2. CASE s \notin PoolFacts!Lost
      <4> HIDE DEF s
      <4>1. /\ IsFiniteSet(PoolFacts!Lost \cup {s})
            /\ Cardinality(PoolFacts!Lost \cup {s}) = Cardinality(PoolFacts!Lost) + 1
        BY <3>2, FS_AddElement DEF LossIsCharged
      <4> QED BY <1>0, <4>1
    <3> QED BY <3>1, <3>2
  <2>8. /\ IsFiniteSet(PoolFacts!Lost')
        /\ Cardinality(PoolFacts!Lost') <= Cardinality(PoolFacts!Lost \cup {s})
    BY <2>3, <2>7, FS_Subset
  <2>9. Cardinality(PoolFacts!Lost') \in Nat /\ Cardinality(PoolFacts!Lost \cup {s}) \in Nat
    BY <2>7, <2>8, FS_CardinalityType
  <2> QED BY <1>0, <2>6, <2>7, <2>8, <2>9 DEF LossIsCharged
<1>3. ASSUME \A c \in Calls : ~PeekRaises(c)
      PROVE  LossIsCharged'
  <2>1. [Lossless]_Pool!poolVars
    BY <1>3, StepLosesNothing
  <2>2. PoolFacts!Lost' \subseteq PoolFacts!Lost
    <3>1. CASE Lossless
      BY <1>0, <3>1, SamePool, PoolFacts!OthersLoseNothing, TransportAssumption
      DEF PoolFacts!PoolAssumption
    <3>2. CASE UNCHANGED Pool!poolVars
      BY <3>2 DEF Pool!poolVars, PoolFacts!Lost, PoolFacts!IdleSocks, PoolFacts!Slots
    <3> QED BY <2>1, <3>1, <3>2
  <2>3. /\ IsFiniteSet(PoolFacts!Lost')
        /\ Cardinality(PoolFacts!Lost') <= Cardinality(PoolFacts!Lost)
    BY <2>2, FS_Subset DEF LossIsCharged
  <2>4. Cardinality(PoolFacts!Lost') \in Nat
    BY <2>3, FS_CardinalityType
  <2> QED BY <1>0, <1>1, <2>3, <2>4 DEF LossIsCharged
<1> QED BY <1>2, <1>3

LEMMA ClosedNext ==
    ASSUME IInv, Next, ~LateThreads, ClosedForGood
    PROVE  ClosedForGood'
<1>1. CASE CloseClient
  BY <1>1 DEF CloseClient, Pool!Close, callVars, ClosedForGood
<1>2. CASE closed /\ ~CloseClient
  <2>1. \A c \in Calls : pc[c] \in {"start", "done"} /\ ~MayStart(c)
    BY <1>2 DEF ClosedForGood, MayStart
  <2>2. UNCHANGED <<pc, idle>>
    BY <1>2, <2>1
    DEF Next, Reuse, Miss, PeekRaises, Connect, Write, Read, GiveBack, HangUp, Fail, Garbled, At,
        Answer, ServerClose, Stray, Tick, callVars
  <2> QED BY <1>2, <2>2 DEF ClosedForGood
<1>3. CASE ~closed /\ ~CloseClient
  BY <1>3
  DEF Next, Reuse, Miss, PeekRaises, Connect, Write, Read, GiveBack, HangUp, Fail, Garbled, Finish,
      Answer, ServerClose, Stray, Tick, ClosedForGood
<1> QED BY <1>1, <1>2, <1>3

(***************************************************************************)
(* A program that waits for its threads and closes its client keeps no     *)
(* descriptor, in whatever order calls fail, time out, give back and hang  *)
(* up, but one for each call to a TLS server that ended in such an error.  *)
(***************************************************************************)
THEOREM TransportNothingOpenAfterClose ==
    ASSUME ~LateThreads, IsFiniteSet(Calls)
    PROVE  Spec => []NothingOpenAfterClose
<1> DEFINE J == IInv /\ LossIsCharged /\ ClosedForGood
<1>1. Init => J
  <2> SUFFICES ASSUME Init PROVE J
    OBVIOUS
  <2>1. PoolFacts!Lost = {} /\ Charged = {}
    BY DEF Init, PoolFacts!Lost, Charged
  <2> QED BY <2>1, InitIInv, FS_EmptySet DEF LossIsCharged, ClosedForGood, Init
<1>2. J /\ [Next]_vars => J'
  <2>1. ASSUME J, Next PROVE J'
    BY <2>1, IInvNext, LossNext, ClosedNext
  <2>2. ASSUME J, UNCHANGED vars PROVE J'
    <3>1. PoolFacts!Lost' = PoolFacts!Lost /\ Charged' = Charged
      BY <2>2 DEF vars, callVars, PoolFacts!Lost, PoolFacts!IdleSocks, PoolFacts!Slots, Lent, Charged
    <3> QED BY <2>2, <3>1, IInvStutters DEF LossIsCharged, ClosedForGood, vars, callVars
  <2> QED BY <2>1, <2>2
<1>3. J => NothingOpenAfterClose
  <2> SUFFICES ASSUME J, closed
               PROVE  Cardinality({s \in Socks : fd[s] = "open"}) <= Cardinality(Charged)
    BY DEF NothingOpenAfterClose, Charged
  <2>1. \A o \in Origins : PoolFacts!IdleSocks(o) = {} /\ Lent[o] = {}
    <3>1. Len(<<>>) = 0 /\ 1 .. 0 = {}
      BY EmptySeq
    <3> QED BY <3>1 DEF ClosedForGood, PoolFacts!IdleSocks, PoolFacts!Slots, Lent, IInv, Owns, HasSock
  <2>2. {s \in Socks : fd[s] = "open"} = PoolFacts!Lost
    BY <2>1 DEF PoolFacts!Lost
  <2> QED BY <2>2 DEF LossIsCharged
<1> QED BY <1>1, <1>2, <1>3, PTL DEF Spec

=============================================================================
