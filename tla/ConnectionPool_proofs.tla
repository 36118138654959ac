------------------------ MODULE ConnectionPool_proofs ------------------------
(***************************************************************************)
(* What holds of the pool for every set of keys and sockets, every limit   *)
(* and every length of run: no connection is in two hands, what is pooled  *)
(* is open, the bound per key, the order of the buckets, and that a hit    *)
(* leaves nothing expired behind.                                          *)
(***************************************************************************)
EXTENDS ConnectionPool, SequenceTheorems, TLAPS

IInv == TypeOK /\ Exclusive /\ HeldIsOpen /\ WithinCapacity /\ AgeOrdered

-----------------------------------------------------------------------------
(* What the bucket operations do, entry by entry. *)

\* popleft k times: the bucket keeps its entries from k + 1 on, in their order.
LEMMA PopThroughEffect ==
    ASSUME TypeOK, NEW o \in Origins, NEW k \in 1 .. Len(idle[o]) + 1,
           PopThrough(o, k)
    PROVE  /\ idle' \in [Origins -> Seq(Entry)]
           /\ \A p \in Origins \ {o} : idle'[p] = idle[p]
           /\ Len(idle'[o]) <= Len(idle[o])
           /\ k <= Len(idle[o]) => Len(idle'[o]) = Len(idle[o]) - k
           /\ \A i \in 1 .. Len(idle'[o]) :
                 i + k \in Slots(o) /\ idle'[o][i] = idle[o][i + k]
<1> DEFINE b == idle[o]
<1>1. b \in Seq(Entry) /\ Len(b) \in Nat
  BY LenProperties DEF TypeOK
<1>2. \A i \in k + 1 .. Len(b) : b[i] \in Entry
  BY <1>1, ElementOfSeq
<1>3. /\ SubSeq(b, k + 1, Len(b)) \in Seq(Entry)
      /\ Len(SubSeq(b, k + 1, Len(b))) =
            IF k + 1 <= Len(b) THEN Len(b) - k ELSE 0
      /\ \A i \in 1 .. Len(b) - (k + 1) + 1 :
            SubSeq(b, k + 1, Len(b))[i] = b[k + 1 + i - 1]
  <2> HIDE DEF b
  <2>1. k + 1 \in Int /\ Len(b) \in Int
    BY <1>1
  <2>2. /\ SubSeq(b, k + 1, Len(b)) \in Seq(Entry)
        /\ Len(SubSeq(b, k + 1, Len(b))) =
              IF k + 1 <= Len(b) THEN Len(b) - (k + 1) + 1 ELSE 0
        /\ \A i \in 1 .. Len(b) - (k + 1) + 1 :
              SubSeq(b, k + 1, Len(b))[i] = b[k + 1 + i - 1]
    BY <1>2, <2>1, SubSeqProperties
  <2> QED BY <2>1, <2>2
<1>4. idle'[o] = SubSeq(b, k + 1, Len(b)) /\ \A p \in Origins \ {o} : idle'[p] = idle[p]
  BY DEF PopThrough, TypeOK
<1>5. idle' \in [Origins -> Seq(Entry)]
  BY <1>3 DEF PopThrough, TypeOK
<1> HIDE DEF b
<1>6. \A i \in 1 .. Len(idle'[o]) : i + k \in 1 .. Len(b) /\ idle'[o][i] = b[i + k]
  BY <1>1, <1>3, <1>4
<1>7. Len(idle'[o]) <= Len(b) /\ (k <= Len(b) => Len(idle'[o]) = Len(b) - k)
  BY <1>1, <1>3, <1>4
<1> QED BY <1>4, <1>5, <1>6, <1>7 DEF b, Slots

\* What release appends to, and what it evicts, when the bucket is full or not.
Full(o) == Len(idle[o]) >= MaxPerHost

Shift(o) == IF Full(o) THEN 1 ELSE 0

NewEntry(s) == [sock |-> s, returnedAt |-> now]

\* release: the new entry comes last, the others keep their order, and the
\* oldest one is gone, closed, when the bucket was full.
LEMMA ReleaseEffect ==
    ASSUME TypeOK, WithinCapacity, NEW o \in Origins, NEW s \in Socks, Release(o, s)
    PROVE  /\ idle' \in [Origins -> Seq(Entry)]
           /\ \A p \in Origins \ {o} : idle'[p] = idle[p]
           /\ Len(idle'[o]) \in 1 .. MaxPerHost
           /\ Len(idle'[o]) = Len(idle[o]) - Shift(o) + 1
           /\ idle'[o][Len(idle'[o])] = NewEntry(s)
           /\ \A i \in 1 .. Len(idle'[o]) - 1 :
                 i + Shift(o) \in Slots(o) /\ idle'[o][i] = idle[o][i + Shift(o)]
           /\ Full(o) => 1 \in Slots(o)
           /\ fd' = [x \in Socks |->
                       IF Full(o) /\ x = idle[o][1].sock THEN "closed" ELSE fd[x]]
<1> DEFINE b == idle[o]
<1> DEFINE rest == IF Full(o) THEN Tail(b) ELSE b
<1>0. MaxPerHost \in Nat /\ MaxPerHost > 0
  BY PoolAssumption
<1>1. b \in Seq(Entry) /\ Len(b) \in Nat /\ Len(b) <= MaxPerHost
  BY LenProperties DEF TypeOK, WithinCapacity
<1>2. NewEntry(s) \in Entry
  BY DEF NewEntry, Entry, TypeOK
<1>3. Full(o) => b # <<>>
  BY <1>0, <1>1, EmptySeq DEF Full
<1>4. Full(o) => /\ Head(b) = b[1]
                 /\ Tail(b) \in Seq(Entry)
                 /\ Len(Tail(b)) = Len(b) - 1
                 /\ \A i \in 1 .. Len(Tail(b)) : Tail(b)[i] = b[i + 1]
  <2>1. CASE Full(o)
    <3>1. b \in Seq(Entry) /\ b # <<>>
      BY <1>1, <1>3, <2>1
    <3> HIDE DEF b
    <3>2. Head(b) = b[1]
      BY <3>1
    <3> QED BY <3>1, <3>2, HeadTailProperties
  <2> QED BY <2>1
<1>5. rest \in Seq(Entry) /\ Len(rest) \in Nat /\ Len(rest) = Len(b) - Shift(o)
  BY <1>1, <1>4 DEF Shift
<1>6. \A i \in 1 .. Len(rest) : rest[i] = b[i + Shift(o)]
  <2>1. CASE Full(o)
    BY <1>4, <2>1 DEF Shift
  <2>2. CASE ~Full(o)
    <3>1. \A i \in 1 .. Len(b) : i + 0 = i
      OBVIOUS
    <3> QED BY <3>1, <2>2 DEF Shift
  <2> QED BY <2>1, <2>2
<1>7. idle'[o] = Append(rest, NewEntry(s)) /\ \A p \in Origins \ {o} : idle'[p] = idle[p]
  BY DEF Release, TypeOK, Full, NewEntry
<1> HIDE DEF b, rest
<1>8. /\ Append(rest, NewEntry(s)) \in Seq(Entry)
      /\ Len(Append(rest, NewEntry(s))) = Len(rest) + 1
      /\ \A i \in 1 .. Len(rest) : Append(rest, NewEntry(s))[i] = rest[i]
      /\ Append(rest, NewEntry(s))[Len(rest) + 1] = NewEntry(s)
  BY <1>2, <1>5, AppendProperties
<1>9. idle' \in [Origins -> Seq(Entry)]
  BY <1>7, <1>8 DEF Release, TypeOK
<1>10. Len(idle'[o]) \in 1 .. MaxPerHost
  <2>1. Len(idle'[o]) = Len(b) - Shift(o) + 1
    BY <1>5, <1>7, <1>8
  <2> QED BY <1>0, <1>1, <2>1 DEF Shift, Full, b
<1>11. \A i \in 1 .. Len(idle'[o]) - 1 :
          i + Shift(o) \in 1 .. Len(b) /\ idle'[o][i] = b[i + Shift(o)]
  <2> SUFFICES ASSUME NEW i \in 1 .. Len(idle'[o]) - 1
               PROVE  i + Shift(o) \in 1 .. Len(b) /\ idle'[o][i] = b[i + Shift(o)]
    OBVIOUS
  <2>1. i \in 1 .. Len(rest)
    BY <1>5, <1>7, <1>8
  <2>2. idle'[o][i] = b[i + Shift(o)]
    BY <1>6, <1>7, <1>8, <2>1
  <2>3. i + Shift(o) \in 1 .. Len(b)
    BY <1>1, <1>5, <2>1 DEF Shift
  <2> QED BY <2>2, <2>3
<1>12. Full(o) => 1 \in 1 .. Len(b)
  BY <1>0, <1>1 DEF Full, b
<1>13. fd' = [x \in Socks |->
                IF Full(o) /\ x = b[1].sock THEN "closed" ELSE fd[x]]
  BY <1>4 DEF Release, SafeClose, Full, b
<1>14. Len(idle'[o]) = Len(b) - Shift(o) + 1
  BY <1>5, <1>7, <1>8
<1> QED BY <1>7, <1>8, <1>9, <1>10, <1>11, <1>12, <1>13, <1>14 DEF b, Slots

-----------------------------------------------------------------------------
(* One lemma per operation: it preserves the invariant. *)

\* The invariant holds of an empty pool.
LEMMA InitInv == Init => IInv
<1> SUFFICES ASSUME Init PROVE IInv
  OBVIOUS
<1>1. <<>> \in Seq(Entry) /\ Len(<<>>) = 0
  BY EmptySeq
<1>2. \A o \in Origins : Slots(o) = {} /\ IdleSocks(o) = {} /\ lent[o] = {}
  <2>1. 1 .. 0 = {}
    OBVIOUS
  <2>2. \A o \in Origins : Slots(o) = {}
    BY <1>1, <2>1 DEF Init, Slots
  <2>3. \A o \in Origins : IdleSocks(o) = {}
    BY <2>2 DEF IdleSocks
  <2> QED BY <2>2, <2>3 DEF Init
<1>3. TypeOK
  BY <1>1 DEF Init, TypeOK
<1>4. Exclusive
  BY <1>2 DEF Exclusive, SlotsDistinct, IdleNotLent, LentOnce
<1>5. HeldIsOpen /\ AgeOrdered
  BY <1>2 DEF HeldIsOpen, AgeOrdered
<1>6. WithinCapacity
  <2>1. MaxPerHost \in Nat /\ MaxPerHost > 0
    BY PoolAssumption
  <2>2. \A o \in Origins : Len(idle[o]) = 0
    BY <1>1 DEF Init
  <2> SUFFICES ASSUME NEW o \in Origins PROVE Len(idle[o]) <= MaxPerHost
    BY DEF WithinCapacity
  <2>3. Len(idle[o]) = 0
    BY <2>2
  <2> QED BY <2>1, <2>3
<1> QED BY <1>3, <1>4, <1>5, <1>6 DEF IInv

\* What every pop from a bucket preserves, whatever becomes of entry k.
LEMMA PopKeepsOrder ==
    ASSUME IInv, NEW o \in Origins, NEW k \in 1 .. Len(idle[o]) + 1,
           PopThrough(o, k), now' = now
    PROVE  /\ SlotsDistinct'
           /\ WithinCapacity'
           /\ AgeOrdered'
           /\ \A p \in Origins : IdleSocks(p)' \subseteq IdleSocks(p)
           /\ k \in Slots(o) => \A p \in Origins : idle[o][k].sock \notin IdleSocks(p)'
           /\ \A p \in Origins : \A s \in IdleSocks(p)' : fd'[s] = fd[s]
<1>1. /\ \A p \in Origins : Len(idle[p]) \in Nat
      /\ MaxPerHost \in Nat
  BY LenProperties, PoolAssumption DEF IInv, TypeOK
<1>2. /\ idle' \in [Origins -> Seq(Entry)]
      /\ \A p \in Origins \ {o} : idle'[p] = idle[p]
      /\ Len(idle'[o]) <= Len(idle[o])
      /\ \A i \in 1 .. Len(idle'[o]) :
            i + k \in Slots(o) /\ idle'[o][i] = idle[o][i + k]
  BY PopThroughEffect DEF IInv
<1>3. \A p \in Origins : Len(idle'[p]) \in Nat
  BY <1>2, LenProperties
<1> DEFINE from(p, i) == IF p = o THEN i + k ELSE i
<1>4. \A p \in Origins : \A i \in 1 .. Len(idle'[p]) :
         from(p, i) \in Slots(p) /\ idle'[p][i] = idle[p][from(p, i)]
  BY <1>2 DEF Slots
<1>5. SlotsDistinct'
  <2> SUFFICES ASSUME NEW p \in Origins, NEW q \in Origins,
                      NEW i \in 1 .. Len(idle'[p]), NEW j \in 1 .. Len(idle'[q]),
                      idle'[p][i].sock = idle'[q][j].sock
               PROVE  p = q /\ i = j
    BY DEF SlotsDistinct, Slots
  <2>1. /\ from(p, i) \in Slots(p) /\ from(q, j) \in Slots(q)
        /\ idle[p][from(p, i)].sock = idle[q][from(q, j)].sock
    BY <1>4
  <2>2. p = q /\ from(p, i) = from(q, j)
    <3> HIDE DEF from
    <3> QED BY <2>1 DEF IInv, Exclusive, SlotsDistinct
  <2> QED BY <1>1, <1>3, <2>2
<1>6. WithinCapacity'
  BY <1>1, <1>2, <1>3 DEF IInv, WithinCapacity
<1>7. AgeOrdered'
  <2> SUFFICES ASSUME NEW p \in Origins, NEW i \in 1 .. Len(idle'[p]),
                      NEW j \in 1 .. i
               PROVE  /\ idle'[p][i].returnedAt <= now
                      /\ idle'[p][j].returnedAt <= idle'[p][i].returnedAt
    BY DEF AgeOrdered, Slots
  <2>1. j \in 1 .. Len(idle'[p])
    BY <1>3
  <2>2. from(p, j) \in 1 .. from(p, i)
    BY <1>1
  <2> QED BY <1>4, <2>1, <2>2 DEF IInv, AgeOrdered
<1>8. \A p \in Origins : IdleSocks(p)' \subseteq IdleSocks(p)
  BY <1>4 DEF IdleSocks, Slots
<1>9. k \in Slots(o) => \A p \in Origins : idle[o][k].sock \notin IdleSocks(p)'
  <2> SUFFICES ASSUME k \in Slots(o), NEW p \in Origins,
                      NEW i \in 1 .. Len(idle'[p]), idle[o][k].sock = idle'[p][i].sock
               PROVE  FALSE
    BY DEF IdleSocks, Slots
  <2>1. o = p /\ k = from(p, i)
    BY <1>4 DEF IInv, Exclusive, SlotsDistinct
  <2> QED BY <1>3, <2>1
<1>10. \A p \in Origins : \A s \in IdleSocks(p)' : fd'[s] = fd[s]
  <2> SUFFICES ASSUME NEW p \in Origins, NEW i \in 1 .. Len(idle'[p])
               PROVE  fd'[idle'[p][i].sock] = fd[idle'[p][i].sock]
    BY DEF IdleSocks, Slots
  <2>1. idle'[p] \in Seq(Entry)
    BY <1>2
  <2>2. idle'[p][i] \in Entry
    BY <2>1, ElementOfSeq
  <2>3. idle'[p][i].sock \in Socks
    BY <2>2 DEF Entry
  <2>4. ASSUME NEW j \in 1 .. (k - 1), idle'[p][i].sock = idle[o][j].sock
        PROVE  FALSE
    <3>1. j \in Slots(o)
      BY <1>1 DEF Slots
    <3>2. p = o /\ from(p, i) = j
      BY <1>4, <2>4, <3>1 DEF IInv, Exclusive, SlotsDistinct
    <3> QED BY <1>3, <3>2
  <2>5. fd'[idle'[p][i].sock] = fd[idle'[p][i].sock]
    BY <2>3, <2>4 DEF PopThrough, SafeClose
  <2> QED BY <2>5
<1> QED BY <1>5, <1>6, <1>7, <1>8, <1>9, <1>10

\* A hit: the socket leaves the bucket and goes to one caller.
LEMMA AcquireHitInv ==
    ASSUME IInv, NEW o \in Origins, NEW k \in Slots(o), AcquireHit(o, k)
    PROVE  IInv'
<1> DEFINE s == idle[o][k].sock
<1>1. Len(idle[o]) \in Nat /\ idle[o] \in Seq(Entry) /\ k \in 1 .. Len(idle[o])
  BY LenProperties DEF IInv, TypeOK, Slots
<1>2. s \in Socks /\ s \in IdleSocks(o)
  <2>1. idle[o][k] \in Entry
    BY <1>1, ElementOfSeq
  <2> QED BY <2>1 DEF Entry, IdleSocks
<1>3. k \in 1 .. Len(idle[o]) + 1 /\ PopThrough(o, k) /\ now' = now
  BY <1>1 DEF AcquireHit
<1>4. idle' \in [Origins -> Seq(Entry)]
  BY <1>3, PopThroughEffect DEF IInv
<1>5. /\ SlotsDistinct' /\ WithinCapacity' /\ AgeOrdered'
      /\ \A p \in Origins : IdleSocks(p)' \subseteq IdleSocks(p)
      /\ \A p \in Origins : s \notin IdleSocks(p)'
      /\ \A p \in Origins : \A x \in IdleSocks(p)' : fd'[x] = fd[x]
  BY <1>3, PopKeepsOrder
<1>6. TypeOK'
  BY <1>2, <1>4 DEF IInv, TypeOK, AcquireHit, PopThrough, SafeClose
<1>7. \A p \in Origins : lent'[p] = IF p = o THEN lent[p] \cup {s} ELSE lent[p]
  BY DEF AcquireHit, IInv, TypeOK
<1> HIDE DEF s
<1>8. IdleNotLent'
  BY <1>5, <1>7 DEF IInv, Exclusive, IdleNotLent
<1>9. \A p \in Origins : s \notin lent[p]
  BY <1>2 DEF IInv, Exclusive, IdleNotLent
<1>10. LentOnce'
  BY <1>7, <1>9 DEF IInv, Exclusive, LentOnce
<1>11. \A p \in Origins : \A x \in lent'[p] : fd'[x] = "open"
  <2> SUFFICES ASSUME NEW p \in Origins, NEW x \in lent'[p]
               PROVE  fd'[x] = "open"
    OBVIOUS
  <2>1. x \in Socks /\ fd[x] = "open"
    BY <1>2, <1>7 DEF IInv, TypeOK, HeldIsOpen
  <2>2. \A i \in 1 .. (k - 1) : i \in Slots(o) /\ i # k
    BY <1>1 DEF Slots
  <2>3. \A i \in 1 .. (k - 1) : idle[o][i].sock # s
    BY <2>2 DEF IInv, Exclusive, SlotsDistinct, s
  <2>4. x \in lent[p] \/ x = s
    BY <1>7
  <2>5. \A i \in 1 .. (k - 1) : idle[o][i].sock \in IdleSocks(o)
    BY <2>2 DEF IdleSocks
  <2>6. \A i \in 1 .. (k - 1) : idle[o][i].sock # x
    BY <2>3, <2>4, <2>5 DEF IInv, Exclusive, IdleNotLent
  <2> QED BY <1>3, <2>1, <2>6 DEF PopThrough, SafeClose
<1>12. HeldIsOpen'
  BY <1>5, <1>11 DEF IInv, HeldIsOpen
<1> QED BY <1>5, <1>6, <1>8, <1>10, <1>12 DEF IInv, Exclusive

\* A miss and the ValueError of a TLS peek only take entries out of a bucket.
LEMMA PopOnlyInv ==
    ASSUME IInv, NEW o \in Origins, NEW k \in 1 .. Len(idle[o]) + 1,
           PopThrough(o, k), UNCHANGED <<quiet, lent, now>>
    PROVE  IInv'
<1>1. idle' \in [Origins -> Seq(Entry)]
  BY PopThroughEffect DEF IInv
<1>2. /\ SlotsDistinct' /\ WithinCapacity' /\ AgeOrdered'
      /\ \A p \in Origins : IdleSocks(p)' \subseteq IdleSocks(p)
      /\ \A p \in Origins : \A x \in IdleSocks(p)' : fd'[x] = fd[x]
  BY PopKeepsOrder
<1>3. TypeOK'
  BY <1>1 DEF IInv, TypeOK, PopThrough, SafeClose
<1>4. IdleNotLent' /\ LentOnce'
  BY <1>2 DEF IInv, Exclusive, IdleNotLent, LentOnce
<1>5. \A p \in Origins : \A x \in lent'[p] : fd'[x] = "open"
  <2> SUFFICES ASSUME NEW p \in Origins, NEW x \in lent[p]
               PROVE  fd'[x] = "open"
    OBVIOUS
  <2>1. x \in Socks /\ fd[x] = "open"
    BY DEF IInv, TypeOK, HeldIsOpen
  <2>2. Len(idle[o]) \in Nat
    BY LenProperties DEF IInv, TypeOK
  <2>3. \A i \in 1 .. (k - 1) : i \in Slots(o)
    BY <2>2 DEF Slots
  <2>4. \A i \in 1 .. (k - 1) : idle[o][i].sock # x
    BY <2>3 DEF IInv, Exclusive, IdleNotLent, IdleSocks
  <2> QED BY <2>1, <2>4 DEF PopThrough, SafeClose
<1>6. HeldIsOpen'
  BY <1>2, <1>5 DEF IInv, HeldIsOpen
<1> QED BY <1>2, <1>3, <1>4, <1>6 DEF IInv, Exclusive

\* release: the caller's socket becomes the newest entry; the evicted one is closed.
LEMMA ReleaseInv ==
    ASSUME IInv, NEW o \in Origins, NEW s \in Socks, Release(o, s)
    PROVE  IInv'
<1> DEFINE last == Len(idle'[o])
<1>1. /\ idle' \in [Origins -> Seq(Entry)]
      /\ \A p \in Origins \ {o} : idle'[p] = idle[p]
      /\ last \in 1 .. MaxPerHost
      /\ idle'[o][last] = NewEntry(s)
      /\ \A i \in 1 .. last - 1 :
            i + Shift(o) \in Slots(o) /\ idle'[o][i] = idle[o][i + Shift(o)]
      /\ Full(o) => 1 \in Slots(o)
      /\ fd' = [x \in Socks |->
                  IF Full(o) /\ x = idle[o][1].sock THEN "closed" ELSE fd[x]]
  BY ReleaseEffect DEF IInv
<1>2. /\ now' = now /\ quiet' = quiet /\ s \in lent[o]
      /\ lent' \in [Origins -> SUBSET Socks]
      /\ \A p \in Origins : lent'[p] = IF p = o THEN lent[p] \ {s} ELSE lent[p]
  BY DEF Release, IInv, TypeOK
<1>3. /\ NewEntry(s).sock = s /\ NewEntry(s).returnedAt = now
      /\ MaxPerHost \in Nat /\ now \in Nat
      /\ Shift(o) \in 0 .. 1
      /\ \A p \in Origins : Len(idle[p]) \in Nat /\ Len(idle'[p]) \in Nat
  BY <1>1, LenProperties, PoolAssumption DEF NewEntry, Shift, IInv, TypeOK
<1>4. \A p \in Origins : s \notin IdleSocks(p) /\ (p # o => s \notin lent[p])
  BY <1>2 DEF IInv, Exclusive, IdleNotLent, LentOnce
<1> DEFINE from(p, i) == IF p = o THEN i + Shift(o) ELSE i
<1> DEFINE Old(p, i) == p # o \/ i # last
<1>5. \A p \in Origins : \A i \in 1 .. Len(idle'[p]) : Old(p, i) =>
         from(p, i) \in Slots(p) /\ idle'[p][i] = idle[p][from(p, i)]
  <2> SUFFICES ASSUME NEW p \in Origins, NEW i \in 1 .. Len(idle'[p]), Old(p, i)
               PROVE  from(p, i) \in Slots(p) /\ idle'[p][i] = idle[p][from(p, i)]
    OBVIOUS
  <2>1. CASE p # o
    BY <1>1, <2>1 DEF Slots
  <2>2. CASE p = o
    <3>1. i \in 1 .. last - 1
      BY <1>3, <2>2
    <3> QED BY <1>1, <2>2, <3>1
  <2> QED BY <2>1, <2>2
<1>6. \A p \in Origins : \A i \in 1 .. Len(idle'[p]) : ~Old(p, i) =>
         p = o /\ idle'[p][i].sock = s /\ idle'[p][i].returnedAt = now
  BY <1>1, <1>3
<1>7. \A p \in Origins : \A i \in 1 .. Len(idle'[p]) :
         Old(p, i) => idle'[p][i].sock # s /\ idle'[p][i].sock \in IdleSocks(p)
  BY <1>4, <1>5 DEF IdleSocks
<1>8. SlotsDistinct'
  <2> SUFFICES ASSUME NEW p \in Origins, NEW q \in Origins,
                      NEW i \in 1 .. Len(idle'[p]), NEW j \in 1 .. Len(idle'[q]),
                      idle'[p][i].sock = idle'[q][j].sock
               PROVE  p = q /\ i = j
    BY DEF SlotsDistinct, Slots
  <2>1. CASE Old(p, i) /\ Old(q, j)
    <3>1. /\ from(p, i) \in Slots(p) /\ from(q, j) \in Slots(q)
          /\ idle[p][from(p, i)].sock = idle[q][from(q, j)].sock
      BY <1>5, <2>1
    <3>2. p = q /\ from(p, i) = from(q, j)
      <4> HIDE DEF from
      <4> QED BY <3>1 DEF IInv, Exclusive, SlotsDistinct
    <3> QED BY <1>3, <3>2
  <2>2. CASE ~Old(p, i) /\ ~Old(q, j)
    BY <2>2
  <2>3. CASE Old(p, i) /\ ~Old(q, j)
    BY <1>6, <1>7, <2>3
  <2>4. CASE ~Old(p, i) /\ Old(q, j)
    BY <1>6, <1>7, <2>4
  <2> QED BY <2>1, <2>2, <2>3, <2>4
<1>9. \A p \in Origins : IdleSocks(p)' \subseteq IdleSocks(p) \cup (IF p = o THEN {s} ELSE {})
  <2> SUFFICES ASSUME NEW p \in Origins, NEW i \in 1 .. Len(idle'[p])
               PROVE  idle'[p][i].sock \in IdleSocks(p) \cup (IF p = o THEN {s} ELSE {})
    BY DEF IdleSocks, Slots
  <2> QED BY <1>6, <1>7
<1>10. IdleNotLent'
  <2> SUFFICES ASSUME NEW p \in Origins, NEW q \in Origins, NEW x \in IdleSocks(p)',
                      x \in lent'[q]
               PROVE  FALSE
    BY DEF IdleNotLent
  <2>1. x \in lent[q] /\ (q = o => x # s)
    BY <1>2
  <2>2. x \notin IdleSocks(p)
    BY <2>1 DEF IInv, Exclusive, IdleNotLent
  <2> QED BY <1>4, <1>9, <2>1, <2>2
<1>11. LentOnce'
  BY <1>2 DEF IInv, Exclusive, LentOnce
<1>12. HeldIsOpen'
  <2> SUFFICES ASSUME NEW p \in Origins, NEW x \in IdleSocks(p)' \cup lent'[p]
               PROVE  fd'[x] = "open"
    BY DEF HeldIsOpen
  <2>1. x \in IdleSocks(p) \/ x \in lent[p]
    BY <1>2, <1>9
  <2>2. fd[x] = "open"
    BY <2>1 DEF IInv, HeldIsOpen
  <2>3. Full(o) => idle[o][1].sock # x
    <3> SUFFICES ASSUME Full(o), x = idle[o][1].sock PROVE FALSE
      OBVIOUS
    <3>1. x \in IdleSocks(o) /\ x # s
      BY <1>1, <1>4 DEF IdleSocks
    <3>2. x \notin lent'[p]
      BY <1>2, <3>1 DEF IInv, Exclusive, IdleNotLent
    <3>3. PICK i \in 1 .. Len(idle'[p]) : idle'[p][i].sock = x
      BY <3>2 DEF IdleSocks, Slots
    <3>4. from(p, i) \in Slots(p) /\ idle[p][from(p, i)].sock = idle[o][1].sock
      BY <1>5, <1>6, <3>1, <3>3
    <3>5. p = o /\ from(p, i) = 1
      <4> HIDE DEF from
      <4> QED BY <1>1, <3>4 DEF IInv, Exclusive, SlotsDistinct
    <3> QED BY <1>3, <3>5 DEF Shift
  <2>4. x \in Socks
    <3>1. CASE x \in lent[p]
      BY <3>1 DEF IInv, TypeOK
    <3>2. CASE x \in IdleSocks(p)
      <4>1. PICK i \in 1 .. Len(idle[p]) : x = idle[p][i].sock
        BY <3>2 DEF IdleSocks, Slots
      <4>2. idle[p] \in Seq(Entry)
        BY DEF IInv, TypeOK
      <4>3. idle[p][i] \in Entry
        BY <4>2, ElementOfSeq
      <4> QED BY <4>1, <4>3 DEF Entry
    <3> QED BY <2>1, <3>1, <3>2
  <2> QED BY <1>1, <2>2, <2>3, <2>4
<1>13. WithinCapacity'
  <2> SUFFICES ASSUME NEW p \in Origins PROVE Len(idle'[p]) <= MaxPerHost
    BY DEF WithinCapacity
  <2> QED BY <1>1, <1>3 DEF IInv, WithinCapacity
<1>14. AgeOrdered'
  <2> SUFFICES ASSUME NEW p \in Origins, NEW i \in 1 .. Len(idle'[p]),
                      NEW j \in 1 .. i
               PROVE  /\ idle'[p][i].returnedAt <= now
                      /\ idle'[p][j].returnedAt <= idle'[p][i].returnedAt
    BY <1>2 DEF AgeOrdered, Slots
  <2>1. j \in 1 .. Len(idle'[p]) /\ i \in Nat /\ j \in Nat
    BY <1>3
  <2>2. \A m \in 1 .. Len(idle'[p]) : idle'[p][m].returnedAt <= now
    <3> SUFFICES ASSUME NEW m \in 1 .. Len(idle'[p])
                 PROVE  idle'[p][m].returnedAt <= now
      OBVIOUS
    <3>1. CASE Old(p, m)
      <4> HIDE DEF from
      <4> QED BY <1>5, <3>1 DEF IInv, AgeOrdered
    <3>2. CASE ~Old(p, m)
      BY <1>3, <1>6, <3>2
    <3> QED BY <3>1, <3>2
  <2>3. CASE Old(p, i)
    <3>1. Old(p, j) /\ from(p, j) \in 1 .. from(p, i)
      BY <1>3, <2>1, <2>3
    <3> HIDE DEF from, Old
    <3>2. /\ from(p, i) \in Slots(p)
          /\ idle'[p][i] = idle[p][from(p, i)] /\ idle'[p][j] = idle[p][from(p, j)]
      BY <1>5, <2>1, <2>3, <3>1
    <3> QED BY <2>2, <3>1, <3>2 DEF IInv, AgeOrdered
  <2>4. CASE ~Old(p, i)
    BY <1>6, <2>1, <2>2, <2>4
  <2> QED BY <2>2, <2>3, <2>4
<1>15. TypeOK'
  BY <1>1, <1>2 DEF IInv, TypeOK
<1> QED BY <1>8, <1>10, <1>11, <1>12, <1>13, <1>14, <1>15 DEF IInv, Exclusive

\* close: nothing is idle any more, and what is lent stays open.
LEMMA CloseInv ==
    ASSUME IInv, Close
    PROVE  IInv'
<1>1. <<>> \in Seq(Entry) /\ Len(<<>>) = 0 /\ 1 .. 0 = {}
  BY EmptySeq
<1>2. \A o \in Origins : Len(idle'[o]) = 0 /\ Slots(o)' = {} /\ IdleSocks(o)' = {}
  <2>1. \A o \in Origins : Len(idle'[o]) = 0
    BY <1>1 DEF Close
  <2>2. \A o \in Origins : Slots(o)' = {}
    BY <1>1, <2>1 DEF Slots
  <2> QED BY <2>1, <2>2 DEF IdleSocks
<1>3. TypeOK'
  BY <1>1 DEF IInv, TypeOK, Close, SafeClose
<1>4. Exclusive'
  BY <1>2 DEF IInv, Exclusive, SlotsDistinct, IdleNotLent, LentOnce, Close
<1>5. HeldIsOpen'
  <2> SUFFICES ASSUME NEW o \in Origins, NEW s \in lent[o]
               PROVE  fd'[s] = "open"
    BY <1>2 DEF HeldIsOpen, Close
  <2>1. s \in Socks /\ fd[s] = "open"
    BY DEF IInv, TypeOK, HeldIsOpen
  <2>2. \A p \in Origins : s \notin IdleSocks(p)
    BY DEF IInv, Exclusive, IdleNotLent
  <2> QED BY <2>1, <2>2 DEF Close, SafeClose
<1>6. AgeOrdered'
  BY <1>2 DEF AgeOrdered
<1>7. WithinCapacity'
  <2> SUFFICES ASSUME NEW o \in Origins PROVE Len(idle'[o]) <= MaxPerHost
    BY DEF WithinCapacity
  <2>1. Len(idle'[o]) = 0
    BY <1>2
  <2>2. MaxPerHost \in Nat
    BY PoolAssumption
  <2> QED BY <2>1, <2>2
<1> QED BY <1>3, <1>4, <1>5, <1>6, <1>7 DEF IInv

\* The callers, the peers and the clock leave the buckets alone.
LEMMA EnvironmentInv ==
    ASSUME IInv,
           \/ \E o \in Origins : \E s \in Socks : Open(o, s) \/ Discard(o, s) \/ Drain(o, s)
           \/ \E s \in Socks : PeerSpeaks(s)
           \/ Tick
    PROVE  IInv'
<1>1. idle' = idle
  BY DEF Open, Discard, Drain, PeerSpeaks, Tick
<1>2. /\ \A o \in Origins : Slots(o)' = Slots(o) /\ IdleSocks(o)' = IdleSocks(o)
      /\ SlotsDistinct' /\ WithinCapacity'
  BY <1>1 DEF IInv, Exclusive, SlotsDistinct, WithinCapacity, Slots, IdleSocks
<1>3. TypeOK'
  <2>1. fd' \in [Socks -> {"unused", "open", "closed"}]
    BY DEF IInv, TypeOK, Open, Discard, Drain, PeerSpeaks, Tick
  <2>2. lent' \in [Origins -> SUBSET Socks]
    BY DEF IInv, TypeOK, Open, Discard, Drain, PeerSpeaks, Tick
  <2>3. quiet' \in [Socks -> BOOLEAN]
    BY DEF IInv, TypeOK, Open, Discard, Drain, PeerSpeaks, Tick
  <2>4. now' \in Nat
    BY DEF IInv, TypeOK, Open, Discard, Drain, PeerSpeaks, Tick
  <2> QED BY <1>1, <2>1, <2>2, <2>3, <2>4 DEF IInv, TypeOK
<1>4. now' \in Nat /\ now \in Nat /\ now <= now'
  BY DEF IInv, TypeOK, Open, Discard, Drain, PeerSpeaks, Tick
<1>5. AgeOrdered'
  <2> SUFFICES ASSUME NEW o \in Origins, NEW i \in Slots(o), NEW j \in 1 .. i
               PROVE  /\ idle[o][i].returnedAt <= now'
                      /\ idle[o][j].returnedAt <= idle[o][i].returnedAt
    BY <1>1, <1>2 DEF AgeOrdered, Slots
  <2>1. idle[o][i] \in Entry
    <3>1. idle[o] \in Seq(Entry) /\ i \in 1 .. Len(idle[o])
      BY DEF IInv, TypeOK, Slots
    <3> QED BY <3>1, ElementOfSeq
  <2>2. idle[o][i].returnedAt \in Nat
    BY <2>1 DEF Entry
  <2>3. /\ idle[o][i].returnedAt <= now
        /\ idle[o][j].returnedAt <= idle[o][i].returnedAt
    BY DEF IInv, AgeOrdered
  <2> QED BY <1>4, <2>2, <2>3
<1>6. IdleNotLent' /\ LentOnce' /\ HeldIsOpen'
  <2>1. ASSUME NEW o \in Origins, NEW s \in Socks, Open(o, s)
        PROVE  IdleNotLent' /\ LentOnce' /\ HeldIsOpen'
    <3>1. \A p \in Origins : s \notin IdleSocks(p) \cup lent[p]
      BY <2>1 DEF Open, IInv, HeldIsOpen
    <3>2. \A p \in Origins : lent'[p] = IF p = o THEN lent[p] \cup {s} ELSE lent[p]
      BY <2>1 DEF Open, IInv, TypeOK
    <3>3. fd' = [fd EXCEPT ![s] = "open"] /\ fd \in [Socks -> {"unused", "open", "closed"}]
      BY <2>1 DEF Open, IInv, TypeOK
    <3>4. IdleNotLent'
      BY <1>2, <3>1, <3>2 DEF IInv, Exclusive, IdleNotLent
    <3>5. LentOnce'
      BY <3>1, <3>2 DEF IInv, Exclusive, LentOnce
    <3>6. HeldIsOpen'
      <4> SUFFICES ASSUME NEW p \in Origins, NEW x \in IdleSocks(p) \cup lent'[p]
                   PROVE  fd'[x] = "open"
        BY <1>2 DEF HeldIsOpen
      <4>1. x = s \/ fd[x] = "open"
        BY <3>2 DEF IInv, HeldIsOpen
      <4> QED BY <3>3, <4>1
    <3> QED BY <3>4, <3>5, <3>6
  <2>2. ASSUME NEW o \in Origins, NEW s \in Socks, Discard(o, s)
        PROVE  IdleNotLent' /\ LentOnce' /\ HeldIsOpen'
    <3>1. \A p \in Origins : s \notin IdleSocks(p) /\ (p # o => s \notin lent[p])
      BY <2>2 DEF Discard, IInv, Exclusive, IdleNotLent, LentOnce
    <3>2. \A p \in Origins : lent'[p] = IF p = o THEN lent[p] \ {s} ELSE lent[p]
      BY <2>2 DEF Discard, IInv, TypeOK
    <3>3. fd' = [fd EXCEPT ![s] = "closed"] /\ fd \in [Socks -> {"unused", "open", "closed"}]
      BY <2>2 DEF Discard, IInv, TypeOK
    <3>4. IdleNotLent' /\ LentOnce'
      <4>1. \A p \in Origins : lent'[p] \subseteq lent[p]
        BY <3>2
      <4> QED BY <1>2, <4>1 DEF IInv, Exclusive, IdleNotLent, LentOnce
    <3>5. HeldIsOpen'
      <4> SUFFICES ASSUME NEW p \in Origins, NEW x \in IdleSocks(p) \cup lent'[p]
                   PROVE  fd'[x] = "open"
        BY <1>2 DEF HeldIsOpen
      <4>1. x # s
        BY <3>1, <3>2
      <4>2. fd[x] = "open"
        BY <3>2 DEF IInv, HeldIsOpen
      <4> QED BY <3>3, <4>1, <4>2
    <3> QED BY <3>4, <3>5
  <2>3. ASSUME UNCHANGED <<lent, fd>>
        PROVE  IdleNotLent' /\ LentOnce' /\ HeldIsOpen'
    BY <1>2, <2>3 DEF IInv, Exclusive, IdleNotLent, LentOnce, HeldIsOpen
  <2> QED BY <2>1, <2>2, <2>3 DEF Drain, PeerSpeaks, Tick
<1> QED BY <1>2, <1>3, <1>5, <1>6 DEF IInv, Exclusive

-----------------------------------------------------------------------------

\* The invariant is inductive: one case per action.
LEMMA NextInv == IInv /\ [Next]_poolVars => IInv'
<1> SUFFICES ASSUME IInv, [Next]_poolVars PROVE IInv'
  OBVIOUS
<1>0. \A o \in Origins : Len(idle[o]) \in Nat
  BY LenProperties DEF IInv, TypeOK
<1>1. ASSUME NEW o \in Origins, AcquireMiss(o) PROVE IInv'
  <2>1. Len(idle[o]) + 1 \in 1 .. Len(idle[o]) + 1
    BY <1>0
  <2> QED BY <1>1, <2>1, PopOnlyInv DEF AcquireMiss
<1>2. ASSUME NEW o \in Origins, NEW k \in Slots(o), AcquireHit(o, k) PROVE IInv'
  BY <1>2, AcquireHitInv
<1>3. ASSUME NEW o \in Origins, NEW k \in Slots(o), AcquireRaises(o, k) PROVE IInv'
  <2>1. k \in 1 .. Len(idle[o]) + 1
    BY <1>0 DEF Slots
  <2> QED BY <1>3, <2>1, PopOnlyInv DEF AcquireRaises
<1>4. ASSUME NEW o \in Origins, NEW s \in Socks, Release(o, s) PROVE IInv'
  BY <1>4, ReleaseInv
<1>5. CASE Close
  BY <1>5, CloseInv
<1>6. CASE \/ \E o \in Origins : \E s \in Socks : Open(o, s) \/ Discard(o, s) \/ Drain(o, s)
           \/ \E s \in Socks : PeerSpeaks(s)
           \/ Tick
  BY <1>6, EnvironmentInv
<1>7. CASE UNCHANGED poolVars
  BY <1>7
  DEF poolVars, IInv, TypeOK, Exclusive, SlotsDistinct, IdleNotLent, LentOnce, HeldIsOpen,
      WithinCapacity, AgeOrdered, Slots, IdleSocks
<1> QED BY <1>1, <1>2, <1>3, <1>4, <1>5, <1>6, <1>7 DEF Next

(***************************************************************************)
(* The inductive invariant.  Exclusive needs HeldIsOpen (a fresh socket is *)
(* in no bucket because what is in one is open) and HeldIsOpen needs       *)
(* Exclusive (an eviction closes no socket that a caller holds), so the    *)
(* two go together.                                                        *)
(***************************************************************************)
THEOREM PoolInvariant == Spec => []IInv
<1> QED BY InitInv, NextInv, PTL DEF Spec

\* Type correctness.
THEOREM PoolTypeOK == Spec => []TypeOK
<1>1. IInv => TypeOK
  BY DEF IInv
<1> QED BY <1>1, PoolInvariant, PTL

\* No connection is ever in two places: two slots, two callers, or one of each.
THEOREM PoolExclusive == Spec => []Exclusive
<1>1. IInv => Exclusive
  BY DEF IInv
<1> QED BY <1>1, PoolInvariant, PTL

\* The pool closes no socket that is in use and keeps none that is closed.
THEOREM PoolHeldIsOpen == Spec => []HeldIsOpen
<1>1. IInv => HeldIsOpen
  BY DEF IInv
<1> QED BY <1>1, PoolInvariant, PTL

\* A bucket never holds more than max_per_host entries.
THEOREM PoolWithinCapacity == Spec => []WithinCapacity
<1>1. IInv => WithinCapacity
  BY DEF IInv
<1> QED BY <1>1, PoolInvariant, PTL

\* A bucket stays sorted by release time, so what popleft evicts is the entry that
\* has been idle for longest.
THEOREM PoolAgeOrdered == Spec => []AgeOrdered
<1>1. IInv => AgeOrdered
  BY DEF IInv
<1> QED BY <1>1, PoolInvariant, PTL

\* Only a hit moves a socket from a bucket to a caller.
LEMMA OnlyHitsLend ==
    ASSUME IInv, Next, NEW o \in Origins, lent'[o] \cap IdleSocks(o) # {}
    PROVE  \E k \in Slots(o) : AcquireHit(o, k)
<1> SUFFICES ASSUME \A k \in Slots(o) : ~AcquireHit(o, k)
             PROVE  lent'[o] \cap IdleSocks(o) = {}
  OBVIOUS
<1>1. lent[o] \cap IdleSocks(o) = {} /\ lent \in [Origins -> SUBSET Socks]
  BY DEF IInv, Exclusive, IdleNotLent, TypeOK
<1>2. ASSUME NEW p \in Origins, NEW k \in Slots(p), AcquireHit(p, k)
      PROVE  lent'[o] \cap IdleSocks(o) = {}
  BY <1>1, <1>2 DEF AcquireHit
<1>3. ASSUME NEW p \in Origins, NEW s \in Socks, Open(p, s)
      PROVE  lent'[o] \cap IdleSocks(o) = {}
  <2>1. s \notin IdleSocks(o)
    BY <1>3 DEF Open, IInv, HeldIsOpen
  <2>2. lent'[o] \subseteq lent[o] \cup {s}
    BY <1>1, <1>3 DEF Open
  <2> QED BY <1>1, <2>1, <2>2
<1>4. ASSUME NEW p \in Origins, NEW s \in Socks, Release(p, s) \/ Discard(p, s)
      PROVE  lent'[o] \cap IdleSocks(o) = {}
  <2>1. lent'[o] \subseteq lent[o]
    BY <1>1, <1>4 DEF Release, Discard
  <2> QED BY <1>1, <2>1
<1>5. CASE lent' = lent
  BY <1>1, <1>5
<1> QED
  BY <1>2, <1>3, <1>4, <1>5
  DEF Next, AcquireMiss, AcquireRaises, Close, PeerSpeaks, Drain, Tick

\* A hit leaves no expired entry behind it, by the order of the bucket.
THEOREM PoolNothingExpiredBehindAHit == Spec => NothingExpiredBehindAHit
<1> DEFINE A == \A o \in Origins :
                  lent'[o] \cap IdleSocks(o) # {} =>
                     \A i \in 1 .. Len(idle'[o]) :
                         now - idle'[o][i].returnedAt <= MaxIdleSeconds
<1>1. ASSUME IInv, Next PROVE A
  <2> SUFFICES ASSUME NEW o \in Origins, lent'[o] \cap IdleSocks(o) # {},
                      NEW i \in 1 .. Len(idle'[o])
               PROVE  now - idle'[o][i].returnedAt <= MaxIdleSeconds
    OBVIOUS
  <2>1. PICK k \in Slots(o) : AcquireHit(o, k)
    BY <1>1, OnlyHitsLend
  <2>2. idle[o] \in Seq(Entry) /\ Len(idle[o]) \in Nat /\ k \in 1 .. Len(idle[o])
    BY <1>1, LenProperties DEF IInv, TypeOK, Slots
  <2>3. k \in 1 .. Len(idle[o]) + 1 /\ PopThrough(o, k) /\ ~Expired(idle[o][k])
    BY <2>1, <2>2 DEF AcquireHit, FirstKept, Rejected
  <2>4. i + k \in Slots(o) /\ idle'[o][i] = idle[o][i + k]
    BY <1>1, <2>3, PopThroughEffect DEF IInv
  <2>5. i + k \in 1 .. Len(idle[o]) /\ k \in 1 .. i + k
    BY <2>2, <2>4, PopThroughEffect, <1>1, <2>3, LenProperties DEF Slots, IInv
  <2>6. idle[o][k].returnedAt <= idle[o][i + k].returnedAt
    BY <1>1, <2>4, <2>5 DEF IInv, AgeOrdered
  <2>7. idle[o][k] \in Entry /\ idle[o][i + k] \in Entry
    BY <2>2, <2>5, ElementOfSeq
  <2>8. /\ idle[o][k].returnedAt \in Nat /\ idle[o][i + k].returnedAt \in Nat
        /\ now \in Nat /\ MaxIdleSeconds \in Nat
    BY <1>1, <2>7, PoolAssumption DEF Entry, IInv, TypeOK
  <2>9. ~(now - idle[o][k].returnedAt > MaxIdleSeconds)
    BY <2>3 DEF Expired
  <2>10. now - idle[o][i + k].returnedAt <= MaxIdleSeconds
    BY <2>6, <2>8, <2>9
  <2> QED BY <2>4, <2>10
<1>2. IInv /\ [Next]_poolVars => [A]_poolVars
  BY <1>1
<1> QED BY <1>2, PoolInvariant, PTL DEF Spec, NothingExpiredBehindAHit

-----------------------------------------------------------------------------
(* What a caller may conclude from the buckets. *)

\* Nothing gets into a bucket but by release.
LEMMA OnlyReleasePools ==
    ASSUME IInv, [Next]_poolVars, NEW o \in Origins, NEW s \in IdleSocks(o)', s \notin IdleSocks(o)
    PROVE  Release(o, s)
<1>0. TypeOK /\ WithinCapacity /\ \A p \in Origins : Len(idle[p]) \in Nat
  BY LenProperties DEF IInv, TypeOK
<1>1. ASSUME NEW p \in Origins, NEW k \in 1 .. Len(idle[p]) + 1, PopThrough(p, k), now' = now
      PROVE  FALSE
  BY <1>1, PopKeepsOrder
<1>2. ASSUME NEW p \in Origins, AcquireMiss(p) PROVE FALSE
  <2>1. Len(idle[p]) + 1 \in 1 .. Len(idle[p]) + 1
    BY <1>0
  <2> QED BY <1>1, <1>2, <2>1 DEF AcquireMiss
<1>3. ASSUME NEW p \in Origins, NEW k \in Slots(p), AcquireHit(p, k) \/ AcquireRaises(p, k)
      PROVE  FALSE
  <2>1. k \in 1 .. Len(idle[p]) + 1
    BY <1>0 DEF Slots
  <2> QED BY <1>1, <1>3, <2>1 DEF AcquireHit, AcquireRaises
<1>4. ASSUME NEW p \in Origins, NEW r \in Socks, Release(p, r)
      PROVE  Release(o, s)
  <2> DEFINE last == Len(idle'[p])
  <2>1. /\ \A q \in Origins \ {p} : idle'[q] = idle[q]
        /\ last \in 1 .. MaxPerHost
        /\ idle'[p][last] = NewEntry(r)
        /\ \A i \in 1 .. last - 1 :
              i + Shift(p) \in Slots(p) /\ idle'[p][i] = idle[p][i + Shift(p)]
    BY <1>0, <1>4, ReleaseEffect
  <2>2. o = p
    BY <2>1 DEF IdleSocks, Slots
  <2>3. PICK i \in 1 .. last : s = idle'[o][i].sock
    BY <2>2 DEF IdleSocks, Slots
  <2> HIDE DEF last
  <2>4. i \notin 1 .. last - 1
    BY <2>1, <2>2, <2>3 DEF IdleSocks
  <2>5. i = last
    BY <2>1, <2>3, <2>4, PoolAssumption
  <2>6. s = r
    BY <2>1, <2>2, <2>3, <2>5 DEF NewEntry
  <2> QED BY <1>4, <2>2, <2>6
<1>5. ASSUME Close PROVE FALSE
  <2>1. Len(<<>>) = 0 /\ 1 .. 0 = {}
    BY EmptySeq
  <2> QED BY <1>5, <2>1 DEF Close, IdleSocks, Slots
<1>6. ASSUME idle' = idle PROVE FALSE
  BY <1>6 DEF IdleSocks, Slots
<1> QED
  BY <1>2, <1>3, <1>4, <1>5, <1>6
  DEF Next, poolVars, Open, Discard, PeerSpeaks, Drain, Tick

\* acquire returns an entry of the bucket, silent and its peer not gone, and takes it out.
LEMMA HitIsIdleAndQuiet ==
    ASSUME IInv, NEW o \in Origins, NEW k \in Slots(o), AcquireHit(o, k)
    PROVE  /\ idle[o][k].sock \in IdleSocks(o) \cap Socks
           /\ quiet[idle[o][k].sock]
<1>1. idle[o] \in Seq(Entry) /\ k \in 1 .. Len(idle[o])
  BY DEF IInv, TypeOK, Slots
<1>2. idle[o][k] \in Entry
  BY <1>1, ElementOfSeq
<1> QED BY <1>2 DEF AcquireHit, FirstKept, Rejected, IdleSocks, Entry

-----------------------------------------------------------------------------
(* Where sockets get lost: in the peek of a TLS socket, and nowhere else. *)

Lost == {s \in Socks : fd[s] = "open" /\ \A o \in Origins : s \notin IdleSocks(o) \cup lent[o]}

\* The entries behind the k-th stay in their buckets.
LEMMA PopThroughKeeps ==
    ASSUME IInv, NEW o \in Origins, NEW k \in 1 .. Len(idle[o]) + 1, PopThrough(o, k),
           NEW p \in Origins, NEW s \in IdleSocks(p), s \notin IdleSocks(p)'
    PROVE  p = o /\ \E i \in Slots(o) : i <= k /\ s = idle[o][i].sock
<1>1. Len(idle[o]) \in Nat /\ TypeOK
  BY LenProperties DEF IInv, TypeOK
<1>2. p = o
  BY <1>1, PopThroughEffect DEF IdleSocks, Slots
<1>3. PICK i \in Slots(o) : s = idle[o][i].sock
  BY <1>2 DEF IdleSocks
<1>4. ASSUME i > k PROVE FALSE
  <2>1. i \in 1 .. Len(idle[o]) /\ k \in Nat /\ k <= Len(idle[o])
    BY <1>1, <1>4 DEF Slots
  <2>2. i - k \in 1 .. Len(idle'[o])
    BY <1>1, <1>4, <2>1, PopThroughEffect
  <2>3. idle'[o][i - k] = idle[o][(i - k) + k]
    BY <1>1, <2>2, PopThroughEffect
  <2>4. (i - k) + k = i
    BY <2>1
  <2> QED BY <1>2, <1>3, <2>2, <2>3, <2>4 DEF IdleSocks, Slots
<1> QED BY <1>1, <1>2, <1>3, <1>4 DEF Slots

\* What a full bucket loses to a release is the entry that is closed.
LEMMA ReleaseKeeps ==
    ASSUME IInv, NEW o \in Origins, NEW r \in Socks, Release(o, r)
    PROVE  /\ r \in IdleSocks(o)'
           /\ \A p \in Origins : \A s \in IdleSocks(p) :
                 s \in IdleSocks(p)' \/ fd'[s] = "closed"
<1>1. Len(idle[o]) \in Nat /\ TypeOK /\ WithinCapacity /\ MaxPerHost \in Nat
  BY LenProperties, PoolAssumption DEF IInv, TypeOK
<1> DEFINE last == Len(idle'[o])
<1>4. /\ last \in 1 .. MaxPerHost
      /\ last = Len(idle[o]) - Shift(o) + 1
      /\ idle'[o][last] = NewEntry(r)
      /\ \A i \in 1 .. last - 1 : idle'[o][i] = idle[o][i + Shift(o)]
      /\ fd' = [x \in Socks |->
                  IF Full(o) /\ x = idle[o][1].sock THEN "closed" ELSE fd[x]]
      /\ \A p \in Origins \ {o} : idle'[p] = idle[p]
  BY <1>1, ReleaseEffect
<1>5. last \in 1 .. last /\ Shift(o) \in {0, 1} /\ (Shift(o) = 1 => Full(o))
  BY <1>1, <1>4 DEF Shift
<1> HIDE DEF last
<1>2. r \in IdleSocks(o)'
  <2>1. idle'[o][last].sock = r
    BY <1>4 DEF NewEntry
  <2> QED BY <1>5, <2>1 DEF IdleSocks, Slots, last
<1>3. ASSUME NEW p \in Origins, NEW s \in IdleSocks(p), s \notin IdleSocks(p)'
      PROVE  fd'[s] = "closed"
  <2>1. p = o
    BY <1>3, <1>4 DEF IdleSocks, Slots
  <2>2. PICK i \in Slots(o) : s = idle[o][i].sock
    BY <1>3, <2>1 DEF IdleSocks
  <2>3. ASSUME i > Shift(o) PROVE FALSE
    <3>1. i \in 1 .. Len(idle[o])
      BY <2>2 DEF Slots
    <3>2. i - Shift(o) \in 1 .. last - 1 /\ i - Shift(o) \in 1 .. last
      BY <1>1, <1>4, <1>5, <2>3, <3>1
    <3>3. idle'[o][i - Shift(o)] = idle[o][(i - Shift(o)) + Shift(o)]
      BY <1>4, <3>2
    <3>4. (i - Shift(o)) + Shift(o) = i
      BY <1>5, <3>1
    <3> QED BY <1>3, <2>1, <2>2, <3>2, <3>3, <3>4 DEF IdleSocks, Slots, last
  <2>4. i \in 1 .. Len(idle[o])
    BY <2>2 DEF Slots
  <2>5. Full(o) /\ i = 1
    BY <1>1, <1>5, <2>3, <2>4
  <2>6. s \in Socks
    <3>1. idle[o] \in Seq(Entry)
      BY <1>1 DEF TypeOK
    <3>2. idle[o][i] \in Entry
      BY <2>4, <3>1, ElementOfSeq
    <3> QED BY <2>2, <3>2 DEF Entry
  <2> QED BY <1>4, <2>2, <2>5, <2>6
<1> QED BY <1>2, <1>3

\* What a pop loses, when nobody gets it, is at most the entry it looked at last.
LEMMA PopLosesTheLast ==
    ASSUME IInv, NEW o \in Origins, NEW k \in 1 .. Len(idle[o]) + 1, PopThrough(o, k), lent' = lent,
           NEW s \in Lost', s \notin Lost
    PROVE  k \in Slots(o) /\ s = idle[o][k].sock
<1>0. /\ TypeOK /\ s \in Socks /\ fd'[s] = "open"
      /\ \A p \in Origins : s \notin IdleSocks(p)' /\ s \notin lent'[p]
      /\ fd[s] # "open" \/ \E p \in Origins : s \in IdleSocks(p) \/ s \in lent[p]
      /\ \A p \in Origins : Len(idle[p]) \in Nat
  BY LenProperties DEF Lost, IInv, TypeOK
 <1>1. fd[s] = "open"
  BY <1>0 DEF PopThrough, SafeClose
<1>2. PICK p \in Origins : s \in IdleSocks(p)
  BY <1>0, <1>1
<1>3. PICK i \in Slots(o) : i <= k /\ s = idle[o][i].sock
  BY <1>0, <1>2, PopThroughKeeps
<1>4. i \notin 1 .. k - 1
  BY <1>0, <1>3 DEF PopThrough, SafeClose
<1>5. i = k
  BY <1>0, <1>3, <1>4 DEF Slots
<1> QED BY <1>3, <1>5

\* The steps of the pool and of its environment but the one.
Lossless ==
    \/ \E o \in Origins : AcquireMiss(o)
    \/ \E o \in Origins : \E k \in Slots(o) : AcquireHit(o, k)
    \/ \E o \in Origins : \E s \in Socks : Release(o, s)
    \/ Close
    \/ \E o \in Origins : \E s \in Socks : Open(o, s)
    \/ \E o \in Origins : \E s \in Socks : Discard(o, s)
    \/ \E s \in Socks : PeerSpeaks(s)
    \/ \E o \in Origins : \E s \in Socks : Drain(o, s)
    \/ Tick

LEMMA RaisesLosesOne ==
    ASSUME IInv, NEW o \in Origins, NEW k \in Slots(o), AcquireRaises(o, k)
    PROVE  Lost' \subseteq Lost \cup {idle[o][k].sock}
<1>1. Len(idle[o]) \in Nat
  BY LenProperties DEF IInv, TypeOK
<1>2. k \in 1 .. Len(idle[o]) + 1
  BY <1>1 DEF Slots
<1> QED BY <1>2, PopLosesTheLast DEF AcquireRaises

LEMMA OthersLoseNothing ==
    ASSUME IInv, Lossless
    PROVE  Lost' \subseteq Lost
<1> SUFFICES ASSUME NEW s \in Lost', s \notin Lost PROVE FALSE
  OBVIOUS
<1>0. /\ TypeOK /\ s \in Socks /\ fd'[s] = "open"
      /\ \A o \in Origins : s \notin IdleSocks(o)' /\ s \notin lent'[o]
      /\ fd[s] # "open" \/ \E o \in Origins : s \in IdleSocks(o) \/ s \in lent[o]
      /\ \A o \in Origins : Len(idle[o]) \in Nat
  BY LenProperties DEF Lost, IInv, TypeOK
<1>2. ASSUME NEW o \in Origins, AcquireMiss(o) PROVE FALSE
  <2>1. Len(idle[o]) + 1 \in 1 .. Len(idle[o]) + 1 /\ Len(idle[o]) + 1 \notin Slots(o)
    BY <1>0 DEF Slots
  <2> QED BY <1>2, <2>1, PopLosesTheLast DEF AcquireMiss
<1>3. ASSUME NEW o \in Origins, NEW k \in Slots(o), AcquireHit(o, k) PROVE FALSE
  <2>1. k \in 1 .. Len(idle[o]) + 1 /\ PopThrough(o, k)
    BY <1>0, <1>3 DEF AcquireHit, Slots
  <2>2. \A p \in Origins : lent[p] \subseteq lent'[p]
    BY <1>0, <1>3 DEF AcquireHit, TypeOK
  <2>3. fd[s] = "open"
    BY <1>0, <2>1 DEF PopThrough, SafeClose
  <2>4. PICK p \in Origins : s \in IdleSocks(p)
    BY <1>0, <2>2, <2>3
  <2>5. PICK i \in Slots(o) : i <= k /\ s = idle[o][i].sock
    BY <1>0, <2>1, <2>4, PopThroughKeeps
  <2>6. i \notin 1 .. k - 1
    BY <1>0, <2>1, <2>5 DEF PopThrough, SafeClose
  <2>7. i = k
    BY <1>0, <2>1, <2>5, <2>6 DEF Slots
  <2>8. s \in lent'[o]
    BY <1>0, <1>3, <2>5, <2>7 DEF AcquireHit, TypeOK
  <2> QED BY <1>0, <2>8
<1>4. ASSUME NEW o \in Origins, NEW r \in Socks, Release(o, r) PROVE FALSE
  <2>1. fd[s] = "open"
    BY <1>0, <1>4 DEF Release, SafeClose
  <2>2. s # r
    BY <1>0, <1>4, ReleaseKeeps
  <2>3. \A p \in Origins : s \notin lent[p]
    BY <1>0, <1>4, <2>2 DEF Release, TypeOK
  <2>4. PICK p \in Origins : s \in IdleSocks(p)
    BY <1>0, <2>1, <2>3
  <2> QED BY <1>0, <1>4, <2>4, ReleaseKeeps
<1>5. ASSUME Close PROVE FALSE
  BY <1>0, <1>5 DEF Close, SafeClose
<1>6. ASSUME NEW o \in Origins, NEW r \in Socks, Open(o, r) PROVE FALSE
  <2>1. s # r /\ \A p \in Origins : lent[p] \subseteq lent'[p]
    BY <1>0, <1>6 DEF Open, TypeOK
  <2>2. idle' = idle /\ fd'[s] = fd[s]
    BY <1>0, <1>6, <2>1 DEF Open, TypeOK
  <2> QED BY <1>0, <2>1, <2>2 DEF IdleSocks, Slots
<1>7. ASSUME NEW o \in Origins, NEW r \in Socks, Discard(o, r) PROVE FALSE
  <2>1. s # r /\ \A p \in Origins : lent[p] \ {r} \subseteq lent'[p]
    BY <1>0, <1>7 DEF Discard, TypeOK
  <2>2. idle' = idle /\ fd'[s] = fd[s]
    BY <1>0, <1>7, <2>1 DEF Discard, TypeOK
  <2> QED BY <1>0, <2>1, <2>2 DEF IdleSocks, Slots
<1>8. ASSUME UNCHANGED <<idle, fd, lent>> PROVE FALSE
  BY <1>0, <1>8 DEF IdleSocks, Slots
<1> QED
  BY <1>2, <1>3, <1>4, <1>5, <1>6, <1>7, <1>8 DEF Lossless, PeerSpeaks, Drain, Tick

(***************************************************************************)
(* With plain connections only, whatever acquire takes out of a bucket is  *)
(* returned or closed: no descriptor leaks.                                *)
(***************************************************************************)
THEOREM PoolLosesNothing ==
    ASSUME TlsOrigins = {}
    PROVE  Spec => []NoSocketLost
<1> DEFINE J == IInv /\ Lost = {}
<1>1. Init => J
  BY InitInv DEF Init, Lost
<1>2. J /\ [Next]_poolVars => J'
  <2>1. ASSUME J, Next PROVE Lost' = {}
    BY <2>1, OthersLoseNothing DEF Next, Lossless, AcquireRaises
  <2>2. ASSUME J, UNCHANGED poolVars PROVE Lost' = {}
    BY <2>2 DEF poolVars, Lost, IdleSocks, Slots
  <2> QED BY <2>1, <2>2, NextInv
<1>3. J => NoSocketLost
  BY DEF Lost, NoSocketLost
<1> QED BY <1>1, <1>2, <1>3, PTL DEF Spec

=============================================================================
