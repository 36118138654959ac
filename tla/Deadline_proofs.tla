---------------------------- MODULE Deadline_proofs ----------------------------
(***************************************************************************)
(* For all timeouts and numbers of addresses: a response comes before the  *)
(* deadline or not at all, and the time over it is bounded by the          *)
(* connection phase.                                                       *)
(***************************************************************************)
EXTENDS Deadline, TLAPS

\* The timeouts of the code are never negative, and only a read may have none.
LEMMA LimitsAreNats ==
    ASSUME TypeOK
    PROVE  /\ Remaining \in Nat \/ total = None
           /\ SendLimit \in Nat
           /\ ConnectLimit \in Nat
<1>1. connect \in Nat /\ read \in Nat /\ now \in Nat
  <2>1. connect \in Timeouts /\ read \in Timeouts /\ now \in 0 .. Horizon
    BY DEF TypeOK
  <2> QED
    BY <2>1, DeadlineAssumption
<1>2. total = None \/ total \in Nat
  BY DeadlineAssumption DEF TypeOK
<1>3. total = None \/ Remaining \in Nat
  BY <1>1, <1>2 DEF Remaining, Max2
<1>4. \A value \in Nat : Bounded(value) \in Nat
  BY <1>3 DEF Bounded, Min2
<1>5. Effective \in Nat
  BY <1>1, <1>2 DEF Effective, Max2
<1> QED
  BY <1>1, <1>3, <1>4, <1>5 DEF SendLimit, ConnectLimit

-----------------------------------------------------------------------------
(***************************************************************************)
(* The strengthening.  Reach: how far the clock can come before the        *)
(* timeout in force strikes.  While addresses are tried it is bounded by   *)
(* those that have been given up and the one that is being tried; in the   *)
(* write it is the deadline, or where the connection phase has left the    *)
(* clock; in a read it is the deadline.                                    *)
(***************************************************************************)
Each == Min2(connect, Max2(0, total - resolved))

Reach == now + (limit - waited)

\* What the addresses that have been given up may have taken; what all of them may take.
Tried == resolved + (addresses - left) * Each

AllTried == resolved + addresses * Each

Bounds ==
    transport = "raw" /\ total # None =>
        /\ pc \notin {"preflight", "body"}
        /\ pc = "connect" =>
              limit = Each /\ now <= Tried + waited
        /\ pc = "handshake" =>
              tls /\ limit = Each /\ now <= AllTried + waited
        /\ pc = "send" => limit \in Nat /\ Reach <= Max2(total, Overrun)
        /\ pc = "recv" => limit \in Nat /\ Reach <= total
        /\ pc = "done" => now <= Max2(total, Overrun)
        /\ outcome = "Response" => pc = "done" /\ now <= total

Trying ==
    /\ pc = "connect" => left \in 1 .. addresses
    /\ waited > 0 => limit # None /\ waited <= limit
    /\ pc = "dns" => limit = None
    /\ outcome = "Response" => pc = "done"

IInv == TypeOK /\ Trying /\ Bounds

LEMMA OverrunIsNat ==
    ASSUME TypeOK, total # None
    PROVE  /\ Each \in Nat
           /\ Overrun \in Nat
           /\ AllTried \in Nat /\ AllTried <= Overrun
           /\ tls => Overrun = AllTried + Each
           /\ resolved \in Nat /\ addresses \in Nat /\ connect \in Nat /\ total \in Nat
<1>1. connect \in Timeouts /\ addresses \in 0 .. MaxAddresses /\ resolved \in 0 .. Horizon
  BY DEF TypeOK
<1>2. connect \in Nat /\ addresses \in Nat /\ resolved \in Nat
  BY <1>1, DeadlineAssumption
<1>3. total \in Nat
  BY DeadlineAssumption DEF TypeOK
<1>4. Each \in Nat
  BY <1>2, <1>3 DEF Each, Min2, Max2
<1>5. Overrun = resolved + (addresses + IF tls THEN 1 ELSE 0) * Each
  BY DEF Overrun, Each
<1>6. \A e \in Nat : (addresses + 1) * e = addresses * e + e /\ addresses * e \in Nat
  BY <1>2
<1>7. AllTried \in Nat
  BY <1>2, <1>4, <1>6 DEF AllTried
<1>8. CASE tls
  BY <1>2, <1>3, <1>4, <1>5, <1>6, <1>7, <1>8 DEF AllTried
<1>9. CASE ~tls
  BY <1>2, <1>3, <1>4, <1>5, <1>6, <1>7, <1>9 DEF AllTried
<1> QED
  BY <1>8, <1>9

\* Giving up an address costs at most Each; the last one completes them.
LEMMA OneMoreTried ==
    ASSUME TypeOK, total # None, NEW l \in Nat, l >= 1, l <= addresses
    PROVE  /\ resolved + (addresses - l) * Each \in Nat
           /\ resolved + (addresses - l) * Each + Each = resolved + (addresses - (l - 1)) * Each
           /\ resolved + (addresses - l) * Each + Each <= AllTried
<1>1. Each \in Nat /\ resolved \in Nat /\ addresses \in Nat
  BY OverrunIsNat
<1>2. \A e \in Nat, k \in Nat : k * e \in Nat /\ (k + 1) * e = k * e + e
  OBVIOUS
<1>3. \A e \in Nat, k \in Nat, n \in Nat : n >= k + 1 => n * e = (k + 1) * e + (n - (k + 1)) * e
  OBVIOUS
<1>4. addresses - l \in Nat /\ addresses - (l - 1) = (addresses - l) + 1 /\ l - 1 \in Nat
  BY <1>1
<1>5. addresses * Each = ((addresses - l) + 1) * Each + (addresses - ((addresses - l) + 1)) * Each
  BY <1>1, <1>3, <1>4
<1>6. addresses - ((addresses - l) + 1) \in Nat
  BY <1>1
<1>7. addresses * Each >= ((addresses - l) + 1) * Each
  BY <1>1, <1>2, <1>4, <1>5, <1>6
<1> QED
  BY <1>1, <1>2, <1>4, <1>7 DEF AllTried

LEMMA InitIInv == Init => IInv
<1> SUFFICES ASSUME Init PROVE IInv
  OBVIOUS
<1>1. connect \in Nat /\ read \in Nat /\ (total = None \/ total \in Nat)
  BY DeadlineAssumption DEF Init
<1>2. Remaining \in Nat \/ total = None
  BY <1>1 DEF Init, Remaining, Max2
<1>3. SendLimit \in Nat
  BY <1>1, <1>2 DEF SendLimit, Bounded, Effective, Min2, Max2
<1>4. TypeOK
  BY <1>3, DeadlineAssumption DEF Init, TypeOK, Waits, Outcomes
<1>5. Trying
  BY <1>3, DeadlineAssumption DEF Init, Trying
<1>6. Bounds
  <2> SUFFICES ASSUME transport = "raw", total # None
               PROVE  /\ pc \notin {"preflight", "body", "connect", "handshake", "recv", "done"}
                      /\ pc = "send" => limit \in Nat /\ Reach <= Max2(total, Overrun)
                      /\ outcome # "Response"
    BY DEF Bounds
  <2>1. limit \in Nat => limit <= total \/ pc # "send"
    <3>1. transport = "raw" /\ now = 0 /\ total \in Nat
      BY <1>1 DEF Init
    <3>2. SendLimit = Min2(read, total)
      BY <3>1 DEF SendLimit, Bounded, Remaining, Max2
    <3> QED
      BY <1>1, <3>1, <3>2 DEF Init, Min2
  <2>2. total <= Max2(total, Overrun)
    BY <1>1, <1>4, OverrunIsNat DEF Max2
  <2>3. Max2(total, Overrun) \in Nat
    BY <1>1, <1>4, OverrunIsNat DEF Max2
  <2>4. pc = "send" => limit = SendLimit /\ Reach = limit
    BY <1>3 DEF Init, Reach
  <2> QED
    BY <1>1, <1>3, <2>1, <2>2, <2>3, <2>4 DEF Init
<1> QED
  BY <1>4, <1>5, <1>6 DEF IInv

\* The type invariant, and that _connect has an address to try.
LEMMA TypeStep ==
    ASSUME TypeOK, Trying, [Next]_vars
    PROVE  TypeOK' /\ Trying'
<1> USE DeadlineAssumption DEF TypeOK, Trying, Waits, Outcomes, config, Call, End
<1>1. CASE Tick
  BY <1>1 DEF Tick, Min2
<1>2. CASE Preflight
  BY <1>2 DEF Preflight
<1>3. CASE Resolve
  BY <1>3, LimitsAreNats DEF Resolve
<1>4. CASE DnsFails
  BY <1>4 DEF DnsFails
<1>5. CASE Connected
  BY <1>5, LimitsAreNats DEF Connected
<1>6. CASE AddressFails
  BY <1>6 DEF AddressFails, TimedOut
<1>7. CASE HandshakeDone
  BY <1>7, LimitsAreNats DEF HandshakeDone
<1>8. CASE HandshakeFails
  BY <1>8 DEF HandshakeFails, TimedOut
<1>9. CASE Sent
  BY <1>9, LimitsAreNats DEF Sent, Receive
<1>10. CASE SendFails
  BY <1>10 DEF SendFails, TimedOut
<1>11. CASE Arrives
  BY <1>11, LimitsAreNats DEF Arrives, Receive
<1>12. CASE Completes
  BY <1>12 DEF Completes
<1>13. CASE RecvFails
  BY <1>13 DEF RecvFails, Malformed
<1>14. CASE BodyArrives
  BY <1>14 DEF BodyArrives
<1>15. CASE BodyEnds
  BY <1>15 DEF BodyEnds
<1>16. CASE UNCHANGED vars
  BY <1>16 DEF vars
<1> QED
  BY <1>1, <1>2, <1>3, <1>4, <1>5, <1>6, <1>7, <1>8, <1>9, <1>10, <1>11, <1>12, <1>13, <1>14,
     <1>15, <1>16 DEF Next, Peer

LEMMA BoundsStep ==
    ASSUME TypeOK, Trying, Bounds, [Next]_vars, TypeOK'
    PROVE  Bounds'
<1> SUFFICES ASSUME transport' = "raw", total' # None
             PROVE  Bounds'
  BY DEF Bounds
<1>1. transport = "raw" /\ total # None /\ UNCHANGED config
  BY DEF Next, Peer, vars, config, Tick, Preflight, Resolve, DnsFails, Connected, AddressFails,
         HandshakeDone, HandshakeFails, Sent, SendFails, Arrives, Completes, RecvFails,
         BodyArrives, BodyEnds
<1>2. /\ now \in Nat /\ waited \in Nat /\ resolved \in Nat /\ total \in Nat
      /\ addresses \in Nat /\ left \in Nat /\ Horizon \in Nat
  BY <1>1, DeadlineAssumption, OverrunIsNat DEF TypeOK
<1>3. Each \in Nat /\ Overrun \in Nat /\ AllTried \in Nat /\ AllTried <= Overrun
  BY <1>1, OverrunIsNat
<1>4. Max2(total, Overrun) \in Nat /\ Max2(total, Overrun) >= total /\ Max2(total, Overrun) >= Overrun
  BY <1>2, <1>3 DEF Max2
<1>5. UNCHANGED <<resolved, addresses>> =>
          UNCHANGED <<Each, AllTried>> /\ Max2(total, Overrun)' = Max2(total, Overrun)
  BY <1>1 DEF config, Each, Overrun, AllTried
<1>6. pc = "connect" => Tried \in Nat /\ Tried + Each <= AllTried
  BY <1>1, <1>2, OneMoreTried DEF Trying, Tried
<1>7. CASE Tick
  <2>1. now' <= now + 1 /\ now' \in Nat /\ UNCHANGED <<pc, limit, resolved, addresses, left, outcome>>
    BY <1>2, <1>7 DEF Tick, Min2
  <2>2. pc # "dns" => limit \in Nat
    BY <1>1, <1>3, <1>7 DEF Tick, Bounds, Waits
  <2>3. pc # "dns" => waited' = waited + 1 /\ waited < limit
    BY <2>2, <1>7, DeadlineAssumption DEF Tick
  <2>4. Tried' = Tried
    BY <1>5, <2>1 DEF Tried
  <2>5. pc # "done" /\ outcome # "Response"
    BY <1>7 DEF Trying, Tick, Waits
  <2>6. pc # "dns" => now' + (limit' - waited') <= now + (limit - waited)
    BY <1>2, <2>1, <2>2, <2>3
  <2> QED
    BY <1>1, <1>2, <1>3, <1>4, <1>5, <1>6, <2>1, <2>2, <2>3, <2>4, <2>5, <2>6
       DEF Bounds, config, Reach
<1>8. UNCHANGED <<now, resolved, addresses, left>> =>
           UNCHANGED <<Each, AllTried, Tried>> /\ Max2(total, Overrun)' = Max2(total, Overrun)
  BY <1>5 DEF Tried
<1>9. outcome = "Response" => pc = "done"
  BY DEF Trying
<1>10. SendLimit \in Nat /\ (now <= Max2(total, Overrun) => now + SendLimit <= Max2(total, Overrun))
  <2>1. SendLimit = Min2(read, Max2(0, total - now))
    BY <1>1 DEF SendLimit, Bounded, Remaining
  <2>2. SendLimit \in Nat
    BY LimitsAreNats
  <2>3. SendLimit = 0 \/ now + SendLimit <= total
    <3>1. read \in Nat
      BY DeadlineAssumption DEF TypeOK
    <3> QED
      BY <1>2, <2>1, <3>1 DEF Min2, Max2
  <2> QED
    BY <1>2, <1>4, <2>2, <2>3
<1>11. waited > 0 => waited <= limit
  BY DEF Trying
<1>12. CASE Resolve
  <2>1. /\ pc' = "connect" /\ now' = now /\ resolved' = now /\ addresses' \in Nat /\ left' = addresses'
        /\ waited' = 0 /\ outcome' = outcome /\ pc = "dns" /\ limit' = ConnectLimit
    BY <1>12, DeadlineAssumption DEF Resolve, Call
  <2>2. limit' = Each'
    BY <1>1, <2>1 DEF Each, ConnectLimit, Bounded, Remaining, config
  <2>3. Tried' = now
    <3>1. Each' \in Nat
      BY <1>1, <1>2, <2>1, <2>2, LimitsAreNats DEF ConnectLimit, Bounded
    <3>2. \A k \in Nat, n \in Nat, e \in Nat : k + (n - n) * e = k
      OBVIOUS
    <3>3. Tried' = now + (addresses' - addresses') * Each'
      BY <2>1 DEF Tried
    <3> QED
      BY <1>2, <2>1, <3>1, <3>2, <3>3
  <2> QED
    BY <1>1, <1>2, <1>9, <2>1, <2>2, <2>3 DEF Bounds
<1>13. CASE DnsFails
  <2>1. pc' = "done" /\ now' = now /\ resolved' = now /\ addresses' = addresses /\ outcome' # "Response"
    BY <1>13 DEF DnsFails, End
  <2>2. Each' \in Nat
    <3>1. connect \in Nat /\ total \in Nat /\ connect' = connect /\ total' = total
      BY <1>1, OverrunIsNat DEF config
    <3>2. Each' = Min2(connect, Max2(0, total - now))
      BY <2>1, <3>1 DEF Each
    <3>3. \A a, b \in Int : Max2(0, a) \in Nat /\ (a >= 0 /\ b >= 0 => Min2(a, b) \in Nat)
      BY DEF Min2, Max2
    <3> QED
      BY <1>2, <3>1, <3>2, <3>3
  <2>3. Overrun' = now + (addresses + (IF tls' THEN 1 ELSE 0)) * Each'
    BY <2>1 DEF Overrun, Each
  <2>4. \A k \in Nat, e \in Nat : k * e \in Nat
    OBVIOUS
  <2>5. Overrun' \in Nat /\ Overrun' >= now
    <3>1. addresses + (IF tls' THEN 1 ELSE 0) \in Nat
      BY <1>2
    <3>2. (addresses + (IF tls' THEN 1 ELSE 0)) * Each' \in Nat
      BY <2>2, <2>4, <3>1
    <3> QED
      BY <1>2, <2>3, <3>2
  <2>6. now <= Max2(total, Overrun)'
    BY <1>1, <1>2, <2>5 DEF Max2, config
  <2> QED
    BY <2>1, <2>6 DEF Bounds
<1>14. CASE Connected
  <2>1. pc = "connect" /\ UNCHANGED <<now, resolved, addresses, left, outcome>> /\ waited' = 0
    BY <1>14 DEF Connected, Call
  <2>2. now <= AllTried /\ limit = Each
    BY <1>1, <1>2, <1>3, <1>6, <1>11, <2>1 DEF Bounds
  <2>3. CASE tls
    <3>1. pc' = "handshake" /\ limit' = limit
      BY <1>14, <2>3 DEF Connected, Call
    <3> QED
      BY <1>1, <1>2, <1>3, <1>8, <1>9, <2>1, <2>2, <2>3, <3>1 DEF Bounds, config
  <2>4. CASE ~tls
    <3>1. pc' = "send" /\ limit' = SendLimit
      BY <1>14, <2>4 DEF Connected, Call
    <3>2. now <= Max2(total, Overrun)
      BY <1>2, <1>3, <1>4, <2>2
    <3> QED
      BY <1>2, <1>8, <1>9, <1>10, <2>1, <3>1, <3>2 DEF Bounds, Reach
  <2> QED
    BY <2>3, <2>4
<1>15. CASE AddressFails
  <2>1. pc = "connect" /\ UNCHANGED <<now, resolved, addresses>> /\ left' = left - 1
    BY <1>15 DEF AddressFails
  <2>2. left \in Nat /\ left >= 1 /\ left <= addresses
    BY <1>2, <2>1 DEF Trying
  <2>3. now <= Tried + Each /\ limit = Each
    BY <1>1, <1>2, <1>3, <1>6, <1>11, <2>1 DEF Bounds
  <2>4. CASE left > 1
    <3>1. pc' = "connect" /\ limit' = limit /\ waited' = 0 /\ outcome' = outcome
      BY <1>15, <2>4 DEF AddressFails, Call
    <3>2. Tried + Each = resolved + (addresses - (left - 1)) * Each
      BY <1>1, <2>2, OneMoreTried DEF Tried
    <3>3. Tried' = Tried + Each
      BY <1>5, <2>1, <3>2 DEF Tried
    <3> QED
      BY <1>2, <1>3, <1>5, <1>6, <1>9, <2>1, <2>3, <3>1, <3>3 DEF Bounds
  <2>5. CASE ~(left > 1)
    <3>1. pc' = "done" /\ outcome' # "Response"
      BY <1>15, <2>5 DEF AddressFails, End, TimedOut
    <3>2. now <= Max2(total, Overrun)
      BY <1>2, <1>3, <1>4, <1>6, <2>1, <2>3
    <3> QED
      BY <1>5, <2>1, <3>1, <3>2 DEF Bounds
  <2> QED
    BY <2>4, <2>5
<1>16. CASE HandshakeDone
  <2>1. /\ pc = "handshake" /\ UNCHANGED <<now, resolved, addresses, left, outcome>> /\ waited' = 0
        /\ pc' = "send" /\ limit' = SendLimit
    BY <1>16 DEF HandshakeDone, Call
  <2>2. now <= Max2(total, Overrun)
    BY <1>1, <1>2, <1>3, <1>4, <1>11, <2>1, OverrunIsNat DEF Bounds
  <2> QED
    BY <1>2, <1>8, <1>9, <1>10, <2>1, <2>2 DEF Bounds, Reach
<1>17. CASE HandshakeFails
  <2>1. /\ pc = "handshake" /\ UNCHANGED <<now, resolved, addresses, left>>
        /\ pc' = "done" /\ outcome' # "Response"
    BY <1>17 DEF HandshakeFails, End, TimedOut
  <2>2. now <= Max2(total, Overrun)
    BY <1>1, <1>2, <1>3, <1>4, <1>11, <2>1, OverrunIsNat DEF Bounds
  <2> QED
    BY <1>8, <2>1, <2>2 DEF Bounds
<1>18. pc = "send" => now <= Max2(total, Overrun)
  BY <1>1, <1>2, <1>4, <1>11 DEF Bounds, Reach
<1>19. pc = "recv" => now <= total /\ now <= Max2(total, Overrun)
  BY <1>1, <1>2, <1>4, <1>11 DEF Bounds, Reach
<1>20. CASE Sent \/ Arrives
  <2>1. pc \in {"send", "recv"} /\ UNCHANGED <<now, resolved, addresses, left>> /\ Receive
    BY <1>20 DEF Sent, Arrives
  <2>2. Remaining = Max2(0, total - now)
    BY DEF Remaining
  <2>3. CASE Remaining <= 0
    <3>1. pc' = "done" /\ outcome' # "Response"
      BY <1>1, <2>1, <2>3 DEF Receive, End
    <3> QED
      BY <1>8, <1>18, <1>19, <2>1, <3>1 DEF Bounds
  <2>4. CASE ~(Remaining <= 0)
    <3>1. pc' = "recv" /\ limit' = Remaining /\ waited' = 0 /\ outcome' = outcome
      BY <1>1, <2>1, <2>4 DEF Receive, Call
    <3>2. Remaining = total - now /\ Remaining \in Nat
      BY <1>2, <2>2, <2>4 DEF Max2
    <3> QED
      BY <1>1, <1>2, <1>9, <2>1, <3>1, <3>2 DEF Bounds, Reach, config
  <2> QED
    BY <2>3, <2>4
<1>21. CASE SendFails
  <2>1. /\ pc = "send" /\ UNCHANGED <<now, resolved, addresses, left>>
        /\ pc' = "done" /\ outcome' # "Response"
    BY <1>21 DEF SendFails, End, TimedOut
  <2> QED
    BY <1>8, <1>18, <2>1 DEF Bounds
<1>22. CASE Completes
  <2>1. pc = "recv" /\ UNCHANGED <<now, resolved, addresses, left>> /\ pc' = "done"
    BY <1>1, <1>22 DEF Completes, End
  <2> QED
    BY <1>1, <1>8, <1>19, <2>1 DEF Bounds, config
<1>23. CASE RecvFails
  <2>1. /\ pc = "recv" /\ UNCHANGED <<now, resolved, addresses, left>>
        /\ pc' = "done" /\ outcome' # "Response"
    BY <1>23 DEF RecvFails, End, Malformed
  <2> QED
    BY <1>8, <1>19, <2>1 DEF Bounds
<1>24. CASE Preflight \/ BodyArrives \/ BodyEnds
  BY <1>1, <1>24 DEF Bounds, Preflight, BodyArrives, BodyEnds
<1>25. CASE UNCHANGED vars
  BY <1>25 DEF vars, config, Bounds, Reach, Overrun, Each, Tried, AllTried
<1> QED
  BY <1>7, <1>12, <1>13, <1>14, <1>15, <1>16, <1>17, <1>20, <1>21, <1>22, <1>23, <1>24, <1>25
     DEF Next, Peer

LEMMA IInvHolds == Spec => []IInv
<1>1. IInv /\ [Next]_vars => IInv'
  <2> SUFFICES ASSUME IInv, [Next]_vars PROVE IInv'
    OBVIOUS
  <2>1. TypeOK' /\ Trying'
    BY TypeStep DEF IInv
  <2>2. Bounds'
    BY <2>1, BoundsStep DEF IInv
  <2> QED
    BY <2>1, <2>2 DEF IInv
<1> QED
  BY InitIInv, <1>1, PTL DEF Spec

-----------------------------------------------------------------------------

\* Type correctness; above all, no timeout that _bounded or _FirstByteSocket.recv passes to
\* settimeout is negative, which would raise ValueError.
THEOREM TypeCorrect == Spec => []TypeOK
<1>1. IInv => TypeOK
  BY DEF IInv
<1> QED
  BY <1>1, IInvHolds, PTL

(***************************************************************************)
(* _FirstByteSocket and _bounded together: a response that comes through   *)
(* send has come before the deadline.                                      *)
(***************************************************************************)
THEOREM ResponsesAreInTime == Spec => []NoLateResponse
<1>1. IInv => NoLateResponse
  <2> SUFFICES ASSUME IInv, Expired, outcome = "Response" PROVE FALSE
    BY DEF NoLateResponse
  <2>1. now <= total /\ now > total
    BY DEF IInv, Bounds, Expired
  <2>2. now \in Nat /\ total \in Nat
    BY DeadlineAssumption DEF IInv, TypeOK, Expired
  <2> QED
    BY <2>1, <2>2
<1> QED
  BY <1>1, IInvHolds, PTL

(***************************************************************************)
(* What connecting may cost beyond the deadline, for every number of       *)
(* addresses.                                                              *)
(***************************************************************************)
THEOREM OverrunIsBounded == Spec => []DeadlineHolds
<1>1. IInv => DeadlineHolds
  <2> SUFFICES ASSUME IInv, Expired, pc # "dns" PROVE now <= Overrun
    BY DEF DeadlineHolds
  <2>1. transport = "raw" /\ total # None /\ now > total /\ TypeOK /\ Trying /\ Bounds
    BY DEF IInv, Expired
  <2>2. now \in Nat /\ waited \in Nat /\ left \in Nat
    BY <2>1, DeadlineAssumption DEF TypeOK
  <2>3. /\ Each \in Nat /\ Overrun \in Nat /\ AllTried \in Nat /\ AllTried <= Overrun
        /\ (tls => Overrun = AllTried + Each) /\ total \in Nat /\ addresses \in Nat
    BY <2>1, OverrunIsNat
  <2>4. waited > 0 => waited <= limit
    BY <2>1 DEF Trying
  <2>5. CASE pc = "connect"
    <3>1. left \in Nat /\ left >= 1 /\ left <= addresses
      BY <2>1, <2>2, <2>3, <2>5 DEF Trying
    <3>2. Tried \in Nat /\ Tried + Each <= AllTried
      BY <2>1, <3>1, OneMoreTried DEF Tried
    <3> QED
      BY <2>1, <2>2, <2>3, <2>4, <2>5, <3>2 DEF Bounds
  <2>6. CASE pc = "handshake"
    BY <2>1, <2>2, <2>3, <2>4, <2>6 DEF Bounds
  <2>7. CASE pc \in {"send", "recv", "done"}
    <3>1. Max2(total, Overrun) \in Nat /\ (Max2(total, Overrun) = total \/ Max2(total, Overrun) = Overrun)
      BY <2>3 DEF Max2
    <3>2. now <= Max2(total, Overrun) \/ now <= total
      BY <2>1, <2>2, <2>3, <2>4, <2>7, <3>1 DEF Bounds, Reach
    <3> QED
      BY <2>1, <2>2, <2>3, <3>1, <3>2
  <2> QED
    BY <2>1, <2>5, <2>6, <2>7 DEF Bounds, TypeOK, Waits
<1> QED
  BY <1>1, IInvHolds, PTL

(***************************************************************************)
(* Where the deadline is hard: on a pooled connection, or a plain one to a *)
(* host with one address.  A second address, or a TLS handshake, is what   *)
(* it takes to wait past it (HardDeadline alone is violated).              *)
(***************************************************************************)
THEOREM OneAddressDeadlineIsHard ==
    Spec => [](addresses <= 1 /\ ~tls => HardDeadline)
<1>1. IInv /\ DeadlineHolds => (addresses <= 1 /\ ~tls => HardDeadline)
  <2> SUFFICES ASSUME IInv, DeadlineHolds, addresses <= 1, ~tls, Expired, resolved <= total, pc # "dns"
               PROVE  FALSE
    BY DEF HardDeadline
  <2>1. /\ total \in Nat /\ connect \in Nat /\ resolved \in Nat /\ now \in Nat
        /\ addresses \in {0, 1} /\ now > total
    <3>1. addresses \in Nat /\ resolved \in Nat /\ now \in Nat /\ connect \in Timeouts /\ total \in Totals
      BY DeadlineAssumption DEF IInv, TypeOK
    <3>2. total # None /\ now > total
      BY DEF Expired
    <3> QED
      BY <3>1, <3>2, DeadlineAssumption
  <2> DEFINE each == Min2(connect, Max2(0, total - resolved))
  <2>2. each \in Nat /\ each <= total - resolved
    BY <2>1 DEF Min2, Max2
  <2>3. now <= resolved + (addresses + 0) * each
    BY DEF DeadlineHolds, Overrun
  <2> HIDE DEF each
  <2>4. (addresses + 0) * each <= each
    BY <2>1, <2>2
  <2> QED
    BY <2>1, <2>2, <2>3, <2>4
<1> QED
  BY <1>1, IInvHolds, OverrunIsBounded, PTL

-----------------------------------------------------------------------------
\* Without a total timeout the write and every read of the raw transport have the read timeout.
ReadLimit == transport = "raw" /\ total = None /\ pc \in {"send", "recv"} => limit = read

LEMMA ReadLimitStep ==
    ASSUME ReadLimit, [Next]_vars
    PROVE  ReadLimit'
<1> SUFFICES ASSUME transport' = "raw", total' = None, pc' \in {"send", "recv"}
             PROVE  limit' = read'
  BY DEF ReadLimit
<1> USE DEF Call, End
<1>1. transport = "raw" /\ total = None /\ read' = read
  BY DEF Next, Peer, vars, config, Tick, Preflight, Resolve, DnsFails, Connected, AddressFails,
         HandshakeDone, HandshakeFails, Sent, SendFails, Arrives, Completes, RecvFails,
         BodyArrives, BodyEnds
<1>2. SendLimit = read
  BY <1>1 DEF SendLimit, Bounded
<1>3. CASE Tick
  BY <1>1, <1>3 DEF Tick, ReadLimit
<1>4. CASE Connected \/ HandshakeDone
  BY <1>1, <1>2, <1>4 DEF Connected, HandshakeDone
<1>5. CASE Sent \/ Arrives
  BY <1>1, <1>5 DEF Sent, Arrives, Receive, ReadLimit
<1>6. CASE Preflight \/ Resolve \/ DnsFails \/ AddressFails
  BY <1>6 DEF Preflight, Resolve, DnsFails, AddressFails
<1>7. CASE HandshakeFails \/ SendFails \/ RecvFails
  BY <1>7 DEF HandshakeFails, SendFails, RecvFails
<1>8. CASE Completes \/ BodyArrives \/ BodyEnds
  BY <1>8 DEF Completes, BodyArrives, BodyEnds
<1>9. CASE UNCHANGED vars
  BY <1>1, <1>9 DEF vars, config, ReadLimit
<1> QED
  BY <1>3, <1>4, <1>5, <1>6, <1>7, <1>8, <1>9 DEF Next, Peer

(***************************************************************************)
(* Where there is no total timeout, no read outlasts the read timeout: it  *)
(* is the deadline of _FirstByteSocket.recv, and only that, which replaces *)
(* it (ReadTimeoutHolds alone is violated).                                *)
(***************************************************************************)
THEOREM WithoutTotalReadsAreBounded == Spec => [](total = None => ReadTimeoutHolds)
<1>1. Init => ReadLimit
  BY DEF Init, ReadLimit, SendLimit, Bounded
<1>2. ReadLimit /\ [Next]_vars => ReadLimit'
  BY ReadLimitStep
<1>3. IInv /\ ReadLimit => (total = None => ReadTimeoutHolds)
  <2> SUFFICES ASSUME IInv, ReadLimit, total = None, transport = "raw", pc = "recv"
               PROVE  waited <= read
    BY DEF ReadTimeoutHolds
  <2>1. limit = read /\ read \in Nat /\ waited \in Nat
    BY DeadlineAssumption DEF ReadLimit, IInv, TypeOK
  <2>2. waited > 0 => waited <= limit
    BY DEF IInv, Trying
  <2> QED
    BY <2>1, <2>2
<1> QED
  BY <1>1, <1>2, <1>3, IInvHolds, PTL DEF Spec

================================================================================
