-------------------------- MODULE Paginator_proofs --------------------------
(***************************************************************************)
(* What Paginator promises, for every server, every bound and every        *)
(* consumer.                                                               *)
(***************************************************************************)
EXTENDS Paginator, TLAPS

\* The number of the turn counts the requests and the pages.
Counted ==
    /\ pc = "top" => Len(requested) = number - 1 /\ Len(pages) = number - 1
    /\ pc = "reply" =>
          Len(requested) = number /\ Len(pages) = number - 1 /\ number <= maxPages
    /\ pc = "suspended" =>
          Len(requested) = number /\ Len(pages) = number /\ number <= maxPages
    /\ Len(requested) <= maxPages

\* The pages yielded are a walk along the chain.
Walk ==
    /\ pages # <<>> => pages[1] = First
    /\ \A i \in 1 .. (Len(pages) - 1) : pages[i + 1] = next[pages[i]]

\* The position is where the walk goes on, then where it is.
AtPosition ==
    /\ pc \in {"top", "reply"} =>
          position.page = IF pages = <<>> THEN First ELSE next[pages[Len(pages)]]
    /\ pc = "suspended" => pages # <<>> /\ pages[Len(pages)] = position.page

Yielded(page) == \E i \in DOMAIN pages : pages[i] = page

\* What has been asked for has been yielded, but for what is being asked for.
SeenIsYielded ==
    pc # "closed" =>
        \A s \in seen : Yielded(s.page) \/ (pc = "reply" /\ s = position)

\* Without copies of the params in it, a position is a page.
RequestedIsSeen ==
    ~echo =>
        /\ position.copies = 0
        /\ \A i \in DOMAIN requested : [page |-> requested[i], copies |-> 0] \in seen

Ended == outcome # "none" => pc = "closed"

IInv ==
    /\ TypeOK
    /\ Counted
    /\ Walk
    /\ AtPosition
    /\ SeenIsYielded
    /\ RequestedIsSeen
    /\ NoPageTwice
    /\ EndsForAReason
    /\ Ended

LEMMA PaginatorInit == Init => IInv
<1> SUFFICES ASSUME Init PROVE IInv
    OBVIOUS
<1> USE PaginatorAssumption DEF Init
<1>1. TypeOK
    BY DEF TypeOK, Position, Outcomes
<1>2. Counted /\ Walk /\ AtPosition /\ SeenIsYielded /\ RequestedIsSeen
    BY DEF Counted, Walk, AtPosition, SeenIsYielded, RequestedIsSeen
<1>3. NoPageTwice /\ EndsForAReason /\ Ended
    BY DEF NoPageTwice, EndsForAReason, Ended
<1> QED
    BY <1>1, <1>2, <1>3 DEF IInv

\* Ask adds one request, of a page not asked for before.
LEMMA AskInv == IInv /\ Ask => IInv'
<1> SUFFICES ASSUME IInv, Ask PROVE IInv'
    OBVIOUS
<1> USE PaginatorAssumption DEF Ask, serverVars
<1>1. TypeOK'
    BY DEF IInv, TypeOK, Position
<1>2. /\ Len(requested') = Len(requested) + 1
      /\ DOMAIN requested' = 1 .. (Len(requested) + 1)
      /\ requested'[Len(requested) + 1] = position.page
      /\ \A i \in DOMAIN requested : requested'[i] = requested[i]
    BY DEF IInv, TypeOK, Position
<1>3. Counted'
    BY <1>2 DEF IInv, TypeOK, Counted, InRange
<1>4. Walk' /\ AtPosition' /\ SeenIsYielded'
    BY DEF IInv, Walk, AtPosition, SeenIsYielded, Yielded
<1>5. RequestedIsSeen'
    <2> SUFFICES ASSUME ~echo PROVE RequestedIsSeen'
        BY DEF RequestedIsSeen
    <2>1. position = [page |-> position.page, copies |-> 0]
        BY DEF IInv, TypeOK, Position, RequestedIsSeen
    <2> QED
        BY <1>2, <2>1 DEF IInv, TypeOK, RequestedIsSeen
<1>6. NoPageTwice'
    <2> SUFFICES ASSUME ~echo,
                        NEW i \in DOMAIN requested', NEW j \in DOMAIN requested',
                        requested'[i] = requested'[j]
                 PROVE  i = j
        BY DEF NoPageTwice
    <2>1. position = [page |-> position.page, copies |-> 0]
        BY DEF IInv, TypeOK, Position, RequestedIsSeen
    <2>2. \A k \in DOMAIN requested : requested[k] # position.page
        BY <2>1 DEF IInv, RequestedIsSeen, Seen
    <2> QED
        BY <1>2, <2>2 DEF IInv, TypeOK, NoPageTwice
<1>7. EndsForAReason' /\ Ended'
    BY DEF IInv, EndsForAReason, Ended
<1> QED
    BY <1>1, <1>3, <1>4, <1>5, <1>6, <1>7 DEF IInv

\* Yield prolongs the walk by the page at the position.
LEMMA YieldInv == IInv /\ Yield => IInv'
<1> SUFFICES ASSUME IInv, Yield PROVE IInv'
    OBVIOUS
<1> USE PaginatorAssumption DEF Yield, serverVars
<1>1. TypeOK'
    BY DEF IInv, TypeOK, Position
<1>2. /\ Len(pages') = Len(pages) + 1
      /\ DOMAIN pages' = 1 .. (Len(pages) + 1)
      /\ pages'[Len(pages) + 1] = position.page
      /\ \A i \in DOMAIN pages : pages'[i] = pages[i]
      /\ DOMAIN pages = 1 .. Len(pages)
      /\ Len(pages) \in Nat
      /\ pages = <<>> <=> Len(pages) = 0
    BY DEF IInv, TypeOK, Position
<1>3. Counted'
    BY <1>2 DEF IInv, TypeOK, Counted
<1>4. Walk'
    BY <1>2 DEF IInv, Walk, AtPosition
<1>5. AtPosition'
    BY <1>2 DEF IInv, AtPosition
<1>6. SeenIsYielded'
    BY <1>2 DEF IInv, SeenIsYielded, Yielded
<1>7. RequestedIsSeen' /\ NoPageTwice'
    BY DEF IInv, RequestedIsSeen, NoPageTwice
<1>8. outcome = "none"
    BY DEF IInv, Ended
<1>9. EndsForAReason' /\ Ended'
    BY <1>4, <1>8 DEF Walk, EndsForAReason, Ended
<1> QED
    BY <1>1, <1>3, <1>4, <1>5, <1>6, <1>7, <1>9 DEF IInv

LEMMA AdvanceInv == IInv /\ Advance => IInv'
<1> SUFFICES ASSUME IInv, Advance PROVE IInv'
    OBVIOUS
<1> USE PaginatorAssumption DEF Advance, serverVars, Metadata
<1>1. TypeOK'
    BY DEF IInv, TypeOK, Position, Counted
<1>2. Counted'
    BY DEF IInv, TypeOK, Counted
<1>3. Walk' /\ SeenIsYielded' /\ NoPageTwice' /\ Ended'
    BY DEF IInv, Walk, SeenIsYielded, Yielded, NoPageTwice, Ended
<1>4. AtPosition'
    BY DEF IInv, AtPosition
<1>5. RequestedIsSeen'
    BY DEF IInv, RequestedIsSeen
<1>6. EndsForAReason'
    BY DEF IInv, EndsForAReason
<1> QED
    BY <1>1, <1>2, <1>3, <1>4, <1>5, <1>6 DEF IInv

\* An end preserves the invariant if the outcome is justified.
LEMMA EndInv ==
    ASSUME NEW how \in Outcomes, IInv, End(how),
           how = "StopIteration" =>
              \/ Len(pages) = maxPages
              \/ pages # <<>> /\ next[pages[Len(pages)]] = Null,
           how = "cycle" =>
              pages # <<>> /\ \E i \in DOMAIN pages : pages[i] = next[pages[Len(pages)]]
    PROVE  IInv'
<1> USE DEF End, serverVars
<1>1. TypeOK' /\ Counted'
    BY DEF IInv, TypeOK, Counted
<1>2. Walk' /\ AtPosition' /\ SeenIsYielded' /\ RequestedIsSeen' /\ NoPageTwice' /\ Ended'
    BY DEF IInv, Walk, AtPosition, SeenIsYielded, RequestedIsSeen, NoPageTwice, Ended
<1>3. EndsForAReason'
    BY DEF IInv, EndsForAReason
<1> QED
    BY <1>1, <1>2, <1>3 DEF IInv

LEMMA PaginatorNext == IInv /\ [Next]_vars => IInv'
<1> SUFFICES ASSUME IInv, [Next]_vars PROVE IInv'
    OBVIOUS
<1> USE PaginatorAssumption
<1>1. CASE OutOfPages
    <2>1. Len(pages) = maxPages
        BY <1>1 DEF OutOfPages, InRange, IInv, TypeOK, Counted
    <2> QED
        BY <1>1, <2>1, EndInv DEF OutOfPages, Outcomes
<1>2. CASE Revisit
    <2>1. Yielded(position.page)
        BY <1>2 DEF Revisit, Seen, IInv, SeenIsYielded
    <2>2. pages # <<>> /\ position.page = next[pages[Len(pages)]]
        BY <1>2, <2>1 DEF Revisit, Yielded, IInv, AtPosition
    <2> QED
        BY <1>2, <2>1, <2>2, EndInv DEF Revisit, Yielded, Outcomes
<1>3. CASE Ask
    BY <1>3, AskInv
<1>4. CASE BadReply
    BY <1>4, EndInv DEF BadReply, Outcomes
<1>5. CASE Yield
    BY <1>5, YieldInv
<1>6. CASE Abandon
    <2> USE <1>6 DEF Abandon, serverVars
    <2>1. TypeOK' /\ Counted'
        BY DEF IInv, TypeOK, Counted
    <2>2. Walk' /\ AtPosition' /\ SeenIsYielded' /\ RequestedIsSeen' /\ NoPageTwice'
        BY DEF IInv, Walk, AtPosition, SeenIsYielded, RequestedIsSeen, NoPageTwice
    <2>3. EndsForAReason' /\ Ended'
        BY DEF IInv, EndsForAReason, Ended
    <2> QED
        BY <2>1, <2>2, <2>3 DEF IInv
<1>7. CASE NoMore
    <2>1. pages # <<>> /\ next[pages[Len(pages)]] = Null
        BY <1>7 DEF NoMore, Metadata, IInv, AtPosition
    <2> QED
        BY <1>7, <2>1, EndInv DEF NoMore, Outcomes
<1>8. CASE Malformed
    <2> PICK how \in {"TypeError", "PaginationError"} : End(how)
        BY <1>8 DEF Malformed
    <2> QED
        BY EndInv DEF Outcomes
<1>9. CASE Advance
    BY <1>9, AdvanceInv
<1>10. CASE UNCHANGED vars
    <2> USE <1>10 DEF vars, serverVars
    <2>1. TypeOK' /\ Counted'
        BY DEF IInv, TypeOK, Counted
    <2>2. /\ Walk' /\ AtPosition' /\ SeenIsYielded' /\ RequestedIsSeen'
          /\ NoPageTwice' /\ EndsForAReason' /\ Ended'
        BY DEF IInv, Walk, AtPosition, SeenIsYielded, Yielded, RequestedIsSeen, NoPageTwice,
               EndsForAReason, Ended
    <2> QED
        BY <2>1, <2>2 DEF IInv
<1> QED
    BY <1>1, <1>2, <1>3, <1>4, <1>5, <1>6, <1>7, <1>8, <1>9, <1>10 DEF Next

\* The inductive invariant of the loop of the four strategies.
THEOREM PaginatorInvariant == Spec => []IInv
    BY PaginatorInit, PaginatorNext, PTL DEF Spec

\* The variables keep their types; in particular the loop ends with max_pages.
THEOREM PaginatorTypeOK == Spec => []TypeOK
<1>1. IInv => TypeOK
    BY DEF IInv
<1> QED
    BY <1>1, PaginatorInvariant, PTL

\* No paginator asks for a page twice, whatever the chain of the server, unless the
\* server's links repeat the query.
THEOREM PaginatorNoPageTwice == Spec => []NoPageTwice
<1>1. IInv => NoPageTwice
    BY DEF IInv
<1> QED
    BY <1>1, PaginatorInvariant, PTL

\* No paginator sends more than max_pages requests, for any max_pages and any server.
THEOREM PaginatorAtMostMaxPages == Spec => []AtMostMaxPages
<1>1. IInv => AtMostMaxPages
    BY DEF IInv, Counted, AtMostMaxPages
<1> QED
    BY <1>1, PaginatorInvariant, PTL

\* The pages yielded are a walk along the chain without gaps, and the way the iteration
\* ends says whether the chain is over, cut at max_pages, or a cycle.
THEOREM PaginatorEndsForAReason == Spec => []EndsForAReason
<1>1. IInv => EndsForAReason
    BY DEF IInv
<1> QED
    BY <1>1, PaginatorInvariant, PTL

=============================================================================
