------------------------------ MODULE Paginator ------------------------------
(***************************************************************************)
(* pagination/: the generators pages() of the four strategies, which share *)
(* one loop, with the server they walk over and the consumer that draws    *)
(* pages from them.                                                        *)
(*                                                                         *)
(* A page of the server stands for the offset, page number, cursor or URL  *)
(* that asks for it.  Which page follows which is the server's business    *)
(* and arbitrary: chains that end, chains that run into themselves, and    *)
(* metadata of the wrong type.                                             *)
(***************************************************************************)
EXTENDS Naturals, Sequences

CONSTANTS
    Pages,          \* what the server has
    First,          \* the page at start_offset, page, cursor or url
    Null,           \* no next page: null, for a cursor also "", no rel="next"
    Odd,            \* not an integer, not a string; a malformed Link header
    Unhashable,     \* a list or an object
    MaxPagesValues  \* the values of max_pages to consider

Links == Pages \cup {Null, Odd, Unhashable}

ASSUME PaginatorAssumption ==
    /\ First \in Pages
    /\ {Null, Odd, Unhashable} \cap Pages = {}
    /\ Null \notin {Odd, Unhashable} /\ Odd # Unhashable
    /\ MaxPagesValues \subseteq Nat

VARIABLES
    strategy, maxPages,  \* the paginator; never change
    echo,       \* "link": params are given, and the server's links repeat the query
    next,       \* the server: what the metadata of each page says
    pc,         \* "top" of the loop, waiting for a "reply", "suspended" in yield, "closed"
    position,   \* offset, current_page, current_cursor or next_url
    number,     \* page_number
    seen,       \* positions asked for
    requested,  \* history variable: pages asked for, in order
    pages,      \* history variable: pages yielded, in order
    outcome     \* how the generator ended

serverVars == <<strategy, maxPages, echo, next>>
vars == <<serverVars, pc, position, number, seen, requested, pages, outcome>>

\* copies: how often the query of a URL repeats the params.  The other strategies
\* send them once with every request and their positions do not contain them.
Position == [page : Pages, copies : Nat]

Outcomes == {"none", "StopIteration", "cycle", "PaginationError", "TypeError",
             "JSONDecodeError", "ClientError"}

TypeOK ==
    /\ strategy \in {"offset", "page", "cursor", "link"}
    /\ maxPages \in MaxPagesValues
    /\ echo \in BOOLEAN
    /\ next \in [Pages -> Links]
    /\ pc \in {"top", "reply", "suspended", "closed"}
    /\ position \in Position
    /\ number \in 1 .. (maxPages + 1)
    /\ seen \subseteq Position
    /\ requested \in Seq(Pages)
    /\ pages \in Seq(Pages)
    /\ outcome \in Outcomes

Init ==
    /\ strategy \in {"offset", "page", "cursor", "link"}
    /\ maxPages \in MaxPagesValues
    /\ echo \in BOOLEAN /\ (echo => strategy = "link")
    /\ next \in [Pages -> Links]
    /\ pc = "top"
    /\ position = [page |-> First, copies |-> 0]
    /\ number = 1
    /\ seen = {}
    /\ requested = <<>>
    /\ pages = <<>>
    /\ outcome = "none"

-----------------------------------------------------------------------------

\* The generator is over; "cycle" is the PaginationError of the guard.
End(how) ==
    /\ pc' = "closed"
    /\ outcome' = how
    /\ UNCHANGED <<serverVars, position, number, seen, requested, pages>>

\* Mutant: range(0, max_pages + 1).
InRange_OneMore == number <= maxPages + 1

InRange == number <= maxPages

OutOfPages ==
    /\ pc = "top"
    /\ ~InRange
    /\ End("StopIteration")

\* Mutant: the cursor strategy as it would be without its guard.
Seen_ForgetsCursors == strategy # "cursor" /\ position \in seen

Seen == position \in seen

Revisit ==
    /\ pc = "top"
    /\ InRange
    /\ Seen
    /\ End("cycle")

\* seen.add, and the call of client.request.
Ask ==
    /\ pc = "top"
    /\ InRange
    /\ ~Seen
    /\ seen' = seen \cup {position}
    /\ requested' = Append(requested, position.page)
    /\ pc' = "reply"
    /\ UNCHANGED <<serverVars, position, number, pages, outcome>>

\* client.request raises, the body is not JSON, not an object, or has no list of items.
BadReply ==
    /\ pc = "reply"
    /\ \E error \in {"ClientError", "JSONDecodeError", "PaginationError"} : End(error)

Yield ==
    /\ pc = "reply"
    /\ pages' = Append(pages, position.page)
    /\ pc' = "suspended"
    /\ UNCHANGED <<serverVars, position, number, seen, requested, outcome>>

\* The consumer stops drawing.
Abandon ==
    /\ pc = "suspended"
    /\ pc' = "closed"
    /\ UNCHANGED <<serverVars, position, number, seen, requested, pages, outcome>>

Metadata == next[position.page]

NoMore ==
    /\ pc = "suspended"
    /\ Metadata = Null
    /\ End("StopIteration")

\* "in {None, ''}" hashes the value before anybody looks at its type.
Malformed ==
    /\ pc = "suspended"
    /\ Metadata \in {Odd, Unhashable}
    /\ End(IF strategy = "cursor" /\ Metadata = Unhashable
           THEN "TypeError" ELSE "PaginationError")

\* Mutant: running into max_pages is reported like running into a cycle.
Advance_BoundIsError ==
    /\ pc = "suspended"
    /\ Metadata \in Pages
    /\ position' = [page |-> Metadata, copies |-> IF echo THEN position.copies + 1 ELSE 0]
    /\ number' = number + 1
    /\ IF number < maxPages THEN pc' = "top" /\ UNCHANGED outcome
                            ELSE pc' = "closed" /\ outcome' = "cycle"
    /\ UNCHANGED <<serverVars, seen, requested, pages>>

\* The next turn of the loop.  With link, client.request adds the params to a URL
\* that may have them already.
Advance ==
    /\ pc = "suspended"
    /\ Metadata \in Pages
    /\ position' = [page |-> Metadata, copies |-> IF echo THEN position.copies + 1 ELSE 0]
    /\ number' = number + 1
    /\ pc' = "top"
    /\ UNCHANGED <<serverVars, seen, requested, pages, outcome>>

Next ==
    \/ OutOfPages
    \/ Revisit
    \/ Ask
    \/ BadReply
    \/ Yield
    \/ Abandon
    \/ NoMore
    \/ Malformed
    \/ Advance

Spec == Init /\ [][Next]_vars

-----------------------------------------------------------------------------
(***************************************************************************)
(* No page is asked for twice, wherever the server's chain leads: the      *)
(* guard looks at the position before the request.  What it compares for   *)
(* link are URLs as the server writes them; when these repeat the params   *)
(* of the request they grow with each page and never repeat.               *)
(***************************************************************************)
NoPageTwice ==
    ~echo => \A i, j \in DOMAIN requested : requested[i] = requested[j] => i = j

\* max_pages bounds the requests of every strategy; where the guard is blind it is
\* all there is.
AtMostMaxPages == Len(requested) <= maxPages

(***************************************************************************)
(* What the consumer may conclude from the end of the iteration.  The      *)
(* pages are a walk along the server's chain, nothing is left out.  A      *)
(* plain end means that the chain is over, or that max_pages have been     *)
(* seen; a cycle is reported only where there is one, after each of its    *)
(* pages has been yielded.                                                 *)
(***************************************************************************)
EndsForAReason ==
    LET last == pages[Len(pages)] IN
    /\ pages # <<>> => pages[1] = First
    /\ \A i \in 1 .. (Len(pages) - 1) : pages[i + 1] = next[pages[i]]
    /\ outcome = "StopIteration" =>
          Len(pages) = maxPages \/ (pages # <<>> /\ next[last] = Null)
    /\ outcome = "cycle" =>
          pages # <<>> /\ \E i \in DOMAIN pages : pages[i] = next[last]

\* Metadata of the wrong type ends the iteration with a PaginationError.  It does not
\* hold for cursors, see section 4 of the README.
MalformedIsPaginationError == outcome # "TypeError"

=============================================================================
