# Simple-API-Client in TLA+

TLA+ models of the HTTP client in `src/src/apiclient`, TLC configurations that check
them, and TLAPS proofs about each of the models: the connection pool, the transport over
it, its deadlines and its response reader, the client's loops, the batch, the paginators
and the configuration file.

## 1. The system and its parts

| Part | Code | State | Operations | Who uses it |
|---|---|---|---|---|
| Client | `client.py`, `resilience/retry.py`, `http/redirects.py`, `auth/` | policies; `last_request`, `last_trace` | `request`, `send` (hops over attempts), `close` | commands, paginators, `fetch_many` |
| Raw socket transport | `transport/socket_transport.py` | the pool; per call one socket | `send`, `close` | client, from many threads |
| Deadlines | `transport/socket_transport.py`, `models.py` (`TimeoutConfig`) | per call the start of the clock, per socket its timeout | `_bounded`, `_apply_read_timeout`, `_FirstByteSocket.recv` | transports |
| Connection pool | `transport/pool.py` | idle sockets per (scheme, host, port), a lock | `acquire`, `release`, `close` | transport |
| Response parser | `http/parser.py` | per response a byte buffer | `read_response` | transport |
| Batch | `concurrency/async_client.py` | semaphore, stop event, task group, lists of results | `fetch_many` | `bench` command |
| Paginators | `pagination/` | position and the positions seen | `pages` (a generator) | `paginate` command |
| urllib transport | `transport/urllib_transport.py` | none | `send` | client |
| URLs, bodies, headers | `http/url.py`, `http/encode.py`, `models.py` | none but the header map | pure functions | all |
| Configuration | `config.py` | one TOML file, shared by all processes | `load`, `set`, `unset`, `get`, `list` | commands |
| Command line | `cli/` | none | one handler per command | user |
| Redaction, timing | `observability/` | none | pure functions | transports, client |
| Demo servers, scripts | `src/server`, `src/scripts` | none | request handlers | tests |

A command makes an `ApiClient`; `send` calls `transport.send` once per attempt and hop;
the raw transport takes a socket from the pool or connects, writes, lets the parser read
one response and gives the socket back or closes it. `fetch_many` runs `client.request`
on the threads of the event loop's executor, so transport and pool are shared between
threads while the client's `last_*` attributes are not protected.

Hard behaviours, and what has to be right about them:

* *Pool*: threads interleave, peers write or close on idle connections, entries expire.
  A socket is in one place only, open, at most `max_per_host` per key, oldest first.
* *Transport*: answers come late, unasked, or with an announcement that the server will
  hang up. The right answer reaches the right caller, and every way out of `send` leaves
  its socket either pooled or closed.
* *Client*: two nested loops under options that interact. Attempts are bounded per hop,
  a method that must not be repeated is not, credentials stay with the first origin,
  the history is the path taken, and a call ends if each `transport.send` of it does.
* *Batch*: tasks, threads, a stop event and cancellation by a failing task or by the
  user. The limit holds, nothing is started or recorded after the stop, every URL is
  accounted for, and the batch ends if its requests do.
* *Paginators*: the server decides where the walk goes, and may lead it in a circle. No
  page is asked for twice, the bound holds, and each kind of end means what it says.
* *Deadlines*: four timeouts, one of them a deadline for all the others, set on a socket
  that outlives the call. No late response, an end whatever the server does if there is a
  deadline, no timeout that is negative, and zero means what it says.
* *Configuration*: several processes read the file, change it in memory and write it back
  in place, without a lock, and each may die at any step. Without a race nothing is lost,
  with one nothing is invented until somebody reads a file in which two texts have run into
  each other, and what has been written can be read.
* *Parser*: `recv` cuts the bytes anywhere, the connection ends anywhere, informational
  responses come first, limits are reached. What is returned is what was sent, nothing
  else is rejected, and the reader stops where the response ends.

`PROJECT.json` lists every component with what is modelled of it, and every hazard with
its line in the code and the properties that are about it.

## 2. Modules

| Module | Models | Used by |
|---|---|---|
| `ConnectionPool` | `pool.py`, with abstract callers, peers and clock: what the pool promises | `MCConnectionPool`, `ConnectionPool_proofs`, `RawSocketTransport` |
| `RawSocketTransport` | concurrent calls of `send`, the servers, `close`; refines `ConnectionPool` | `MCRawSocketTransport`, `RawSocketTransport_proofs` |
| `Deadline` | one `send` of either transport against a clock | `Deadline_proofs` |
| `ResponseReader` | one call of `read_response` on one stream | `MCResponseReader`, `ResponseReader_proofs` |
| `ApiClient` | one call of `ApiClient.send` after the other, over an abstract transport | `MCApiClient`, `ApiClient_proofs` |
| `FetchMany` | one call of `fetch_many` and `handle_bench` | `FetchMany_proofs` |
| `Paginator` | one `pages()` generator of any of the four strategies | `Paginator_proofs` |
| `ConfigFile` | processes that run `configure`, or load the configuration, over one file | `MCConfigFile`, `ConfigFile_proofs` |
| `X_proofs` | the theorems about `X`, eight modules | `RawSocketTransport_proofs` instantiates `ConnectionPool_proofs` |

### ConnectionPool

`idle[o]` is `_idle[key]`, a sequence of entries with the oldest release first; `fd` the
descriptor of each socket object; `quiet[s]` says that a peek would block; `lent[o]` holds
the sockets in the hands of callers, `now` is `monotonic()`. The lock covers each method
from the first statement to the last, so `AcquireHit`, `AcquireMiss`, `AcquireRaises`,
`Release` and `Close` are one action each. `acquire` looks at the clock and at the socket
of each entry in turn while the world goes on; that is one action because a rejection is
stable, which the module's head explains. `AcquireHit(o, k)` is the case in which the
first k - 1 entries are rejected and closed and entry k is returned.
`AcquireRaises` is what happens to an `SSLSocket`: `recv` with a flag raises `ValueError`.
`Open`, `Discard`, `Drain`, `PeerSpeaks` and `Tick` are what callers, peers and time may do.

### RawSocketTransport

Each member of `Calls` is one execution of `send` in a thread of its own: `pc`, the
local `sock`, the origin of its URL, and its outcome. `Reuse`, `Miss`, `PeekRaises`,
`Connect`, `Write`, `Read`, `GiveBack`, `HangUp`, `Fail` and `Garbled` are the stretches
between two blocking operations, in the order of the code; every exit without a pooled
socket goes through `Finish`, the `finally` block. A response is one message, tagged with
the request it answers, and of one of the three kinds that `_can_pool_response` and the
framing tell apart. A timeout is a `Fail` at any time. The servers answer in the order of
requests, late or never, close, and send unsolicited messages. The pool is an instance of
`ConnectionPool` in which `lent` is computed from the calls' variables and `quiet` from
the wire; the run checks `Pool!Spec`, so that the code that uses the pool implements the
environment the pool's properties are proved for.

### Deadline

One call of `transport.send`, from `total_start` on. `pc` is the call that blocks, `limit`
the timeout in force for it (`None`: there is none, as in `getaddrinfo`), `waited` how long
it has blocked. `Tick` lets time pass up to the timeout; every other action is what the peer
or the name server does, or what the code does when the timeout has struck (`Struck`) or was
zero (`WouldBlock`: such a socket does not connect, but it may take a small request, and
`recv` may return bytes that have arrived already). `Bounded` is `_bounded`; `Resolve` is `getaddrinfo`; `Connected` and
`AddressFails` are `_connect`, which applies its timeout to each address in turn, and the
handshake inherits it; `Receive` is `_FirstByteSocket.recv`, which looks at the deadline and then sets
all that is left of it. A pooled connection begins at "send". The deadline belongs to one
`transport.send`: retries and redirects of a client call each start anew, as in the code.

The urllib transport is the same sequence with one timeout for every call and other errors:
`request()` wraps what it raises into a `URLError`, so a timeout in connect, handshake or
write is a `ConnectionFailure`; one in `getresponse()` is a `RequestTimeout`; one in
`raw_response.read()` is outside of both and escapes as a bare `TimeoutError`.

### ConfigFile

`file` is what is on disk: no file, a text, or a garbled one: a text with the end of
another, longer one behind it. A text is the data a parser finds (tables of profiles, and which kind of thing
stands outside of them) and whether `_dump_toml` wrote it or a person. `Reads`,
`Renders`, `Opens` and `Writes` are the steps of `set_config_value` and
`unset_config_value` between which other processes may run: `_read_data` with the change
in memory, the evaluation of `write_text`'s argument, `open` with mode "w", which empties
the file, and the write. `Dies` may come between any two of them. `Answers` is a
`get`, `list` or `load_config`; `Loaded` applies default profile, named profile and
environment in the order of the code. `contents` and `original` are history variables for
the properties, `raced` says that two writers have overlapped or that one died with the file
open, `torn` that somebody has read a garbled file without an error.

Two overlapping writers have both emptied the file, and the second one writes over the
first. If its text is shorter (`Writes`, third case) the end of the other text stays behind
it, cut off anywhere. Such an end may start with a table, with a line, or inside one:
`retries = 1` cut to `ries = 1` and `connect_timeout = 5` cut to `timeout = 5` parse,
and belong to the last table of the text in front. What an end may read as is any
member of the constant `Ends`, and nothing relates it to the text that it was cut from; it
is added to the text in front (`Joined`), where TOML does not allow a key or a table twice
(`Continues`), or the file does not parse. A third writer finds a garbled file as it finds a
text. Data without anything is an empty text, and writing it changes nothing.

Abstractions: a text is written by one `write(2)`; names with dots or quotes are one more
kind of name that needs quotes; an environment variable holds one of the values, its
coercion is not modelled. Because ends are arbitrary the model has more garbled files than
the program; the properties are proved for any `Ends`.

### ApiClient

`Begin` is `send` up to the loops, `BeginFails` the same when the URL or the auth strategy
raises before `last_request` is set, `Transmit` one `transport.send`, and the other actions
are the branches after it, in the order of the code: retry or give up after an error or
a status, return, too many redirects, follow. A Location may be absent (a plain response), a
URL, or unusable: empty, or rejected by `urljoin`, which raise different errors. `NextRequest` is
`RedirectPolicy.next_request`. A URL is its origin and whether the query string carries the
credential; a request has a method, such a URL, an auth header or none, a body or none.
`sent` is a history variable: what the transport was asked to send, hop by hop, and how
often. A server may echo the credential in a Location only if it has seen it.

### FetchMany

One step is what runs between two awaits. `task[u]` follows `fetch_one` for one URL,
`job[u]` its request on the executor's threads, `value` and `waiters` are the semaphore.
`Leave` is the end of `async with semaphore`, which hands the permit to the first waiter;
`Notice`, `Abort` and `Unwind` are the task group, which hears of a failure in a later
step than the one that raised it and then cancels all other tasks; a running
thread goes on. `Interrupt` is Ctrl-C (or any cancellation of the caller). `Exit` is the
end of `bench`. Any ready task may be the next: the loop's queue is not modelled, which
adds orders that today's loop does not produce (a task that starts after another one's
request has ended). One thing is left out: a task that resumes with its permit lets asyncio wake
the next waiter as well if a permit is still free, which happens only in orders that
today's loop does not produce.

### Paginator

The four `pages()` are the same loop with another name for the position; `strategy` tells
them apart where they differ. `Revisit` is the cycle guard, `Ask` the request, `Yield` the
suspension in which the consumer may stop drawing (`Abandon`), and what the page says of the
next one is looked at when it draws again: `NoMore`, `Malformed`, `Advance`. `next` is the
server's chain, any function from pages to pages or to the end or to metadata of a wrong
type. For the link strategy a position is a URL; `client.request` adds the params to
every one, so with a server that repeats the query in its links the URL grows (`copies`)
and the guard never sees a cycle. `echo` says whether it does.

### ResponseReader

The bytes of a response are symbols, each for a run of bytes the reader treats alike;
the server's message says which framing, how many header fields, which chunks, and
the one thing that is wrong with it, `Encode` spells it out, and it may stop at any symbol.
`pc` is the function that waits for bytes: `_read_header_block` ("head"), `read_line`
("line", "trailer"), `ensure` ("content", "chunk", "crlf"), `read_until_close`. `Recv` is
one `recv`, of any length up to `RecvSize` (or up to what `ensure` misses, if that is
more), from a `_PrefixedStream` first. `Eof`, `RecvFails` and `RejectTooLong` are its other
ends; the remaining actions are what the code does with complete bytes. A CRLF is one
symbol, so a cut inside it is not modelled; the header block's end is two of them and
can be cut.

The limits are checked on what has been received, so a header block of exactly
`max_header_size`, or a line near `max_line_size`, is accepted or rejected depending on
how `recv` cuts it. `NearLimit` leaves room for that; the properties claim that nothing over
the header limit is accepted and nothing below the limits is rejected.

## 3. Runs

| Run | Checks | Shows |
|---|---|---|
| `pool` | `ConnectionPool` with a plain and a TLS key, four sockets, two slots per key, idle limit 1, clock 0..3 | exclusiveness, open descriptors, capacity, order, no expired entry behind a hit |
| `pool_tls` | the same, `NoSocketLost` | violated: finding 1 |
| `transport` | three calls, two sockets, one slot per key, clock 0..2, one unsolicited message | no cross-talk, no announced hang-up is pooled, nothing open after close, refinement of the pool |
| `deadline` | timeouts 0 to 2, totals none, 0, 1 and 3, up to three addresses, both transports | no late response, bounded overrun, and an end, with a total, whatever the server does |
| `deadline_hard` | timeouts 1 and 2, total none or 3, `HardDeadline` | violated: finding 4 |
| `reader` | about 90 messages cut off anywhere, received in pieces of 1 to 4 symbols | the right body, no rejection without a reason, end at the right symbol, bounded buffers |
| `client` | one call; at most one retry and two hops; two origins; every kind of status | the six invariants, and that the call ends if each `transport.send` does |
| `batch` | four URLs, concurrency 0 to 3, two worker threads, fail_fast or not, Ctrl-C at any time | limit, stop, accounting, and that the batch ends if its requests do |
| `batch_interrupted` | three URLs, two at a time | violated: finding 2 |
| `paginate` | all chains over three pages, `max_pages` 0 to 4, all strategies | types and bound of the loop, no page twice, at most `max_pages` requests, meaning of every end |
| `config` | three processes, a default, a named and an oddly named profile, two settings, every kind of file | nothing lost without a race, nothing invented with one before a garbled file is read, current answers |
| `config_names` | one process, the same commands and files, `ReadsWhatItWrote` | violated: finding 3 |

Bounds. *Pool*: four sockets fill both slots of a key and still leave one to evict with
and one for the other key; with a limit of 1, times 0 to 3 hold an entry that is fresh, one
at its limit and one beyond it, twice. *Transport*: a late answer, a reuse and a third
caller need three calls; one slot per key makes two of them compete. *Client*: two hops
allow a chain that leaves the origin and comes back, one retry allows a repeated attempt
at each hop; nothing in the code distinguishes a third. *Batch*: four URLs over three
permits and two threads have at once running, queued and waiting requests and a task that
has not started. *Paginators*: three pages have chains that end after one, two or three,
and cycles of every length and entry; the bounds lie below, at and above them. *Reader*:
every limit has messages below, at and above it (three symbols of body, two of chunk, five
of header block, one header field, one trailer), a `recv` of four symbols can hold an
informational response and the beginning of the next, and no message needs more than five
of them. *Deadlines*: zero, one and two are a timeout that has passed, one that strikes at
once and one that leaves room; a total of 0 or 1 expires before, 3 within and after the
connection phase, and three addresses use it up and more; beyond `Horizon` nothing with a
total timeout is still waiting but the name server, so the clock may stand still there.
*Configuration*: two writers race and a third process reads or dies in between; a third
setting or profile would only be one more that is left alone. `Ends` has an end of each kind:
nothing, a line for either profile, a line whose key is none any more, a table that
collides or not, something that is no profile. A table without entries does
not occur in the files of the run, since `list` would show it and no property needs it.
Symmetry is used for sockets, calls and processes, which the specifications only compare;
the runs with a liveness property use none.

`CHECK_DEADLOCK` is off: a pool with all sockets used up, finished calls, batches,
generators and responses stop. That nothing stops too early is what the liveness properties say.

Fairness. Nothing is assumed of `transport.send` in `ApiClient` or of a request in
`FetchMany`: by default they need not end. `TimeoutConfig.total` is None unless somebody sets
it (`resilience/timeout.py:12`), `getaddrinfo` has no timeout at all, and without a total a
server that sends single bytes or informational responses for ever is read for ever
(`parser.py:105`). So the two liveness properties state their premise: `ApiClient!CallEnds`
says that the call comes back *if* it is never in `transport.send` for good
(`TransportEnds`), and `FetchMany!BatchEnds` that the batch ends *if* no request runs for
ever (`RequestsEnd`). What the fair specifications do assume is that the code between
those waits goes on: plain Python and a sleep in `ApiClient`; in `FetchMany` that the event loop
runs each ready task and that the executor starts a job when a thread is free. Nobody is
obliged to press Ctrl-C.

`Deadline!CallEnds` is the part of the premise that the code does guarantee: the raw
transport with a total timeout ends whatever the HTTP server does. `Deadline!Spec` assumes
that time passes, that the name server answers or fails (the code has no timeout for
it), and that a call whose timeout has struck returns, which is the kernel's duty; of the
HTTP server nothing is assumed. The other modules claim safety only.

Each property of a passing run has a mutant: an operator `X_Something` just before `X`, with
the same parameters, that changes `X` as a plausible mistake in the code would;
with it in place of `X` the run finds the property violated.

## 4. Findings

Each has a run that finds it:

1. *TLS connections cannot be reused* (`pool.py:102`). On an `SSLSocket`,
   `recv(1, MSG_PEEK)` raises `ValueError`; `_looks_alive` catches `OSError`. The popped
   socket is lost and the request fails with an error that is not retried. Proved: without
   TLS keys none is lost (`PoolLosesNothing`).
2. *An interrupted bench exits with 0* (`async_client.py:96`). `except*
   asyncio.CancelledError` swallows the caller's cancellation, too. Proved: if nobody
   interrupts, exit code 0 means a response for every URL (`SuccessMeansEveryResponse`).
3. *configure writes files it cannot read* (`config.py:250`). `_dump_toml` writes the names
   of tables without the quotes that some need; after a `set` or `unset` of anything else in
   such a file every command fails until somebody repairs it by hand. Proved: it
   takes such a name or a value with a line break (`WritesWhatItCanRead`).
4. *The total timeout is not a hard deadline* (`socket_transport.py:196`), as
   `CHANGELOG.md:75` says. `_connect` takes what is left of it once and applies that to each
   address in turn, and the handshake inherits it: with two addresses and a total of 3 the
   run is still connecting at 4. `getaddrinfo` may take any time on top, which
   `HardDeadline` does not even count. Proved: no response is late (`ResponsesAreInTime`); how
   long connecting may take (`OverrunIsBounded`); and that the deadline is hard on a pooled
   connection or a plain one to a host with one address (`OneAddressDeadlineIsHard`).

Six more are stated in the modules as properties that do not hold; they have a definition
but no run of their own:

* *close() does not close what comes later* (`pool.py:75`). With `LateThreads = TRUE` the run
  `transport` finds `NothingOpenAfterClose` violated: a send that outlives the client pools
  its socket after `close()`. The run itself has `LateThreads = FALSE` and says nothing of it.
* *With a total timeout a read may outlast the read timeout* (`socket_transport.py:45`).
  `_FirstByteSocket.recv` sets the socket timeout to all that is left of the total, and so
  replaces the read timeout, though `simple_api_client_docs.md:541` says that the transport
  applies all three bounds: `ReadTimeoutHolds` in `Deadline`. Proved: without a total every
  read keeps to it (`WithoutTotalReadsAreBounded`).
* *A garbled file may be taken for a good one* (`config.py:120`, `config.py:133`). After two
  overlapping writes the end of the longer text may parse as entries of the last table in
  front, under the same key, another or none: `GarbledIsNoticed` in `ConfigFile`. What is
  read then may be in a profile where nobody has set it, and the next `set` makes it permanent.
* *last_trace after a failure* (`client.py:132`). It still shows an earlier call, while
  `last_request` shows the failed one: `LastIsOfThisCall` in `ApiClient`, which is proved for
  calls that end with a response or with `HttpStatusError`.
* *A next_cursor that is a list or an object* (`cursor.py:42`). `in {None, ""}` hashes it
  before its type is checked: a `TypeError` where the exceptions, the README and the
  other strategies say `PaginationError`: `MalformedIsPaginationError` in `Paginator`.
* *Chunk sizes with a sign* (`parser.py:306`). `int(token, 16)` accepts "-2"; the slices
  in `read_exact` then cut from the end of what happens to have been received:
  `NegativeSizeIsRejected` in `ResponseReader`, with `SignedMessages` of its MC module.

A stale comment: the docstring at `parser.py:100` says that informational responses "other
than 101" are skipped; the code below it skips every one, as `CHANGELOG.md:163` says, and so does
`ResponseReader`.

## 5. Proofs

Every module has theorems, in a module of its own. They hold for every value of the
constants under the assumption that the module states about them (`PoolAssumption`,
`TransportAssumption` and so on; TLC evaluates each in a run); a theorem that needs more
says so in its ASSUME. In each module `IInv` is the inductive invariant.

*`ConnectionPool_proofs`* proves what the run `pool` checks. `IInv` is the conjunction of
the type invariant, `Exclusive`, `HeldIsOpen`, `WithinCapacity` and `AgeOrdered`. None of the
middle three is inductive alone: that an evicted or expired socket is not in use needs
`Exclusive`, and that a released socket can be stored needs that it was open and lent. The
argument is per operation. `PopThroughEffect` and `ReleaseEffect` say what happens to the
buckets as sequences; each operation has a lemma that it preserves `IInv`; the environment
has one; `NextInv` puts them together. The action property needs `AgeOrdered`: the entry
that is returned has not expired, and those behind it were released later.
`PoolLosesNothing` adds to `IInv` that no socket is lost and assumes `TlsOrigins = {}`.

*`RawSocketTransport_proofs`* proves the refinement, `TransportImplementsPool`, and the
transport's own properties. It instantiates `ConnectionPool_proofs` under the refinement
mapping, so the pool's invariant comes from the pool's theorems and is not proved again.
`StepMaps` has each step of a call, a server or the clock as a step of the pool or a
stutter. The other half of `IInv` is about the wire: a call has a socket of its own exactly
between acquire or connect and the end (`Owns`), nothing is on the wire of an unused socket
(`FreshWire`) or owed on an idle one (`IdleWire`), and on that of a waiting call there
is its request, or the answer to it, or nothing (`CallWire`). That the answer is the right
one is not inductive without `IdleWire`, which in turn needs that `GiveBack` comes
only after a complete and persistent answer. `TransportNothingOpenAfterClose` assumes that
close waits for the threads and that there are finitely many calls; it counts the sockets
that are lost against the calls that a TLS peek has failed.

*`Deadline_proofs`* bounds what the clock can reach before the timeout in force strikes
(`Reach`): by the addresses that have been given up while connecting, by the
connection phase in the write, by the deadline in a read. `ResponsesAreInTime` and
`OverrunIsBounded` follow, for any number of addresses, and from the latter
`OneAddressDeadlineIsHard`. The theorem about reads without a total rests on
`ReadLimit`: what `_bounded` set for the write is the read timeout, and no recv changes it.

*`ResponseReader_proofs`* proves what the run `reader` checks, for all messages, every place
where the server stops, every way `recv` cuts the bytes, and all limits. All but `TypeCorrect`
assume `NoneSigned`, that no server sends a chunk size with a sign: such a size is accepted
(section 4), and what the reader does then is not covered. Two invariants:

* `IInv`, for `BufferBounded`: a size has been compared with its limit before any of it is
  read (`Accepted`), and what buffer and body can hold at each place (`Bounded`).
* `MInv`, for `RightResponse`, `RejectsForAReason` and `StopsAtTheEnd`. None of them says
  anything before the end, so `MInv` says where in the encoding the reader is: what it has
  not yet looked at (buffer, prefix and wire, one behind the other) is a beginning of the
  rest of the encoding, and that rest is spelled out for each `pc` (`AtHead` to `AtTrailer`):
  so many informational responses, chunks or trailers are left, and the body is what the
  chunks before them carried. It is a beginning and not all of it, as the server may stop.

A `recv` moves symbols and changes nothing of that (`RecvKeepsUnread`). The rest is what the
code finds in front of it: that the first end of a line or of a header block is the one that
the server meant (`LineEndIs`, `HeaderEndIs`), that behind it comes what `Encode` puts there
(`ChunksStep`, `InfosStep`), and that whoever rejects has a reason. `Encode` is built with
`FlattenSeq`, which the library defines by recursion; its equation is proved from the least
length at which it could fail (`FlatteningExists`, `FlattenCons`).

*`ApiClient_proofs`* proves every safety property of the run `client`, under
`ClientAssumption` and `NotUrls`. Its `IInv` adds to the six properties how the request in
hand and the record of what was sent fit together (`Stage`: the number of entries and of
attempts at each point of the loops), and that the request in hand already keeps the rules
(`BodyFits`, `RequestIsHome`). `CredentialsStayHome` is not inductive alone: a Location
may carry the credential if its server has seen it, so that the server is at home follows
from the property for the requests before. Each branch of the code has its lemma;
`TransmitEffect` says what one `transport.send` adds to the record. `ClientLoopsAreBounded`
is the part of `CallEnds` that needs neither fairness nor its premise: the steps that are left of a
call (`StepsLeft`) decrease with each one, from at most `2 * (maxHops + 1) * MaxAttempts`.

*`FetchMany_proofs`*: free permits and the tasks that hold one add up to `concurrency`, and
until the tasks are cancelled only their requests are under way (`PermitsConserved`).
That a permit which is handed on gets a holder needs that the queue names waiting tasks, each
once (`Queue`). After a cancellation a thread may go on without a permit, but no request
starts any more, so `AtMostConcurrency` is preserved by itself (`NotMore`). What a batch returns has
an invariant of its own, `RInv`: only tasks that have ended left a result, and one (`Once`);
`stop` is set exactly when fail_fast has an error, so there is no second (`Stopped`); until
a stop or a cancellation every task that has ended left one (`Complete`); and the lists of a
closed batch are sorted (`Closed`), by `SortedIsAscending`: without repetitions the element
at place i is the one with i elements up to it. `BatchIsAccountedFor`, `NothingAfterStop`
and `TypeOK` follow. The safety in `BatchEnds` are two theorems: while a task waits
for a permit somebody is there to give one back (`NobodyWaitsForNobody`), and each step
moves a task, a job or the call forward and none back (`EveryStepAdvances`), where a job
begins once because a task that has not been served has none (`Unasked`).

*`Paginator_proofs`* proves all properties of the run `paginate`. `IInv` says that the turn
counts requests and pages (`Counted`), that the pages are a walk and the position is its
next step (`Walk`, `AtPosition`), and that what has been seen has been yielded
(`SeenIsYielded`): that is what makes a reported cycle a real one.

*`ConfigFile_proofs`*: `ChangedMeans` shows that what `set` and `unset` do to nested tables
is the change of one entry. `Quiet` says that without a race at most one process is at work,
that what it has in memory is what its command means, and that the file is empty while it
writes: `NoLostUpdate`. `Owned` says that, until somebody has read a garbled file, each value
in a file or in a process's memory comes from the original or from a `set` of that key:
`NoInvention`, races, crashes and garbled files nobody has read included; the condition is
what the property has, since afterwards it is false. `JoinedIsData` says that a
garbled file that parses is data again, so that `TypeCorrect` and `WritesWhatItCanRead` cover what is
read from it. `AnswersCurrent` needs that no table is empty, in a file or in memory (`Filled`),
since list and load tell a table without entries from none, and without a race, as the end of a text
may bring one; `unset` keeps that, for it drops
a table with its last entry. It assumes `NoEmptyTable` of the original file, where a person may have
left one. `WritesWhatItCanRead` assumes that there is nothing to quote.

So every invariant and action property of a passing run is a theorem, as is the refinement.
Only model-checked: liveness (`CallEnds` of `ApiClient` and of `Deadline`, `BatchEnds`, the first
and the last under the premise they state), which the prover cannot do beyond the safety parts above, and the violations of section 4.

## 6. Not modelled, and what is left

Without state, and no more than the model of a function on strings would repeat:
URL handling (`http/url.py`), body encoding (`http/encode.py`), the header map and message
types of `models.py`, redaction and timing, the parsing of arguments and the printing of
the command line, `parse_status_csv` and the coercion of configuration values, the syntax
of Link headers, status lines and header fields, urllib's conversion of headers. The models
use their results: an origin, a framing, a kind of status. The demo servers and the
submission script serve the tests; in the models a server answers anything.

Not in any model: the length of a backoff and `Retry-After` (only that there is a pause), two
client calls at the same time on `last_*` attributes, and the event loop's queue order.

Left to do:

1. The header map: that its two dictionaries agree after any sequence of operations.
2. The reader with signed sizes: that the buffer is bounded and the reader ends all the same.
3. The client over the modelled transport instead of an abstract one, in one specification.
