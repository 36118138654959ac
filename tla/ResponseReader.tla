--------------------------- MODULE ResponseReader ---------------------------
(***************************************************************************)
(* http/parser.py: read_response, which reads one response from a stream   *)
(* whose recv cuts the bytes where it likes, and the server that sends it. *)
(*                                                                         *)
(* A symbol stands for a run of bytes the reader treats alike: the CRLF,   *)
(* the status line, a header field, the size of a chunk, a byte of data.   *)
(* Sizes and limits count symbols.  Which framing the header fields select *)
(* is written on the status line.                                          *)
(***************************************************************************)
EXTENDS Integers, SequencesExt, FiniteSetsExt

CONSTANTS
    Messages,       \* what the server may send, see Message
    RecvSize,       \* 4096, what one recv returns at most
    MaxHeaderSize,  \* max_header_size
    MaxLineSize,    \* max_line_size of read_line
    MaxHeaderLines, \* DEFAULT_MAX_HEADER_LINES
    MaxBodySize,    \* max_body_size
    MaxChunkSize,   \* max_chunk_size
    MaxTrailers     \* DEFAULT_MAX_TRAILER_LINES

ASSUME ReaderAssumption ==
    /\ RecvSize \in Nat \ {0}
    /\ {MaxHeaderSize, MaxLineSize, MaxHeaderLines, MaxBodySize, MaxChunkSize, MaxTrailers}
          \subseteq Nat

VARIABLES
    message,    \* what the server set out to send; never changes
    sent,       \* what it sent of that before it stopped; never changes
    wire,       \* what recv of the socket has not returned yet
    prefix,     \* what a _PrefixedStream has in front of the socket
    buffer,     \* the buffer of _read_header_block, then of the _BufferedReader
    pc,         \* what the reader reads: "head", "content", "line", "chunk", "crlf",
                \* "trailer", "close", or nothing: "done"
    need,       \* size, of read_exact
    body,       \* what has been decoded
    trailers,   \* number of trailer fields
    outcome     \* what read_response returned or raised

serverVars == <<message, sent>>
streamVars == <<wire, prefix>>
resultVars == <<need, body, trailers>>
vars == <<serverVars, streamVars, buffer, pc, resultVars, outcome>>

-----------------------------------------------------------------------------
(***************************************************************************)
(* The server.  It sends infos informational responses, then the response: *)
(* "chunked", with a "length", until "close", or "bodyless" (HEAD, 204,    *)
(* 205, 304), the body being the concatenation of chunks, and after that   *)
(* extra symbols nobody asked for.  At most one thing is wrong with it,    *)
(* and that is in something it sends.                                      *)
(***************************************************************************)
Faults == {"none", "badhead", "badlength", "badsize", "negative", "nocrlf", "badtrailer"}

Message(m) ==
    /\ m \in [framing   : {"chunked", "length", "close", "bodyless"},
              infos     : Nat,  \* informational responses
              fields    : Nat,  \* header fields
              padding   : Nat,  \* length of the first line beyond one symbol
              chunks    : Seq(Seq(Nat \ {0}) \ {<<>>}),  \* an empty chunk ends a body
              extension : Nat,  \* length of the chunk extensions
              trailers  : Nat,
              extra     : Nat,
              fault     : Faults]
    /\ m.fault \in {"badsize", "negative", "nocrlf", "badtrailer"} => m.framing = "chunked"
    /\ m.fault \in {"negative", "nocrlf"} => m.chunks # <<>>
    /\ m.fault = "badtrailer" => m.trailers > 0

ASSUME MessagesAssumption == \A m \in Messages : Message(m)

Symbol(type, value) == [type |-> type, value |-> value]
Crlf == Symbol("crlf", 0)
Times(n, symbol) == [i \in 1 .. n |-> symbol]

HeaderBlock(type, length, fields, padding) ==
    <<Symbol(type, length)>> \o Times(padding, Symbol("padding", 0)) \o <<Crlf>>
        \o FlattenSeq(Times(fields, <<Symbol("field", 0), Crlf>>)) \o <<Crlf>>

\* Data may look like a CRLF: every second symbol does.
Data(chunk) ==
    [i \in DOMAIN chunk |-> IF chunk[i] % 2 = 0 THEN Crlf ELSE Symbol("data", chunk[i])]

Content(m) == FlattenSeq([i \in DOMAIN m.chunks |-> Data(m.chunks[i])])

SizeLine(m, n) ==
    <<Symbol(IF m.fault = "badsize" THEN "badsize" ELSE "size",
             IF m.fault = "negative" /\ n > 0 THEN -n ELSE n)>>
        \o Times(m.extension, Symbol("padding", 0)) \o <<Crlf>>

Chunked(m) ==
    FlattenSeq([i \in DOMAIN m.chunks |->
        SizeLine(m, Len(m.chunks[i])) \o Data(m.chunks[i])
            \o (IF m.fault = "nocrlf" THEN <<>> ELSE <<Crlf>>)])
    \o SizeLine(m, 0)
    \o FlattenSeq(Times(m.trailers,
           <<Symbol(IF m.fault = "badtrailer" THEN "badtrailer" ELSE "trailer", 0), Crlf>>))
    \o <<Crlf>>

HeadType(m) ==
    CASE m.fault = "badhead"   -> "badhead"
      [] m.fault = "badlength" -> "badlength"
      [] OTHER                 -> m.framing

\* The bytes of the response, informational ones in front of it.
Encode(m) ==
    FlattenSeq(Times(m.infos, HeaderBlock("info", 0, 0, 0)))
    \o HeaderBlock(HeadType(m), Len(Content(m)), m.fields, m.padding)
    \o (CASE m.framing = "chunked"  -> Chunked(m)
          [] m.framing = "bodyless" -> <<>>
          [] OTHER                  -> Content(m))

Extra(m) == Times(m.extra, Symbol("info", 0))

SymbolTypes ==
    {"crlf", "padding", "field", "data", "size", "badsize", "trailer", "badtrailer", "info",
     "badhead", "badlength", "chunked", "length", "close", "bodyless"}
Symbols == [type : SymbolTypes, value : Int]

TypeOK ==
    /\ Message(message)
    /\ {sent, wire, prefix, buffer, body} \subseteq Seq(Symbols)
    /\ pc \in {"head", "content", "line", "chunk", "crlf", "trailer", "close", "done"}
    /\ need \in Int
    /\ trailers \in 0 .. MaxTrailers
    /\ outcome \in {"none", "response", "ProtocolError", "RequestTimeout", "OSError"}
    /\ outcome # "none" <=> pc = "done"

Init ==
    /\ message \in Messages
    /\ \E n \in 0 .. Len(Encode(message)) :
          sent = SubSeq(Encode(message), 1, n)
                    \o (IF n = Len(Encode(message)) THEN Extra(message) ELSE <<>>)
    /\ wire = sent
    /\ prefix = <<>>
    /\ buffer = <<>>
    /\ pc = "head"
    /\ need = 0
    /\ body = <<>>
    /\ trailers = 0
    /\ outcome = "none"

-----------------------------------------------------------------------------
(***************************************************************************)
(* What the reader finds in its buffer.                                    *)
(***************************************************************************)
After(seq, n) == SubSeq(seq, n + 1, Len(seq))
Drop(n) == After(buffer, n)

\* The place of HEADER_END, two CRLF in a row, and of the first CRLF; 0: not there.
HeaderEnd ==
    LET ends == {i \in 1 .. (Len(buffer) - 1) : {buffer[i], buffer[i + 1]} = {Crlf}}
    IN  IF ends = {} THEN 0 ELSE Min(ends)
LineEnd == SelectInSeq(buffer, LAMBDA symbol : symbol = Crlf)

\* The loops around recv end.
Ready ==
    CASE pc = "head"                         -> HeaderEnd > 0
      [] pc \in {"line", "trailer"}          -> LineEnd > 0
      [] pc \in {"content", "chunk", "crlf"} -> Len(buffer) >= need
      [] OTHER                               -> FALSE

\* Mutant: read_line has no limit.
TooLong_HeaderOnly == pc = "head" /\ Len(buffer) > MaxHeaderSize

TooLong ==
    \/ pc = "head" /\ Len(buffer) > MaxHeaderSize
    \/ pc \in {"line", "trailer"} /\ Len(buffer) > MaxLineSize

-----------------------------------------------------------------------------

End(how) ==
    /\ pc' = "done"
    /\ outcome' = how
    /\ UNCHANGED serverVars

Reject ==
    /\ End("ProtocolError")
    /\ UNCHANGED <<streamVars, buffer, resultVars>>

Continue(what) ==
    /\ pc' = what
    /\ UNCHANGED <<serverVars, outcome>>

Waiting == pc # "done" /\ ~Ready

RejectTooLong == Waiting /\ TooLong /\ Reject

\* What a recv asks for; ensure asks for all it needs, if that is more.
Wanted ==
    IF pc \in {"content", "chunk", "crlf"} THEN Max({RecvSize, need - Len(buffer)})
                                           ELSE RecvSize

\* What recv may return, of the _PrefixedStream or of the socket.
Available ==
    IF prefix # <<>> THEN {SubSeq(prefix, 1, Min({Wanted, Len(prefix)}))}
                     ELSE {SubSeq(wire, 1, n) : n \in 1 .. Min({Wanted, Len(wire)})}

\* read_until_close keeps what it received in its buffer and in the body.
Recv ==
    /\ Waiting
    /\ ~TooLong
    /\ \E chunk \in Available :
          /\ IF prefix # <<>> THEN prefix' = After(prefix, Len(chunk)) /\ UNCHANGED wire
                              ELSE wire' = After(wire, Len(chunk)) /\ UNCHANGED prefix
          /\ buffer' = buffer \o chunk
          /\ body' = IF pc = "close" THEN body \o chunk ELSE body
    /\ UNCHANGED <<need, trailers>>
    /\ IF pc = "close" /\ Len(body') > MaxBodySize THEN End("ProtocolError") ELSE Continue(pc)

\* recv returns b"": the server has closed the connection.
Eof ==
    /\ Waiting
    /\ ~TooLong
    /\ prefix = <<>> /\ wire = <<>>
    /\ End(IF pc = "close" THEN "response" ELSE "ProtocolError")
    /\ UNCHANGED <<streamVars, buffer, resultVars>>

\* recv raises: TimeoutError becomes RequestTimeout, any other OSError passes.
RecvFails ==
    /\ Waiting
    /\ ~TooLong
    /\ prefix = <<>>
    /\ \E error \in {"RequestTimeout", "OSError"} : End(error)
    /\ UNCHANGED <<streamVars, buffer, resultVars>>

-----------------------------------------------------------------------------

\* The header block is buffer[1 .. HeaderEnd - 1], its status line is the first symbol.
StatusLine == buffer[1]
HeaderLines ==
    Cardinality({i \in 1 .. (HeaderEnd - 1) : buffer[i].type = "field"})

HeadAcceptable ==
    /\ HeaderEnd - 1 <= MaxHeaderSize
    /\ StatusLine.type # "badhead"
    /\ HeaderLines <= MaxHeaderLines

RejectHead ==
    /\ pc = "head" /\ Ready
    /\ ~HeadAcceptable
    /\ Reject

\* Mutant: what was received behind an informational response is forgotten.
SkipInformational_Forgets ==
    /\ pc = "head" /\ Ready
    /\ HeadAcceptable
    /\ StatusLine.type = "info"
    /\ buffer' = <<>>
    /\ UNCHANGED <<streamVars, resultVars>>
    /\ Continue("head")

\* 1xx: what follows it goes back in front of the stream.
SkipInformational ==
    /\ pc = "head" /\ Ready
    /\ HeadAcceptable
    /\ StatusLine.type = "info"
    /\ prefix' = Drop(HeaderEnd + 1) \o prefix
    /\ buffer' = <<>>
    /\ UNCHANGED <<wire, resultVars>>
    /\ Continue("head")

\* The choice of the framing.  The limit on a body is checked here for Content-Length
\* and for what has been received already of a body without framing.
SelectFraming ==
    /\ pc = "head" /\ Ready
    /\ HeadAcceptable
    /\ StatusLine.type # "info"
    /\ LET start == Drop(HeaderEnd + 1) IN
       CASE StatusLine.type = "bodyless" ->
              End("response") /\ buffer' = start /\ UNCHANGED resultVars
         [] StatusLine.type = "chunked" ->
              Continue("line") /\ buffer' = start /\ UNCHANGED resultVars
         [] StatusLine.type = "length" /\ StatusLine.value <= MaxBodySize ->
              /\ Continue("content")
              /\ buffer' = start
              /\ need' = StatusLine.value
              /\ UNCHANGED <<body, trailers>>
         [] StatusLine.type = "close" /\ Len(start) <= MaxBodySize ->
              /\ Continue("close")
              /\ buffer' = <<>>
              /\ body' = start
              /\ UNCHANGED <<need, trailers>>
         [] OTHER ->
              End("ProtocolError") /\ UNCHANGED <<buffer, resultVars>>
    /\ UNCHANGED streamVars

\* Where Python cuts buffer[:n]; a negative n counts from the end.
CutAt(n) == IF n >= 0 THEN n ELSE Max({0, Len(buffer) + n})

\* read_exact: what it returns and what it leaves.
ReadExact ==
    /\ body' = body \o SubSeq(buffer, 1, CutAt(need))
    /\ buffer' = Drop(CutAt(need))
    /\ UNCHANGED <<streamVars, trailers>>

ReadContent ==
    /\ pc = "content" /\ Ready
    /\ ReadExact
    /\ UNCHANGED need
    /\ End("response")

\* Mutant: the limit is checked against the chunk alone.
BodyFits_Chunk(size) == size <= MaxBodySize

BodyFits(size) == Len(body) + size <= MaxBodySize

SizeAcceptable ==
    /\ buffer[1].type = "size"
    /\ buffer[1].value <= MaxChunkSize
    /\ buffer[1].value # 0 => BodyFits(buffer[1].value)

ReadSize ==
    /\ pc = "line" /\ Ready
    /\ IF SizeAcceptable
       THEN /\ Continue(IF buffer[1].value = 0 THEN "trailer" ELSE "chunk")
            /\ need' = buffer[1].value
            /\ buffer' = Drop(LineEnd)
            /\ UNCHANGED <<streamVars, body, trailers>>
       ELSE Reject

ReadChunk ==
    /\ pc = "chunk" /\ Ready
    /\ ReadExact
    /\ need' = 1
    /\ Continue("crlf")

ReadCrlf ==
    /\ pc = "crlf" /\ Ready
    /\ IF buffer[1] = Crlf
       THEN /\ Continue("line")
            /\ buffer' = Drop(1)
            /\ UNCHANGED <<streamVars, resultVars>>
       ELSE Reject

\* Mutant: the empty line behind the last trailer is left in the stream.
LastTrailer_LeavesLine ==
    /\ pc = "trailer" /\ Ready
    /\ LineEnd = 1
    /\ UNCHANGED <<streamVars, buffer, resultVars>>
    /\ End("response")

LastTrailer ==
    /\ pc = "trailer" /\ Ready
    /\ LineEnd = 1
    /\ buffer' = Drop(1)
    /\ UNCHANGED <<streamVars, resultVars>>
    /\ End("response")

\* Mutant: seen is compared before it is incremented.
TrailerFits_OneMore == trailers <= MaxTrailers

TrailerFits == trailers < MaxTrailers

ReadTrailer ==
    /\ pc = "trailer" /\ Ready
    /\ LineEnd > 1
    /\ IF buffer[1].type = "trailer" /\ TrailerFits
       THEN /\ trailers' = trailers + 1
            /\ buffer' = Drop(LineEnd)
            /\ UNCHANGED <<streamVars, need, body>>
            /\ Continue("trailer")
       ELSE Reject

Next ==
    \/ RejectTooLong
    \/ Recv
    \/ Eof
    \/ RecvFails
    \/ RejectHead
    \/ SkipInformational
    \/ SelectFraming
    \/ ReadContent
    \/ ReadSize
    \/ ReadChunk
    \/ ReadCrlf
    \/ LastTrailer
    \/ ReadTrailer

Spec == Init /\ [][Next]_vars

-----------------------------------------------------------------------------

Truncated == Len(sent) < Len(Encode(message))
HeadSize == Len(HeaderBlock(message.framing, 0, message.fields, message.padding)) - 2
LineSize == 1 + message.extension

\* Nothing in the response exceeds a limit of the reader.
WithinLimits ==
    /\ HeadSize <= MaxHeaderSize
    /\ message.fields <= MaxHeaderLines
    /\ message.framing # "bodyless" => Len(Content(message)) <= MaxBodySize
    /\ message.framing = "chunked" =>
          /\ \A i \in DOMAIN message.chunks : Len(message.chunks[i]) <= MaxChunkSize
          /\ message.trailers <= MaxTrailers

\* A block or line that is as long as its limit may look too long while its end has
\* not arrived; whether it does depends on how recv cuts it.
NearLimit ==
    \/ HeadSize >= MaxHeaderSize
    \/ message.framing = "chunked" /\ LineSize >= MaxLineSize

(***************************************************************************)
(* A response is returned only for bytes that are one, and it is what was  *)
(* sent, however recv cut them and whatever informational responses came   *)
(* first: complete, within the limits, with the body put together again,   *)
(* CRLFs in it included.  Of a body without framing nobody can know        *)
(* whether it is complete.                                                 *)
(***************************************************************************)
RightResponse ==
    outcome = "response" =>
        /\ message.fault = "none"
        /\ message.framing # "close" =>
              /\ ~Truncated
              /\ WithinLimits
              /\ message.framing # "bodyless" => body = Content(message)
        /\ message.framing = "close" =>
              /\ IsPrefix(body, Content(message) \o Extra(message))
              /\ Len(sent) = Len(Encode([message EXCEPT !.chunks = <<>>])) + Len(body)
              /\ Len(body) <= MaxBodySize
        /\ trailers = (IF message.framing = "chunked" THEN message.trailers ELSE 0)

(***************************************************************************)
(* Nothing that is in order is rejected: a ProtocolError means that the    *)
(* server stopped early, made a mistake or exceeded a limit.               *)
(***************************************************************************)
RejectsForAReason ==
    outcome = "ProtocolError" =>
        \/ Truncated
        \/ message.fault # "none"
        \/ ~WithinLimits
        \/ NearLimit
        \/ message.framing = "close"
              /\ Len(Content(message) \o Extra(message)) > MaxBodySize

(***************************************************************************)
(* The reader stops where the response ends: what it has not used, in its  *)
(* buffer, in front of the socket or in it, is exactly what the server     *)
(* sent behind the response.  A socket that goes back to the pool after an *)
(* answer holds nothing of that answer.                                    *)
(***************************************************************************)
StopsAtTheEnd ==
    outcome = "response" /\ message.framing # "close" =>
        buffer \o prefix \o wire = After(sent, Len(Encode(message)))

\* However long the lines, chunks and bodies of the server are, the reader holds no
\* more of them than its largest limit and one recv.
BufferBounded ==
    {Len(buffer), Len(body)} \subseteq
        0 .. (Max({MaxHeaderSize, MaxLineSize, MaxBodySize, MaxChunkSize}) + RecvSize)

\* The size of a chunk has no sign: a response with one cannot be parsed.  It does not
\* hold: int(token, 16) accepts a sign, see section 4 of the README.
NegativeSizeIsRejected ==
    message.fault = "negative" => outcome # "response"

=============================================================================
