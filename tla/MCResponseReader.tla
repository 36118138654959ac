-------------------------- MODULE MCResponseReader --------------------------
(***************************************************************************)
(* ResponseReader with the messages of the model.  The plain message is    *)
(* varied in one or two respects at a time.                                *)
(***************************************************************************)
EXTENDS ResponseReader

Plain ==
    [framing |-> "chunked", infos |-> 0, fields |-> 1, padding |-> 0,
     chunks |-> <<<<1, 2>>>>, extension |-> 0, trailers |-> 0, extra |-> 0,
     fault |-> "none"]

Framings == {[Plain EXCEPT !.framing = f] : f \in {"chunked", "length", "close", "bodyless"}}

\* Besides the body of Plain: no body, one chunk, two, a chunk too long, a body too long.
Bodies == {<<>>, <<<<1>>>>, <<<<1, 2>>, <<3>>>>, <<<<1, 2, 3>>>>,
           <<<<1, 2>>, <<3, 4>>>>, <<<<1, 2>>, <<3, 4>>, <<5, 6>>>>}

WithBodies == {[m EXCEPT !.chunks = b, !.extra = e] : m \in Framings, b \in Bodies, e \in {0, 2}}
WithInfos == {[m EXCEPT !.infos = i] : m \in Framings, i \in {1, 2}}

\* Below, at and above the limits on header block and header lines.
WithHeads ==
    {[m EXCEPT !.fields = h[1], !.padding = h[2]] :
        m \in Framings, h \in {<<0, 0>>, <<1, 2>>, <<2, 0>>, <<1, 4>>, <<3, 8>>}}

WithLines ==
    {[Plain EXCEPT !.extension = e, !.trailers = t] : e \in {0, 1, 2, 3, 9}, t \in 0 .. 2}

WithFaults ==
    {[Plain EXCEPT !.fault = f, !.trailers = 1] :
        f \in {"badhead", "badsize", "nocrlf", "badtrailer"}}
    \cup {[Plain EXCEPT !.framing = "length", !.fault = "badlength"]}

SomeMessages == WithBodies \cup WithInfos \cup WithHeads \cup WithLines \cup WithFaults

\* Chunk sizes with a sign.
SignedMessages == {[Plain EXCEPT !.fault = "negative", !.chunks = b] : b \in Bodies \ {<<>>}}

=============================================================================
