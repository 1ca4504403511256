-------------------------------- MODULE Codec --------------------------------
(***************************************************************************)
(* The wire format of src/protocol/src/codec.rs.  A buffer is <<0, s>>     *)
(* with a compressed stream s of messages, or <<1, bufs>> with a vector of *)
(* buffers (join); the length that precedes each of them is left out.  A   *)
(* message is HEADER, its type and its payload, in which HEADER is         *)
(* escaped.                                                                *)
(*                                                                         *)
(* Compression is external and inverted by decompression, but the          *)
(* decompressor hands its output to the splitter in pieces of at most      *)
(* Chunk bytes.  Payloads are byte sequences; bincode is modelled where    *)
(* they are made (OpenPost).                                               *)
(***************************************************************************)
EXTENDS Integers, SequencesExt

CONSTANTS MessageType, \* numbers of message types
          Chunk        \* capacity of the decompressor's output buffer

HEADER == 174
ESCAPE == 255

ASSUME CodecAssumption ==
    /\ MessageType \subseteq 0..254
    /\ Chunk \in Nat \ {0}

-----------------------------------------------------------------------------
(* Encoder                                                                 *)

\* Mutant: the payload is written as it is.
EscaperOff(payload) == payload

\* Escaper::write
Escaper(payload) ==
    FlattenSeq([i \in DOMAIN payload |->
        IF payload[i] = HEADER THEN <<HEADER, ESCAPE>> ELSE <<payload[i]>>])

\* write_message, for a message <<type, payload>>
write_message(w, msg) == w \o <<HEADER, msg[1]>> \o Escaper(msg[2])

\* An encoder that the messages are written to before it is finished
encode(msgs) == <<0, FoldLeft(write_message, <<>>, msgs)>>

join(bufs) == <<1, bufs>>

-----------------------------------------------------------------------------
(* Decoder                                                                 *)

NewSplitter == [buf |-> <<>>, starts |-> <<>>, types |-> <<>>, ok |-> TRUE]

\* MessageSplitter::write
RECURSIVE SplitterWrite(_, _)
SplitterWrite(s, buf) ==
    LET i == SelectInSeq(buf, LAMBDA b : b = HEADER)
        rest == SubSeq(buf, i + 2, Len(buf))
    IN  CASE ~s.ok -> s
          [] s.ok /\ i = 0 -> [s EXCEPT !.buf = @ \o buf]
          [] s.ok /\ i > 0 /\ i < Len(buf) /\ buf[i + 1] = ESCAPE ->
                SplitterWrite([s EXCEPT !.buf = @ \o SubSeq(buf, 1, i)], rest)
          [] s.ok /\ i > 0 /\ i < Len(buf) /\ buf[i + 1] \in MessageType ->
                SplitterWrite([s EXCEPT !.buf = @ \o SubSeq(buf, 1, i - 1),
                                        !.starts = Append(@, Len(s.buf) + i - 1),
                                        !.types = Append(@, buf[i + 1])], rest)
          [] OTHER -> [s EXCEPT !.ok = FALSE]

\* The decompressor's writes to the splitter
Inflated(stream) ==
    [k \in 1..((Len(stream) + Chunk - 1) \div Chunk) |->
        SubSeq(stream, Chunk * (k - 1) + 1,
               IF Chunk * k < Len(stream) THEN Chunk * k ELSE Len(stream))]

RECURSIVE fill_splitter(_, _)
fill_splitter(dst, r) ==
    IF r[1] = 0 THEN FoldLeft(SplitterWrite, dst, Inflated(r[2]))
                ELSE FoldLeft(fill_splitter, dst, r[2])

\* The payload that read_next decodes for the k-th message
Payload(s, k) ==
    SubSeq(s.buf, s.starts[k] + 1,
           IF k < Len(s.starts) THEN s.starts[k + 1] ELSE Len(s.buf))

\* What peek_type and read_next return until the stream is consumed; an
\* error of the decoder is an empty stream, which its reader rejects too.
Decoder(r) ==
    LET s == fill_splitter(NewSplitter, r)
    IN  IF s.ok THEN [k \in DOMAIN s.types |-> <<s.types[k], Payload(s, k)>>]
                ELSE <<>>

=============================================================================
