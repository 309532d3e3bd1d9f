----------------------------- MODULE ByteStreams -----------------------------
(***************************************************************************)
(* The bytes below the packets of Wire: what the client writes goes        *)
(* through the buffer of output_ and, for the body of a Data packet when   *)
(* compression is on, through frames (clickhouse/base/output.cpp,          *)
(* compressed.cpp, wire_format.cpp); send() and recv() take and give any   *)
(* part of what they are asked for, or time out; the reader puts the       *)
(* packets together again (input.cpp, compressed.cpp).                     *)
(*                                                                         *)
(* Both ends run the same classes: the client's writer and reader are      *)
(* joined here by one stream, which stands for the one to the server,      *)
(* where a send may time out, or the one from it, where a receive may.     *)
(*                                                                         *)
(* A packet is the sizes of the fields it is written and read in, a byte   *)
(* knows its packet and its place in it.  What is compressed, hashed and   *)
(* put in front of a frame are tokens that say of which bytes: the         *)
(* compression itself is external.                                         *)
(***************************************************************************)
EXTENDS Naturals, Sequences, SequencesExt

CONSTANTS
  OutSize,    \* the buffers of output_ and input_: 8192 each
  InSize,
  Settings,      \* compression: [on, chunk], chunk is max_compression_chunk_size
  Shapes,     \* packets: [head, body], the sizes of the fields
  Packed(_),  \* how many tokens so many bytes are compressed to
  MaxPackets  \* bound

ShapeAssumption ==
  \A shape \in Shapes :
    /\ shape.head \in Seq(Nat \ {0}) /\ shape.body \in Seq(Nat \ {0})
    /\ Len(shape.head) > 0 /\ shape.head[1] = 1

ASSUME ShapesBeginWithCode == ShapeAssumption
ASSUME BuffersHoldBytes == OutSize \in Nat \ {0} /\ InSize \in Nat \ {0}
ASSUME SettingsAreSettings == Settings \subseteq [on : BOOLEAN, chunk : Nat]
ASSUME MaxPacketsIsNat == MaxPackets \in Nat

VARIABLES
  direction,  \* "toServer" or "toClient"
  mode,       \* the compression of the connection
  shapes,     \* the packets that were begun so far
  work,       \* what the packet being written has still to do, call by call
  buf,        \* output_: the bytes in its buffer
  gone,       \* how many of them the running DoFlush has sent
  thrown,     \* the packets whose send threw
  net,        \* bytes that were sent and not received
  inbuf,      \* input_: the bytes in its buffer
  reader,     \* the packet being read
  received    \* the packets that were read

sendVars == <<shapes, work, buf, gone, thrown>>
readVars == <<inbuf, reader, received>>
byteVars == <<direction, mode, sendVars, net, readVars>>

------------------------------------------------------------------------------
(* Packets as tokens: what is in them depends on the shape and the mode only. *)

\* The sums of the first so many sizes.
Sums(sizes) ==
  LET sum[f \in 0 .. Len(sizes)] == IF f = 0 THEN 0 ELSE sum[f - 1] + sizes[f] IN sum

Before(sizes, f) == Sums(sizes)[f - 1]

ASSUME PackedIsNat ==
  \A shape \in Shapes :
    LET sizes == shape.head \o shape.body IN
    \A n \in 1 .. Sums(sizes)[Len(sizes)] : Packed(n) \in Nat

\* The fields of a packet, each the numbers of its bytes.
Fields(shape) ==
  LET sizes == shape.head \o shape.body
  IN [f \in DOMAIN sizes |-> [i \in 1 .. sizes[f] |-> Before(sizes, f) + i]]

Plain(data) == [i \in DOMAIN data |-> [byte |-> data[i]]]

\* Compress(): hash, header with the sizes, compressed bytes.
FrameSize(data) == 2 + Packed(Len(data))

Frame(data) ==
  [n \in 1 .. FrameSize(data) |->
    CASE n = 1 -> [hash |-> data] [] n = 2 -> [header |-> data] [] OTHER -> [packed |-> data]]

\* CompressedOutput::DoWrite: at most `chunk` bytes a frame, without a chunk size all in one.
Chunks(data, chunk) ==
  LET size == IF chunk > 0 THEN chunk ELSE Len(data)
      last(i) == IF i * size < Len(data) THEN i * size ELSE Len(data)
  IN [i \in 1 .. (IF data = << >> THEN 0 ELSE (Len(data) + size - 1) \div size) |->
       SubSeq(data, (i - 1) * size + 1, last(i))]

(* BufferedOutput over CompressedOutput, for one block: a field that does   *)
(* not fit flushes the buffer, and is a frame of its own if it is large.    *)
WriteInner(acc, data, chunk) ==
  LET flushed == acc.frames \o Chunks(acc.held, chunk) IN
  IF Len(acc.held) + Len(data) <= chunk THEN [acc EXCEPT !.held = @ \o data]
  ELSE IF Len(data) > chunk \div 2
  THEN [held |-> << >>, frames |-> flushed \o Chunks(data, chunk)]
  ELSE [held |-> data, frames |-> flushed]

WriteFields(fields, chunk) ==
  LET acc[f \in 0 .. Len(fields)] ==
        IF f = 0 THEN [held |-> << >>, frames |-> << >>]
                 ELSE WriteInner(acc[f - 1], fields[f], chunk)
  IN acc[Len(fields)]

\* Mutant of Frames: WriteBlock ends without a flush.
FramesUnflushed(fields, chunk) == WriteFields(fields, chunk).frames

\* The frames of a block: what remains in the inner buffer is the last.
Frames(fields, chunk) ==
  LET acc == WriteFields(fields, chunk)
  IN acc.frames \o Chunks(acc.held, chunk)

\* WriteAll on output_, of data that may have had the buffer flushed for it, and Flush.
Write(data) == [op |-> "write", data |-> data, flushed |-> FALSE]
Flush       == [op |-> "flush", data |-> << >>, flushed |-> FALSE]

WriteFrame(data) == <<Write(SubSeq(Frame(data), 1, 1)),
                      Write(SubSeq(Frame(data), 2, FrameSize(data))), Flush>>

Map(Op(_), s) == [i \in DOMAIN s |-> Op(s[i])]

WritePlain(data) == Write(Plain(data))

\* SendBlockData: WriteBlock ends with a flush of the stream it was given.
WriteBody(fields, m) ==
  IF m.on THEN FlattenSeq(Map(WriteFrame, Frames(fields, m.chunk)))
          ELSE Map(WritePlain, fields) \o <<Flush>>

\* Mutant of Calls: a sender forgets its flush.
CallsUnflushed ==
  [shape \in Shapes |-> [m \in Settings |->
    LET fields == Fields(shape)
        n == Len(shape.head)
        body == SubSeq(fields, n + 1, Len(fields))
    IN Map(WritePlain, SubSeq(fields, 1, n))
       \o (IF body = << >> THEN << >> ELSE WriteBody(body, m))]]

\* SendQuery, SendData and the other senders: the fields, then a flush of output_.
Calls ==
  [shape \in Shapes |-> [m \in Settings |->
    LET fields == Fields(shape)
        n == Len(shape.head)
        body == SubSeq(fields, n + 1, Len(fields))
    IN Map(WritePlain, SubSeq(fields, 1, n))
       \o (IF body = << >> THEN << >> ELSE WriteBody(body, m)) \o <<Flush>>]]

DataOf(call) == call.data

Encoding == [shape \in Shapes |-> [m \in Settings |-> FlattenSeq(Map(DataOf, Calls[shape][m]))]]

\* The calls that write packet k, a packet of this shape: their data as its tokens.
CallsFor(k, shape) ==
  LET calls == Calls[shape][mode]
      sizes == [c \in DOMAIN calls |-> Len(calls[c].data)]
      tokens(c) == [n \in 1 .. sizes[c] |-> <<k, Before(sizes, c) + n>>]
  IN [c \in DOMAIN calls |-> [calls[c] EXCEPT !.data = tokens(c)]]

Owner(t) == t[1]

Content(t) == Encoding[shapes[Owner(t)]][mode][t[2]]

Sizes(k) == shapes[k].head \o shapes[k].body

------------------------------------------------------------------------------
(* Writing. *)

Idle == work = << >>

SendPacket ==
  /\ Idle /\ Len(shapes) < MaxPackets
  /\ \E shape \in Shapes :
       /\ shapes' = Append(shapes, shape)
       /\ work' = CallsFor(Len(shapes) + 1, shape)
  /\ UNCHANGED <<direction, mode, buf, gone, thrown, net, readVars>>

Call == Head(work)

Done == work' = Tail(work)

Fits == Len(Call.data) <= OutSize - Len(buf)

\* DoWrite when the bytes fit, or are small enough after the flush.
WriteToBuffer ==
  /\ ~Idle /\ Call.op = "write" /\ Fits
  /\ Call.flushed => Len(Call.data) <= OutSize \div 2
  /\ buf' = buf \o Call.data /\ Done
  /\ UNCHANGED <<direction, mode, shapes, gone, thrown, net, readVars>>

FlushIsDue == ~Idle /\ buf # << >> /\ (Call.op = "flush" \/ ~Fits)

\* Mutant of SendBuffer: DoFlush empties its buffer after the first send().
SendBufferOnce ==
  /\ FlushIsDue
  /\ \E n \in 1 .. Len(buf) - gone :
       net' = net \o SubSeq(buf, gone + 1, gone + n)
  /\ buf' = << >> /\ gone' = 0
  /\ IF Call.op = "flush" THEN Done ELSE work' = [work EXCEPT ![1].flushed = TRUE]
  /\ UNCHANGED <<direction, mode, shapes, thrown, readVars>>

\* One round of DoFlush: the buffer is reset when all of it was sent.
SendBuffer ==
  /\ FlushIsDue
  /\ \E n \in 1 .. Len(buf) - gone :
       /\ net' = net \o SubSeq(buf, gone + 1, gone + n)
       /\ IF gone + n < Len(buf)
          THEN gone' = gone + n /\ UNCHANGED <<buf, work>>
          ELSE /\ gone' = 0 /\ buf' = << >>
               /\ IF Call.op = "flush" THEN Done ELSE work' = [work EXCEPT ![1].flushed = TRUE]
  /\ UNCHANGED <<direction, mode, shapes, thrown, readVars>>

FlushNothing ==
  /\ ~Idle /\ Call.op = "flush" /\ buf = << >>
  /\ Done
  /\ UNCHANGED <<direction, mode, shapes, buf, gone, thrown, net, readVars>>

DirectIsDue ==
  /\ ~Idle /\ Call.op = "write" /\ buf = << >>
  /\ Call.flushed \/ ~Fits
  /\ Len(Call.data) > OutSize \div 2

\* Large data passes the buffer; what send() leaves WriteAll writes again.
SendDirect ==
  /\ DirectIsDue
  /\ \E n \in 1 .. Len(Call.data) :
       /\ net' = net \o SubSeq(Call.data, 1, n)
       /\ IF n = Len(Call.data) THEN Done
          ELSE work' = <<Write(SubSeq(Call.data, n + 1, Len(Call.data)))>> \o Tail(work)
  /\ UNCHANGED <<direction, mode, shapes, buf, gone, thrown, readVars>>

\* send() times out.  The packet is given up and its frames with it, the buffer of
\* output_ stays as it was, also when a part of it was sent.
SendThrows ==
  /\ direction = "toServer"
  /\ FlushIsDue \/ DirectIsDue
  /\ work' = << >> /\ gone' = 0 /\ thrown' = thrown \cup {Len(shapes)}
  /\ UNCHANGED <<direction, mode, shapes, buf, net, readVars>>

------------------------------------------------------------------------------
(* Reading. *)

NoPacket ==
  [packet |-> 0, field |-> 1, got |-> << >>, mem |-> << >>, raw |-> << >>, seen |-> << >>,
   broken |-> FALSE]

\* The field comes out of frames.
InFrames(r) == r.packet # 0 /\ mode.on /\ r.field > Len(shapes[r.packet].head)

\* Mutant of Wanted: the size in the header is taken to count from behind the header.
WantedBehindHeader(r) ==
  IF InFrames(r)
  THEN IF Len(r.raw) < 2 THEN 1 ELSE FrameSize(Content(r.raw[2]).header) - Len(r.raw) + 1
  ELSE (IF r.packet = 0 THEN 1 ELSE Sizes(r.packet)[r.field]) - Len(r.got)

\* How many tokens the ReadAll that runs still asks of input_.
Wanted(r) ==
  IF InFrames(r)
  THEN IF Len(r.raw) < 2 THEN 1 ELSE FrameSize(Content(r.raw[2]).header) - Len(r.raw)
  ELSE (IF r.packet = 0 THEN 1 ELSE Sizes(r.packet)[r.field]) - Len(r.got)

Broken(r) == [r EXCEPT !.broken = TRUE]

\* The destructor of CompressedInput wants its frame to be used up.
EndPacket(r) ==
  IF r.mem # << >> THEN Broken(r) ELSE [NoPacket EXCEPT !.field = 0, !.packet = r.packet]

\* The bytes of packet k that a field is.
BytesOf(k, field) == [i \in DOMAIN field |-> <<k, field[i]>>]

\* Some of a field has been read; when it is whole, it must be the one that was written.
GotField(r, got) ==
  LET k == IF r.packet = 0 THEN got[1][1] ELSE r.packet
      n == r.field
  IN  IF Len(got) < Sizes(k)[n] THEN [r EXCEPT !.got = got]
      ELSE IF got # BytesOf(k, Fields(shapes[k])[n]) THEN Broken(r)
      ELSE IF n = Len(Sizes(k)) THEN EndPacket([r EXCEPT !.packet = k])
      ELSE [r EXCEPT !.packet = k, !.field = n + 1, !.got = << >>]

\* What a frame's hash is of: the tokens of one packet that follow each other.
HashMatches(raw) ==
  /\ DOMAIN Content(raw[1]) = {"hash"} /\ Len(raw) = FrameSize(Content(raw[1]).hash)
  /\ \A n \in DOMAIN raw : raw[n] = <<Owner(raw[1]), raw[1][2] + n - 1>>

\* Decompress(): the hash, the header with the sizes, the compressed bytes.
GotFrame(r, raw) ==
  IF Len(raw) < 2 THEN [r EXCEPT !.raw = raw]
  ELSE IF DOMAIN Content(raw[2]) # {"header"} THEN Broken(r)
  ELSE IF Len(raw) < FrameSize(Content(raw[2]).header) THEN [r EXCEPT !.raw = raw]
  ELSE IF ~HashMatches(raw) THEN Broken(r)
  ELSE [r EXCEPT !.raw = << >>, !.mem = BytesOf(Owner(raw[1]), Content(raw[1]).hash)]

\* A token that is no byte of a field is none of the bytes that a reader expects.
AsByte(t) == <<Owner(t), IF DOMAIN Content(t) = {"byte"} THEN Content(t).byte ELSE 0>>

Parsed(r, tokens) ==
  LET q == [r EXCEPT !.seen = @ \o tokens] IN
  IF InFrames(q) THEN GotFrame(q, q.raw \o tokens)
  ELSE IF q.packet = 0 /\ AsByte(tokens[1])[2] # 1 THEN Broken(q)
  ELSE GotField(q, q.got \o Map(AsByte, tokens))

\* A packet that is read is counted, and the next one may begin.
Take(r) ==
  IF r.field = 0
  THEN reader' = NoPacket /\ received' = Append(received, r.packet)
  ELSE reader' = r /\ UNCHANGED received

\* CompressedInput has bytes of a frame left.
FromFrame == InFrames(reader) /\ reader.mem # << >>

ReadFrame ==
  /\ ~reader.broken /\ FromFrame
  /\ LET n == Sizes(reader.packet)[reader.field] - Len(reader.got)
         m == IF n < Len(reader.mem) THEN n ELSE Len(reader.mem)
     IN Take(GotField([reader EXCEPT !.mem = SubSeq(@, m + 1, Len(@))],
                      reader.got \o SubSeq(reader.mem, 1, m)))
  /\ UNCHANGED <<direction, mode, sendVars, net, inbuf>>

Reads == ~reader.broken /\ ~FromFrame

\* BufferedInput::DoRead from a buffer.
ReadFrom(buffer) ==
  LET n == IF Wanted(reader) < Len(buffer) THEN Wanted(reader) ELSE Len(buffer)
  IN /\ Take(Parsed(reader, SubSeq(buffer, 1, n)))
     /\ inbuf' = SubSeq(buffer, n + 1, Len(buffer))

ReadBuffer ==
  /\ Reads /\ inbuf # << >>
  /\ ReadFrom(inbuf)
  /\ UNCHANGED <<direction, mode, sendVars, net>>

\* The buffer is used up: recv() fills it with what there is.
FillBuffer ==
  /\ Reads /\ inbuf = << >> /\ Wanted(reader) <= InSize \div 2
  /\ \E n \in 1 .. Len(net) :
       /\ n <= InSize
       /\ net' = SubSeq(net, n + 1, Len(net))
       /\ ReadFrom(SubSeq(net, 1, n))
  /\ UNCHANGED <<direction, mode, sendVars>>

\* ... or passes it, when much is wanted.
ReadDirect ==
  /\ Reads /\ inbuf = << >> /\ Wanted(reader) > InSize \div 2
  /\ \E n \in 1 .. Len(net) :
       /\ n <= Wanted(reader)
       /\ net' = SubSeq(net, n + 1, Len(net))
       /\ Take(Parsed(reader, SubSeq(net, 1, n)))
  /\ UNCHANGED <<direction, mode, sendVars, inbuf>>

\* recv() times out: what was read of the packet is lost, and the next packet is
\* read from where this one stopped.
ReceiveThrows ==
  /\ direction = "toClient"
  /\ Reads /\ inbuf = << >>
  /\ reader' = NoPacket
  /\ UNCHANGED <<direction, mode, sendVars, net, inbuf, received>>

------------------------------------------------------------------------------

Init ==
  /\ direction \in {"toServer", "toClient"} /\ mode \in Settings
  /\ shapes = << >> /\ work = << >> /\ buf = << >> /\ gone = 0 /\ thrown = {}
  /\ net = << >> /\ inbuf = << >> /\ reader = NoPacket /\ received = << >>

Writes == WriteToBuffer \/ SendBuffer \/ FlushNothing \/ SendDirect

Next ==
  \/ SendPacket \/ Writes \/ SendThrows
  \/ ReadFrame \/ ReadBuffer \/ FillBuffer \/ ReadDirect \/ ReceiveThrows

Spec == Init /\ [][Next]_byteVars

=============================================================================
