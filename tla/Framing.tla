------------------------------ MODULE Framing ------------------------------
(***************************************************************************)
(* Packets on a connection (pkg/proto/packet.go).  Goroutines call         *)
(* PackInto on the same connection; at the other end the readloop calls    *)
(* UnpackFrom on a bufio.Reader.  A Read of that reader returns what is in *)
(* its buffer and reads from the connection only when the buffer is empty: *)
(* over TCP any part of the stream, over UDP the head of one datagram.     *)
(* UnpackFrom takes a short Read for a malformed packet and goes on with   *)
(* whatever comes next as a header.                                        *)
(*                                                                         *)
(* A byte is a cell <<f, i>>, the i-th byte of frame f.  What it says is   *)
(* looked at only where UnpackFrom takes it for part of a header.          *)
(***************************************************************************)
EXTENDS Integers, Sequences

CONSTANTS Writers,     \* goroutines that write to the connection
          Tags,        \* packet tags (10 to 15)
          MaxPayload,  \* maxPayloadSize (8180)
          BufSize,     \* the size of a bufio.Reader (4096)
          Base,        \* the number of values of a byte (256)
          Text,        \* the least byte of a JSON text (32)
          MaxFrames    \* bound: calls of PackInto

HeaderSize == 4
Byte == 0..(Base - 1)

ASSUME Bytes == /\ Base \in Nat /\ MaxPayload \in Nat /\ MaxPayload < Base * Base
                /\ Tags \subseteq Byte \ {0}
ASSUME Buffers == BufSize \in Nat /\ BufSize > HeaderSize /\ MaxFrames \in Nat

(* Two bytes of JSON are a length that UnpackFrom refuses, and none of a   *)
(* tag (8224 > 8180 and 32 > 15 in the code).                              *)
ASSUME Json == /\ Text \in Byte /\ Text * Base > MaxPayload
               /\ \A t \in Tags : t < Text

VARIABLES link,     \* "tcp", a session, or "udp", a hole
          frames,   \* the packets given to PackInto, in order
          pending,  \* what each writer has yet to write
          grams,    \* UDP: the datagrams that were sent
          in,       \* TCP: the stream written; UDP: the datagram read last
          pos, lim, \* the buffer of the reader is in[pos + 1] to in[lim]
          want,     \* 0 before a header, the length of the body after it
          tag,      \* the tag of that header
          pkt,      \* what UnpackFrom returned last
          count,    \* history, TCP: how many packets it has returned
          split     \* history, TCP: a read has ended inside a frame

sender == <<link, frames, pending, grams>>
reader == <<pos, lim, want, tag, pkt, count, split>>
framing == <<sender, in, reader>>

Least(a, b) == IF a < b THEN a ELSE b

Cells(f, size) == [i \in 1..(HeaderSize + size) |-> <<f, i>>]

(* A datagram of MakeHole (nat.go) that comes late: the one byte "a".      *)
Stray == <<<<0, 1>>>>

Malformed == [tag |-> 0, body |-> <<>>]
Packet(f) == [tag |-> frames[f].tag,
              body |-> [i \in 1..frames[f].size |-> <<f, HeaderSize + i>>]]

Frame == [tag : Tags, size : 0..MaxPayload, id : Nat]
Cell == Nat \X Nat

FramingTypeOK ==
    /\ link \in {"tcp", "udp"}
    /\ frames \in Seq(Frame) /\ Len(frames) <= MaxFrames
    /\ pending \in [Writers -> Seq(Cell)]
    /\ in \in Seq(Cell) /\ grams \subseteq Seq(Cell)
    /\ lim \in 0..Len(in) /\ pos \in 0..lim
    /\ want \in 0..MaxPayload /\ tag \in Nat
    /\ pkt.tag \in Nat /\ pkt.body \in Seq(Cell)
    /\ count \in Nat /\ split \in BOOLEAN

FramingInit ==
    /\ link \in {"tcp", "udp"}
    /\ frames = <<>> /\ pending = [w \in Writers |-> <<>>]
    /\ grams = {} /\ in = <<>> /\ pos = 0 /\ lim = 0
    /\ want = 0 /\ tag = 0 /\ pkt = Malformed /\ count = 0 /\ split = FALSE

-----------------------------------------------------------------------------
(* PackInto: the packet goes into a bufio.Writer of its own, which writes  *)
(* to the connection when it is full and at Flush.  The connection lets    *)
(* one Write in at a time.                                                 *)

WriterSize_Default == BufSize

WriterSize == HeaderSize + MaxPayload

(* PackRaw refuses a longer packet.                                        *)
PackInto(w, m) ==
    /\ pending[w] = <<>> /\ Len(frames) < MaxFrames
    /\ m.size <= MaxPayload
    /\ frames' = Append(frames, m)
    /\ pending' = [pending EXCEPT ![w] = Cells(Len(frames) + 1, m.size)]
    /\ UNCHANGED <<link, grams, in, reader>>

Write(w) ==
    /\ pending[w] # <<>>
    /\ LET n == Least(WriterSize, Len(pending[w]))
           chunk == SubSeq(pending[w], 1, n)
       IN  /\ pending' = [pending EXCEPT ![w] = SubSeq(@, n + 1, Len(@))]
           /\ IF link = "tcp"
              THEN in' = in \o chunk /\ UNCHANGED grams
              ELSE grams' = grams \cup {chunk} /\ UNCHANGED in
    /\ UNCHANGED <<link, frames, reader>>

-----------------------------------------------------------------------------
(* bufio.Reader: a read larger than the buffer goes around it.             *)

Room == IF want > BufSize THEN want ELSE BufSize

EndsFrame(c) == c[2] = HeaderSize + frames[c[1]].size

ReadStream(n) ==
    /\ link = "tcp" /\ pos = lim /\ lim + n <= Len(in) /\ n <= Room
    /\ lim' = lim + n
    /\ split' = (split \/ ~EndsFrame(in[lim + n]))
    /\ UNCHANGED <<sender, in, pos, want, tag, pkt, count>>

(* The network loses, repeats and reorders datagrams: any that was sent    *)
(* may come next.                                                          *)
ReadDatagram(d) ==
    /\ link = "udp" /\ pos = lim
    /\ in' = d /\ pos' = 0 /\ lim' = Least(Room, Len(d))
    /\ UNCHANGED <<sender, want, tag, pkt, count, split>>

-----------------------------------------------------------------------------
(* UnpackFrom *)

(* What a byte may say.  The body of a packet of a session is JSON, that   *)
(* of a tunnel any IP packet.                                              *)
Header(m) == <<0, m.tag, m.size \div Base, m.size % Base>>

Values(c) == IF c[1] # 0 /\ c[2] <= HeaderSize THEN {Header(frames[c[1]])[c[2]]}
             ELSE IF link = "tcp" THEN {b \in Byte : b >= Text} ELSE Byte

Word(c, d) == {h * Base + l : h \in Values(c), l \in Values(d)}

Return(p) ==
    /\ pkt' = p /\ want' = 0
    /\ count' = IF link = "tcp" /\ p # Malformed THEN count + 1 ELSE count

(* Taking an empty body for a malformed packet, as a long one is.          *)
UnpackHeader_RefusesEmpty ==
    /\ want = 0 /\ pos < lim
    /\ pos' = pos + Least(HeaderSize, lim - pos)
    /\ IF lim - pos < HeaderSize THEN Return(Malformed) /\ UNCHANGED tag
       ELSE \E t \in Word(in[pos + 1], in[pos + 2]), n \in Word(in[pos + 3], in[pos + 4]) :
               IF n \in 1..MaxPayload THEN want' = n /\ tag' = t /\ UNCHANGED <<pkt, count>>
               ELSE Return(Malformed) /\ UNCHANGED tag
    /\ UNCHANGED <<sender, in, lim, split>>

UnpackHeader ==
    /\ want = 0 /\ pos < lim
    /\ pos' = pos + Least(HeaderSize, lim - pos)
    /\ IF lim - pos < HeaderSize THEN Return(Malformed) /\ UNCHANGED tag
       ELSE \E t \in Word(in[pos + 1], in[pos + 2]), n \in Word(in[pos + 3], in[pos + 4]) :
               CASE n = 0 -> Return([tag |-> t, body |-> <<>>]) /\ UNCHANGED tag
                 [] n > MaxPayload -> Return(Malformed) /\ UNCHANGED tag
                 [] OTHER -> want' = n /\ tag' = t /\ UNCHANGED <<pkt, count>>
    /\ UNCHANGED <<sender, in, lim, split>>

UnpackBody_Short ==
    /\ want > 0 /\ pos < lim
    /\ LET n == Least(want, lim - pos)
       IN  /\ pos' = pos + n
           /\ Return([tag |-> tag, body |-> SubSeq(in, pos + 1, pos + n)])
    /\ UNCHANGED <<sender, in, lim, tag, split>>

UnpackBody ==
    /\ want > 0 /\ pos < lim
    /\ LET n == Least(want, lim - pos)
       IN  /\ pos' = pos + n
           /\ Return(IF n < want THEN Malformed
                     ELSE [tag |-> tag, body |-> SubSeq(in, pos + 1, pos + n)])
    /\ UNCHANGED <<sender, in, lim, tag, split>>
=============================================================================
