---------------------------- MODULE TunnelProofs ----------------------------
(* Theorems about module Tunnel, for all sizes of buffers and packets, any *)
(* number of writers, peers and packets, and all tags and batches.         *)
EXTENDS Tunnel, FiniteSetTheorems, TLAPS

(* --------------------------- packets on the wire ---------------------- *)

Total(f) == HeaderSize + frames[f].size

IsFrame(s, fs) == \E f \in DOMAIN fs : s = Cells(f, fs[f].size)

(* Around each cell of a stream is the whole of its frame, and the cell    *)
(* after the last of a frame is the first of another.                      *)
WholeFrames(s) ==
    \A i \in DOMAIN s :
        LET f == s[i][1]
            k == s[i][2]
        IN  /\ f \in DOMAIN frames /\ k \in 1..Total(f)
            /\ \A j \in 1..Total(f) : (i - k) + j \in DOMAIN s /\ s[(i - k) + j] = <<f, j>>
            /\ k = Total(f) /\ i < Len(s) => s[i + 1][2] = 1

Sent ==
    /\ \A w \in Writers : pending[w] = <<>> \/ IsFrame(pending[w], frames)
    /\ \A d \in grams : IsFrame(d, frames)
    /\ link = "udp" => in = <<>> \/ in = Stray \/ IsFrame(in, frames)
    /\ link = "tcp" => WholeFrames(in)

(* A body that is awaited under a known tag is that of a packet and comes  *)
(* next.                                                                   *)
BodyAhead ==
    want > 0 /\ tag \in Tags =>
        \E f \in DOMAIN frames :
            /\ tag = frames[f].tag /\ want = frames[f].size
            /\ pos + want <= Len(in)
            /\ \A k \in 1..want : in[pos + k] = <<f, HeaderSize + k>>

(* The reader of a hole begins every datagram with a header.               *)
InStep ==
    link = "udp" =>
        \/ want = 0 /\ (pos = 0 \/ pos = lim)
           /\ (lim = Least(BufSize, Len(in)))
        \/ /\ pos = HeaderSize /\ pos < lim /\ lim = Least(BufSize, Len(in))
           /\ want > 0
           /\ \E f \in DOMAIN frames : /\ in = Cells(f, frames[f].size)
                                       /\ want = frames[f].size /\ tag = frames[f].tag

WireInv == FramingTypeOK /\ Sent /\ BodyAhead /\ InStep /\ NeverForged

(* ------------------------------- lemmas -------------------------------- *)

LEMMA BaseFacts == /\ Base \in Nat /\ Base > 0 /\ Text \in Nat /\ MaxPayload \in Nat
                   /\ BufSize \in Nat /\ BufSize > HeaderSize
BY Bytes, Buffers, Json DEF Byte

LEMMA Parts == ASSUME NEW n \in Nat
               PROVE  /\ (n \div Base) \in Nat /\ (n % Base) \in 0..(Base - 1)
                      /\ (n \div Base) * Base + (n % Base) = n
BY BaseFacts

(* Two bytes are less than Base only if the first of them is 0.            *)
LEMMA Small == ASSUME NEW h \in Nat, NEW l \in Nat, h * Base + l < Base
               PROVE  h = 0
BY BaseFacts

(* Two bytes of text are a length that is refused.                         *)
LEMMA TextIsLong == ASSUME NEW h \in Nat, NEW l \in Nat, h >= Text
                    PROVE  h * Base + l > MaxPayload
<1>1. h * Base >= Text * Base
  BY BaseFacts
<1>2. h * Base \in Nat /\ Text * Base \in Nat
  BY BaseFacts
<1>. QED
  BY <1>1, <1>2, Json, BaseFacts

LEMMA CellsType == ASSUME NEW f \in Nat, NEW n \in Nat
                   PROVE  /\ Cells(f, n) \in Seq(Cell) /\ Len(Cells(f, n)) = HeaderSize + n
                          /\ DOMAIN Cells(f, n) = 1..(HeaderSize + n)
                          /\ \A i \in 1..(HeaderSize + n) : Cells(f, n)[i] = <<f, i>>
BY DEF Cells, Cell, HeaderSize

LEMMA TagFacts == ASSUME NEW t \in Tags
                  PROVE  t \in Nat /\ t # 0 /\ t < Base /\ t < Text
BY Bytes, Json, BaseFacts DEF Byte

LEMMA FrameFacts ==
    ASSUME FramingTypeOK, NEW f \in DOMAIN frames
    PROVE  /\ f \in Nat /\ f # 0 /\ frames[f] \in Frame
           /\ frames[f].tag \in Tags /\ frames[f].tag \in Nat /\ frames[f].tag # 0
           /\ frames[f].size \in Nat /\ frames[f].size <= MaxPayload
<1>1. frames \in Seq(Frame)
  BY DEF FramingTypeOK
<1>2. f \in Nat /\ f # 0 /\ frames[f] \in Frame
  BY <1>1
<1>3. frames[f].tag \in Tags /\ frames[f].size \in 0..MaxPayload
  BY <1>2 DEF Frame
<1>4. frames[f].tag \in Nat /\ frames[f].tag # 0
  BY <1>3, TagFacts
<1>5. frames[f].size \in Nat /\ frames[f].size <= MaxPayload
  BY <1>3, BaseFacts
<1>. QED
  BY <1>2, <1>3, <1>4, <1>5

LEMMA CellPair == ASSUME NEW c \in Cell
                  PROVE  c = <<c[1], c[2]>> /\ c[1] \in Nat /\ c[2] \in Nat
BY DEF Cell

LEMMA WholeAt ==
    ASSUME NEW s, WholeFrames(s), NEW i \in DOMAIN s
    PROVE  /\ s[i][1] \in DOMAIN frames /\ s[i][2] \in 1..Total(s[i][1])
           /\ \A j \in 1..Total(s[i][1]) :
                 (i - s[i][2]) + j \in DOMAIN s /\ s[(i - s[i][2]) + j] = <<s[i][1], j>>
           /\ s[i][2] = Total(s[i][1]) /\ i < Len(s) => s[i + 1][2] = 1
BY DEF WholeFrames

(* A header is read back as it was written.                                *)
LEMMA HeaderReads ==
    ASSUME FramingTypeOK, NEW f \in DOMAIN frames
    PROVE  /\ Word(<<f, 1>>, <<f, 2>>) = {frames[f].tag}
           /\ Word(<<f, 3>>, <<f, 4>>) = {frames[f].size}
<1>1. f \in Nat /\ f # 0 /\ frames[f].tag \in Nat /\ frames[f].size \in Nat
  BY FrameFacts
<1>2. /\ Values(<<f, 1>>) = {0} /\ Values(<<f, 2>>) = {frames[f].tag}
      /\ Values(<<f, 3>>) = {frames[f].size \div Base}
      /\ Values(<<f, 4>>) = {frames[f].size % Base}
  BY <1>1 DEF Values, Header, HeaderSize
<1>3. Word(<<f, 1>>, <<f, 2>>) = {0 * Base + frames[f].tag}
  BY <1>2 DEF Word
<1>4. Word(<<f, 3>>, <<f, 4>>) = {(frames[f].size \div Base) * Base + (frames[f].size % Base)}
  BY <1>2 DEF Word
<1>5. 0 * Base + frames[f].tag = frames[f].tag
  BY <1>1, BaseFacts
<1>. QED
  BY <1>1, <1>3, <1>4, <1>5, Parts

LEMMA HeaderValues ==
    ASSUME FramingTypeOK, NEW f \in DOMAIN frames
    PROVE  /\ Values(<<f, 1>>) = {0} /\ Values(<<f, 2>>) = {frames[f].tag}
           /\ Values(<<f, 3>>) = {frames[f].size \div Base}
           /\ Values(<<f, 4>>) = {frames[f].size % Base}
BY FrameFacts DEF Values, Header, HeaderSize

LEMMA TextValues ==
    ASSUME link = "tcp", NEW f, NEW k \in Nat, k > HeaderSize, NEW v \in Values(<<f, k>>)
    PROVE  v \in Nat /\ v >= Text
BY BaseFacts DEF Values, Byte, HeaderSize

LEMMA ValuesType ==
    ASSUME FramingTypeOK, NEW f \in DOMAIN frames, NEW k \in Nat \ {0}, NEW v \in Values(<<f, k>>)
    PROVE  v \in Nat
<1>1. CASE k > HeaderSize
  BY <1>1, BaseFacts DEF Values, Byte, HeaderSize
<1>2. CASE k \in {1, 2, 3, 4}
  <2>1. PICK a \in Nat, b \in Nat, c \in Nat :
          /\ Values(<<f, 1>>) = {0} /\ Values(<<f, 2>>) = {a}
          /\ Values(<<f, 3>>) = {b} /\ Values(<<f, 4>>) = {c}
    <3>1. /\ frames[f].tag \in Nat
          /\ (frames[f].size \div Base) \in Nat /\ (frames[f].size % Base) \in Nat
      BY FrameFacts, Parts, BaseFacts
    <3>. QED
      BY <3>1, HeaderValues
  <2>. QED
    BY <1>2, <2>1
<1>. QED
  BY <1>1, <1>2 DEF HeaderSize

(* Wherever the reader takes four cells of a stream for a header, it finds *)
(* the header of a packet, or a tag nobody knows, or a length it refuses.  *)
LEMMA NoFalseHeader ==
    ASSUME FramingTypeOK, WholeFrames(in), link = "tcp",
           NEW p \in Nat, p + HeaderSize <= Len(in),
           NEW t \in Word(in[p + 1], in[p + 2]), NEW n \in Word(in[p + 3], in[p + 4]),
           t \in Tags, n <= MaxPayload
    PROVE  \E f \in DOMAIN frames :
              /\ t = frames[f].tag /\ n = frames[f].size
              /\ \A j \in 1..Total(f) : p + j \in DOMAIN in /\ in[p + j] = <<f, j>>
<1>. DEFINE f == in[p + 1][1]
            k == in[p + 1][2]
<1>1. /\ \A i \in 1..4 : p + i \in DOMAIN in
      /\ DOMAIN in = 1..Len(in) /\ Len(in) \in Nat
      /\ \A i \in DOMAIN in : in[i] \in Cell
  <2>1. in \in Seq(Cell)
    BY DEF FramingTypeOK
  <2>2. DOMAIN in = 1..Len(in) /\ Len(in) \in Nat /\ \A i \in DOMAIN in : in[i] \in Cell
    BY <2>1
  <2>3. p + 4 <= Len(in)
    BY DEF HeaderSize
  <2>4. \A i \in 1..4 : p + i \in 1..Len(in)
    BY <2>2, <2>3
  <2>. QED
    BY <2>2, <2>4
<1>2. /\ f \in DOMAIN frames /\ k \in 1..Total(f) /\ in[p + 1] = <<f, k>>
      /\ \A j \in 1..Total(f) : (p + 1 - k) + j \in DOMAIN in /\ in[(p + 1 - k) + j] = <<f, j>>
      /\ k = Total(f) /\ p + 1 < Len(in) => in[p + 2][2] = 1
  <2>1. f \in DOMAIN frames /\ k \in 1..Total(f)
    BY <1>1, WholeAt
  <2>2. in[p + 1] = <<f, k>>
    <3>1. in[p + 1] \in Cell
      BY <1>1
    <3>. QED
      BY <3>1, CellPair
  <2>3. \A j \in 1..Total(f) :
           ((p + 1) - k) + j \in DOMAIN in /\ in[((p + 1) - k) + j] = <<f, j>>
    <3>1. p + 1 \in DOMAIN in
      BY <1>1
    <3>. QED
      BY <3>1, WholeAt
  <2>4. k = Total(f) /\ p + 1 < Len(in) => in[(p + 1) + 1][2] = 1
    <3>1. p + 1 \in DOMAIN in
      BY <1>1
    <3>. QED
      BY SMTT(60), <3>1, WholeAt
  <2>5. (p + 1) + 1 = p + 2
    OBVIOUS
  <2>. QED
    BY SMTT(60), <2>1, <2>2, <2>3, <2>4, <2>5
<1>3. PICK h \in Values(in[p + 1]), l \in Values(in[p + 2]) : t = h * Base + l
  BY DEF Word
<1>4. PICK hh \in Values(in[p + 3]), ll \in Values(in[p + 4]) : n = hh * Base + ll
  BY DEF Word
<1>5. \A i \in 1..4 : /\ in[p + i][1] \in DOMAIN frames /\ in[p + i][2] \in Nat \ {0}
                      /\ in[p + i] = <<in[p + i][1], in[p + i][2]>>
  <2>1. ASSUME NEW i \in 1..4
        PROVE  in[p + i][1] \in DOMAIN frames /\ in[p + i][2] \in 1..Total(in[p + i][1])
    BY <1>1, WholeAt
  <2>2. \A i \in 1..4 : Total(in[p + i][1]) \in Nat
    <3>1. ASSUME NEW g \in DOMAIN frames PROVE Total(g) \in Nat
      BY FrameFacts DEF Total, HeaderSize
    <3>. QED
      BY <2>1, <3>1
  <2>3. \A i \in 1..4 : in[p + i] = <<in[p + i][1], in[p + i][2]>>
    BY <1>1, CellPair
  <2>4. \A i \in 1..4 : in[p + i][2] \in Nat \ {0}
    <3>1. ASSUME NEW m \in Nat, NEW i \in 1..m PROVE i \in Nat \ {0}
      OBVIOUS
    <3>. QED
      BY <2>1, <2>2, <3>1
  <2>. QED
    BY <2>1, <2>3, <2>4
<1>6. h \in Nat /\ l \in Nat /\ hh \in Nat /\ ll \in Nat
  <2>. HIDE DEF f, k
  <2>1. \A i \in 1..4 : \A v \in Values(in[p + i]) : v \in Nat
    BY <1>5, ValuesType
  <2>. QED
    BY <2>1
<1>7. t \in Nat /\ t # 0 /\ t < Base /\ t < Text
  BY Bytes, Json, BaseFacts DEF Byte
<1>8. h = 0 /\ l = t
  <2>1. h = 0
    BY <1>3, <1>6, <1>7, Small
  <2>. QED
    BY <1>3, <1>6, <2>1, BaseFacts
<1>. HIDE DEF f, k
<1>9. k <= HeaderSize
  <2>1. SUFFICES ASSUME k > HeaderSize PROVE FALSE
    BY <1>2, FrameFacts DEF Total, HeaderSize
  <2>2. h >= Text
    BY <1>2, <2>1, TextValues
  <2>. QED
    BY <2>2, <1>7, <1>8, BaseFacts
<1>10. k \in {1, 2, 3, 4}
  BY <1>2, <1>9, FrameFacts DEF Total, HeaderSize
<1>11. k # 2
  BY <1>2, <1>8, HeaderValues, FrameFacts
<1>12. CASE k = 1
  <2>1. \A j \in 1..Total(f) : p + j \in DOMAIN in /\ in[p + j] = <<f, j>>
    <3>1. \A j \in 1..Total(f) : (p + 1 - k) + j = p + j
      BY <1>12, <1>2, FrameFacts DEF Total, HeaderSize
    <3>. QED
      BY <3>1, <1>2
  <2>2. \A i \in 1..4 : in[p + i] = <<f, i>>
    <3>1. 1..4 \subseteq 1..Total(f)
      BY SMTT(60), <1>2, FrameFacts DEF Total, HeaderSize
    <3>. QED
      BY <2>1, <3>1
  <2>3. t = frames[f].tag /\ n = frames[f].size
    <3>1. f \in DOMAIN frames
      BY <1>2
    <3>2. in[p + 1] = <<f, 1>> /\ in[p + 2] = <<f, 2>> /\ in[p + 3] = <<f, 3>> /\ in[p + 4] = <<f, 4>>
      BY <2>2
    <3>3. t \in Word(<<f, 1>>, <<f, 2>>) /\ n \in Word(<<f, 3>>, <<f, 4>>)
      BY <3>2
    <3>. QED
      BY <3>1, <3>3, HeaderReads
  <2>. QED
    BY <2>1, <2>3, <1>2
<1>13. CASE k = 3
  <2>1. in[p + 2] = <<f, 4>>
    <3>1. 4 \in 1..Total(f) /\ (p + 1 - k) + 4 = p + 2
      BY <1>13, <1>2, FrameFacts DEF Total, HeaderSize
    <3>. QED
      BY <3>1, <1>2
  <2>2. h = frames[f].size \div Base /\ l = frames[f].size % Base
    BY <2>1, <1>13, <1>2, HeaderValues
  <2>3. frames[f].size = t
    <3>1. (0 * Base) + t = t
      BY <1>7, BaseFacts
    <3>. QED
      BY <2>2, <3>1, <1>2, <1>8, FrameFacts, Parts
  <2>4. in[p + 3] = <<f, 5>>
    <3>1. 5 \in 1..Total(f) /\ (p + 1 - k) + 5 = p + 3
      BY <2>3, <1>7, <1>13, <1>2, FrameFacts DEF Total, HeaderSize
    <3>. QED
      BY <3>1, <1>2
  <2>5. hh >= Text
    BY <2>4, TextValues DEF HeaderSize
  <2>6. n > MaxPayload
    BY <2>5, <1>4, <1>6, TextIsLong
  <2>. QED
    BY <2>6, <1>4, <1>6, BaseFacts
<1>14. CASE k = 4
  <2>1. CASE frames[f].size = 0
    <3>1. in[p + 2][2] = 1
      BY SMTT(60), <2>1, <1>1, <1>2, <1>14 DEF Total, HeaderSize
    <3>2. in[p + 2] = <<in[p + 2][1], 1>> /\ in[p + 2][1] \in DOMAIN frames
      BY <3>1, <1>5
    <3>3. Values(in[p + 2]) = {0}
      BY <3>2, HeaderValues
    <3>. QED
      BY <3>3, <1>7, <1>8
  <2>2. CASE frames[f].size > 0
    <3>1. 5 \in 1..Total(f) /\ (p + 1 - k) + 5 = p + 2
      BY SMTT(60), <2>2, <1>14, <1>2, FrameFacts DEF Total, HeaderSize
    <3>2. in[p + 2] = <<f, 5>>
      BY <3>1, <1>2
    <3>3. l >= Text
      BY <3>2, TextValues DEF HeaderSize
    <3>. QED
      BY <3>3, <1>7, <1>8, BaseFacts
  <2>. QED
    BY <2>1, <2>2, <1>2, FrameFacts
<1>. QED
  BY <1>10, <1>11, <1>12, <1>13, <1>14

(* --------------------------- PackInto and Write ------------------------ *)

LEMMA FrameCells ==
    ASSUME FramingTypeOK, NEW s, IsFrame(s, frames)
    PROVE  /\ s \in Seq(Cell) /\ Len(s) \in Nat /\ Len(s) >= HeaderSize
           /\ Len(s) <= WriterSize
           /\ \E f \in DOMAIN frames : /\ Len(s) = Total(f) /\ DOMAIN s = 1..Total(f)
                                       /\ \A j \in 1..Total(f) : s[j] = <<f, j>>
<1>1. PICK f \in DOMAIN frames : s = Cells(f, frames[f].size)
  BY DEF IsFrame
<1>2. f \in Nat /\ frames[f].size \in Nat /\ frames[f].size <= MaxPayload
  BY FrameFacts
<1>3. s \in Seq(Cell) /\ Len(s) = Total(f)
  BY <1>1, <1>2, CellsType DEF Total
<1>4. DOMAIN s = 1..Total(f) /\ \A j \in 1..Total(f) : s[j] = <<f, j>>
  BY <1>1, <1>2, CellsType DEF Total
<1>. QED
  BY <1>2, <1>3, <1>4, BaseFacts DEF Total, WriterSize, HeaderSize

LEMMA PackIntoWire ==
    ASSUME WireInv, NEW w \in Writers, NEW m \in [tag : Tags, size : Nat, id : Nat],
           PackInto(w, m)
    PROVE  WireInv'
<1>. USE DEF WireInv
<1>1. m \in Frame
  BY BaseFacts DEF PackInto, Frame
<1>2. /\ frames \in Seq(Frame) /\ frames' \in Seq(Frame) /\ Len(frames') = Len(frames) + 1
      /\ DOMAIN frames = 1..Len(frames) /\ DOMAIN frames' = 1..(Len(frames) + 1)
      /\ Len(frames) \in Nat /\ frames'[Len(frames) + 1] = m
      /\ \A f \in DOMAIN frames : f \in DOMAIN frames' /\ frames'[f] = frames[f]
  <2>1. frames \in Seq(Frame) /\ frames' = Append(frames, m)
    BY DEF FramingTypeOK, PackInto
  <2>. QED
    BY <2>1, <1>1
<1>3. \A s : IsFrame(s, frames) => IsFrame(s, frames')
  BY <1>2 DEF IsFrame
<1>4. UNCHANGED <<link, grams, in, pos, lim, want, tag, pkt, count, split>>
  BY DEF PackInto, reader
<1>5. pending' = [pending EXCEPT ![w] = Cells(Len(frames) + 1, m.size)]
  BY DEF PackInto
<1>6. Cells(Len(frames) + 1, m.size) \in Seq(Cell)
  BY <1>2, CellsType
<1>7. FramingTypeOK'
  <2>1. pending' \in [Writers -> Seq(Cell)]
    BY <1>5, <1>6 DEF FramingTypeOK
  <2>2. Len(frames') <= MaxFrames
    BY <1>2, Buffers DEF PackInto
  <2>. QED
    BY <1>2, <1>4, <2>1, <2>2 DEF FramingTypeOK
<1>8. Sent'
  <2>1. \A v \in Writers : pending'[v] = <<>> \/ IsFrame(pending'[v], frames')
    <3>1. IsFrame(Cells(Len(frames) + 1, m.size), frames')
      BY <1>2 DEF IsFrame
    <3>. QED
      BY <1>3, <1>5, <3>1 DEF Sent, FramingTypeOK
  <2>2. link' = "tcp" => WholeFrames(in)'
    <3>1. ASSUME NEW i \in DOMAIN in, in[i][1] \in DOMAIN frames
          PROVE  in[i][1] \in DOMAIN frames' /\ Total(in[i][1])' = Total(in[i][1])
      BY <1>2, <1>4, <3>1 DEF Total
    <3>. QED
      BY SMTT(60), <1>4, <3>1 DEF Sent, WholeFrames
  <2>. QED
    BY <1>3, <1>4, <2>1, <2>2 DEF Sent
<1>9. BodyAhead'
  BY <1>2, <1>4 DEF BodyAhead
<1>10. InStep'
  BY <1>2, <1>4 DEF InStep
<1>11. NeverForged'
  BY <1>2, <1>4 DEF NeverForged, Packet
<1>. QED
  BY <1>7, <1>8, <1>9, <1>10, <1>11

LEMMA Elements == ASSUME NEW S, NEW s \in Seq(S) PROVE \A i \in 1..Len(s) : s[i] \in S
OBVIOUS

LEMMA Joined ==
    ASSUME NEW S, NEW a \in Seq(S), NEW b \in Seq(S)
    PROVE  /\ a \o b \in Seq(S) /\ DOMAIN (a \o b) = 1..(Len(a) + Len(b))
           /\ Len(a \o b) = Len(a) + Len(b)
           /\ \A i \in 1..Len(a) : (a \o b)[i] = a[i]
           /\ \A i \in (Len(a) + 1)..(Len(a) + Len(b)) : (a \o b)[i] = b[i - Len(a)]
OBVIOUS

LEMMA WholeAppend ==
    ASSUME FramingTypeOK, WholeFrames(in), NEW s, IsFrame(s, frames)
    PROVE  WholeFrames(in \o s)
<1>. DEFINE n == Len(in)
            r == in \o s
<1>1. PICK f \in DOMAIN frames : /\ Len(s) = Total(f) /\ DOMAIN s = 1..Total(f)
                                /\ \A j \in 1..Total(f) : s[j] = <<f, j>>
  BY FrameCells
<1>2. in \in Seq(Cell) /\ s \in Seq(Cell) /\ n \in Nat /\ Total(f) \in Nat /\ DOMAIN in = 1..n
  BY FrameCells, FrameFacts DEF FramingTypeOK, Total, HeaderSize
<1>3. /\ DOMAIN r = 1..(n + Total(f)) /\ Len(r) = n + Total(f)
      /\ \A i \in 1..n : r[i] = in[i]
      /\ \A i \in (n + 1)..(n + Total(f)) : r[i] = s[i - n]
  <2>1. in \in Seq(Cell) /\ s \in Seq(Cell)
    BY <1>2
  <2>2. /\ DOMAIN (in \o s) = 1..(Len(in) + Len(s)) /\ Len(in \o s) = Len(in) + Len(s)
        /\ \A i \in 1..Len(in) : (in \o s)[i] = in[i]
        /\ \A i \in (Len(in) + 1)..(Len(in) + Len(s)) : (in \o s)[i] = s[i - Len(in)]
    BY <2>1, Joined
  <2>. QED
    BY <1>1, <2>2
<1>4. \A j \in 1..Total(f) : n + j \in DOMAIN r /\ r[n + j] = <<f, j>>
  BY <1>1, <1>2, <1>3
<1>. HIDE DEF n, r
<1>5. ASSUME NEW i \in 1..n
      PROVE  /\ r[i][1] \in DOMAIN frames /\ r[i][2] \in 1..Total(r[i][1])
             /\ \A j \in 1..Total(r[i][1]) : (i - r[i][2]) + j \in DOMAIN r
                                             /\ r[(i - r[i][2]) + j] = <<r[i][1], j>>
             /\ r[i][2] = Total(r[i][1]) /\ i < Len(r) => r[i + 1][2] = 1
  <2>1. /\ in[i][1] \in DOMAIN frames /\ in[i][2] \in 1..Total(in[i][1])
        /\ \A j \in 1..Total(in[i][1]) :
              (i - in[i][2]) + j \in DOMAIN in /\ in[(i - in[i][2]) + j] = <<in[i][1], j>>
        /\ in[i][2] = Total(in[i][1]) /\ i < n => in[i + 1][2] = 1
    BY <1>2, WholeAt DEF n
  <2>2. r[i] = in[i]
    BY <1>3
  <2>3. \A x \in 1..n : x \in DOMAIN r /\ r[x] = in[x]
    BY <1>2, <1>3
  <2>4. CASE i < n
    <3>1. r[i + 1] = in[i + 1]
      BY <2>4, <1>2, <2>3
    <3>. QED
      BY <1>2, <2>1, <2>2, <2>3, <2>4, <3>1
  <2>5. CASE i = n
    <3>1. 1 \in 1..Total(f)
      BY <1>1, FrameFacts DEF Total, HeaderSize
    <3>2. r[i + 1] = <<f, 1>>
      BY <2>5, <3>1, <1>4
    <3>. QED
      BY <1>2, <2>1, <2>2, <2>3, <3>2
  <2>6. i < n \/ i = n
    BY <1>2
  <2>. QED
    BY <2>4, <2>5, <2>6, Zenon
<1>6. ASSUME NEW i \in (n + 1)..(n + Total(f))
      PROVE  /\ r[i][1] \in DOMAIN frames /\ r[i][2] \in 1..Total(r[i][1])
             /\ \A j \in 1..Total(r[i][1]) : (i - r[i][2]) + j \in DOMAIN r
                                             /\ r[(i - r[i][2]) + j] = <<r[i][1], j>>
             /\ r[i][2] = Total(r[i][1]) /\ i < Len(r) => r[i + 1][2] = 1
  <2>1. i - n \in 1..Total(f) /\ n + (i - n) = i
    BY <1>2
  <2>2. r[i] = <<f, i - n>>
    BY <1>4, <2>1
  <2>3. i - (i - n) = n
    BY <1>2
  <2>4. r[i][1] = f /\ r[i][2] = i - n
    BY <2>2
  <2>5. \A j \in 1..Total(f) : (i - (i - n)) + j \in DOMAIN r
                                 /\ r[(i - (i - n)) + j] = <<f, j>>
    BY <1>4, <2>3
  <2>6. ~(r[i][2] = Total(f) /\ i < Len(r))
    BY <1>2, <1>3, <2>4
  <2>7. \A j \in 1..Total(f) : (i - r[i][2]) + j \in DOMAIN r
                                 /\ r[(i - r[i][2]) + j] = <<f, j>>
    BY <2>4, <2>5
  <2>8. f \in DOMAIN frames /\ r[i][2] \in 1..Total(f)
    BY <1>1, <2>1, <2>4
  <2>9. Total(r[i][1]) = Total(f)
    BY <2>4
  <2>10. r[i][1] \in DOMAIN frames /\ r[i][2] \in 1..Total(r[i][1])
    BY <2>4, <2>8, <2>9
  <2>11. \A j \in 1..Total(r[i][1]) : (i - r[i][2]) + j \in DOMAIN r
                                        /\ r[(i - r[i][2]) + j] = <<r[i][1], j>>
    BY <2>4, <2>7, <2>9
  <2>12. ~(r[i][2] = Total(r[i][1]) /\ i < Len(r))
    BY <2>6, <2>9
  <2>. QED
    BY <2>10, <2>11, <2>12, Zenon
<1>7. \A i \in DOMAIN r : i \in 1..n \/ i \in (n + 1)..(n + Total(f))
  BY <1>2, <1>3
<1>8. WholeFrames(r)
  BY <1>5, <1>6, <1>7 DEF WholeFrames
<1>. QED
  BY <1>8 DEF r
LEMMA WriteWire ==
    ASSUME WireInv, NEW w \in Writers, Write(w)
    PROVE  WireInv'
<1>. USE DEF WireInv
<1>1. pending[w] # <<>> /\ IsFrame(pending[w], frames)
  BY DEF Sent, Write
<1>2. /\ pending[w] \in Seq(Cell) /\ Len(pending[w]) \in Nat
      /\ Len(pending[w]) <= WriterSize
  BY <1>1, FrameCells
<1>3. Least(WriterSize, Len(pending[w])) = Len(pending[w])
  BY <1>2, BaseFacts DEF Least, WriterSize, HeaderSize
<1>4. SubSeq(pending[w], 1, Len(pending[w])) = pending[w]
  BY <1>2
<1>5. SubSeq(pending[w], Len(pending[w]) + 1, Len(pending[w])) = <<>>
  BY <1>2
<1>6. /\ pending' = [pending EXCEPT ![w] = <<>>]
      /\ link = "tcp" => in' = in \o pending[w] /\ grams' = grams
      /\ link = "udp" => grams' = grams \cup {pending[w]} /\ in' = in
      /\ UNCHANGED <<link, frames, pos, lim, want, tag, pkt, count, split>>
  BY <1>3, <1>4, <1>5 DEF Write, reader, FramingTypeOK
<1>7. in' \in Seq(Cell) /\ Len(in') \in Nat /\ Len(in) \in Nat /\ Len(in) <= Len(in')
      /\ \A i \in 1..Len(in) : in'[i] = in[i]
  <2>1. in \in Seq(Cell)
    BY DEF FramingTypeOK
  <2>2. CASE link = "tcp"
    <3>1. in' = in \o pending[w]
      BY <1>6, <2>2
    <3>. QED
      BY <1>2, <2>1, <3>1, Joined
  <2>3. CASE link = "udp"
    BY <1>6, <2>1, <2>3
  <2>. QED
    BY <2>2, <2>3 DEF FramingTypeOK
<1>8. FramingTypeOK'
  <2>1. pending' \in [Writers -> Seq(Cell)]
    BY <1>6 DEF FramingTypeOK
  <2>2. grams' \subseteq Seq(Cell)
    BY <1>2, <1>6 DEF FramingTypeOK
  <2>3. lim' \in 0..Len(in')
    BY <1>6, <1>7 DEF FramingTypeOK
  <2>. QED
    BY <1>6, <1>7, <2>1, <2>2, <2>3 DEF FramingTypeOK
<1>9. Sent'
  <2>1. \A v \in Writers : pending'[v] = <<>> \/ IsFrame(pending'[v], frames)
    BY <1>6 DEF Sent, FramingTypeOK
  <2>2. \A d \in grams' : IsFrame(d, frames)
    BY <1>1, <1>6 DEF Sent, FramingTypeOK
  <2>3. link = "udp" => in' = <<>> \/ in' = Stray \/ IsFrame(in', frames)
    BY <1>6 DEF Sent
  <2>4. ASSUME link = "tcp" PROVE WholeFrames(in')
    BY <1>1, <1>6, <2>4, WholeAppend DEF Sent
  <2>5. WholeFrames(in') = WholeFrames(in)'
    BY <1>6 DEF WholeFrames, Total
  <2>. QED
    BY <1>6, <2>1, <2>2, <2>3, <2>4, <2>5 DEF Sent, IsFrame
<1>10. BodyAhead'
  <2>1. SUFFICES ASSUME want > 0, tag \in Tags
                 PROVE  \E f \in DOMAIN frames :
                           /\ tag = frames[f].tag /\ want = frames[f].size
                           /\ pos + want <= Len(in')
                           /\ \A k \in 1..want : in'[pos + k] = <<f, HeaderSize + k>>
    BY <1>6 DEF BodyAhead
  <2>2. PICK f \in DOMAIN frames :
           /\ tag = frames[f].tag /\ want = frames[f].size /\ pos + want <= Len(in)
           /\ \A k \in 1..want : in[pos + k] = <<f, HeaderSize + k>>
    BY <2>1 DEF BodyAhead
  <2>3. pos \in Nat /\ want \in Nat
    BY BaseFacts DEF FramingTypeOK
  <2>4. \A k \in 1..want : pos + k \in 1..Len(in)
    BY <2>2, <2>3, <1>7
  <2>5. \A k \in 1..want : in'[pos + k] = <<f, HeaderSize + k>>
    BY <2>2, <2>4, <1>7
  <2>6. pos + want <= Len(in')
    BY <2>2, <2>3, <1>7
  <2>. QED
    BY <2>2, <2>5, <2>6, Zenon
<1>11. InStep'
  BY <1>6 DEF InStep
<1>12. NeverForged'
  BY <1>6 DEF NeverForged, Packet
<1>. QED
  BY <1>8, <1>9, <1>10, <1>11, <1>12

(* ------------------------------- reading ------------------------------- *)

LEMMA ReadStreamWire ==
    ASSUME WireInv, NEW n \in Nat, ReadStream(n)
    PROVE  WireInv'
<1>. USE DEF WireInv
<1>1. /\ link = "tcp" /\ lim' = lim + n /\ lim + n <= Len(in)
      /\ UNCHANGED <<link, frames, pending, grams, in, pos, want, tag, pkt, count>>
  BY DEF ReadStream, sender
<1>2. split' \in BOOLEAN
  BY DEF ReadStream, FramingTypeOK
<1>3. lim \in Nat /\ pos \in 0..lim /\ Len(in) \in Nat
  <2>1. in \in Seq(Cell)
    BY DEF FramingTypeOK
  <2>2. Len(in) \in Nat
    BY <2>1
  <2>. QED
    BY <2>2 DEF FramingTypeOK
<1>4. lim' \in 0..Len(in') /\ pos' \in 0..lim'
  BY <1>1, <1>3
<1>5. FramingTypeOK'
  BY <1>1, <1>2, <1>4 DEF FramingTypeOK
<1>6. Sent'
  BY <1>1 DEF Sent, WholeFrames, Total, IsFrame
<1>7. BodyAhead'
  BY <1>1 DEF BodyAhead
<1>8. InStep'
  BY <1>1 DEF InStep
<1>9. NeverForged'
  BY <1>1 DEF NeverForged, Packet
<1>. QED
  BY <1>5, <1>6, <1>7, <1>8, <1>9

LEMMA ReadDatagramWire ==
    ASSUME WireInv, NEW d \in grams \cup {Stray}, ReadDatagram(d)
    PROVE  WireInv'
<1>. USE DEF WireInv
<1>1. /\ link = "udp" /\ pos = lim /\ in' = d /\ pos' = 0 /\ lim' = Least(Room, Len(d))
      /\ UNCHANGED <<link, frames, pending, grams, want, tag, pkt, count, split>>
  BY DEF ReadDatagram, sender
<1>2. want = 0
  BY <1>1 DEF InStep, FramingTypeOK
<1>3. lim' = Least(BufSize, Len(d))
  BY <1>1, <1>2, BaseFacts DEF Room, HeaderSize
<1>4. d \in Seq(Cell) /\ Len(d) \in Nat
  <2>1. Stray \in Seq(Cell)
    BY DEF Stray, Cell
  <2>. QED
    BY <2>1 DEF FramingTypeOK
<1>5. lim' \in 0..Len(in') /\ pos' \in 0..lim'
  BY <1>1, <1>3, <1>4, BaseFacts DEF Least
<1>6. FramingTypeOK'
  BY <1>1, <1>4, <1>5 DEF FramingTypeOK
<1>7. Sent'
  BY <1>1 DEF Sent, IsFrame
<1>8. BodyAhead'
  BY <1>1, <1>2 DEF BodyAhead
<1>9. InStep'
  BY <1>1, <1>2, <1>3 DEF InStep
<1>10. NeverForged'
  BY <1>1 DEF NeverForged, Packet
<1>. QED
  BY <1>6, <1>7, <1>8, <1>9, <1>10
LEMMA StreamCell ==
    ASSUME FramingTypeOK, WholeFrames(in), NEW i \in DOMAIN in
    PROVE  /\ in[i] = <<in[i][1], in[i][2]>> /\ in[i][1] \in DOMAIN frames
           /\ in[i][2] \in Nat \ {0}
<1>1. in \in Seq(Cell)
  BY DEF FramingTypeOK
<1>2. in[i] \in Cell
  BY <1>1
<1>3. in[i] = <<in[i][1], in[i][2]>> /\ in[i][2] \in Nat
  BY <1>2, CellPair
<1>4. in[i][1] \in DOMAIN frames /\ in[i][2] \in 1..Total(in[i][1])
  BY WholeAt
<1>5. Total(in[i][1]) \in Nat
  BY <1>4, FrameFacts DEF Total, HeaderSize
<1>6. in[i][2] # 0
  BY <1>4, <1>5
<1>. QED
  BY <1>3, <1>4, <1>6

(* A header of a hole is the first one of a datagram.                      *)
LEMMA HoleHeader ==
    ASSUME WireInv, link = "udp", want = 0, pos < lim, lim - pos >= HeaderSize
    PROVE  /\ pos = 0
           /\ \E f \in DOMAIN frames : in = Cells(f, frames[f].size)
<1>. USE DEF WireInv
<1>1. in \in Seq(Cell) /\ lim \in 0..Len(in) /\ pos \in 0..lim
  BY DEF FramingTypeOK
<1>2. Len(in) \in Nat
  BY <1>1
<1>3. pos = 0
  BY <1>1, <1>2 DEF InStep
<1>4. lim >= HeaderSize /\ Len(in) >= HeaderSize
  BY <1>1, <1>2, <1>3 DEF HeaderSize
<1>5. in # <<>> /\ in # Stray
  BY <1>4 DEF Stray, HeaderSize
<1>6. IsFrame(in, frames)
  BY <1>5 DEF Sent
<1>. QED
  BY <1>3, <1>6 DEF IsFrame

LEMMA HeaderAt ==
    ASSUME WireInv, want = 0, pos < lim, lim - pos >= HeaderSize,
           NEW t \in Word(in[pos + 1], in[pos + 2]), NEW n \in Word(in[pos + 3], in[pos + 4])
    PROVE  /\ t \in Nat /\ n \in Nat
           /\ t \in Tags /\ n <= MaxPayload =>
                \E f \in DOMAIN frames :
                   /\ t = frames[f].tag /\ n = frames[f].size
                   /\ pos + Total(f) <= Len(in)
                   /\ \A j \in 1..Total(f) : in[pos + j] = <<f, j>>
           /\ link = "udp" =>
                \E f \in DOMAIN frames :
                   /\ in = Cells(f, frames[f].size)
                   /\ t = frames[f].tag /\ n = frames[f].size
<1>. USE DEF WireInv
<1>1. in \in Seq(Cell) /\ lim \in 0..Len(in) /\ pos \in 0..lim
  BY DEF FramingTypeOK
<1>2. Len(in) \in Nat /\ DOMAIN in = 1..Len(in)
  BY <1>1
<1>3. pos \in Nat /\ pos + HeaderSize <= Len(in)
  BY <1>1, <1>2 DEF HeaderSize
<1>4. CASE link = "tcp"
  <2>1. WholeFrames(in)
    BY <1>4 DEF Sent
  <2>2. \A i \in 1..4 : pos + i \in DOMAIN in
    BY <1>2, <1>3 DEF HeaderSize
  <2>3. \A i \in 1..4 : /\ in[pos + i] = <<in[pos + i][1], in[pos + i][2]>>
                         /\ in[pos + i][1] \in DOMAIN frames
                         /\ in[pos + i][2] \in Nat \ {0}
    BY <2>1, <2>2, StreamCell
  <2>4. \A i \in 1..4 : \A v \in Values(in[pos + i]) : v \in Nat
    BY <2>3, ValuesType
  <2>5. t \in Nat /\ n \in Nat
    BY <2>4, BaseFacts DEF Word
  <2>6. ASSUME t \in Tags, n <= MaxPayload
        PROVE  \E f \in DOMAIN frames :
                  /\ t = frames[f].tag /\ n = frames[f].size
                  /\ pos + Total(f) <= Len(in)
                  /\ \A j \in 1..Total(f) : in[pos + j] = <<f, j>>
    <3>1. PICK f \in DOMAIN frames :
             /\ t = frames[f].tag /\ n = frames[f].size
             /\ \A j \in 1..Total(f) : pos + j \in DOMAIN in /\ in[pos + j] = <<f, j>>
      BY <1>3, <1>4, <2>1, <2>6, NoFalseHeader
    <3>2. Total(f) \in Nat /\ Total(f) \in 1..Total(f)
      BY FrameFacts DEF Total, HeaderSize
    <3>3. pos + Total(f) \in 1..Len(in)
      BY <3>1, <3>2, <1>2
    <3>. QED
      BY <3>1, <3>3
  <2>. QED
    BY <1>4, <2>5, <2>6
<1>5. CASE link = "udp"
  <2>1. pos = 0
    BY <1>5, HoleHeader
  <2>2. PICK f \in DOMAIN frames : in = Cells(f, frames[f].size)
    BY <1>5, HoleHeader
  <2>3. f \in Nat /\ frames[f].size \in Nat /\ frames[f].tag \in Nat
    BY FrameFacts
  <2>4. Len(in) = Total(f) /\ \A j \in 1..Total(f) : in[j] = <<f, j>>
    BY <2>2, <2>3, CellsType DEF Total
  <2>5. Total(f) \in Nat /\ Total(f) >= 4
    BY <2>3 DEF Total, HeaderSize
  <2>6. in[1] = <<f, 1>> /\ in[2] = <<f, 2>> /\ in[3] = <<f, 3>> /\ in[4] = <<f, 4>>
    BY <2>4, <2>5
  <2>7. t = frames[f].tag /\ n = frames[f].size
    <3>1. t \in Word(in[1], in[2]) /\ n \in Word(in[3], in[4])
      BY <2>1
    <3>. QED
      BY <3>1, <2>6, HeaderReads
  <2>8. pos + Total(f) <= Len(in) /\ \A j \in 1..Total(f) : in[pos + j] = <<f, j>>
    BY <2>1, <2>4, <2>5
  <2>. QED
    BY <2>2, <2>3, <2>7, <2>8
<1>. QED
  BY <1>4, <1>5 DEF FramingTypeOK
LEMMA BodyIs ==
    ASSUME FramingTypeOK, NEW f \in DOMAIN frames, NEW p \in Nat,
           p + frames[f].size <= Len(in),
           \A k \in 1..frames[f].size : in[p + k] = <<f, HeaderSize + k>>
    PROVE  [tag |-> frames[f].tag, body |-> SubSeq(in, p + 1, p + frames[f].size)] = Packet(f)
<1>1. in \in Seq(Cell) /\ frames[f].size \in Nat
  BY FrameFacts DEF FramingTypeOK
<1>. DEFINE n == frames[f].size
<1>2. n \in Nat /\ p + n <= Len(in) /\ \A k \in 1..n : in[p + k] = <<f, HeaderSize + k>>
  BY <1>1
<1>. HIDE DEF n
<1>3. SubSeq(in, p + 1, p + n) = [i \in 1..n |-> in[p + i]]
  BY <1>1, <1>2
<1>4. SubSeq(in, p + 1, p + n) = [i \in 1..n |-> <<f, HeaderSize + i>>]
  BY <1>2, <1>3
<1>. QED
  BY <1>4 DEF Packet, n

LEMMA EmptyPacket ==
    ASSUME FramingTypeOK, NEW f \in DOMAIN frames, frames[f].size = 0
    PROVE  [tag |-> frames[f].tag, body |-> <<>>] = Packet(f)
<1>1. [i \in 1..0 |-> <<f, HeaderSize + i>>] = <<>>
  OBVIOUS
<1>. QED
  BY <1>1 DEF Packet

LEMMA MalformedIsNone == Malformed.tag \in Nat /\ Malformed.tag \notin Tags /\ Malformed.body \in Seq(Cell)
BY TagFacts DEF Malformed

(* A step of UnpackFrom keeps the types.                                   *)
LEMMA ReaderType ==
    ASSUME FramingTypeOK, UNCHANGED <<link, frames, pending, grams, in, lim, split>>,
           pos' \in 0..lim', want' \in 0..MaxPayload, tag' \in Nat, count' \in Nat,
           pkt'.tag \in Nat, pkt'.body \in Seq(Cell)
    PROVE  FramingTypeOK'
BY DEF FramingTypeOK

LEMMA UnpackHeaderWire ==
    ASSUME WireInv, UnpackHeader
    PROVE  WireInv'
<1>. USE DEF WireInv
<1>1. /\ want = 0 /\ pos < lim /\ pos' = pos + Least(HeaderSize, lim - pos)
      /\ UNCHANGED <<link, frames, pending, grams, in, lim, split>>
  BY DEF UnpackHeader, sender
<1>2. /\ lim \in Nat /\ pos \in Nat /\ pos <= lim /\ lim <= Len(in)
      /\ Len(in) \in Nat /\ in \in Seq(Cell)
  <2>1. in \in Seq(Cell) /\ lim \in 0..Len(in) /\ pos \in 0..lim
    BY DEF FramingTypeOK
  <2>. QED
    BY <2>1
<1>3. pos' \in 0..lim'
  BY <1>1, <1>2 DEF Least, HeaderSize
<1>4. Sent'
  BY <1>1 DEF Sent, WholeFrames, Total, IsFrame
<1>5. count \in Nat
  BY DEF FramingTypeOK
<1>6. CASE lim - pos < HeaderSize
  <2>1. /\ pkt' = Malformed /\ want' = 0 /\ tag' = tag /\ count' \in Nat
    BY <1>5, <1>6 DEF UnpackHeader, Return
  <2>2. pos' = lim
    BY <1>1, <1>2, <1>6 DEF Least, HeaderSize
  <2>3. FramingTypeOK'
    <3>1. want' \in 0..MaxPayload /\ tag' \in Nat /\ pkt'.tag \in Nat /\ pkt'.body \in Seq(Cell)
      BY <2>1, MalformedIsNone, BaseFacts DEF FramingTypeOK
    <3>. QED
      BY <1>1, <1>3, <2>1, <3>1, ReaderType
  <2>4. BodyAhead'
    BY <2>1 DEF BodyAhead
  <2>5. InStep'
    BY <1>1, <1>2, <2>1, <2>2 DEF InStep
  <2>6. NeverForged'
    BY <2>1, MalformedIsNone DEF NeverForged
  <2>. QED
    BY <1>4, <2>3, <2>4, <2>5, <2>6
<1>7. CASE lim - pos >= HeaderSize
  <2>1. pos' = pos + HeaderSize
    BY <1>1, <1>2, <1>7 DEF Least, HeaderSize
  <2>2. PICK t \in Word(in[pos + 1], in[pos + 2]), n \in Word(in[pos + 3], in[pos + 4]) :
           CASE n = 0 -> Return([tag |-> t, body |-> <<>>]) /\ UNCHANGED tag
             [] n > MaxPayload -> Return(Malformed) /\ UNCHANGED tag
             [] OTHER -> want' = n /\ tag' = t /\ UNCHANGED <<pkt, count>>
    <3>1. ~(lim - pos < HeaderSize)
      BY <1>2, <1>7 DEF HeaderSize
    <3>. QED
      BY <3>1 DEF UnpackHeader
  <2>3. /\ t \in Nat /\ n \in Nat
        /\ t \in Tags /\ n <= MaxPayload =>
             \E f \in DOMAIN frames :
                /\ t = frames[f].tag /\ n = frames[f].size
                /\ pos + Total(f) <= Len(in)
                /\ \A j \in 1..Total(f) : in[pos + j] = <<f, j>>
        /\ link = "udp" => \E f \in DOMAIN frames :
                              /\ in = Cells(f, frames[f].size)
                              /\ t = frames[f].tag /\ n = frames[f].size
    BY <1>1, <1>7, HeaderAt
  <2>. n \in Nat
    BY <2>3
  <2>4. CASE n = 0
    <3>1. /\ pkt' = [tag |-> t, body |-> <<>>] /\ want' = 0 /\ tag' = tag /\ count' \in Nat
      <4>1. ~(n > MaxPayload)
        BY <2>4, BaseFacts
      <4>2. Return([tag |-> t, body |-> <<>>]) /\ tag' = tag
        BY <2>2, <2>4, <4>1
      <4>. QED
        BY <1>5, <4>2 DEF Return
    <3>2. FramingTypeOK'
      <4>1. want' \in 0..MaxPayload /\ tag' \in Nat
        BY <3>1, BaseFacts DEF FramingTypeOK
      <4>2. pkt'.tag \in Nat /\ pkt'.body \in Seq(Cell)
        BY <2>3, <3>1
      <4>. QED
        BY <1>1, <1>3, <3>1, <4>1, <4>2, ReaderType
    <3>3. BodyAhead'
      BY <3>1 DEF BodyAhead
    <3>4. ASSUME link = "udp" PROVE pos' = lim
      <4>1. PICK f \in DOMAIN frames : in = Cells(f, frames[f].size) /\ frames[f].size = 0
        BY <2>3, <2>4, <3>4
      <4>2. Len(in) = HeaderSize
        <5>1. Len(in) = HeaderSize + 0
          BY <4>1, FrameFacts, CellsType
        <5>. QED
          BY <5>1 DEF HeaderSize
      <4>. QED
        BY <1>2, <1>7, <2>1, <4>2 DEF HeaderSize
    <3>5. InStep'
      BY <1>1, <3>1, <3>4 DEF InStep
    <3>6. NeverForged'
      <4>1. ASSUME t \in Tags PROVE \E f \in DOMAIN frames : pkt' = Packet(f)
        <5>1. PICK f \in DOMAIN frames : t = frames[f].tag /\ frames[f].size = 0
          BY <2>3, <2>4, <4>1, BaseFacts
        <5>. QED
          BY <3>1, <5>1, EmptyPacket
      <4>2. pkt'.tag = t
        BY <3>1
      <4>. QED
        BY <1>1, <4>1, <4>2 DEF NeverForged, Packet
    <3>. QED
      BY <1>4, <3>2, <3>3, <3>5, <3>6
  <2>5. CASE n > MaxPayload
    <3>1. n # 0
      BY <2>3, <2>5, BaseFacts
    <3>2. /\ pkt' = Malformed /\ want' = 0 /\ tag' = tag /\ count' \in Nat
      BY <1>5, <2>2, <2>5, <3>1 DEF Return
    <3>3. FramingTypeOK'
      <4>1. want' \in 0..MaxPayload /\ tag' \in Nat /\ pkt'.tag \in Nat /\ pkt'.body \in Seq(Cell)
        BY <3>2, MalformedIsNone, BaseFacts DEF FramingTypeOK
      <4>. QED
        BY <1>1, <1>3, <3>2, <4>1, ReaderType
    <3>4. BodyAhead'
      BY <3>2 DEF BodyAhead
    <3>5. InStep'
      <4>1. ASSUME link = "udp" PROVE FALSE
        <5>1. PICK f \in DOMAIN frames : n = frames[f].size
          BY <2>3, <4>1
        <5>. QED
          BY <2>5, <5>1, FrameFacts, BaseFacts
      <4>. QED
        BY <1>1, <4>1 DEF InStep
    <3>6. NeverForged'
      BY <3>2, MalformedIsNone DEF NeverForged
    <3>. QED
      BY <1>4, <3>3, <3>4, <3>5, <3>6
  <2>6. CASE n > 0 /\ n <= MaxPayload
    <3>1. want' = n /\ tag' = t /\ pkt' = pkt /\ count' = count
      <4>1. n # 0 /\ ~(n > MaxPayload)
        BY <2>3, <2>6, BaseFacts
      <4>. QED
        BY <2>2, <4>1
    <3>2. FramingTypeOK'
      <4>1. want' \in 0..MaxPayload /\ tag' \in Nat
        BY <2>3, <2>6, <3>1, BaseFacts
      <4>2. pkt'.tag \in Nat /\ pkt'.body \in Seq(Cell) /\ count' \in Nat
        BY <3>1 DEF FramingTypeOK
      <4>. QED
        BY <1>1, <1>3, <4>1, <4>2, ReaderType
    <3>3. BodyAhead'
      <4>1. ASSUME t \in Tags
            PROVE  \E f \in DOMAIN frames :
                      /\ t = frames[f].tag /\ n = frames[f].size
                      /\ (pos + HeaderSize) + n <= Len(in)
                      /\ \A k \in 1..n : in[(pos + HeaderSize) + k] = <<f, HeaderSize + k>>
        <5>1. PICK f \in DOMAIN frames :
                 /\ t = frames[f].tag /\ n = frames[f].size
                 /\ pos + Total(f) <= Len(in)
                 /\ \A j \in 1..Total(f) : in[pos + j] = <<f, j>>
          BY <2>3, <2>6, <4>1
        <5>2. Total(f) = HeaderSize + n
          BY <5>1 DEF Total
        <5>3. \A k \in 1..n : /\ HeaderSize + k \in 1..Total(f)
                              /\ (pos + HeaderSize) + k = pos + (HeaderSize + k)
          BY <1>2, <5>2 DEF HeaderSize
        <5>4. (pos + HeaderSize) + n <= Len(in)
          <6>1. pos + (HeaderSize + n) <= Len(in)
            BY <5>1, <5>2
          <6>. QED
            BY SMTT(60), <1>2, <2>3, <6>1 DEF HeaderSize
        <5>. QED
          BY <5>1, <5>3, <5>4
      <4>. QED
        BY SMTT(60), <1>1, <2>1, <3>1, <4>1 DEF BodyAhead
    <3>4. InStep'
      <4>1. SUFFICES ASSUME link = "udp" PROVE InStep'
        BY <1>1 DEF InStep
      <4>2. PICK f \in DOMAIN frames : /\ in = Cells(f, frames[f].size)
                                       /\ t = frames[f].tag /\ n = frames[f].size
        BY <2>3, <4>1
      <4>3. pos = 0
        BY <1>1, <1>7, <4>1, HoleHeader
      <4>4. lim = Least(BufSize, Len(in))
        BY <1>1, <4>1 DEF InStep
      <4>5. Len(in) = HeaderSize + n
        BY <4>2, FrameFacts, CellsType
      <4>6. pos' = HeaderSize /\ pos' < lim
        BY <2>1, <2>3, <2>6, <4>3, <4>4, <4>5, BaseFacts DEF Least, HeaderSize
      <4>. QED
        BY <1>1, <2>6, <3>1, <4>2, <4>4, <4>6 DEF InStep
    <3>5. NeverForged'
      BY <1>1, <3>1 DEF NeverForged, Packet
    <3>. QED
      BY <1>4, <3>2, <3>3, <3>4, <3>5
  <2>7. n = 0 \/ n > MaxPayload \/ (n > 0 /\ n <= MaxPayload)
    BY <2>3, BaseFacts
  <2>. QED
    BY <2>4, <2>5, <2>6, <2>7, Zenon
<1>8. lim - pos < HeaderSize \/ lim - pos >= HeaderSize
  BY <1>2 DEF HeaderSize
<1>. QED
  BY <1>6, <1>7, <1>8, Zenon

LEMMA UnpackBodyWire ==
    ASSUME WireInv, UnpackBody
    PROVE  WireInv'
<1>. USE DEF WireInv
<1>. DEFINE n == Least(want, lim - pos)
<1>1. /\ want > 0 /\ pos < lim /\ pos' = pos + n /\ want' = 0
      /\ UNCHANGED <<link, frames, pending, grams, in, lim, tag, split>>
      /\ pkt' = IF n < want THEN Malformed
                ELSE [tag |-> tag, body |-> SubSeq(in, pos + 1, pos + n)]
  BY DEF UnpackBody, sender, Return
<1>2. /\ lim \in Nat /\ pos \in Nat /\ pos <= lim /\ lim <= Len(in)
      /\ Len(in) \in Nat /\ in \in Seq(Cell)
  <2>1. in \in Seq(Cell) /\ lim \in 0..Len(in) /\ pos \in 0..lim
    BY DEF FramingTypeOK
  <2>. QED
    BY <2>1
<1>3. want \in Nat /\ tag \in Nat /\ n \in Nat /\ n <= want /\ n <= lim - pos
  <2>1. want \in Nat /\ tag \in Nat
    BY BaseFacts DEF FramingTypeOK
  <2>. QED
    BY <2>1, <1>1, <1>2 DEF Least
<1>4. pos' \in 0..lim'
  BY <1>1, <1>2, <1>3
<1>5. count' \in Nat
  BY DEF UnpackBody, Return, FramingTypeOK
<1>6. pkt'.tag \in Nat /\ pkt'.body \in Seq(Cell)
  <2>1. SubSeq(in, pos + 1, pos + n) \in Seq(Cell)
    BY <1>2, <1>3
  <2>. HIDE DEF n
  <2>. QED
    BY <1>1, <1>3, <2>1, MalformedIsNone
<1>7. FramingTypeOK'
  BY <1>1, <1>4, <1>5, <1>6, BaseFacts DEF FramingTypeOK
<1>8. Sent'
  BY <1>1 DEF Sent, WholeFrames, Total, IsFrame
<1>9. BodyAhead'
  BY <1>1 DEF BodyAhead
<1>10. InStep'
  <2>1. SUFFICES ASSUME link = "udp" PROVE InStep'
    BY <1>1 DEF InStep
  <2>2. pos = HeaderSize /\ lim = Least(BufSize, Len(in))
    BY <1>1, <2>1 DEF InStep
  <2>3. PICK f \in DOMAIN frames : in = Cells(f, frames[f].size) /\ want = frames[f].size
    BY <1>1, <2>1 DEF InStep
  <2>4. Len(in) = HeaderSize + want
    BY <2>3, FrameFacts, CellsType
  <2>5. pos' = lim
    BY <1>1, <1>2, <1>3, <2>2, <2>4, BaseFacts DEF Least, HeaderSize
  <2>. QED
    BY <1>1, <2>2, <2>5 DEF InStep
<1>11. NeverForged'
  <2>1. SUFFICES ASSUME pkt'.tag \in Tags PROVE \E f \in DOMAIN frames : pkt' = Packet(f)
    BY <1>1 DEF NeverForged, Packet
  <2>. HIDE DEF n
  <2>2. ~(n < want)
    BY <1>1, <2>1, MalformedIsNone
  <2>3. pkt' = [tag |-> tag, body |-> SubSeq(in, pos + 1, pos + n)] /\ n = want
    BY <1>1, <1>3, <2>2
  <2>4. tag \in Tags
    BY <2>1, <2>3
  <2>5. PICK f \in DOMAIN frames :
           /\ tag = frames[f].tag /\ want = frames[f].size /\ pos + want <= Len(in)
           /\ \A k \in 1..want : in[pos + k] = <<f, HeaderSize + k>>
    BY <1>1, <2>4 DEF BodyAhead
  <2>. QED
    BY <1>2, <2>3, <2>5, BodyIs
<1>. QED
  BY <1>7, <1>8, <1>9, <1>10, <1>11
LEMMA WireStutters == ASSUME WireInv, UNCHANGED framing
                      PROVE  WireInv'
<1>1. UNCHANGED <<link, frames, pending, grams, in, pos, lim, want, tag, pkt, count, split>>
  BY DEF framing, sender, reader
<1>. QED
  BY <1>1 DEF WireInv, FramingTypeOK, Sent, WholeFrames, Total, IsFrame, BodyAhead,
              InStep, NeverForged, Packet

(* -------------------- a stream that is read unsplit -------------------- *)

Boundary(p) == p = 0 \/ EndsFrame(in[p])

FrameAt(f, p) == /\ f \in DOMAIN frames /\ p + Total(f) <= Len(in)
                 /\ \A j \in 1..Total(f) : in[p + j] = <<f, j>>

(* What the reader has in its buffer ends where a frame does, and so does  *)
(* the packet it returned last; as many were returned as begin before.     *)
StreamInv ==
    link = "tcp" /\ ~split =>
        /\ Boundary(lim) /\ Here \in Nat /\ Boundary(Here)
        /\ Cardinality(Begun(Here)) = count
        /\ Here > 0 => pkt = Packet(in[Here][1])
        /\ want > 0 => \E f \in DOMAIN frames : /\ in[pos] = <<f, HeaderSize>>
                                                /\ want = frames[f].size /\ tag = frames[f].tag

LEMMA StreamFacts ==
    ASSUME WireInv
    PROVE  /\ in \in Seq(Cell) /\ Len(in) \in Nat /\ DOMAIN in = 1..Len(in)
           /\ lim \in Nat /\ pos \in Nat /\ pos <= lim /\ lim <= Len(in)
           /\ want \in Nat /\ count \in Nat
           /\ link = "tcp" => WholeFrames(in)
<1>1. /\ in \in Seq(Cell) /\ lim \in 0..Len(in) /\ pos \in 0..lim /\ want \in 0..MaxPayload
      /\ count \in Nat
  BY DEF WireInv, FramingTypeOK
<1>2. Len(in) \in Nat /\ DOMAIN in = 1..Len(in)
  BY <1>1
<1>. QED
  BY <1>1, <1>2, BaseFacts DEF WireInv, Sent

(* At the end of a frame another one begins.                               *)
LEMMA NextFrame ==
    ASSUME WireInv, link = "tcp", NEW p \in Nat, p < Len(in), Boundary(p)
    PROVE  \E f : FrameAt(f, p)
<1>. DEFINE f == in[p + 1][1]
            k == in[p + 1][2]
<1>1. FramingTypeOK /\ WholeFrames(in) /\ Len(in) \in Nat /\ DOMAIN in = 1..Len(in)
  BY StreamFacts DEF WireInv
<1>2. p + 1 \in DOMAIN in
  BY <1>1
<1>3. /\ f \in DOMAIN frames /\ k \in 1..Total(f)
      /\ \A j \in 1..Total(f) : ((p + 1) - k) + j \in DOMAIN in
                                /\ in[((p + 1) - k) + j] = <<f, j>>
  BY <1>1, <1>2, WholeAt
<1>4. Total(f) \in Nat /\ Total(f) >= 4
  <2>. HIDE DEF f
  <2>1. frames[f].size \in Nat
    BY <1>1, <1>3, FrameFacts
  <2>. QED
    BY <2>1 DEF Total, HeaderSize
<1>5. k = 1
  <2>1. CASE p = 0
    <3>. HIDE DEF f, k
    <3>1. ((0 + 1) - k) + 1 \in DOMAIN in
      BY <1>3, <1>4, <2>1
    <3>. QED
      BY <1>1, <1>3, <1>4, <3>1
  <2>2. CASE p # 0
    <3>1. p \in DOMAIN in /\ EndsFrame(in[p])
      BY <1>1, <2>2 DEF Boundary
    <3>2. in[p][2] = Total(in[p][1])
      BY <3>1 DEF EndsFrame, Total
    <3>. QED
      BY <1>1, <3>1, <3>2, WholeAt
  <2>. QED
    BY <2>1, <2>2
<1>. HIDE DEF f, k
<1>6. \A j \in 1..Total(f) : p + j \in DOMAIN in /\ in[p + j] = <<f, j>>
  <2>1. \A j \in 1..Total(f) : ((p + 1) - k) + j = p + j
    BY <1>4, <1>5
  <2>. QED
    BY <1>3, <2>1
<1>7. p + Total(f) \in DOMAIN in
  BY <1>4, <1>6
<1>8. p + Total(f) <= Len(in)
  BY <1>1, <1>7
<1>9. FrameAt(f, p)
  BY <1>3, <1>6, <1>8 DEF FrameAt
<1>. QED
  BY <1>9

LEMMA FrameSizes ==
    ASSUME WireInv, NEW p \in Nat, NEW f, FrameAt(f, p)
    PROVE  /\ Total(f) \in Nat /\ Total(f) >= 4 /\ Total(f) = HeaderSize + frames[f].size
           /\ frames[f].size \in Nat /\ frames[f].size <= MaxPayload
           /\ in[p + 1] = <<f, 1>> /\ in[p + 2] = <<f, 2>>
           /\ in[p + 3] = <<f, 3>> /\ in[p + 4] = <<f, 4>>
           /\ in[p + Total(f)] = <<f, Total(f)>> /\ Boundary(p + Total(f))
<1>1. /\ Total(f) \in Nat /\ Total(f) >= 4 /\ frames[f].size \in Nat
      /\ frames[f].size <= MaxPayload
  BY FrameFacts DEF WireInv, FrameAt, Total, HeaderSize
<1>2. \A j \in {1, 2, 3, 4, Total(f)} : in[p + j] = <<f, j>>
  <2>1. \A j \in 1..Total(f) : in[p + j] = <<f, j>>
    BY DEF FrameAt
  <2>2. \A j \in {1, 2, 3, 4, Total(f)} : j \in 1..Total(f)
    BY <1>1
  <2>. QED
    BY <2>1, <2>2
<1>3. EndsFrame(in[p + Total(f)])
  BY <1>2 DEF EndsFrame, Total
<1>. QED
  BY <1>1, <1>2, <1>3 DEF Boundary, Total

(* The frame at the reader is in its buffer as a whole.                    *)
LEMMA WithinBuffer ==
    ASSUME WireInv, Boundary(lim), NEW p \in Nat, p < lim, NEW f, FrameAt(f, p)
    PROVE  p + Total(f) <= lim
<1>1. lim \in Nat /\ Total(f) \in Nat
  BY StreamFacts, FrameSizes
<1>2. SUFFICES ASSUME lim < p + Total(f) PROVE FALSE
  BY <1>1
<1>3. /\ lim - p \in 1..Total(f) /\ lim - p # Total(f) /\ p + (lim - p) = lim /\ lim # 0
  BY <1>1, <1>2
<1>4. in[lim] = <<f, lim - p>>
  BY <1>3 DEF FrameAt
<1>5. lim - p = Total(f)
  BY <1>3, <1>4 DEF Boundary, EndsFrame, Total
<1>. QED
  BY <1>3, <1>5

LEMMA OneMoreBegun ==
    ASSUME WireInv, NEW p \in Nat, NEW f, FrameAt(f, p)
    PROVE  Cardinality(Begun(p + Total(f))) = Cardinality(Begun(p)) + 1
<1>1. Total(f) \in Nat /\ Total(f) >= 4
  BY FrameSizes
<1>2. Begun(p + Total(f)) = Begun(p) \cup {p + 1}
  <2>1. ASSUME NEW i \in 1..(p + Total(f)) PROVE i \in 1..p \/ i - p \in 1..Total(f)
    BY <1>1
  <2>2. ASSUME NEW i \in Begun(p + Total(f)) PROVE i \in Begun(p) \cup {p + 1}
    <3>1. i \in 1..(p + Total(f)) /\ in[i][2] = 1
      BY <2>2 DEF Begun
    <3>2. CASE i \in 1..p
      BY <3>1, <3>2 DEF Begun
    <3>3. CASE i - p \in 1..Total(f)
      <4>1. p + (i - p) = i
        BY <1>1, <3>1
      <4>2. in[i] = <<f, i - p>>
        BY <3>3, <4>1 DEF FrameAt
      <4>3. i - p = 1
        BY <3>1, <4>2
      <4>. QED
        BY <4>1, <4>3
    <3>. QED
      BY <2>1, <3>1, <3>2, <3>3
  <2>3. p + 1 \in Begun(p + Total(f))
    BY <1>1, FrameSizes DEF Begun
  <2>4. Begun(p) \subseteq Begun(p + Total(f))
    BY <1>1 DEF Begun
  <2>. QED
    BY <2>2, <2>3, <2>4
<1>3. IsFiniteSet(Begun(p)) /\ p + 1 \notin Begun(p)
  <2>1. IsFiniteSet(1..p)
    BY FS_Interval
  <2>2. Begun(p) \subseteq 1..p
    BY DEF Begun
  <2>. QED
    BY <2>1, <2>2, FS_Subset
<1>. QED
  BY <1>2, <1>3, FS_AddElement

(* A step that returns the packet of the next frame.                       *)
LEMMA ReturnsNext ==
    ASSUME WireInv, link = "tcp", NEW p \in Nat, NEW f, FrameAt(f, p),
           Cardinality(Begun(p)) = count, Boundary(lim),
           UNCHANGED <<link, frames, in, lim>>,
           pos' = p + Total(f), want' = 0, count' = count + 1, pkt' = Packet(f)
    PROVE  StreamInv'
<1>1. /\ Total(f) \in Nat /\ Total(f) >= 4
      /\ in[pos'] = <<f, Total(f)>> /\ Boundary(pos')
  BY FrameSizes
<1>2. Cardinality(Begun(pos')) = count'
  BY OneMoreBegun
<1>3. Here' = pos' /\ Here' \in Nat
  BY <1>1 DEF Here
<1>4. Boundary(lim)' /\ Boundary(Here)'
  BY <1>1, <1>3 DEF Boundary, EndsFrame
<1>5. Cardinality(Begun(Here))' = count'
  <2>1. Begun(Here)' = Begun(pos')
    BY <1>3 DEF Begun
  <2>. QED
    BY <1>2, <2>1
<1>6. Packet(in[Here][1])' = Packet(f)
  <2>1. in'[Here'][1] = f
    BY <1>1, <1>3
  <2>. QED
    BY <2>1 DEF Packet
<1>. QED
  BY <1>3, <1>4, <1>5, <1>6 DEF StreamInv

LEMMA UnpackHeaderStream == ASSUME WireInv, StreamInv, UnpackHeader PROVE StreamInv'
<1>1. /\ want = 0 /\ pos < lim /\ pos' = pos + Least(HeaderSize, lim - pos)
      /\ UNCHANGED <<link, frames, in, lim, split>>
  BY DEF UnpackHeader, sender
<1>2. SUFFICES ASSUME link = "tcp", ~split PROVE StreamInv'
  BY <1>1 DEF StreamInv
<1>3. /\ Here = pos /\ Boundary(lim) /\ Boundary(pos) /\ Cardinality(Begun(pos)) = count
      /\ pos > 0 => pkt = Packet(in[pos][1])
  BY <1>1, <1>2 DEF StreamInv, Here
<1>4. /\ pos \in Nat /\ lim \in Nat /\ pos < Len(in) /\ count \in Nat /\ FramingTypeOK
  BY <1>1, StreamFacts DEF WireInv
<1>5. PICK f : FrameAt(f, pos)
  BY <1>2, <1>3, <1>4, NextFrame
<1>6. /\ Total(f) \in Nat /\ Total(f) >= 4 /\ Total(f) = HeaderSize + frames[f].size
      /\ frames[f].size \in Nat /\ frames[f].size <= MaxPayload /\ f \in DOMAIN frames
      /\ in[pos + 1] = <<f, 1>> /\ in[pos + 2] = <<f, 2>>
      /\ in[pos + 3] = <<f, 3>> /\ in[pos + 4] = <<f, 4>>
      /\ pos + Total(f) <= lim
  BY <1>1, <1>3, <1>4, <1>5, FrameSizes, WithinBuffer DEF FrameAt
<1>7. pos' = pos + 4 /\ ~(lim - pos < HeaderSize)
  <2>1. 4 <= lim - pos
    <3>1. pos + 4 <= pos + Total(f)
      BY <1>4, <1>6
    <3>2. pos + 4 <= lim
      BY <1>4, <1>6, <3>1
    <3>. QED
      BY <1>4, <3>2
  <2>2. Least(4, lim - pos) = 4
    BY <1>4, <2>1 DEF Least
  <2>. QED
    BY <1>1, <1>4, <2>1, <2>2 DEF HeaderSize
<1>8. PICK t \in Word(in[pos + 1], in[pos + 2]), n \in Word(in[pos + 3], in[pos + 4]) :
         CASE n = 0 -> Return([tag |-> t, body |-> <<>>]) /\ UNCHANGED tag
           [] n > MaxPayload -> Return(Malformed) /\ UNCHANGED tag
           [] OTHER -> want' = n /\ tag' = t /\ UNCHANGED <<pkt, count>>
  BY <1>7 DEF UnpackHeader
<1>9. t = frames[f].tag /\ n = frames[f].size
  <2>1. t \in Word(<<f, 1>>, <<f, 2>>) /\ n \in Word(<<f, 3>>, <<f, 4>>)
    BY <1>6
  <2>. QED
    BY <1>4, <1>6, <2>1, HeaderReads
<1>10. ~(n > MaxPayload)
  BY <1>6, <1>9, BaseFacts
<1>11. CASE n = 0
  <2>1. Return([tag |-> t, body |-> <<>>])
    BY <1>8, <1>10, <1>11
  <2>2. [tag |-> t, body |-> <<>>] = Packet(f)
    BY <1>4, <1>6, <1>9, <1>11, EmptyPacket
  <2>3. [tag |-> t, body |-> <<>>] # Malformed
    <3>1. t # 0
      BY <1>4, <1>6, <1>9, FrameFacts
    <3>. QED
      BY <3>1 DEF Malformed
  <2>4. pkt' = Packet(f) /\ want' = 0 /\ count' = count + 1
    BY <1>2, <2>1, <2>2, <2>3 DEF Return
  <2>5. pos' = pos + Total(f)
    BY <1>6, <1>7, <1>9, <1>11 DEF HeaderSize
  <2>. QED
    BY <1>1, <1>2, <1>3, <1>4, <1>5, <2>4, <2>5, ReturnsNext
<1>12. CASE n # 0
  <2>1. want' = n /\ tag' = t /\ pkt' = pkt /\ count' = count
    BY <1>8, <1>10, <1>12
  <2>2. want' # 0 /\ Here' = pos
    BY <1>4, <1>7, <1>12, <2>1 DEF Here, HeaderSize
  <2>3. Boundary(lim)' /\ Boundary(Here)' /\ Begun(Here)' = Begun(pos)
    BY <1>1, <1>3, <2>2 DEF Boundary, EndsFrame, Begun
  <2>4. Here' > 0 => pkt' = Packet(in[Here][1])'
    BY <1>1, <1>3, <2>1, <2>2 DEF Packet
  <2>5. /\ in'[pos'] = <<f, HeaderSize>> /\ want' = frames'[f].size /\ tag' = frames'[f].tag
        /\ f \in DOMAIN frames'
    BY <1>1, <1>6, <1>7, <1>9, <2>1 DEF HeaderSize
  <2>. QED
    BY <1>3, <1>4, <2>1, <2>2, <2>3, <2>4, <2>5 DEF StreamInv
<1>. QED
  BY <1>11, <1>12

LEMMA UnpackBodyStream == ASSUME WireInv, StreamInv, UnpackBody PROVE StreamInv'
<1>. DEFINE n == Least(want, lim - pos)
            p == pos - HeaderSize
<1>1. /\ want > 0 /\ pos < lim /\ pos' = pos + n /\ want' = 0
      /\ UNCHANGED <<link, frames, in, lim, split>>
      /\ Return(IF n < want THEN Malformed
                ELSE [tag |-> tag, body |-> SubSeq(in, pos + 1, pos + n)])
  BY DEF UnpackBody, sender, Return
<1>2. SUFFICES ASSUME link = "tcp", ~split PROVE StreamInv'
  BY <1>1 DEF StreamInv
<1>3. /\ pos \in Nat /\ lim \in Nat /\ lim <= Len(in) /\ Len(in) \in Nat /\ want \in Nat
      /\ count \in Nat /\ FramingTypeOK
  BY StreamFacts DEF WireInv
<1>4. Here = p
  BY <1>1, <1>3, BaseFacts DEF Here
<1>5. /\ Boundary(lim) /\ p \in Nat /\ Boundary(p) /\ Cardinality(Begun(p)) = count
      /\ \E f \in DOMAIN frames : /\ in[pos] = <<f, HeaderSize>>
                                  /\ want = frames[f].size /\ tag = frames[f].tag
  BY <1>1, <1>2, <1>4 DEF StreamInv
<1>6. p < lim /\ p < Len(in) /\ p + 4 = pos
  BY <1>1, <1>3 DEF HeaderSize
<1>. HIDE DEF n, p
<1>7. PICK f : FrameAt(f, p)
  BY <1>2, <1>5, <1>6, NextFrame
<1>8. /\ Total(f) \in Nat /\ Total(f) = HeaderSize + frames[f].size /\ in[p + 4] = <<f, 4>>
      /\ frames[f].size \in Nat /\ f \in DOMAIN frames /\ p + Total(f) <= lim
      /\ p + Total(f) <= Len(in)
  BY <1>5, <1>6, <1>7, FrameSizes, WithinBuffer DEF FrameAt
<1>9. want = frames[f].size /\ tag = frames[f].tag
  BY <1>5, <1>6, <1>8
<1>10. n = want /\ pos + want = p + Total(f)
  <2>1. p + (HeaderSize + want) = pos + want
    <3>1. p \in Nat /\ want \in Nat /\ pos = p + 4
      BY <1>3, <1>5, <1>6
    <3>2. p + (4 + want) = (p + 4) + want
      BY <3>1
    <3>. QED
      BY <3>1, <3>2 DEF HeaderSize
  <2>2. pos + want = p + Total(f)
    BY <1>8, <1>9, <2>1
  <2>3. want <= lim - pos
    BY <1>3, <1>8, <2>2
  <2>. QED
    BY <1>3, <2>2, <2>3 DEF n, Least
<1>11. \A k \in 1..want : in[pos + k] = <<f, HeaderSize + k>>
  <2>1. \A k \in 1..want : HeaderSize + k \in 1..Total(f) /\ p + (HeaderSize + k) = pos + k
    BY <1>3, <1>5, <1>6, <1>8, <1>9 DEF HeaderSize
  <2>. QED
    BY <1>7, <2>1 DEF FrameAt
<1>12. [tag |-> tag, body |-> SubSeq(in, pos + 1, pos + want)] = Packet(f)
  <2>1. pos + frames[f].size <= Len(in)
    BY <1>8, <1>9, <1>10
  <2>. QED
    BY <1>3, <1>8, <1>9, <1>11, <2>1, BodyIs
<1>13. Return(Packet(f))
  <2>1. ~(n < want)
    BY <1>3, <1>10
  <2>2. Return([tag |-> tag, body |-> SubSeq(in, pos + 1, pos + want)])
    BY <1>1, <1>10, <2>1
  <2>. QED
    BY <1>12, <2>2
<1>14. Packet(f) # Malformed
  BY <1>3, <1>8, FrameFacts DEF Packet, Malformed
<1>15. pkt' = Packet(f) /\ count' = count + 1 /\ pos' = p + Total(f)
  BY <1>1, <1>2, <1>10, <1>13, <1>14 DEF Return
<1>. QED
  BY <1>1, <1>2, <1>5, <1>7, <1>15, ReturnsNext

LEMMA ReadStreamStream ==
    ASSUME WireInv, StreamInv, NEW n \in Nat, ReadStream(n) PROVE StreamInv'
<1>1. /\ lim' = lim + n /\ split' = (split \/ ~EndsFrame(in[lim + n]))
      /\ UNCHANGED <<link, frames, in, pos, want, tag, pkt, count>>
  BY DEF ReadStream, sender
<1>2. SUFFICES ASSUME link = "tcp", ~split' PROVE StreamInv'
  BY <1>1 DEF StreamInv
<1>3. ~split /\ EndsFrame(in[lim'])
  BY <1>1, <1>2
<1>4. Boundary(lim)'
  BY <1>1, <1>3 DEF Boundary, EndsFrame
<1>5. Here' = Here
  BY <1>1 DEF Here
<1>6. /\ Begun(Here)' = Begun(Here) /\ Boundary(Here)' = Boundary(Here)
      /\ Packet(in[Here][1])' = Packet(in[Here][1])
  BY <1>1, <1>5 DEF Begun, Boundary, EndsFrame, Packet
<1>. QED
  BY <1>1, <1>2, <1>3, <1>4, <1>5, <1>6 DEF StreamInv

(* The writers add packets and lengthen the stream behind the reader.      *)
LEMMA WritersStream ==
    ASSUME WireInv, StreamInv, UNCHANGED <<link, pos, lim, want, tag, pkt, count, split>>,
           \A f \in DOMAIN frames : f \in DOMAIN frames' /\ frames'[f] = frames[f],
           link = "tcp" => \A i \in 1..Len(in) : in'[i] = in[i]
    PROVE  StreamInv'
<1>1. SUFFICES ASSUME link = "tcp", ~split PROVE StreamInv'
  BY DEF StreamInv
<1>2. /\ Boundary(lim) /\ Here \in Nat /\ Boundary(Here) /\ Cardinality(Begun(Here)) = count
      /\ Here > 0 => pkt = Packet(in[Here][1])
      /\ want > 0 => \E f \in DOMAIN frames : /\ in[pos] = <<f, HeaderSize>>
                                              /\ want = frames[f].size /\ tag = frames[f].tag
  BY <1>1 DEF StreamInv
<1>3. /\ pos \in Nat /\ lim \in Nat /\ pos <= lim /\ lim <= Len(in) /\ Len(in) \in Nat
      /\ DOMAIN in = 1..Len(in) /\ WholeFrames(in) /\ Here <= pos
  BY <1>1, <1>2, StreamFacts DEF Here, HeaderSize
<1>4. \A i \in 1..Len(in) : /\ in'[i] = in[i] /\ in[i][1] \in DOMAIN frames
                            /\ frames'[in[i][1]] = frames[in[i][1]]
  BY <1>1, <1>3, WholeAt
<1>6. Here' = Here
  BY DEF Here
<1>7. Boundary(lim)' /\ Boundary(Here)'
  <2>1. Boundary(Here)' = (Here' = 0 \/ EndsFrame(in[Here])')
    BY DEF Boundary
  <2>2. Here = 0 \/ EndsFrame(in[Here])'
    <3>1. CASE Here # 0
      <4>1. Here \in 1..Len(in) /\ EndsFrame(in[Here])
        BY <1>2, <1>3, <3>1 DEF Boundary
      <4>. QED
        BY <1>4, <1>6, <4>1 DEF EndsFrame
    <3>. QED
      BY <3>1
  <2>3. Boundary(lim)'
    <3>1. CASE lim # 0
      <4>1. lim \in 1..Len(in) /\ EndsFrame(in[lim])
        BY <1>2, <1>3, <3>1 DEF Boundary
      <4>. QED
        BY <1>4, <4>1 DEF Boundary, EndsFrame
    <3>. QED
      BY <3>1 DEF Boundary
  <2>. QED
    BY <1>6, <2>1, <2>2, <2>3
<1>8. Begun(Here)' = Begun(Here)
  <2>1. \A i \in 1..Here : i \in 1..Len(in)
    BY <1>2, <1>3
  <2>. QED
    BY <1>4, <1>6, <2>1 DEF Begun
<1>9. Here > 0 => pkt = Packet(in[Here][1])'
  <2>1. SUFFICES ASSUME Here > 0 PROVE pkt = Packet(in[Here][1])'
    OBVIOUS
  <2>2. Here \in 1..Len(in)
    BY <1>2, <1>3, <2>1
  <2>. QED
    BY <1>2, <1>4, <1>6, <2>1, <2>2 DEF Packet
<1>10. want > 0 => \E f \in DOMAIN frames' : /\ in'[pos] = <<f, HeaderSize>>
                                             /\ want = frames'[f].size /\ tag = frames'[f].tag
  <2>1. SUFFICES ASSUME want > 0
                 PROVE  \E f \in DOMAIN frames' : /\ in'[pos] = <<f, HeaderSize>>
                                                  /\ want = frames'[f].size /\ tag = frames'[f].tag
    OBVIOUS
  <2>2. pos \in 1..Len(in)
    <3>1. want # 0
      BY <2>1, BaseFacts
    <3>2. pos >= 4
      BY <1>2, <1>3, <3>1 DEF Here, HeaderSize
    <3>. QED
      BY <1>3, <3>2
  <2>. QED
    BY <1>2, <1>4, <2>1, <2>2
<1>. QED
  BY <1>2, <1>6, <1>7, <1>8, <1>9, <1>10 DEF StreamInv

(* ------------------------------- the device ---------------------------- *)

(* The buffers before `filled' hold the packets of one batch in order, of  *)
(* which those before `current' have been taken.                           *)
Ready(ps, is, ss, filled) ==
    /\ current < filled /\ Len(ps) = taken + (filled - current)
    /\ \A j \in 0..(filled - 1) : /\ is[j] + current = taken + j + 1
                                  /\ ss[j] = ps[is[j]].size
    /\ \A i, j \in 0..(filled - 1) : ~ps[is[j]].mixed => ss[i] = ss[j]

DeviceInv ==
    /\ total = 0 => current = 0 /\ Len(packets) = taken
    /\ total > 0 => Ready(packets, ids, sizes, total)
    /\ TakenInOrder /\ CutOnlyInMixedBatch
    /\ hv = "range" => data.id > 0

(* While it ranges over the peers, handleVeth has given the packet to      *)
(* those of the visited that it is for.                                    *)
RangeInv ==
    LET mine == {p \in Peers : IsFor(p, packets[data.id].dst)}
    IN  data.id > 0 => given \subseteq mine /\ (steady \cap visited) \cap mine \subseteq given

IInv == WireInv /\ TypeOK /\ DeviceInv /\ RangeInv /\ ReachesItsPeers

LEMMA TakeDevice ==
    ASSUME IInv, NEW filled \in 1..BatchSize, Ready(packets', ids', sizes', filled),
           packets' \in Seq([dst : Dests, size : Nat, mixed : BOOLEAN]),
           ids' \in [Slots -> 0..Len(packets')], sizes' \in [Slots -> Nat],
           Take(filled), taken' = taken + 1, hv' = "range"
    PROVE  /\ total' \in 0..BatchSize /\ current' \in 0..BatchSize /\ taken' \in 0..Len(packets')
           /\ data'.id \in 0..Len(packets') /\ data'.n \in Nat /\ data'.id > 0
           /\ DeviceInv'
<1>1. /\ current \in Nat /\ taken \in Nat /\ BatchSize \in Nat /\ filled \in Nat
      /\ Len(packets') \in Nat
  BY Inputs DEF IInv, TypeOK
<1>2. /\ current < filled /\ Len(packets') = taken + (filled - current)
      /\ \A j \in 0..(filled - 1) : /\ ids'[j] + current = taken + j + 1
                                    /\ sizes'[j] = packets'[ids'[j]].size
      /\ \A i, j \in 0..(filled - 1) : ~packets'[ids'[j]].mixed => sizes'[i] = sizes'[j]
  BY DEF Ready
<1>3. /\ current' \in 0..(filled - 1) /\ current' \in Slots /\ current \in Slots
      /\ current \in 0..(filled - 1) /\ current' \in 0..BatchSize
      /\ total' \in 0..BatchSize
      /\ total' = 0 => current' = 0 /\ current + 1 = filled
      /\ total' > 0 => current' = current + 1 /\ current' < filled /\ total' = filled
  BY SMTT(60), <1>1, <1>2 DEF Take, Slots
<1>4. data'.id = ids'[current] /\ data'.n = sizes'[current']
  BY DEF Take
<1>5. data'.id = taken'
  <2>1. ids'[current] + current = taken + current + 1
    BY <1>2, <1>3
  <2>2. ids'[current] \in Nat
    BY <1>1, <1>3
  <2>. QED
    BY <1>1, <1>4, <2>1, <2>2
<1>6. taken' \in 0..Len(packets') /\ data'.n \in Nat /\ data'.id > 0
  <2>1. sizes'[current'] \in Nat
    BY <1>3
  <2>2. taken + 1 <= Len(packets')
    BY <1>1, <1>2
  <2>. QED
    BY <1>1, <1>4, <1>5, <2>1, <2>2
<1>7. CutOnlyInMixedBatch'
  <2>1. ~packets'[ids'[current]].mixed => sizes'[current'] = sizes'[current]
    BY <1>2, <1>3
  <2>2. sizes'[current] = packets'[ids'[current]].size
    BY <1>2, <1>3
  <2>. QED
    BY <1>4, <2>1, <2>2 DEF CutOnlyInMixedBatch
<1>8. total' = 0 => current' = 0 /\ Len(packets') = taken'
  BY <1>1, <1>2, <1>3
<1>9. total' > 0 => Ready(packets, ids, sizes, total)'
  <2>1. SUFFICES ASSUME total' > 0
                 PROVE  /\ current' < filled /\ Len(packets') = taken' + (filled - current')
                        /\ \A j \in 0..(filled - 1) : /\ ids'[j] + current' = taken' + j + 1
                                                      /\ sizes'[j] = packets'[ids'[j]].size
    BY <1>2, <1>3 DEF Ready
  <2>2. current' = current + 1 /\ current' < filled /\ taken' = taken + 1
    BY <1>3, <2>1
  <2>3. Len(packets') = taken' + (filled - current')
    BY <1>1, <1>2, <2>2
  <2>4. ASSUME NEW j \in 0..(filled - 1)
        PROVE  ids'[j] + current' = taken' + j + 1 /\ sizes'[j] = packets'[ids'[j]].size
    <3>1. ids'[j] + current = taken + j + 1 /\ sizes'[j] = packets'[ids'[j]].size
      BY <1>2
    <3>2. ids'[j] \in Nat
      BY <1>1 DEF Slots
    <3>3. j \in Nat
      BY <1>1
    <3>4. ids'[j] + current' = taken' + j + 1
      <4>. DEFINE x == ids'[j]
      <4>1. x \in Nat /\ x + current = taken + j + 1
        BY <3>1, <3>2
      <4>. HIDE DEF x
      <4>2. x + (current + 1) = (taken + 1) + j + 1
        BY <1>1, <3>3, <4>1
      <4>. QED
        BY <2>2, <4>2 DEF x
    <3>. QED
      BY <3>1, <3>4
  <2>. QED
    BY <2>2, <2>3, <2>4
<1>10. DeviceInv'
  BY <1>5, <1>6, <1>7, <1>8, <1>9 DEF DeviceInv, TakenInOrder
<1>. QED
  BY <1>3, <1>4, <1>5, <1>6, <1>10
(* A batch fills the first buffers when there is nothing left to take.     *)
LEMMA FilledReady ==
    ASSUME IInv, total = 0, NEW batch \in Batches, Filled(batch)
    PROVE  /\ Len(batch) \in 1..BatchSize
           /\ packets' \in Seq([dst : Dests, size : Nat, mixed : BOOLEAN])
           /\ ids' \in [Slots -> 0..Len(packets')] /\ sizes' \in [Slots -> Nat]
           /\ \A i \in DOMAIN packets : i \in DOMAIN packets' /\ packets'[i] = packets[i]
           /\ Ready(packets', ids', sizes', Len(batch))
<1>. DEFINE n == Len(packets)
            c == Len(batch)
            mixed == \E i, j \in DOMAIN batch : batch[i].size # batch[j].size
            more == [i \in DOMAIN batch |->
                       [dst |-> batch[i].dst, size |-> batch[i].size, mixed |-> mixed]]
            Item == [dst : Dests, size : Nat, mixed : BOOLEAN]
<1>1. /\ packets' = packets \o more
      /\ ids' = [i \in Slots |-> IF i < c THEN n + i + 1 ELSE ids[i]]
      /\ sizes' = [i \in Slots |-> IF i < c THEN batch[i + 1].size ELSE sizes[i]]
  BY DEF Filled
<1>2. /\ batch \in Seq([dst : Dests, size : Nat]) /\ c \in 1..BatchSize /\ BatchSize \in Nat
      /\ c \in Nat /\ DOMAIN batch = 1..c
      /\ \A i \in 1..c : batch[i].dst \in Dests /\ batch[i].size \in Nat
  <2>1. batch \in Seq([dst : Dests, size : Nat]) /\ c \in 1..BatchSize /\ BatchSize \in Nat
    BY Inputs
  <2>2. c \in Nat /\ DOMAIN batch = 1..c
    BY <2>1
  <2>3. \A i \in 1..c : batch[i] \in [dst : Dests, size : Nat]
    BY <2>1, Elements
  <2>. QED
    BY <2>1, <2>2, <2>3
<1>3. /\ packets \in Seq(Item) /\ n \in Nat /\ DOMAIN packets = 1..n
      /\ ids \in [Slots -> 0..n] /\ sizes \in [Slots -> Nat]
      /\ current = 0 /\ n = taken
  BY DEF IInv, TypeOK, DeviceInv
<1>4. /\ more \in Seq(Item) /\ Len(more) = c
      /\ \A i \in 1..c : more[i].size = batch[i].size /\ more[i].mixed = mixed
  <2>1. more = [i \in 1..c |-> [dst |-> batch[i].dst, size |-> batch[i].size, mixed |-> mixed]]
    BY <1>2
  <2>. HIDE DEF mixed, c
  <2>2. mixed \in BOOLEAN
    BY DEF mixed
  <2>. QED
    BY <1>2, <2>1, <2>2
<1>. HIDE DEF more, mixed, c, n, Item
<1>5. /\ packets' \in Seq(Item) /\ DOMAIN packets' = 1..(Len(packets) + Len(more))
      /\ Len(packets') = Len(packets) + Len(more)
      /\ \A i \in 1..Len(packets) : packets'[i] = packets[i]
      /\ \A i \in (Len(packets) + 1)..(Len(packets) + Len(more)) :
            packets'[i] = more[i - Len(packets)]
  <2>1. /\ packets \o more \in Seq(Item) /\ DOMAIN (packets \o more) = 1..(Len(packets) + Len(more))
        /\ Len(packets \o more) = Len(packets) + Len(more)
        /\ \A i \in 1..Len(packets) : (packets \o more)[i] = packets[i]
        /\ \A i \in (Len(packets) + 1)..(Len(packets) + Len(more)) :
              (packets \o more)[i] = more[i - Len(packets)]
    <3>1. packets \in Seq(Item) /\ more \in Seq(Item)
      BY <1>3, <1>4
    <3>. QED
      BY <3>1, Joined
  <2>. QED
    BY <1>1, <2>1
<1>6. /\ Len(packets') = n + c /\ DOMAIN packets' = 1..(n + c)
      /\ \A i \in 1..n : packets'[i] = packets[i]
      /\ \A i \in (n + 1)..(n + c) : packets'[i] = more[i - n]
  BY <1>4, <1>5 DEF n
<1>7. \A i \in 0..(c - 1) : i \in Slots
  BY <1>2 DEF Slots
<1>8. ASSUME NEW i \in 0..(c - 1)
      PROVE  /\ ids'[i] = n + i + 1 /\ sizes'[i] = batch[i + 1].size
             /\ packets'[ids'[i]].size = batch[i + 1].size
             /\ packets'[ids'[i]].mixed = mixed
  <2>1. i \in Slots /\ i < c /\ i \in Nat /\ i + 1 \in 1..c
    BY <1>2, <1>7
  <2>2. ids'[i] = n + i + 1 /\ sizes'[i] = batch[i + 1].size
    BY <1>1, <2>1
  <2>3. n + i + 1 \in (n + 1)..(n + c) /\ (n + i + 1) - n = i + 1
    BY <1>2, <1>3, <2>1
  <2>4. packets'[n + i + 1] = more[i + 1]
    BY <1>6, <2>3
  <2>. QED
    BY <1>4, <2>1, <2>2, <2>4
<1>9. ids' \in [Slots -> 0..(n + c)]
  <2>1. ASSUME NEW i \in Slots PROVE (IF i < c THEN n + i + 1 ELSE ids[i]) \in 0..(n + c)
    <3>1. i \in Nat
      BY <1>2 DEF Slots
    <3>2. ids[i] \in 0..n
      BY <1>3
    <3>. QED
      BY <1>2, <1>3, <3>1, <3>2
  <2>. QED
    BY <1>1, <2>1
<1>10. sizes' \in [Slots -> Nat]
  <2>1. ASSUME NEW i \in Slots, i < c PROVE batch[i + 1].size \in Nat
    <3>1. i + 1 \in 1..c
      BY <1>2, <2>1 DEF Slots
    <3>. QED
      BY <1>2, <3>1
  <2>. QED
    BY <1>1, <1>3, <2>1
<1>11. Ready(packets', ids', sizes', c)
  <2>1. current < c /\ Len(packets') = taken + (c - current)
    BY <1>2, <1>3, <1>6
  <2>2. \A j \in 0..(c - 1) : /\ ids'[j] + current = taken + j + 1
                              /\ sizes'[j] = packets'[ids'[j]].size
    <3>1. ASSUME NEW j \in 0..(c - 1) PROVE ids'[j] + current = taken + j + 1
      <4>1. ids'[j] = n + j + 1 /\ j \in Nat
        BY <1>2, <1>8
      <4>. QED
        BY <1>3, <4>1
    <3>. QED
      BY <1>8, <3>1
  <2>3. ASSUME NEW i \in 0..(c - 1), NEW j \in 0..(c - 1), ~packets'[ids'[j]].mixed
        PROVE  sizes'[i] = sizes'[j]
    <3>1. ~mixed
      BY <1>8, <2>3
    <3>2. i + 1 \in DOMAIN batch /\ j + 1 \in DOMAIN batch
      BY <1>2
    <3>3. batch[i + 1].size = batch[j + 1].size
      BY <3>1, <3>2 DEF mixed
    <3>. QED
      BY <1>8, <3>3
  <2>. QED
    BY <2>1, <2>2, <2>3 DEF Ready
<1>12. \A i \in DOMAIN packets : i \in DOMAIN packets' /\ packets'[i] = packets[i]
  <2>1. \A i \in 1..n : i \in 1..(n + c)
    BY <1>2, <1>3
  <2>. QED
    BY <1>3, <1>6, <2>1
<1>13. packets' \in Seq(Item) /\ ids' \in [Slots -> 0..Len(packets')]
  BY <1>5, <1>6, <1>9
<1>. QED
  BY <1>2, <1>10, <1>11, <1>12, <1>13 DEF c, Item
LEMMA Initially == ASSUME Init PROVE IInv
<1>. USE DEF Init, FramingInit
<1>1. /\ BufSize \in Nat /\ BufSize > HeaderSize /\ MaxFrames \in Nat /\ MaxPayload \in Nat
      /\ BatchSize \in Nat
  BY BaseFacts, Buffers, Inputs
<1>2. FramingTypeOK
  <2>1. pkt.tag \in Nat /\ pkt.body \in Seq(Cell)
    BY MalformedIsNone
  <2>2. frames \in Seq(Frame) /\ Len(frames) <= MaxFrames /\ in \in Seq(Cell) /\ Len(in) = 0
    BY <1>1
  <2>3. lim \in 0..Len(in) /\ pos \in 0..lim /\ want \in 0..MaxPayload /\ tag \in Nat /\ count \in Nat
    BY <1>1, <2>2
  <2>4. pending \in [Writers -> Seq(Cell)]
    <3>1. <<>> \in Seq(Cell)
      OBVIOUS
    <3>. QED
      BY <3>1
  <2>5. grams \subseteq Seq(Cell) /\ split \in BOOLEAN /\ link \in {"tcp", "udp"}
    OBVIOUS
  <2>. QED
    BY <2>1, <2>2, <2>3, <2>4, <2>5 DEF FramingTypeOK
<1>3. WireInv
  <2>1. Sent
    BY DEF Sent, WholeFrames
  <2>2. BodyAhead /\ InStep
    <3>1. Least(BufSize, Len(in)) = 0
      BY <1>1 DEF Least, HeaderSize
    <3>. QED
      BY <3>1 DEF BodyAhead, InStep
  <2>3. NeverForged
    BY MalformedIsNone DEF NeverForged
  <2>. QED
    BY <1>2, <2>1, <2>2, <2>3 DEF WireInv
<1>4. TypeOK
  <2>1. /\ packets \in Seq([dst : Dests, size : Nat, mixed : BOOLEAN]) /\ Len(packets) = 0
        /\ ids \in [Slots -> 0..0] /\ sizes \in [Slots -> Nat]
    OBVIOUS
  <2>2. peers \subseteq Peers
    OBVIOUS
  <2>. QED
    BY <1>1, <1>2, <2>1, <2>2 DEF TypeOK
<1>. QED
  BY <1>3, <1>4 DEF IInv, DeviceInv, TakenInOrder, CutOnlyInMixedBatch, RangeInv, ReachesItsPeers

LEMMA WireOf == ASSUME IInv PROVE WireInv /\ FramingTypeOK
BY DEF IInv, WireInv

LEMMA TunReadStep == ASSUME IInv, TunRead PROVE IInv'
<1>1. WireInv'
  BY WireStutters DEF TunRead, IInv
<1>2. /\ taken' = taken + 1 /\ hv = "read" /\ hv' = "range" /\ visited' = {} /\ given' = {}
      /\ steady' = peers /\ peers' = peers
  BY DEF TunRead
<1>3. PICK filled \in 1..BatchSize :
         /\ Ready(packets', ids', sizes', filled) /\ Take(filled)
         /\ packets' \in Seq([dst : Dests, size : Nat, mixed : BOOLEAN])
         /\ ids' \in [Slots -> 0..Len(packets')] /\ sizes' \in [Slots -> Nat]
  <2>1. CASE total > 0 /\ UNCHANGED <<packets, ids, sizes>> /\ Take(total)
    <3>1. Ready(packets', ids', sizes', total)
      BY <2>1 DEF IInv, DeviceInv
    <3>2. total \in 1..BatchSize
      BY <2>1, Inputs DEF IInv, TypeOK
    <3>3. /\ packets' \in Seq([dst : Dests, size : Nat, mixed : BOOLEAN])
          /\ ids' \in [Slots -> 0..Len(packets')] /\ sizes' \in [Slots -> Nat]
      BY <2>1 DEF IInv, TypeOK
    <3>. QED
      BY <2>1, <3>1, <3>2, <3>3
  <2>2. CASE total = 0 /\ \E batch \in Batches : Filled(batch) /\ Take(Len(batch))
    <3>1. PICK batch \in Batches : Filled(batch) /\ Take(Len(batch))
      BY <2>2
    <3>. QED
      BY <2>2, <3>1, FilledReady
  <2>. QED
    BY <2>1, <2>2 DEF TunRead
<1>4. /\ total' \in 0..BatchSize /\ current' \in 0..BatchSize /\ taken' \in 0..Len(packets')
      /\ data'.id \in 0..Len(packets') /\ data'.n \in Nat /\ data'.id > 0
      /\ DeviceInv'
  BY <1>2, <1>3, TakeDevice
<1>5. TypeOK'
  BY <1>1, <1>2, <1>3, <1>4 DEF TypeOK, WireInv, IInv
<1>6. RangeInv' /\ ReachesItsPeers'
  BY <1>2 DEF RangeInv, ReachesItsPeers
<1>. QED
  BY <1>1, <1>4, <1>5, <1>6 DEF IInv

LEMMA TunUnchanged ==
    ASSUME IInv, WireInv', UNCHANGED <<tun, ranging, peers>>
    PROVE  IInv'
<1>1. UNCHANGED <<packets, ids, sizes, total, current, taken, hv, data, visited, steady, given, peers>>
  BY DEF tun, ranging
<1>2. TypeOK'
  BY <1>1 DEF TypeOK, WireInv, IInv
<1>3. DeviceInv'
  BY <1>1 DEF DeviceInv, Ready, TakenInOrder, CutOnlyInMixedBatch, IInv
<1>4. RangeInv' /\ ReachesItsPeers'
  BY <1>1 DEF RangeInv, ReachesItsPeers, IInv
<1>. QED
  BY <1>2, <1>3, <1>4 DEF IInv

LEMMA VisitStep == ASSUME IInv, NEW p \in Peers, Visit(p) PROVE IInv'
<1>1. /\ hv = "range" /\ p \in peers \ visited /\ visited' = visited \cup {p}
      /\ UNCHANGED <<packets, ids, sizes, total, current, taken, hv, data, steady, peers>>
  BY DEF Visit, tun
<1>2. \/ /\ IsFor(p, packets[data.id].dst) /\ given' = given \cup {p}
         /\ \/ PackInto("veth", [tag |-> Raw, size |-> data.n, id |-> data.id])
            \/ UNCHANGED framing
      \/ /\ ~IsFor(p, packets[data.id].dst) /\ given' = given /\ UNCHANGED framing
  BY DEF Visit
<1>3. WireInv'
  <2>1. ASSUME PackInto("veth", [tag |-> Raw, size |-> data.n, id |-> data.id]) PROVE WireInv'
    <3>1. [tag |-> Raw, size |-> data.n, id |-> data.id] \in [tag : Tags, size : Nat, id : Nat]
      BY Ends DEF IInv, TypeOK
    <3>2. "veth" \in Writers
      BY Ends
    <3>. QED
      BY <2>1, <3>1, <3>2, PackIntoWire, WireOf
  <2>. QED
    BY <1>2, <2>1, WireStutters, WireOf
<1>4. TypeOK'
  BY <1>1, <1>2, <1>3 DEF TypeOK, WireInv, IInv
<1>5. DeviceInv'
  BY SMTT(60), <1>1 DEF DeviceInv, Ready, TakenInOrder, CutOnlyInMixedBatch, IInv
<1>6. RangeInv'
  <2>. DEFINE mine == {q \in Peers : IsFor(q, packets[data.id].dst)}
  <2>1. data.id > 0
    BY <1>1 DEF IInv, DeviceInv
  <2>2. given \subseteq mine /\ (steady \cap visited) \cap mine \subseteq given
    BY <2>1 DEF IInv, RangeInv
  <2>3. p \in mine <=> IsFor(p, packets[data.id].dst)
    OBVIOUS
  <2>. HIDE DEF mine
  <2>4. given' \subseteq mine /\ (steady \cap visited') \cap mine \subseteq given'
    BY <1>1, <1>2, <2>2, <2>3
  <2>. QED
    BY <1>1, <2>4 DEF RangeInv, mine, IsFor, HasIP, PeerRoutes
<1>7. ReachesItsPeers'
  BY <1>1, <1>6 DEF ReachesItsPeers, RangeInv
<1>. QED
  BY <1>3, <1>4, <1>5, <1>6, <1>7 DEF IInv

LEMMA OtherSteps ==
    ASSUME IInv, RangeEnds \/ \E p \in Peers : PeerListed(p) \/ PeerGone(p)
    PROVE  IInv'
<1>1. /\ UNCHANGED <<packets, ids, sizes, total, current, taken, data, visited, given>>
      /\ UNCHANGED framing
      /\ hv' \in {"read", "range"} /\ (hv' = "range" => hv = "range")
      /\ peers' \subseteq Peers /\ steady' \subseteq peers' /\ steady' \subseteq steady
      /\ hv' = "read" => hv = "read" \/ steady' \subseteq visited
  BY DEF RangeEnds, PeerListed, PeerGone, tun, ranging, IInv, TypeOK
<1>2. WireInv'
  BY <1>1, WireStutters, WireOf
<1>3. TypeOK'
  BY <1>1, <1>2 DEF TypeOK, WireInv, IInv
<1>4. DeviceInv'
  BY <1>1 DEF DeviceInv, Ready, TakenInOrder, CutOnlyInMixedBatch, IInv
<1>5. RangeInv'
  BY <1>1 DEF RangeInv, IInv
<1>6. ReachesItsPeers'
  BY <1>1 DEF RangeInv, ReachesItsPeers, IInv
<1>. QED
  BY <1>2, <1>3, <1>4, <1>5, <1>6 DEF IInv

LEMMA SendStep == ASSUME IInv, NEW w \in Writers, Send(w) PROVE IInv'
<1>1. PICK m \in [tag : Tags, size : Nat, id : Nat] : PackInto(w, m)
  <2>1. Messages \subseteq [tag : Tags, size : Nat, id : Nat]
    BY Inputs
  <2>2. [tag |-> Ping, size |-> 0, id |-> 0] \in [tag : Tags, size : Nat, id : Nat]
    BY Ends
  <2>. QED
    BY <2>1, <2>2 DEF Send
<1>2. WireInv'
  BY <1>1, PackIntoWire, WireOf
<1>. QED
  BY <1>2, TunUnchanged DEF Send

LEMMA CarryStep == ASSUME IInv, Carry PROVE IInv'
<1>1. WireInv'
  <2>1. \A n \in 1..(HeaderSize + MaxPayload) : n \in Nat
    BY BaseFacts DEF HeaderSize
  <2>. QED
    BY <2>1, WireOf, WriteWire, ReadStreamWire, ReadDatagramWire, UnpackHeaderWire,
       UnpackBodyWire DEF Carry
<1>. QED
  BY <1>1, TunUnchanged DEF Carry

LEMMA Step == ASSUME IInv, [Next]_vars PROVE IInv'
<1>1. CASE UNCHANGED vars
  <2>1. UNCHANGED framing /\ UNCHANGED <<tun, ranging, peers>>
    BY <1>1 DEF vars
  <2>. QED
    BY <2>1, WireStutters, WireOf, TunUnchanged
<1>2. CASE Next
  BY <1>2, TunReadStep, VisitStep, OtherSteps, SendStep, CarryStep DEF Next
<1>. QED
  BY <1>1, <1>2

(* -------------------------- steps and the stream ----------------------- *)

LEMMA StreamInitially == ASSUME Init PROVE StreamInv
<1>1. Here = 0 /\ Begun(Here) = {}
  BY DEF Init, FramingInit, Here, Begun
<1>2. Cardinality({}) = 0
  BY FS_EmptySet
<1>3. Boundary(lim) /\ Boundary(Here) /\ want = 0 /\ count = 0 /\ Here \in Nat
  BY <1>1 DEF Init, FramingInit, Boundary
<1>4. ~(Here > 0) /\ ~(want > 0)
  BY <1>1, <1>3
<1>. QED
  BY <1>1, <1>2, <1>3, <1>4 DEF StreamInv

LEMMA PackIntoStream ==
    ASSUME WireInv, StreamInv, NEW w, NEW m, PackInto(w, m) PROVE StreamInv'
<1>1. /\ frames' = Append(frames, m)
      /\ UNCHANGED <<link, in, pos, lim, want, tag, pkt, count, split>>
  BY DEF PackInto, reader
<1>2. frames \in Seq(Frame)
  BY DEF WireInv, FramingTypeOK
<1>3. \A f \in DOMAIN frames : f \in DOMAIN frames' /\ frames'[f] = frames[f]
  BY <1>1, <1>2
<1>. QED
  BY <1>1, <1>3, WritersStream

LEMMA WriteStream ==
    ASSUME WireInv, StreamInv, NEW w \in Writers, Write(w) PROVE StreamInv'
<1>. DEFINE chunk == SubSeq(pending[w], 1, Least(WriterSize, Len(pending[w])))
<1>1. /\ link = "tcp" => in' = in \o chunk
      /\ UNCHANGED <<link, frames, pos, lim, want, tag, pkt, count, split>>
  BY DEF Write, reader
<1>2. in \in Seq(Cell) /\ chunk \in Seq(Cell)
  <2>1. pending[w] \in Seq(Cell) /\ pending[w] # <<>> /\ in \in Seq(Cell)
    BY DEF WireInv, FramingTypeOK, Write
  <2>2. Len(pending[w]) \in Nat /\ Least(WriterSize, Len(pending[w])) \in 0..Len(pending[w])
    BY <2>1, BaseFacts DEF Least, WriterSize, HeaderSize
  <2>. QED
    BY <2>1, <2>2
<1>. HIDE DEF chunk
<1>3. link = "tcp" => \A i \in 1..Len(in) : in'[i] = in[i]
  BY <1>1, <1>2, Joined
<1>. QED
  BY <1>1, <1>3, WritersStream

LEMMA StreamStep == ASSUME IInv, StreamInv, [Next]_vars PROVE StreamInv'
<1>1. WireInv
  BY WireOf
<1>2. CASE UNCHANGED framing
  BY <1>1, <1>2, WritersStream DEF framing, sender, reader
<1>3. ASSUME NEW w, NEW m, PackInto(w, m) PROVE StreamInv'
  BY <1>1, <1>3, PackIntoStream
<1>4. ASSUME Carry PROVE StreamInv'
  <2>1. ASSUME NEW n \in 1..(HeaderSize + MaxPayload), ReadStream(n) PROVE StreamInv'
    <3>1. n \in Nat
      BY BaseFacts DEF HeaderSize
    <3>. QED
      BY <1>1, <2>1, <3>1, ReadStreamStream
  <2>2. ASSUME NEW d \in grams \cup {Stray}, ReadDatagram(d) PROVE StreamInv'
    BY <2>2 DEF ReadDatagram, sender, StreamInv
  <2>. QED
    BY <1>1, <1>4, <2>1, <2>2, WriteStream, UnpackHeaderStream, UnpackBodyStream DEF Carry
<1>5. ASSUME NEW p \in Peers, Visit(p) PROVE StreamInv'
  BY <1>2, <1>3, <1>5 DEF Visit
<1>6. ASSUME NEW w \in Writers, Send(w) PROVE StreamInv'
  BY <1>3, <1>6 DEF Send
<1>7. CASE TunRead \/ RangeEnds \/ \E p \in Peers : PeerListed(p) \/ PeerGone(p)
  BY <1>2, <1>7 DEF TunRead, RangeEnds, PeerListed, PeerGone
<1>8. CASE UNCHANGED vars
  BY <1>2, <1>8 DEF vars
<1>. QED
  BY <1>4, <1>5, <1>6, <1>7, <1>8 DEF Next

(* ------------------------------- theorems ------------------------------ *)

(* The inductive invariant: what writers have yet to write and what is on  *)
(* the wire are whole frames; a body awaited under a known tag comes next; *)
(* the reader of a hole starts every datagram with a header; the buffers   *)
(* of the device hold one batch in order.                                  *)
THEOREM Invariant == Spec => []IInv
BY Initially, Step, PTL DEF Spec

(* The variables of Framing and Tunnel keep their types.                   *)
THEOREM TypeCorrect == Spec => []TypeOK
BY Invariant, PTL DEF IInv

(* UnpackFrom forges no packet of a known tag, over either connection.     *)
THEOREM NeverForgedHolds == Spec => []NeverForged
BY Invariant, PTL DEF IInv, WireInv

(* Tun.Read returns each packet once and in order.                         *)
THEOREM TakenInOrderHolds == Spec => []TakenInOrder
BY Invariant, PTL DEF IInv, DeviceInv

(* It cuts no packet of a batch of one size.                               *)
THEOREM CutOnlyInMixedBatchHolds == Spec => []CutOnlyInMixedBatch
BY Invariant, PTL DEF IInv, DeviceInv

(* handleVeth reaches the peers a packet is for and no other.              *)
THEOREM ReachesItsPeersHolds == Spec => []ReachesItsPeers
BY Invariant, PTL DEF IInv

LEMMA DatagramStep ==
    ASSUME IInv, Next, link = "udp", pos < lim, pos' = lim', in # Stray, Len(in) <= BufSize
    PROVE  pkt' = Packet(in[1][1])
<1>1. WireInv /\ FramingTypeOK
  BY WireOf
<1>2. in \in Seq(Cell) /\ lim \in 0..Len(in) /\ pos \in 0..lim
  BY <1>1 DEF FramingTypeOK
<1>3. /\ lim \in Nat /\ pos \in Nat /\ Len(in) \in Nat /\ lim <= Len(in) /\ pos # lim
  BY <1>2
<1>4. lim = Len(in)
  BY <1>1, <1>3, BaseFacts DEF WireInv, InStep, Least
<1>5. PICK f \in DOMAIN frames : in = Cells(f, frames[f].size)
  <2>1. in # <<>>
    BY <1>3
  <2>. QED
    BY <1>1, <2>1 DEF WireInv, Sent, IsFrame
<1>6. /\ frames[f].size \in Nat /\ Len(in) = HeaderSize + frames[f].size
      /\ \A i \in 1..(HeaderSize + frames[f].size) : in[i] = <<f, i>>
  BY <1>1, <1>5, FrameFacts, CellsType
<1>7. in[1][1] = f
  BY <1>6 DEF HeaderSize
<1>8. CASE UnpackHeader
  <2>1. want = 0 /\ pos' = pos + Least(HeaderSize, lim - pos) /\ lim' = lim
    BY <1>8 DEF UnpackHeader
  <2>2. pos = 0
    BY <1>1, <1>3, <2>1 DEF WireInv, InStep
  <2>3. lim - pos >= HeaderSize /\ lim = HeaderSize
    <3>1. lim >= 4 /\ lim - pos = lim
      BY <1>3, <1>4, <1>6, <2>2 DEF HeaderSize
    <3>2. pos' = 4
      BY <1>3, <2>1, <2>2, <3>1 DEF Least, HeaderSize
    <3>. QED
      BY <1>3, <2>1, <3>1, <3>2 DEF HeaderSize
  <2>4. frames[f].size = 0
    BY <1>4, <1>6, <2>3 DEF HeaderSize
  <2>5. PICK t \in Word(in[pos + 1], in[pos + 2]), n \in Word(in[pos + 3], in[pos + 4]) :
           n = 0 /\ ~(n > MaxPayload) => pkt' = [tag |-> t, body |-> <<>>]
    <3>1. ~(lim - pos < HeaderSize)
      BY <1>3, <2>3 DEF HeaderSize
    <3>2. PICK t \in Word(in[pos + 1], in[pos + 2]), n \in Word(in[pos + 3], in[pos + 4]) :
             CASE n = 0 -> Return([tag |-> t, body |-> <<>>]) /\ UNCHANGED tag
               [] n > MaxPayload -> Return(Malformed) /\ UNCHANGED tag
               [] OTHER -> want' = n /\ tag' = t /\ UNCHANGED <<pkt, count>>
      BY <1>8, <3>1 DEF UnpackHeader
    <3>3. n = 0 /\ ~(n > MaxPayload) => Return([tag |-> t, body |-> <<>>])
      BY <3>2
    <3>. QED
      BY <3>3 DEF Return
  <2>6. t = frames[f].tag /\ n = frames[f].size
    <3>1. /\ in[pos + 1] = <<f, 1>> /\ in[pos + 2] = <<f, 2>>
          /\ in[pos + 3] = <<f, 3>> /\ in[pos + 4] = <<f, 4>>
      BY <1>6, <2>2 DEF HeaderSize
    <3>. QED
      BY <1>1, <2>5, <3>1, HeaderReads
  <2>7. ~(n > MaxPayload)
    BY <1>1, <2>6, FrameFacts, BaseFacts
  <2>8. pkt' = [tag |-> frames[f].tag, body |-> <<>>]
    BY <2>4, <2>5, <2>6, <2>7
  <2>. QED
    BY <1>1, <1>7, <2>4, <2>8, EmptyPacket
<1>9. CASE UnpackBody
  <2>1. want > 0
    BY <1>9 DEF UnpackBody
  <2>2. /\ pos = HeaderSize
        /\ \E g \in DOMAIN frames : /\ in = Cells(g, frames[g].size)
                                    /\ want = frames[g].size /\ tag = frames[g].tag
    BY <1>1, <2>1, BaseFacts DEF WireInv, InStep
  <2>3. want = frames[f].size /\ tag = frames[f].tag
    <3>1. PICK g \in DOMAIN frames : /\ in = Cells(g, frames[g].size)
                                     /\ want = frames[g].size /\ tag = frames[g].tag
      BY <2>2
    <3>2. in[1] = <<g, 1>>
      <4>1. g \in Nat /\ frames[g].size \in Nat
        BY <1>1, FrameFacts
      <4>2. 1 \in 1..(HeaderSize + frames[g].size)
        BY <4>1 DEF HeaderSize
      <4>. QED
        BY <3>1, <4>1, <4>2, CellsType
    <3>3. g = f
      BY <1>7, <3>2
    <3>. QED
      BY <3>1, <3>3
  <2>4. Least(want, lim - pos) = want
    BY <1>4, <1>6, <2>2, <2>3 DEF Least, HeaderSize
  <2>5. pkt' = [tag |-> tag, body |-> SubSeq(in, pos + 1, pos + want)]
    <3>1. ~(want < want)
      BY <1>6, <2>3
    <3>2. Return(IF want < want THEN Malformed
                 ELSE [tag |-> tag, body |-> SubSeq(in, pos + 1, pos + want)])
      BY <1>9, <2>4 DEF UnpackBody
    <3>. QED
      BY <3>1, <3>2 DEF Return
  <2>6. /\ pos + frames[f].size <= Len(in)
        /\ \A k \in 1..frames[f].size : in[pos + k] = <<f, HeaderSize + k>>
    BY <1>6, <2>2 DEF HeaderSize
  <2>. QED
    BY <1>1, <1>3, <1>7, <2>3, <2>5, <2>6, BodyIs
<1>10. \/ UNCHANGED <<pos, lim>>
       \/ \E n \in 1..(HeaderSize + MaxPayload) : ReadStream(n)
       \/ \E d \in grams \cup {Stray} : ReadDatagram(d)
       \/ UnpackHeader \/ UnpackBody
  BY DEF Next, TunRead, RangeEnds, Visit, PeerListed, PeerGone, Send, PackInto, Carry, Write,
         framing, reader
<1>. QED
  BY <1>3, <1>8, <1>9, <1>10 DEF ReadDatagram, ReadStream

(* A datagram that fits the buffer of the reader yields its packet.        *)
THEOREM DatagramsIndependentHolds == Spec => DatagramsIndependent
<1>1. IInv /\ [Next]_vars => [link = "udp" /\ pos < lim /\ pos' = lim' /\ in # Stray
                             /\ Len(in) <= BufSize => pkt' = Packet(in[1][1])]_vars
  BY DatagramStep
<1>. QED
  BY <1>1, Invariant, PTL DEF Spec, DatagramsIndependent

(* While reads end where packets do, a session returns its packets in      *)
(* order and misses none, whatever the sizes and however many write.       *)
THEOREM InOrderUntilSplitHolds == Spec => []InOrderUntilSplit
<1>1. Init => StreamInv
  BY StreamInitially
<1>2. IInv /\ StreamInv /\ [Next]_vars => StreamInv'
  BY StreamStep
<1>3. StreamInv => InOrderUntilSplit
  BY DEF StreamInv, InOrderUntilSplit
<1>. QED
  BY <1>1, <1>2, <1>3, Invariant, PTL DEF Spec
=============================================================================
