-------------------------- MODULE PlantLink_proofs --------------------------
(***************************************************************************)
(* Proofs about the plant's link, for every payload limit, checksum, client*)
(* and cut of the stream into chunks: the decoder and its counters belong  *)
(* to the bytes of the present connection, every one of those bytes is     *)
(* accounted for, and the link on bytes implements the queue of commands of*)
(* CommandQueue.                                                           *)
(***************************************************************************)
EXTENDS MCPlantLink, FrameDecoder_proofs

(* What a frame of the actuator type can unpack to. *)
CommandSet == Seq(Byte) \cup {ValueError}

(* What a frame contributes to the commands of a batch. *)
Ours(f) == IF f.frame_type = TYPE_ACTUATOR THEN <<Unpacked(f)>> ELSE << >>

(* It is a sequence of commands. *)
LEMMA OursType ==
    ASSUME NEW f \in DecodedFrame
    PROVE  Ours(f) \in Seq(CommandSet)
<1>1. Unpacked(f) \in CommandSet
  BY DEF Unpacked, CommandSet, DecodedFrame
<1> QED BY <1>1 DEF Ours

(* The commands of a batch are gathered frame by frame. *)
Contribution == [f \in DecodedFrame |-> Ours(f)]

(* CommandsIn satisfies the equation that defines it: it is such a         *)
(* gathering.                                                              *)
LEMMA CommandsDefined ==
    /\ Contribution \in [DecodedFrame -> Seq(CommandSet)]
    /\ Gathers(CommandsIn, DecodedFrame, Contribution)
<1> DEFINE Body(s, g) == IF s = << >> THEN << >> ELSE Ours(Head(s)) \o g[Tail(s)]
<1>1. Contribution \in [DecodedFrame -> Seq(CommandSet)]
  BY OursType DEF Contribution
<1>2. PICK g \in [Seq(DecodedFrame) -> Seq(CommandSet)] : Gathers(g, DecodedFrame, Contribution)
  BY <1>1, GatherExists
<1>3. ASSUME NEW s \in Frames, NEW h
      PROVE  Body(s, h) = IF s = << >> THEN << >> ELSE Contribution[Head(s)] \o h[Tail(s)]
  BY <1>3 DEF Frames, Contribution
<1>4. g = [s \in Frames |-> Body(s, g)]
  BY <1>2, <1>3 DEF Frames, Gathers
<1>5. CommandsIn = CHOOSE h : h = [s \in Frames |-> Body(s, h)]
  BY Zenon DEF CommandsIn, Ours, Frames
<1>6. CommandsIn = [s \in Frames |-> Body(s, CommandsIn)]
  <2> HIDE DEF Body
  <2> QED BY <1>4, <1>5
<1>7. \A s \in Frames : CommandsIn[s] = Body(s, CommandsIn)
  <2> HIDE DEF Body
  <2> QED BY <1>6
<1> QED BY <1>1, <1>3, <1>7 DEF Frames, Gathers

(* FrameBytes satisfies the equation that defines it. *)
LEMMA BytesDefined ==
    FrameBytes = [s \in Frames |->
        IF s = << >> THEN 0 ELSE OVERHEAD + Len(Head(s).payload) + FrameBytes[Tail(s)]]
<1> DEFINE comb == [p \in DecodedFrame \X Nat |-> OVERHEAD + Len(p[1].payload) + p[2]]
           Body(s, g) == IF s = << >> THEN 0 ELSE OVERHEAD + Len(Head(s).payload) + g[Tail(s)]
<1>1. comb \in [DecodedFrame \X Nat -> Nat]
  <2>1. \A f \in DecodedFrame, v \in Nat : OVERHEAD + Len(f.payload) + v \in Nat
    <3>1. OVERHEAD \in Nat
      BY DEF OVERHEAD, HEADER_SIZE, CRC_SIZE
    <3>2. \A f \in DecodedFrame : Len(f.payload) \in Nat
      BY DEF DecodedFrame
    <3> QED BY <3>1, <3>2
  <2> QED BY <2>1
<1>2. PICK g \in [Seq(DecodedFrame) -> Nat] : Along(g, DecodedFrame, 0, comb)
  <2> HIDE DEF comb
  <2> QED BY <1>1, SequenceRecursion
<1>3. ASSUME NEW s \in Frames PROVE g[s] = Body(s, g)
  <2>1. CASE s = << >>
    BY <2>1, <1>2 DEF Frames, Along
  <2>2. CASE s # << >>
    <3>1. Head(s) \in DecodedFrame /\ Tail(s) \in Seq(DecodedFrame)
      BY <2>2 DEF Frames
    <3>2. g[Tail(s)] \in Nat
      BY <3>1, <1>2
    <3>3. comb[<<Head(s), g[Tail(s)]>>] = OVERHEAD + Len(Head(s).payload) + g[Tail(s)]
      BY <3>1, <3>2
    <3> QED BY <2>2, <3>3, <1>2 DEF Frames, Along
  <2> QED BY <2>1, <2>2
<1>4. g = [s \in Frames |-> Body(s, g)]
  BY <1>2, <1>3 DEF Frames
<1>5. FrameBytes = CHOOSE h : h = [s \in Frames |-> Body(s, h)]
  BY Zenon DEF FrameBytes, Frames
<1> HIDE DEF Body
<1>6. FrameBytes = [s \in Frames |-> Body(s, FrameBytes)]
  BY <1>4, <1>5
<1> QED BY <1>6 DEF Body

(* A batch without frames has no commands. *)
LEMMA CommandsOfNone == CommandsIn[<< >>] = << >>
  BY CommandsDefined, GatherNothing

(* The length of a batch, first frame and rest. *)
LEMMA BytesStep ==
    /\ FrameBytes[<< >>] = 0
    /\ \A s \in Frames : s # << >> =>
          FrameBytes[s] = OVERHEAD + Len(Head(s).payload) + FrameBytes[Tail(s)]
<1> DEFINE Body(s) == IF s = << >> THEN 0
                      ELSE OVERHEAD + Len(Head(s).payload) + FrameBytes[Tail(s)]
<1>1. FrameBytes = [s \in Frames |-> Body(s)]
  BY BytesDefined, Zenon
<1>2. << >> \in Frames
  BY DEF Frames
<1> HIDE DEF Body
<1>3. \A s \in Frames : FrameBytes[s] = Body(s)
  BY <1>1
<1> QED BY <1>2, <1>3 DEF Body

(* A batch gives a sequence of commands. *)
LEMMA CommandsType ==
    ASSUME NEW s \in Frames
    PROVE  CommandsIn[s] \in Seq(CommandSet)
  BY CommandsDefined, GatherType DEF Frames

(* The commands of two batches are those of the first and then those of    *)
(* the second.                                                             *)
LEMMA CommandsConcat ==
    ASSUME NEW s \in Frames, NEW t \in Frames
    PROVE  CommandsIn[s \o t] = CommandsIn[s] \o CommandsIn[t]
<1>1. Splits(CommandsIn, DecodedFrame)
  BY CommandsDefined, GatherConcat
<1> QED BY <1>1 DEF Splits, Frames

(* The length of a batch is a number. *)
LEMMA BytesType ==
    ASSUME NEW s \in Frames
    PROVE  FrameBytes[s] \in Nat
<1> DEFINE S == {x \in Frames : FrameBytes[x] \in Nat}
<1>1. << >> \in S
  BY BytesStep DEF Frames
<1>2. ASSUME NEW x \in Frames, x # << >>, Tail(x) \in S PROVE x \in S
  <2>1. OVERHEAD \in Nat /\ Len(Head(x).payload) \in Nat
    <3>1. Head(x) \in DecodedFrame
      BY <1>2 DEF Frames
    <3> QED BY <3>1 DEF DecodedFrame, OVERHEAD, HEADER_SIZE, CRC_SIZE
  <2>2. FrameBytes[x] = OVERHEAD + Len(Head(x).payload) + FrameBytes[Tail(x)]
    BY <1>2, BytesStep
  <2> QED BY <2>1, <2>2, <1>2
<1>3. S \in SUBSET Seq(DecodedFrame)
  BY DEF Frames
<1> HIDE DEF S
<1>4. S = Seq(DecodedFrame)
  BY <1>1, <1>2, <1>3, SequenceInduction DEF Frames
<1> QED BY <1>4 DEF S, Frames

-----------------------------------------------------------------------------
(* The bytes that a pass and a drain account for. *)

(* The bytes that a decoder's buffer and counters stand for: a rejected    *)
(* frame costs its magic and leaves the rest to the scan.                  *)
Worth(d) == Len(d.buf) + d.bytes_dropped
              + 2 * (d.errors_crc + d.errors_size + d.errors_type)

(* The bytes that a pass over b takes into a frame. *)
InFrame(b) == IF PassOutcome(b) = "frame" THEN PassUsed(b) ELSE 0

(* A pass moves bytes from the buffer to the counters or to its frame. *)
LEMMA PassKeepsBytes ==
    ASSUME NEW d \in Decoder
    PROVE  Worth(d) = Worth(Passed(d)) + InFrame(d.buf)
<1> DEFINE b == d.buf
           how == PassOutcome(b)
           p == Passed(d)
           sk == Skipped(b)
           us == PassUsed(b)
           len == Len(b)
           lenp == Len(p.buf)
<1>1. /\ how \in {"more", "size", "type", "crc", "frame"}
      /\ len = lenp + sk + us
      /\ b \in Seq(Byte) /\ sk \in Nat /\ us \in Nat /\ len \in Nat /\ lenp \in Nat
  <2>1. b \in Seq(Byte)
    BY DEF Decoder
  <2>2. sk \in 0 .. Len(b) /\ Aligned(b) \in Seq(Byte) /\ us \in 0 .. Len(Aligned(b))
        /\ how \in {"more", "size", "type", "crc", "frame"}
    BY <2>1, AlignedFacts, OutcomeFacts
  <2>3. p \in Decoder /\ len = lenp + sk + us
    BY PassedFacts
  <2> QED BY <2>1, <2>2, <2>3 DEF Decoder
<1>2. d.errors_crc \in Nat /\ d.errors_size \in Nat /\ d.errors_type \in Nat /\ d.bytes_dropped \in Nat
  BY DEF Decoder
<1>3. /\ p.errors_crc = d.errors_crc + One(how = "crc")
      /\ p.errors_size = d.errors_size + One(how = "size")
      /\ p.errors_type = d.errors_type + One(how = "type")
      /\ p.bytes_dropped = d.bytes_dropped + sk
  BY PassedIs
<1>4. (how = "more" => us = 0) /\ (how \in {"size", "type", "crc"} => us = 2)
  BY DEF PassUsed, Used
<1>5. Worth(d) = len + d.bytes_dropped + 2 * (d.errors_crc + d.errors_size + d.errors_type)
      /\ Worth(p) = lenp + p.bytes_dropped + 2 * (p.errors_crc + p.errors_size + p.errors_type)
      /\ InFrame(b) = IF how = "frame" THEN us ELSE 0
  BY DEF Worth, InFrame
<1> HIDE DEF b, how, p, sk, us, len, lenp
<1>6. Worth(d) = Worth(p) + InFrame(b)
  <2>1. p.errors_crc \in Nat /\ p.errors_size \in Nat /\ p.errors_type \in Nat /\ p.bytes_dropped \in Nat
        /\ InFrame(b) \in Nat
    <3>1. p \in Decoder
      BY PassedFacts DEF p
    <3>2. InFrame(b) \in Nat
      BY <1>1, <1>5
    <3> QED BY <3>1, <3>2 DEF Decoder
  <2>2. us = 2 * ((p.errors_crc - d.errors_crc) + (p.errors_size - d.errors_size)
                    + (p.errors_type - d.errors_type)) + InFrame(b)
    <3> DEFINE x == One(how = "crc")
               y == One(how = "size")
               z == One(how = "type")
    <3>1. x \in Nat /\ y \in Nat /\ z \in Nat /\ us = 2 * (x + y + z) + InFrame(b)
      BY <1>1, <1>4, <1>5 DEF One
    <3> HIDE DEF x, y, z
    <3>2. /\ p.errors_crc - d.errors_crc = x
          /\ p.errors_size - d.errors_size = y
          /\ p.errors_type - d.errors_type = z
      BY <3>1, <1>2, <1>3 DEF x, y, z
    <3> QED BY <3>1, <3>2
  <2>3. p.bytes_dropped = d.bytes_dropped + sk
    BY <1>3
  <2>4. len + d.bytes_dropped + 2 * (d.errors_crc + d.errors_size + d.errors_type)
          = lenp + p.bytes_dropped + 2 * (p.errors_crc + p.errors_size + p.errors_type)
              + InFrame(b)
    <3> DEFINE c == d.errors_crc
               z == d.errors_size
               t == d.errors_type
               n == d.bytes_dropped
               c1 == p.errors_crc
               z1 == p.errors_size
               t1 == p.errors_type
               n1 == p.bytes_dropped
               i == InFrame(b)
    <3>1. /\ c \in Nat /\ z \in Nat /\ t \in Nat /\ n \in Nat /\ c1 \in Nat /\ z1 \in Nat
          /\ t1 \in Nat /\ n1 \in Nat /\ i \in Nat /\ n1 = n + sk
          /\ us = 2 * ((c1 - c) + (z1 - z) + (t1 - t)) + i
      BY <1>2, <2>1, <2>2, <2>3
    <3> HIDE DEF c, z, t, n, c1, z1, t1, n1, i
    <3>2. len + n + 2 * (c + z + t) = lenp + n1 + 2 * (c1 + z1 + t1) + i
      BY <3>1, <1>1
    <3> QED BY <3>2 DEF c, z, t, n, c1, z1, t1, n1, i
  <2>5. /\ Worth(d) = len + d.bytes_dropped + 2 * (d.errors_crc + d.errors_size + d.errors_type)
        /\ Worth(p) = lenp + p.bytes_dropped + 2 * (p.errors_crc + p.errors_size + p.errors_type)
    BY <1>5
  <2> QED BY <2>4, <2>5, Zenon
<1> QED BY <1>6 DEF p, b

(* So a whole drain moves them to the counters or to its frames. *)
LEMMA DrainKeepsBytes ==
    ASSUME NEW d \in Decoder
    PROVE  Worth(d) = Worth(Drain(d).dec) + FrameBytes[Drain(d).frames]
<1> DEFINE Kept(x) == Worth(x) = Worth(Drain(x).dec) + FrameBytes[Drain(x).frames]
           S == {x \in Decoder : Kept(x)}
<1>0. ASSUME NEW x \in Decoder PROVE Worth(x) \in Nat
  <2>1. Len(x.buf) \in Nat /\ x.errors_crc \in Nat /\ x.errors_size \in Nat
        /\ x.errors_type \in Nat /\ x.bytes_dropped \in Nat
    BY DEF Decoder
  <2>2. \A a, b, c, e, f \in Nat : a + b + 2 * (c + e + f) \in Nat
    OBVIOUS
  <2> QED BY <2>1, <2>2 DEF Worth
<1>1. ASSUME NEW x \in Decoder, PassOutcome(x.buf) # "more" => Passed(x) \in S
      PROVE  x \in S
  <2>1. Worth(x) = Worth(Passed(x)) + InFrame(x.buf)
    BY PassKeepsBytes
  <2>2. CASE PassOutcome(x.buf) = "more"
    <3>1. Drain(x) = [dec |-> Passed(x), frames |-> << >>]
      BY <2>2, DrainStep
    <3>2. Drain(x).dec = Passed(x) /\ Drain(x).frames = << >>
      BY <3>1
    <3>3. InFrame(x.buf) = 0 /\ FrameBytes[<< >>] = 0
      BY <2>2, BytesStep DEF InFrame
    <3> QED BY <2>1, <3>2, <3>3
  <2>3. CASE PassOutcome(x.buf) # "more"
    <3> DEFINE p == Passed(x)
               f == PassFrame(x.buf)
               rest == Drain(p).frames
    <3>1. Drain(x) = [dec |-> Drain(p).dec, frames |-> f \o rest]
      BY <2>3, DrainStep
    <3>2. p \in Decoder /\ f \in Frames /\ x.buf \in Seq(Byte)
      BY PassedFacts DEF Frames, Decoder
    <3>3. rest \in Frames /\ Drain(p).dec \in Decoder
      BY <3>2, DrainType DEF Drained, Frames
    <3> HIDE DEF rest
    <3>4. Drain(x).dec = Drain(p).dec /\ Drain(x).frames = f \o rest
      BY <3>1
    <3>5. FrameBytes[f \o rest] = InFrame(x.buf) + FrameBytes[rest]
      <4>1. CASE PassOutcome(x.buf) = "frame"
        <5>1. PICK g \in DecodedFrame : f = <<g>> /\ PassUsed(x.buf) = OVERHEAD + Len(g.payload)
          BY <4>1, <3>2, FrameFacts
        <5>2. <<g>> \o rest \in Frames /\ <<g>> \o rest # << >>
              /\ Head(<<g>> \o rest) = g /\ Tail(<<g>> \o rest) = rest
          BY <3>3 DEF Frames
        <5>3. FrameBytes[<<g>> \o rest] = OVERHEAD + Len(g.payload) + FrameBytes[rest]
          BY <5>2, BytesStep
        <5> QED BY <4>1, <5>1, <5>3 DEF InFrame
      <4>2. CASE PassOutcome(x.buf) # "frame"
        <5>1. f = << >> /\ InFrame(x.buf) = 0
          BY <4>2 DEF PassFrame, FrameOf, InFrame
        <5>2. << >> \o rest = rest
          BY <3>3 DEF Frames
        <5>3. FrameBytes[rest] \in Nat
          BY <3>3, BytesType
        <5> QED BY <5>1, <5>2, <5>3
      <4> QED BY <4>1, <4>2
    <3>6. Worth(p) = Worth(Drain(p).dec) + FrameBytes[rest]
      BY <2>3, <1>1 DEF rest
    <3>7. Worth(Drain(p).dec) \in Nat /\ FrameBytes[rest] \in Nat /\ InFrame(x.buf) \in Nat
      <4>1. PassUsed(x.buf) \in 0 .. Len(Aligned(x.buf))
        BY <3>2, OutcomeFacts
      <4>2. InFrame(x.buf) \in Nat
        BY <4>1 DEF InFrame
      <4> QED BY <4>2, <3>3, <1>0, BytesType
    <3> HIDE DEF p, f
    <3>8. Worth(x) = Worth(Drain(x).dec) + FrameBytes[Drain(x).frames]
      <4>1. Worth(x) = Worth(p) + InFrame(x.buf)
        BY <2>1 DEF p
      <4> QED BY <4>1, <3>4, <3>5, <3>6, <3>7
    <3> QED BY <3>8
  <2> QED BY <2>2, <2>3
<1>2. S = Decoder
  <2>1. S \in SUBSET Decoder
    OBVIOUS
  <2> HIDE DEF S
  <2> QED BY <1>1, <2>1, PassInduction
<1> QED BY <1>2

-----------------------------------------------------------------------------
(* The counters of the link. *)

(* The statistics of the link. *)
LinkStats == [sensor_frames_sent : Nat, actuator_frames_received : Nat,
              errors_crc : Nat, errors_size : Nat, errors_type : Nat,
              bytes_dropped : Nat]

(* The mirrored counters are the decoder's. *)
Agree(st, d) ==
    /\ st.errors_crc = d.errors_crc /\ st.errors_size = d.errors_size
    /\ st.errors_type = d.errors_type /\ st.bytes_dropped = d.bytes_dropped

(* _merge_stats makes them so, and has nothing to do where they are. *)
LEMMA MergedFacts ==
    ASSUME NEW st \in LinkStats, NEW d \in Decoder
    PROVE  /\ Merged(st, d) \in LinkStats /\ Agree(Merged(st, d), d)
           /\ Agree(st, d) => st = Merged(st, d)
           /\ Counted(st) \in LinkStats
           /\ Agree(st, d) => Agree(Counted(st), d)
<1>1. d.errors_crc \in Nat /\ d.errors_size \in Nat /\ d.errors_type \in Nat /\ d.bytes_dropped \in Nat
  BY DEF Decoder
<1>2. Merged(st, d) = [st EXCEPT !.errors_crc = d.errors_crc, !.errors_size = d.errors_size,
               !.errors_type = d.errors_type, !.bytes_dropped = d.bytes_dropped]
  BY DEF Merged
<1>3. Merged(st, d) \in LinkStats
  BY <1>1, <1>2 DEF LinkStats
<1>4. /\ Agree(Merged(st, d), d)
      /\ Merged(st, d).sensor_frames_sent = st.sensor_frames_sent
      /\ Merged(st, d).actuator_frames_received = st.actuator_frames_received
  BY <1>1, <1>2 DEF LinkStats, Agree
<1>5. ASSUME NEW a \in LinkStats, NEW b \in LinkStats, Agree(a, d), Agree(b, d),
             a.sensor_frames_sent = b.sensor_frames_sent,
             a.actuator_frames_received = b.actuator_frames_received
      PROVE  a = b
  BY <1>5 DEF LinkStats, Agree
<1>6. Agree(st, d) => st = Merged(st, d)
  BY <1>3, <1>4, <1>5
<1>7. Counted(st) \in LinkStats /\ (Agree(st, d) => Agree(Counted(st), d))
  BY DEF Counted, LinkStats, Agree
<1> QED BY <1>3, <1>4, <1>6, <1>7

-----------------------------------------------------------------------------
(* The decoder of a connection. *)

(* What has been received on connection c. *)
Got(c) == IF c = None THEN << >> ELSE SubSeq(c.sent, 1, c.read)

(* The bytes that are sent and not yet received. *)
Left(c) == IF c = None THEN << >> ELSE SubSeq(c.sent, c.read + 1, Len(c.sent))

(* What a new decoder makes of all that has been received. *)
Whole(c) == Drain(Feed(NewDecoder, Got(c)))

(* The decoder is the one that the bytes of c make. *)
Belongs(c, d) == c # None => d = Whole(c).dec

-----------------------------------------------------------------------------
(* The invariant of the link. *)

(* A place for a connection is empty or holds one. *)
Held(c) == c = None \/ c \in Connection

(* The types of the link's state. *)
LinkType ==
    /\ Held(backlog) /\ Held(conn)
    /\ dec \in Decoder
    /\ stats \in LinkStats
    /\ pc \in {"idle", "recv"}

(* Its inductive invariant: nothing is read before accept, a receive call  *)
(* has a connection, the decoder belongs to it, and between two calls the  *)
(* mirrored counters are the decoder's once anything was received.         *)
LinkInv ==
    /\ LinkType
    /\ backlog # None => backlog.read = 0
    /\ conn # None => conn.read <= Len(conn.sent)
    /\ pc = "recv" => conn # None
    /\ Belongs(conn, dec)
    /\ conn # None /\ pc = "idle" /\ Got(conn) # << >> => Agree(stats, dec)

(* What the client can do to a connection that it holds. *)
Touched(c, c1) ==
    /\ c \in Connection /\ c1 \in Connection
    /\ c1.read = c.read
    /\ c.open
    /\ \/ c1.open /\ \E seg \in Seq(Byte) : c1.sent = c.sent \o seg
       \/ ~c1.open /\ c1.sent \in {c.sent, SubSeq(c.sent, 1, c.read)}

(* A connection is not the empty place, and its two parts are bytes. *)
LEMMA Parts ==
    ASSUME NEW c \in Connection
    PROVE  /\ c # None /\ c.sent \in Seq(Byte) /\ c.read \in Nat /\ Len(c.sent) \in Nat
           /\ Got(c) = SubSeq(c.sent, 1, c.read)
           /\ Left(c) = SubSeq(c.sent, c.read + 1, Len(c.sent))
           /\ c.read <= Len(c.sent) => Got(c) \in Seq(Byte)
           /\ Left(c) \in Seq(Byte)
<1>1. c # None
  BY LinkAssumption
<1>2. c.sent \in Seq(Byte) /\ c.read \in Nat
  BY DEF Connection
<1>3. Got(c) = SubSeq(c.sent, 1, c.read) /\ Left(c) = SubSeq(c.sent, c.read + 1, Len(c.sent))
  BY <1>1 DEF Got, Left
<1> QED BY <1>1, <1>2, <1>3

(* What the client does leaves what has been received as it is. *)
LEMMA TouchedFacts ==
    ASSUME NEW c, NEW c1, Touched(c, c1), c.read <= Len(c.sent)
    PROVE  /\ c # None /\ c1 # None
           /\ c1.read <= Len(c1.sent)
           /\ Got(c1) = Got(c)
<1>1. c \in Connection /\ c1 \in Connection /\ c1.read = c.read
  BY DEF Touched
<1>2. /\ c # None /\ c1 # None /\ c.sent \in Seq(Byte) /\ c1.sent \in Seq(Byte)
      /\ c.read \in Nat /\ Len(c.sent) \in Nat
      /\ Got(c) = SubSeq(c.sent, 1, c.read) /\ Got(c1) = SubSeq(c1.sent, 1, c.read)
  BY <1>1, Parts
<1> DEFINE s == c.sent
           t == c1.sent
           n == c.read
<1> HIDE DEF s, t, n
<1>3. s \in Seq(Byte) /\ t \in Seq(Byte) /\ n \in Nat /\ n <= Len(s)
  BY <1>2 DEF s, t, n
<1>4. n <= Len(t) /\ SubSeq(t, 1, n) = SubSeq(s, 1, n)
  <2>1. CASE \E seg \in Seq(Byte) : t = s \o seg
    <3>1. PICK seg \in Seq(Byte) : t = s \o seg
      BY <2>1
    <3>2. Len(t) = Len(s) + Len(seg) /\ \A i \in 1 .. n : t[i] = s[i]
      BY <1>3, <3>1
    <3>3. n <= Len(t)
      BY <1>3, <3>2
    <3> QED BY <1>3, <3>2, <3>3
  <2>2. CASE t = SubSeq(s, 1, n)
    BY <1>3, <2>2
  <2>3. CASE t = s
    BY <1>3, <2>3
  <2> QED BY <2>1, <2>2, <2>3 DEF Touched, s, t, n
<1> QED BY <1>1, <1>2, <1>4 DEF s, t, n

(* The client's steps touch one connection, and nothing of the plant. *)
LEMMA ClientShape ==
    ASSUME LinkInv,
           \/ \E seg \in Segments : ClientSend(seg)
           \/ \E reset \in BOOLEAN : ClientClose(reset)
    PROVE  /\ \/ Touched(backlog, backlog') /\ conn' = conn
              \/ Touched(conn, conn') /\ backlog' = backlog
           /\ UNCHANGED <<listening, dec, stats, pc, answer, connections>>
<1>1. ASSUME NEW c, c # None, Held(c) PROVE c \in Connection
  BY <1>1 DEF Held
<1>2. ASSUME NEW seg \in Segments, ClientSend(seg)
      PROVE  /\ \/ Touched(backlog, backlog') /\ conn' = conn
                \/ Touched(conn, conn') /\ backlog' = backlog
             /\ UNCHANGED <<listening, dec, stats, pc, answer, connections>>
  <2> DEFINE D == {backlog, conn} \ {None}
             change == [c \in D |-> [c EXCEPT !.sent = @ \o seg]]
  <2>1. ClientDoes(change)
    BY <1>2 DEF ClientSend
  <2>2. seg \in Seq(Byte)
    BY LinkAssumption
  <2>3. ASSUME NEW c \in D, Live(c) PROVE Touched(c, change[c])
    <3>1. c \in Connection
      BY <2>3, <1>1 DEF LinkInv, LinkType
    <3>2. change[c] = [c EXCEPT !.sent = c.sent \o seg]
      OBVIOUS
    <3>3. c.sent \o seg \in Seq(Byte)
      BY <3>1, <2>2 DEF Connection
    <3>4. /\ change[c] \in Connection /\ change[c].read = c.read /\ change[c].sent = c.sent \o seg
          /\ change[c].open = c.open
      BY <3>1, <3>2, <3>3 DEF Connection
    <3>5. c.open
      BY <2>3 DEF Live
    <3> HIDE DEF change
    <3> QED BY <3>1, <3>4, <3>5, <2>2 DEF Touched
  <2> HIDE DEF change
  <2> QED BY <2>1, <2>3 DEF ClientDoes, Live
<1>3. ASSUME NEW reset \in BOOLEAN, ClientClose(reset)
      PROVE  /\ \/ Touched(backlog, backlog') /\ conn' = conn
                \/ Touched(conn, conn') /\ backlog' = backlog
             /\ UNCHANGED <<listening, dec, stats, pc, answer, connections>>
  <2> DEFINE D == {backlog, conn} \ {None}
             Kept(c) == IF reset THEN SubSeq(c.sent, 1, c.read) ELSE c.sent
             change == [c \in D |-> [c EXCEPT !.open = FALSE, !.sent =
                          IF reset THEN SubSeq(@, 1, c.read) ELSE @]]
  <2>1. ClientDoes(change)
    BY <1>3 DEF ClientClose
  <2>2. ASSUME NEW c \in D, Live(c) PROVE Touched(c, change[c])
    <3>1. c \in Connection
      BY <2>2, <1>1 DEF LinkInv, LinkType
    <3>2. change[c] = [c EXCEPT !.open = FALSE, !.sent = Kept(c)]
      BY Zenon
    <3>3. c.sent \in Seq(Byte) /\ c.read \in Nat
      BY <3>1 DEF Connection
    <3>4. change[c].sent = Kept(c) /\ change[c].read = c.read /\ change[c].open = FALSE
      <4> HIDE DEF Kept, change
      <4> QED BY <3>1, <3>2 DEF Connection
    <3>5. c \in Connection /\ change[c] \in Connection
      <4>1. c.read <= Len(c.sent)
        BY <2>2, <3>3 DEF LinkInv
      <4>2. Kept(c) \in Seq(Byte)
        BY <3>3, <4>1
      <4> HIDE DEF Kept, change
      <4> QED BY <3>1, <3>2, <4>2 DEF Connection
    <3>6. change[c].sent \in {c.sent, SubSeq(c.sent, 1, c.read)} /\ c.open
      BY <3>4, <2>2 DEF Live
    <3> HIDE DEF change
    <3> QED BY <3>4, <3>5, <3>6 DEF Touched
  <2> HIDE DEF change
  <2> QED BY <2>1, <2>2 DEF ClientDoes, Live
<1> QED BY <1>2, <1>3

(* A connection that nothing was received on leaves the decoder new. *)
LEMMA NothingGot ==
    ASSUME NEW c, c = None \/ (c \in Connection /\ c.read = 0)
    PROVE  Got(c) = << >> /\ Belongs(c, NewDecoder)
<1>1. Got(c) = << >>
  <2>1. CASE c = None
    BY <2>1 DEF Got
  <2>2. CASE c \in Connection /\ c.read = 0
    BY <2>2, Parts
  <2> QED BY <2>1, <2>2
<1>2. Whole(c) = [dec |-> NewDecoder, frames |-> << >>]
  BY <1>1, NewFacts, FeedNothing DEF Whole
<1> QED BY <1>1, <1>2 DEF Belongs

(* While there is a connection, its decoder has been drained. *)
LEMMA NothingHeld ==
    ASSUME LinkInv, conn # None
    PROVE  /\ Drain(dec) = [dec |-> dec, frames |-> << >>]
           /\ conn \in Connection /\ Got(conn) \in Seq(Byte)
           /\ dec = Whole(conn).dec
<1>1. conn \in Connection /\ conn.read <= Len(conn.sent)
  BY DEF LinkInv, LinkType, Held
<1>2. Got(conn) \in Seq(Byte)
  BY <1>1, Parts
<1>3. Feed(NewDecoder, Got(conn)) \in Decoder
  BY <1>2, NewFacts, FeedIs
<1>4. dec = Whole(conn).dec
  BY DEF LinkInv, Belongs
<1>5. Drain(dec) = [dec |-> dec, frames |-> << >>]
  BY <1>3, <1>4, DrainEnds DEF Whole
<1> QED BY <1>1, <1>2, <1>4, <1>5

(* recv_actuator finds nothing in the decoder when it is called: all of a  *)
(* batch has been drained with its first command.                          *)
LEMMA RecvCallShape ==
    ASSUME LinkInv, RecvCall
    PROVE  /\ pc = "idle" /\ conn # None /\ pc' = "recv"
           /\ UNCHANGED <<listening, backlog, conn, dec, stats, answer>>
<1>1. pc = "idle" /\ conn # None
  BY DEF RecvCall
<1>2. Drain(dec) = [dec |-> dec, frames |-> << >>]
  BY <1>1, NothingHeld
<1>3. Drain(dec).dec = dec /\ Drain(dec).frames = << >>
  BY <1>2
<1>4. CommandsIn[<< >>] = << >>
  BY CommandsOfNone
<1> QED BY <1>1, <1>3, <1>4 DEF RecvCall

(* A stretch of a sequence is its first part and then the rest. *)
LEMMA Cut ==
    ASSUME NEW B, NEW s \in Seq(B), NEW p \in Nat, NEW m \in Nat, NEW q \in Nat,
           1 <= p, p <= m + 1, p <= q, m <= q, q <= Len(s)
    PROVE  SubSeq(s, p, q) = SubSeq(s, p, m) \o SubSeq(s, m + 1, q)
  OBVIOUS

(* The first n elements from p on. *)
LEMMA FirstOfRest ==
    ASSUME NEW B, NEW s \in Seq(B), NEW p \in Nat, NEW n \in Nat,
           1 <= p, n <= Len(s) - p + 1
    PROVE  SubSeq(SubSeq(s, p, Len(s)), 1, n) = SubSeq(s, p, p + n - 1)
  OBVIOUS

(* The n bytes that recv returns, and what is left behind them. *)
LEMMA ReceivedChunk ==
    ASSUME NEW c \in Connection, c.read <= Len(c.sent),
           NEW n \in Nat, n >= 1, n <= Len(Left(c))
    PROVE  LET z  == SubSeq(Left(c), 1, n)
               c1 == [c EXCEPT !.read = @ + n]
           IN  /\ c1 \in Connection /\ c1.read <= Len(c1.sent)
               /\ z \in Seq(Byte) /\ Left(c1) \in Seq(Byte)
               /\ Got(c1) = Got(c) \o z
               /\ Left(c) = z \o Left(c1)
<1> DEFINE s == c.sent
           r == c.read
           c1 == [c EXCEPT !.read = @ + n]
           z == SubSeq(Left(c), 1, n)
<1>1. /\ s \in Seq(Byte) /\ r \in Nat /\ r <= Len(s) /\ Len(s) \in Nat
      /\ Got(c) = SubSeq(s, 1, r)
      /\ Left(c) = SubSeq(s, r + 1, Len(s))
  BY Parts
<1>2. c1 \in Connection /\ c1.sent = s /\ c1.read = r + n
  <2>1. r + n \in Nat
    BY <1>1
  <2> QED BY <2>1 DEF Connection
<1> HIDE DEF c1
<1>3. Got(c1) = SubSeq(s, 1, r + n) /\ Left(c1) = SubSeq(s, (r + n) + 1, Len(s))
      /\ Left(c1) \in Seq(Byte)
  BY <1>2, Parts
<1>4. n <= Len(Left(c))
  OBVIOUS
<1> HIDE DEF s, r
<1>5. r + n \in Nat /\ r + 1 \in Nat /\ r + n <= Len(s)
  <2>1. Len(SubSeq(s, r + 1, Len(s))) = Len(s) - r
    BY <1>1
  <2> QED BY <1>1, <1>4, <2>1
<1>6. z = SubSeq(s, r + 1, r + n)
  <2>1. (r + 1) + n - 1 = r + n /\ n <= Len(s) - (r + 1) + 1 /\ 1 <= r + 1
    BY <1>1, <1>5
  <2>2. SubSeq(SubSeq(s, r + 1, Len(s)), 1, n) = SubSeq(s, r + 1, (r + 1) + n - 1)
    BY <1>1, <1>5, <2>1, FirstOfRest
  <2> QED BY <1>1, <2>1, <2>2
<1>7. z \in Seq(Byte)
  BY <1>1, <1>5, <1>6
<1>8. SubSeq(s, 1, r + n) = SubSeq(s, 1, r) \o SubSeq(s, r + 1, r + n)
  <2>1. 1 <= r + 1 /\ 1 <= r + n /\ r <= r + n
    BY <1>1
  <2> QED BY <1>1, <1>5, <2>1, Cut
<1>9. SubSeq(s, r + 1, Len(s)) = SubSeq(s, r + 1, r + n) \o SubSeq(s, (r + n) + 1, Len(s))
  <2>1. 1 <= r + 1 /\ r + 1 <= (r + n) + 1 /\ r + 1 <= Len(s)
    BY <1>1, <1>5
  <2> QED BY <1>1, <1>5, <2>1, Cut
<1>10. Got(c1) = Got(c) \o z /\ Left(c) = z \o Left(c1)
  BY <1>1, <1>3, <1>6, <1>8, <1>9
<1>11. c1.read <= Len(c1.sent)
  BY <1>2, <1>5
<1> QED BY <1>2, <1>3, <1>7, <1>10, <1>11 DEF c1

(* A chunk received: the decoder goes on where it stood. *)
LEMMA RecvChunkShape ==
    ASSUME LinkInv, NEW n \in 1 .. CHUNK, RecvChunk(n)
    PROVE  LET z     == SubSeq(Left(conn), 1, n)
               batch == Drain(Feed(dec, z))
               ours  == CommandsIn[batch.frames]
           IN  /\ conn \in Connection /\ conn' \in Connection
               /\ conn'.read <= Len(conn'.sent) /\ conn'.open = conn.open
               /\ z \in Seq(Byte) /\ Left(conn') \in Seq(Byte)
               /\ Got(conn) \in Seq(Byte)
               /\ Got(conn') = Got(conn) \o z
               /\ Left(conn) = z \o Left(conn')
               /\ dec' = batch.dec /\ dec' \in Decoder /\ batch.frames \in Frames
               /\ backlog' = backlog
               /\ ours = << >> => pc' = "recv" /\ answer' = answer /\ stats' = stats
               /\ ours # << >> => /\ pc' = "idle" /\ answer' = ours[1]
                                  /\ stats' = Counted(Merged(stats, dec'))
<1> DEFINE z == SubSeq(Left(conn), 1, n)
           batch == Drain(Feed(dec, z))
           ours == CommandsIn[batch.frames]
<1>1. pc = "recv" /\ conn # None
  BY DEF RecvChunk, LinkInv
<1>2. conn \in Connection /\ Got(conn) \in Seq(Byte) /\ conn.read <= Len(conn.sent)
  BY <1>1, NothingHeld DEF LinkInv
<1>3. Unread = Left(conn)
  BY <1>1 DEF Unread, Left
<1>4. n \in Nat /\ n >= 1 /\ n <= Len(Left(conn)) /\ conn' = [conn EXCEPT !.read = @ + n]
  BY <1>3, LinkAssumption DEF RecvChunk
<1>5. /\ conn' \in Connection /\ conn'.read <= Len(conn'.sent)
      /\ z \in Seq(Byte) /\ Left(conn') \in Seq(Byte)
      /\ Got(conn') = Got(conn) \o z
      /\ Left(conn) = z \o Left(conn')
  BY <1>2, <1>4, ReceivedChunk
<1>6. /\ dec' = batch.dec /\ backlog' = backlog
      /\ pc' = IF ours # << >> THEN "idle" ELSE "recv"
      /\ answer' = IF ours # << >> THEN ours[1] ELSE answer
      /\ stats' = IF ours # << >> THEN Counted(Merged(stats, dec')) ELSE stats
  BY <1>3 DEF RecvChunk
<1>7. dec \in Decoder
  BY DEF LinkInv, LinkType
<1> HIDE DEF z
<1>8. Feed(dec, z) \in Decoder
  BY <1>5, <1>7, FeedIs
<1>9. batch.dec \in Decoder /\ batch.frames \in Frames
  BY <1>8, DrainType DEF Drained, Frames
<1>10. conn'.open = conn.open
  BY <1>2, <1>4 DEF Connection
<1> HIDE DEF batch, ours
<1> QED BY <1>2, <1>5, <1>6, <1>9, <1>10 DEF z, batch, ours

(* A link that has just been made satisfies it. *)
LEMMA LinkInvInit == Init => LinkInv
<1> SUFFICES ASSUME Init PROVE LinkInv
  OBVIOUS
<1>1. /\ backlog = None /\ conn = None /\ dec = NewDecoder /\ stats = NewStats /\ pc = "idle"
  BY DEF Init
<1>2. stats \in LinkStats
  BY <1>1 DEF NewStats, LinkStats
<1>3. dec \in Decoder
  BY <1>1, NewFacts
<1> QED BY <1>1, <1>2, <1>3 DEF LinkInv, LinkType, Held, Belongs

(* Every step of the link and of its clients keeps it. *)
LEMMA LinkInvStep == LinkInv /\ [Next]_vars => LinkInv'
<1> SUFFICES ASSUME LinkInv, [Next]_vars PROVE LinkInv'
  OBVIOUS
<1>1. /\ Held(backlog) /\ Held(conn) /\ dec \in Decoder /\ stats \in LinkStats
      /\ pc \in {"idle", "recv"}
      /\ backlog # None => backlog.read = 0
      /\ conn # None => conn.read <= Len(conn.sent)
      /\ pc = "recv" => conn # None
      /\ Belongs(conn, dec)
      /\ conn # None /\ pc = "idle" /\ Got(conn) # << >> => Agree(stats, dec)
  BY DEF LinkInv, LinkType
<1>2. ASSUME /\ Held(backlog') /\ Held(conn') /\ dec' \in Decoder /\ stats' \in LinkStats
             /\ pc' \in {"idle", "recv"}
             /\ backlog' # None => backlog'.read = 0
             /\ conn' # None => conn'.read <= Len(conn'.sent)
             /\ pc' = "recv" => conn' # None
             /\ Belongs(conn', dec')
             /\ conn' # None /\ pc' = "idle" /\ Got(conn') # << >> => Agree(stats', dec')
      PROVE  LinkInv'
  BY <1>2 DEF LinkInv, LinkType, Held, Belongs, Whole, Got, Agree
<1>3. CASE ClientConnect
  <2>1. /\ backlog' = [sent |-> << >>, read |-> 0, open |-> TRUE]
        /\ conn' = conn /\ dec' = dec /\ stats' = stats /\ pc' = pc
    BY <1>3 DEF ClientConnect
  <2>2. backlog' \in Connection /\ backlog'.read = 0
    BY <2>1 DEF Connection
  <2>3. Held(backlog')
    BY <2>2 DEF Held
  <2> QED BY <1>1, <1>2, <2>1, <2>2, <2>3
<1>4. CASE \/ \E seg \in Segments : ClientSend(seg)
           \/ \E reset \in BOOLEAN : ClientClose(reset)
  <2>1. /\ \/ Touched(backlog, backlog') /\ conn' = conn
           \/ Touched(conn, conn') /\ backlog' = backlog
        /\ dec' = dec /\ stats' = stats /\ pc' = pc
    BY <1>4, ClientShape
  <2>2. CASE Touched(backlog, backlog') /\ conn' = conn
    <3>1. backlog \in Connection /\ backlog' \in Connection /\ backlog'.read = backlog.read
      BY <2>2 DEF Touched
    <3>2. backlog # None /\ Held(backlog')
      BY <3>1, Parts DEF Held
    <3> QED BY <1>1, <1>2, <2>1, <2>2, <3>1, <3>2
  <2>3. CASE Touched(conn, conn') /\ backlog' = backlog
    <3>1. conn \in Connection /\ conn' \in Connection
      BY <2>3 DEF Touched
    <3>2. conn # None /\ Held(conn')
      BY <3>1, Parts DEF Held
    <3>3. conn' # None /\ conn'.read <= Len(conn'.sent) /\ Got(conn') = Got(conn)
      BY <1>1, <2>3, <3>2, TouchedFacts
    <3>4. Belongs(conn', dec')
      BY <1>1, <2>1, <3>2, <3>3 DEF Belongs, Whole
    <3> QED BY <1>1, <1>2, <2>1, <2>3, <3>2, <3>3, <3>4
  <2> QED BY <2>1, <2>2, <2>3
<1>5. CASE Listen
  <2>1. backlog' = backlog /\ conn' = conn /\ dec' = dec /\ stats' = stats /\ pc' = pc
    BY <1>5 DEF Listen
  <2> QED BY <1>1, <1>2, <2>1
<1>6. CASE Accept
  <2>1. /\ backlog # None /\ conn' = backlog /\ backlog' = None /\ dec' = NewDecoder
        /\ stats' = stats /\ pc' = pc /\ pc = "idle"
    BY <1>6 DEF Accept
  <2>2. conn' \in Connection /\ conn'.read = 0
    BY <1>1, <2>1 DEF Held
  <2>3. Got(conn') = << >> /\ Belongs(conn', NewDecoder) /\ conn'.read <= Len(conn'.sent)
    BY <2>2, NothingGot, Parts
  <2>4. Held(conn') /\ Held(backlog') /\ dec' \in Decoder
    BY <2>1, <2>2, NewFacts DEF Held
  <2> QED BY <1>1, <1>2, <2>1, <2>2, <2>3, <2>4
<1>7. CASE Close
  <2>1. /\ backlog' = None /\ conn' = None /\ dec' = dec /\ stats' = stats
        /\ pc' = pc /\ pc = "idle"
    BY <1>7 DEF Close
  <2>2. Held(backlog') /\ Held(conn') /\ Belongs(conn', dec')
    BY <2>1 DEF Held, Belongs
  <2> QED BY <1>1, <1>2, <2>1, <2>2
<1>8. CASE SendSensor
  <2>1. /\ backlog' = backlog /\ conn' = conn /\ dec' = dec /\ pc' = pc
        /\ stats' = [stats EXCEPT !.sensor_frames_sent = @ + 1]
    BY <1>8 DEF SendSensor
  <2>2. stats' \in LinkStats /\ (Agree(stats, dec) => Agree(stats', dec'))
    BY <1>1, <2>1 DEF LinkStats, Agree
  <2> QED BY <1>1, <1>2, <2>1, <2>2
<1>9. CASE RecvCall
  <2>1. /\ conn # None /\ pc' = "recv"
        /\ backlog' = backlog /\ conn' = conn /\ dec' = dec /\ stats' = stats
    BY <1>9, RecvCallShape
  <2> QED BY <1>1, <1>2, <2>1
<1>10. CASE RecvNothing
  <2>1. /\ pc = "recv" /\ pc' = "idle" /\ stats' = Merged(stats, dec)
        /\ backlog' = backlog /\ conn' = conn /\ dec' = dec
    BY <1>10 DEF RecvNothing
  <2>2. stats' \in LinkStats /\ Agree(stats', dec')
    BY <1>1, <2>1, MergedFacts
  <2> QED BY <1>1, <1>2, <2>1, <2>2
<1>11. ASSUME NEW n \in 1 .. CHUNK, RecvChunk(n) PROVE LinkInv'
  <2> DEFINE z == SubSeq(Left(conn), 1, n)
             batch == Drain(Feed(dec, z))
             ours == CommandsIn[batch.frames]
  <2>1. /\ conn \in Connection /\ conn' \in Connection
        /\ conn'.read <= Len(conn'.sent)
        /\ z \in Seq(Byte) /\ Got(conn) \in Seq(Byte)
        /\ Got(conn') = Got(conn) \o z
        /\ dec' = batch.dec /\ dec' \in Decoder
        /\ backlog' = backlog
        /\ ours = << >> => pc' = "recv" /\ stats' = stats
        /\ ours # << >> => pc' = "idle" /\ stats' = Counted(Merged(stats, dec'))
    BY <1>11, RecvChunkShape
  <2> HIDE DEF z, ours
  <2>2. conn # None /\ conn' # None /\ Held(conn')
    BY <2>1, Parts DEF Held
  <2>3. Belongs(conn', dec')
    <3>1. dec = Whole(conn).dec
      BY <1>1, <2>2 DEF Belongs
    <3>2. Drain(Feed(NewDecoder, Got(conn) \o z)).dec = Drain(Feed(Whole(conn).dec, z)).dec
      BY <2>1, NewFacts, ChunksDoNotMatter DEF Whole
    <3> QED BY <2>1, <3>1, <3>2 DEF Belongs, Whole
  <2> HIDE DEF batch
  <2>4. CASE ours = << >>
    BY <1>1, <1>2, <2>1, <2>2, <2>3, <2>4
  <2>5. CASE ours # << >>
    <3>1. Merged(stats, dec') \in LinkStats /\ Agree(Merged(stats, dec'), dec')
      BY <1>1, <2>1, MergedFacts
    <3>2. stats' \in LinkStats /\ Agree(stats', dec')
      BY <2>1, <2>5, <3>1, MergedFacts
    <3> QED BY <1>1, <1>2, <2>1, <2>2, <2>3, <2>5, <3>2
  <2> QED BY <2>4, <2>5
<1>12. CASE UNCHANGED vars
  <2>1. backlog' = backlog /\ conn' = conn /\ dec' = dec /\ stats' = stats /\ pc' = pc
    BY <1>12 DEF vars
  <2> QED BY <1>1, <1>2, <2>1
<1> QED BY <1>3, <1>4, <1>5, <1>6, <1>7, <1>8, <1>9, <1>10, <1>11, <1>12 DEF Next

(* Over all behaviours of PlantLink and its clients, from listen to close, *)
(* the link keeps the invariant above.                                     *)
THEOREM LinkInvariance == Spec => []LinkInv
  BY LinkInvInit, LinkInvStep, PTL DEF Spec

(* The decoder's leftover and counters are at every moment what the bytes  *)
(* received on the present connection alone make of a new decoder, over any*)
(* number of clients that die half way through a frame: accept replaces the*)
(* decoder, so no byte of a dead client is ever glued to the first frame of*)
(* the next one.                                                           *)
THEOREM DecoderIsOfItsConnection == Spec => []DecoderBelongs
<1>1. LinkInv => DecoderBelongs
  BY DEF LinkInv, Belongs, Whole, Got, DecoderBelongs, AtOnce, Received
<1> QED BY <1>1, LinkInvariance, PTL

(* Every byte received on the present connection is in the buffer, in a    *)
(* decoded frame or in exactly one error counter, and between two calls of *)
(* recv_actuator the link's mirrored counters are the decoder's: feed and  *)
(* drain lose no byte and count none twice, on any stream and any chunks.  *)
THEOREM NoByteUnaccounted == Spec => []BytesAccounted
<1>1. LinkInv => BytesAccounted
  <2> SUFFICES ASSUME LinkInv, conn # None
               PROVE  /\ Len(Received) =
                           Len(dec.buf) + dec.bytes_dropped + FrameBytes[AtOnce.frames]
                           + 2 * (dec.errors_crc + dec.errors_size + dec.errors_type)
                      /\ pc = "idle" /\ Received # << >> => stats = Merged(stats, dec)
    BY DEF BytesAccounted
  <2>1. Received = Got(conn) /\ AtOnce = Whole(conn)
    BY DEF Received, Got, AtOnce, Whole
  <2>2. conn \in Connection /\ Got(conn) \in Seq(Byte) /\ dec = Whole(conn).dec
    BY NothingHeld
  <2>3. dec \in Decoder /\ stats \in LinkStats
    BY DEF LinkInv, LinkType
  <2>4. pc = "idle" /\ Received # << >> => stats = Merged(stats, dec)
    BY <2>1, <2>3, MergedFacts DEF LinkInv
  <2> DEFINE d == Feed(NewDecoder, Got(conn))
  <2>5. /\ d \in Decoder /\ d.buf = << >> \o Got(conn) /\ d.errors_crc = 0
        /\ d.errors_size = 0 /\ d.errors_type = 0 /\ d.bytes_dropped = 0
    <3>1. /\ NewDecoder.buf = << >> /\ NewDecoder.errors_crc = 0 /\ NewDecoder.errors_size = 0
          /\ NewDecoder.errors_type = 0 /\ NewDecoder.bytes_dropped = 0
      BY DEF NewDecoder
    <3> QED BY <3>1, <2>2, NewFacts, FeedIs
  <2>6. d.buf = Got(conn)
    BY <2>2, <2>5
  <2> HIDE DEF d
  <2>7. Worth(d) = Len(Got(conn))
    <3>1. Len(Got(conn)) \in Nat
      BY <2>2
    <3> QED BY <2>5, <2>6, <3>1 DEF Worth
  <2>8. Whole(conn) = Drain(d)
    BY DEF Whole, d
  <2>9. Worth(d) = Worth(dec) + FrameBytes[Whole(conn).frames]
    BY <2>2, <2>5, <2>8, DrainKeepsBytes
  <2>10. Drain(d) \in Drained
    BY <2>5, DrainType
  <2>11. FrameBytes[Whole(conn).frames] \in Nat
    BY <2>8, <2>10, BytesType DEF Drained, Frames
  <2>12. /\ Len(dec.buf) \in Nat /\ dec.bytes_dropped \in Nat /\ dec.errors_crc \in Nat
         /\ dec.errors_size \in Nat /\ dec.errors_type \in Nat
    BY <2>3 DEF Decoder
  <2>13. Len(Got(conn)) = Len(dec.buf) + dec.bytes_dropped + FrameBytes[Whole(conn).frames]
                           + 2 * (dec.errors_crc + dec.errors_size + dec.errors_type)
    <3> DEFINE f == FrameBytes[Whole(conn).frames]
               e == dec.errors_crc + dec.errors_size + dec.errors_type
               l == Len(dec.buf)
               b == dec.bytes_dropped
    <3>1. l \in Nat /\ b \in Nat /\ e \in Nat /\ f \in Nat
      BY <2>11, <2>12
    <3>2. Len(Got(conn)) = (l + b + 2 * e) + f
      BY <2>7, <2>9 DEF Worth
    <3> HIDE DEF f, e, l, b
    <3>3. (l + b + 2 * e) + f = l + b + f + 2 * e
      BY <3>1
    <3> QED BY <3>2, <3>3 DEF f, e, l, b
  <2> QED BY <2>1, <2>4, <2>13
<1> QED BY <1>1, LinkInvariance, PTL

-----------------------------------------------------------------------------
(* The link implements the queue of commands. *)

(* The queue is what the bytes under way will decode to, behind a decoder  *)
(* that has nothing left to give.                                          *)
QueueInv ==
    /\ LinkInv
    /\ Settled(dec)
    /\ queue = UnderWay(dec, conn)
    /\ waiting = UnderWay(NewDecoder, backlog)

(* What is under way, by the bytes that are left. *)
LEMMA UnderWayIs ==
    ASSUME NEW d, NEW c
    PROVE  UnderWay(d, c) = CommandsIn[Drain(Feed(d, Left(c))).frames]
  BY DEF UnderWay, Left

(* Nothing is, when all bytes have been received. *)
LEMMA UnderWayNothing ==
    ASSUME NEW d \in Decoder, Settled(d), NEW c, Left(c) = << >>
    PROVE  UnderWay(d, c) = << >>
<1>1. Drain(Feed(d, Left(c))) = [dec |-> d, frames |-> << >>]
  BY FeedNothing DEF Settled
<1>2. Drain(Feed(d, Left(c))).frames = << >>
  BY <1>1
<1> QED BY <1>2, CommandsOfNone, UnderWayIs

(* What is under way is a sequence of commands. *)
LEMMA UnderWayType ==
    ASSUME NEW d \in Decoder, NEW c, Held(c)
    PROVE  UnderWay(d, c) \in Seq(CommandSet)
<1>1. Left(c) \in Seq(Byte)
  <2>1. CASE c = None
    BY <2>1 DEF Left
  <2>2. CASE c \in Connection
    BY <2>2, Parts
  <2> QED BY <2>1, <2>2 DEF Held
<1>2. Feed(d, Left(c)) \in Decoder
  BY <1>1, FeedIs
<1>3. Drain(Feed(d, Left(c))).frames \in Frames
  BY <1>2, DrainType DEF Drained, Frames
<1> QED BY <1>3, CommandsType, UnderWayIs

(* The commands of two chunks. *)
LEMMA UnderWaySplit ==
    ASSUME NEW d \in Decoder, NEW c, NEW z \in Seq(Byte), NEW y \in Seq(Byte),
           Left(c) = z \o y
    PROVE  LET first == Drain(Feed(d, z))
               then  == Drain(Feed(first.dec, y))
           IN  /\ UnderWay(d, c) = CommandsIn[first.frames] \o CommandsIn[then.frames]
               /\ CommandsIn[first.frames] \in Seq(CommandSet)
               /\ CommandsIn[then.frames] \in Seq(CommandSet)
<1> DEFINE first == Drain(Feed(d, z))
           then == Drain(Feed(first.dec, y))
<1>1. /\ Drain(Feed(d, z \o y)).frames = first.frames \o then.frames
      /\ first.frames \in Frames /\ then.frames \in Frames
  BY ChunksDoNotMatter
<1>2. CommandsIn[first.frames \o then.frames] = CommandsIn[first.frames] \o CommandsIn[then.frames]
  BY <1>1, CommandsConcat
<1>3. UnderWay(d, c) = CommandsIn[Drain(Feed(d, z \o y)).frames]
  BY UnderWayIs
<1> QED BY <1>1, <1>2, <1>3, CommandsType

(* Sending on a connection adds commands behind those under way; a close   *)
(* leaves them all, or, as a reset, none.                                  *)
LEMMA TouchedQueue ==
    ASSUME NEW d \in Decoder, Settled(d), NEW c, NEW c1, Touched(c, c1), c.read <= Len(c.sent)
    PROVE  /\ c.open
           /\ c1.open => Queue!Behind(UnderWay(d, c), UnderWay(d, c1))
           /\ ~c1.open => UnderWay(d, c1) \in {UnderWay(d, c), << >>}
<1>1. c \in Connection /\ c1 \in Connection /\ c1.read = c.read
  BY DEF Touched
<1> DEFINE s == c.sent
           r == c.read
           t == c1.sent
<1>2. /\ s \in Seq(Byte) /\ r \in Nat /\ r <= Len(s) /\ t \in Seq(Byte)
      /\ Left(c) = SubSeq(s, r + 1, Len(s)) /\ Left(c1) = SubSeq(t, r + 1, Len(t))
      /\ Left(c) \in Seq(Byte)
  BY <1>1, Parts
<1>3. ASSUME t = SubSeq(s, 1, r) PROVE UnderWay(d, c1) = << >>
  <2> HIDE DEF s, r, t
  <2>1. Len(t) = r
    BY <1>2, <1>3
  <2>2. Left(c1) = << >>
    BY <1>2, <2>1
  <2> QED BY <2>2, UnderWayNothing
<1>4. ASSUME t = s PROVE UnderWay(d, c1) = UnderWay(d, c)
  <2>1. Left(c1) = Left(c)
    BY <1>2, <1>4
  <2> QED BY <2>1, UnderWayIs
<1>5. ASSUME NEW seg \in Seq(Byte), t = s \o seg
      PROVE  Queue!Behind(UnderWay(d, c), UnderWay(d, c1))
  <2>1. Left(c1) = Left(c) \o seg
    <3> HIDE DEF s, r, t
    <3>1. SubSeq(s \o seg, r + 1, Len(s \o seg)) = SubSeq(s, r + 1, Len(s)) \o seg
      BY <1>2, RestGrows
    <3> QED BY <1>2, <1>5, <3>1
  <2> DEFINE old == UnderWay(d, c)
             new == UnderWay(d, c1)
             more == CommandsIn[Drain(Feed(Drain(Feed(d, Left(c))).dec, seg)).frames]
  <2>2. new = old \o more /\ old \in Seq(CommandSet) /\ more \in Seq(CommandSet)
    <3> DEFINE z == Left(c)
               first == Drain(Feed(d, z))
               then == Drain(Feed(first.dec, seg))
    <3>1. z \in Seq(Byte) /\ Left(c1) = z \o seg
      BY <1>2, <2>1
    <3>2. old = CommandsIn[first.frames]
      BY UnderWayIs
    <3>3. /\ new = CommandsIn[first.frames] \o CommandsIn[then.frames]
          /\ CommandsIn[first.frames] \in Seq(CommandSet)
          /\ CommandsIn[then.frames] \in Seq(CommandSet)
      <4> HIDE DEF z
      <4> QED BY <3>1, UnderWaySplit
    <3>4. more = CommandsIn[then.frames]
      OBVIOUS
    <3> QED BY <3>2, <3>3, <3>4
  <2> HIDE DEF old, new, more
  <2>3. new \in Seq(CommandSet) /\ Len(new) >= Len(old) /\ SubSeq(new, 1, Len(old)) = old
    BY <2>2
  <2> QED BY <2>3 DEF Queue!Behind, CommandSet, old, new
<1> QED BY <1>3, <1>4, <1>5 DEF Touched

(* At the start nothing is under way. *)
LEMMA QueueInvInit == HInit => QueueInv
<1> SUFFICES ASSUME HInit PROVE QueueInv
  OBVIOUS
<1>1. LinkInv
  BY LinkInvInit DEF HInit
<1>2. backlog = None /\ conn = None /\ dec = NewDecoder /\ queue = << >> /\ waiting = << >>
  BY DEF HInit, Init
<1>3. Settled(NewDecoder) /\ NewDecoder \in Decoder
  BY NewFacts DEF Settled
<1>4. UnderWay(NewDecoder, None) = << >>
  BY <1>3, UnderWayNothing DEF Left
<1> QED BY <1>1, <1>2, <1>3, <1>4 DEF QueueInv

(* A step of the link is a step of the queue. *)
LEMMA StepOfQueue ==
    ASSUME QueueInv, HNext
    PROVE  Settled(dec)' /\ [Queue!Next]_Queue!queueVars
<1>1. /\ LinkInv /\ Settled(dec) /\ dec \in Decoder /\ Held(backlog) /\ Held(conn)
      /\ backlog # None => backlog.read = 0
      /\ conn # None => conn.read <= Len(conn.sent)
      /\ queue = UnderWay(dec, conn) /\ waiting = UnderWay(NewDecoder, backlog)
  BY DEF QueueInv, LinkInv, LinkType
<1>2. /\ Next
      /\ queue' = UnderWay(dec', conn')
      /\ waiting' = UnderWay(NewDecoder, backlog')
  BY DEF HNext
<1>3. Settled(NewDecoder) /\ NewDecoder \in Decoder /\ UnderWay(NewDecoder, None) = << >>
  <2>1. Settled(NewDecoder) /\ NewDecoder \in Decoder
    BY NewFacts DEF Settled
  <2> QED BY <2>1, UnderWayNothing DEF Left
<1>4. queue \in Seq(CommandSet) /\ waiting \in Seq(CommandSet)
  BY <1>1, <1>3, UnderWayType
<1>5. /\ Status(conn)' = Status(conn') /\ Status(backlog)' = Status(backlog')
      /\ \A c \in Connection : Status(c) = IF c.open THEN "open" ELSE "left"
      /\ Status(None) = "none"
  BY Parts DEF Status
<1>6. ASSUME dec' = dec \/ dec' = NewDecoder PROVE Settled(dec)'
  BY <1>1, <1>3, <1>6 DEF Settled
<1>7. ASSUME dec' = dec, conn' = conn, backlog' = backlog, answer' = answer
      PROVE  Settled(dec)' /\ [Queue!Next]_Queue!queueVars
  BY <1>1, <1>2, <1>5, <1>6, <1>7 DEF Queue!queueVars
<1>8. CASE ClientConnect
  <2>1. /\ backlog = None /\ backlog' = [sent |-> << >>, read |-> 0, open |-> TRUE]
        /\ conn' = conn /\ dec' = dec /\ answer' = answer
    BY <1>8 DEF ClientConnect
  <2>2. backlog' \in Connection /\ backlog'.sent = << >> /\ backlog'.read = 0
    BY <2>1 DEF Connection
  <2>3. Left(backlog') = << >>
    BY <2>2, Parts
  <2>4. waiting' = << >> /\ waiting = << >>
    BY <1>1, <1>2, <1>3, <2>1, <2>3, UnderWayNothing
  <2>5. queue' = queue
    BY <1>1, <1>2, <2>1
  <2>6. Status(backlog) = "none" /\ Status(backlog') = "open" /\ Status(conn') = Status(conn)
    <3>1. backlog'.open
      BY <2>1
    <3> QED BY <1>5, <2>1, <2>2, <3>1
  <2>7. Queue!Connect
    BY <1>5, <2>1, <2>4, <2>5, <2>6 DEF Queue!Connect
  <2> QED BY <1>6, <2>1, <2>7 DEF Queue!Next
<1>9. CASE \/ \E seg \in Segments : ClientSend(seg)
           \/ \E reset \in BOOLEAN : ClientClose(reset)
  <2>1. /\ \/ Touched(backlog, backlog') /\ conn' = conn
           \/ Touched(conn, conn') /\ backlog' = backlog
        /\ dec' = dec /\ answer' = answer
    BY <1>1, <1>9, ClientShape
  <2>2. CASE Touched(backlog, backlog') /\ conn' = conn
    <3>1. backlog \in Connection
      BY <2>2 DEF Touched
    <3>2. backlog.read <= Len(backlog.sent)
      BY <1>1, <3>1, Parts
    <3>3. /\ backlog.open
          /\ backlog'.open => Queue!Behind(waiting, waiting')
          /\ ~backlog'.open => waiting' \in {waiting, << >>}
      BY <1>1, <1>2, <1>3, <2>2, <3>2, TouchedQueue
    <3>4. queue' = queue
      BY <1>1, <1>2, <2>1, <2>2
    <3>5. /\ Status(backlog) = "open" /\ Status(conn') = Status(conn)
          /\ Status(backlog') = IF backlog'.open THEN "open" ELSE "left"
      BY <1>5, <2>2, <3>3 DEF Touched
    <3>6. CASE backlog'.open
      <4>1. Queue!Arrive
        BY <1>5, <2>1, <3>3, <3>4, <3>5, <3>6 DEF Queue!Arrive
      <4> QED BY <1>6, <2>1, <4>1 DEF Queue!Next
    <3>7. CASE ~backlog'.open
      <4>1. Queue!Leave
        BY <1>5, <2>1, <3>3, <3>4, <3>5, <3>7 DEF Queue!Leave
      <4> QED BY <1>6, <2>1, <4>1 DEF Queue!Next
    <3> QED BY <3>6, <3>7
  <2>3. CASE Touched(conn, conn') /\ backlog' = backlog
    <3>1. conn \in Connection
      BY <2>3 DEF Touched
    <3>2. conn.read <= Len(conn.sent)
      BY <1>1, <3>1, Parts
    <3>3. /\ conn.open
          /\ conn'.open => Queue!Behind(queue, queue')
          /\ ~conn'.open => queue' \in {queue, << >>}
      BY <1>1, <1>2, <2>1, <2>3, <3>2, TouchedQueue
    <3>4. waiting' = waiting
      BY <1>1, <1>2, <2>3
    <3>5. /\ Status(conn) = "open" /\ Status(backlog') = Status(backlog)
          /\ Status(conn') = IF conn'.open THEN "open" ELSE "left"
      BY <1>5, <2>3, <3>3 DEF Touched
    <3>6. CASE conn'.open
      <4>1. Queue!Arrive
        BY <1>5, <2>1, <3>3, <3>4, <3>5, <3>6 DEF Queue!Arrive
      <4> QED BY <1>6, <2>1, <4>1 DEF Queue!Next
    <3>7. CASE ~conn'.open
      <4>1. Queue!Leave
        BY <1>5, <2>1, <3>3, <3>4, <3>5, <3>7 DEF Queue!Leave
      <4> QED BY <1>6, <2>1, <4>1 DEF Queue!Next
    <3> QED BY <3>6, <3>7
  <2> QED BY <2>1, <2>2, <2>3
<1>10. CASE Listen
  BY <1>7, <1>10 DEF Listen
<1>11. CASE Accept
  <2>1. /\ conn' = backlog /\ backlog # None /\ backlog' = None
        /\ dec' = NewDecoder /\ answer' = answer
    BY <1>11 DEF Accept
  <2>2. Status(backlog) # "none"
    BY <2>1 DEF Status
  <2>3. Queue!Replace
    BY <1>1, <1>2, <1>3, <1>5, <2>1, <2>2 DEF Queue!Replace
  <2> QED BY <1>6, <2>1, <2>3 DEF Queue!Next
<1>12. CASE Close
  <2>1. conn' = None /\ backlog' = None /\ dec' = dec /\ answer' = answer
    BY <1>12 DEF Close
  <2>2. queue' = << >> /\ waiting' = << >>
    BY <1>1, <1>2, <1>3, <2>1, UnderWayNothing DEF Left
  <2>3. Queue!Shut
    BY <1>5, <2>1, <2>2 DEF Queue!Shut
  <2> QED BY <1>6, <2>1, <2>3 DEF Queue!Next
<1>13. CASE SendSensor
  BY <1>7, <1>13 DEF SendSensor
<1>14. CASE RecvCall
  BY <1>1, <1>7, <1>14, RecvCallShape
<1>15. CASE RecvNothing
  <2>1. /\ Unread = << >> /\ pc = "recv" /\ conn' = conn /\ backlog' = backlog /\ dec' = dec
        /\ answer' = IF conn.open THEN None ELSE Closed
    BY <1>15 DEF RecvNothing
  <2>2. Left(conn) = << >>
    BY <2>1 DEF Left, Unread
  <2>3. queue = << >> /\ queue' = queue /\ waiting' = waiting
    BY <1>1, <1>2, <2>1, <2>2, UnderWayNothing
  <2>4. conn # None
    BY <1>1, <2>1 DEF LinkInv
  <2>5. Status(conn) = IF conn.open THEN "open" ELSE "left"
    BY <2>4 DEF Status
  <2>6. Queue!TakeNothing
    BY <1>5, <2>1, <2>3, <2>5 DEF Queue!TakeNothing
  <2> QED BY <1>6, <2>1, <2>6 DEF Queue!Next
<1>16. ASSUME NEW n \in 1 .. CHUNK, RecvChunk(n)
       PROVE  Settled(dec)' /\ [Queue!Next]_Queue!queueVars
  <2> DEFINE z == SubSeq(Left(conn), 1, n)
             batch == Drain(Feed(dec, z))
             ours == CommandsIn[batch.frames]
             later == CommandsIn[Drain(Feed(batch.dec, Left(conn'))).frames]
  <2>1. /\ z \in Seq(Byte) /\ Left(conn') \in Seq(Byte)
        /\ Left(conn) = z \o Left(conn')
        /\ dec' = batch.dec
        /\ backlog' = backlog
        /\ ours = << >> => answer' = answer
        /\ ours # << >> => answer' = ours[1]
        /\ conn \in Connection /\ conn' \in Connection /\ conn'.open = conn.open
    BY <1>1, <1>16, RecvChunkShape
  <2>8. Status(conn') = Status(conn) /\ Status(backlog') = Status(backlog) /\ Status(conn) # "none"
    BY <1>5, <2>1
  <2> HIDE DEF z
  <2>2. Settled(dec)'
    <3>1. Feed(dec, z) \in Decoder
      BY <1>1, <2>1, FeedIs
    <3>2. Drain(batch.dec) = [dec |-> batch.dec, frames |-> << >>]
      BY <3>1, DrainEnds
    <3> QED BY <2>1, <3>2 DEF Settled
  <2>3. queue = ours \o later /\ ours \in Seq(CommandSet) /\ later \in Seq(CommandSet)
    BY <1>1, <2>1, UnderWaySplit
  <2>4. queue' = later
    BY <1>2, <2>1, UnderWayIs
  <2>5. waiting' = waiting
    BY <1>1, <1>2, <2>1
  <2> HIDE DEF batch, ours, later
  <2>6. CASE ours = << >>
    <3>1. queue' = queue
      BY <2>3, <2>4, <2>6
    <3> QED BY <1>5, <2>1, <2>2, <2>5, <2>6, <2>8, <3>1 DEF Queue!queueVars
  <2>7. CASE ours # << >>
    <3> DEFINE m == Len(ours)
    <3>1. /\ queue # << >> /\ queue[1] = ours[1]
          /\ m \in 1 .. Len(queue) /\ later = SubSeq(queue, m + 1, Len(queue))
      BY <2>3, <2>7
    <3>2. Queue!Take
      BY <1>5, <2>1, <2>4, <2>5, <2>7, <2>8, <3>1 DEF Queue!Take
    <3> QED BY <2>2, <3>2 DEF Queue!Next
  <2> QED BY <2>6, <2>7
<1> QED BY <1>2, <1>8, <1>9, <1>10, <1>11, <1>12, <1>13, <1>14, <1>15, <1>16 DEF Next

(* Every step keeps it. *)
LEMMA QueueInvStep == QueueInv /\ [HNext]_linkVars => QueueInv'
<1> SUFFICES ASSUME QueueInv, [HNext]_linkVars PROVE QueueInv'
  OBVIOUS
<1>1. CASE HNext
  <2>1. LinkInv'
    BY <1>1, LinkInvStep DEF HNext, QueueInv
  <2>2. Settled(dec)'
    BY <1>1, StepOfQueue
  <2>3. queue' = UnderWay(dec', conn') /\ waiting' = UnderWay(NewDecoder, backlog')
    BY <1>1 DEF HNext
  <2>4. queue' = UnderWay(dec, conn)' /\ waiting' = UnderWay(NewDecoder, backlog)'
    BY <2>3 DEF UnderWay
  <2> QED BY <2>1, <2>2, <2>4 DEF QueueInv
<1>2. CASE UNCHANGED linkVars
  <2>1. UNCHANGED vars /\ queue' = queue /\ waiting' = waiting
    BY <1>2 DEF linkVars
  <2>2. LinkInv'
    BY <2>1, LinkInvStep DEF QueueInv
  <2>3. dec' = dec /\ conn' = conn /\ backlog' = backlog
    BY <2>1 DEF vars
  <2> QED BY <2>1, <2>2, <2>3 DEF QueueInv, Settled, UnderWay
<1> QED BY <1>1, <1>2

(* The link on bytes implements the queue of commands: recv_actuator       *)
(* answers with the first command under way, dropping those behind it that *)
(* came in the same chunk, and without one only when none is there: None   *)
(* while the client holds the connection, an error once it has left; a     *)
(* command arrives when its last byte does, behind those before it, on an  *)
(* open connection, and is lost otherwise only when its connection ends;   *)
(* for every cut of the stream and every loss of a client.                 *)
THEOREM LinkImplementsQueue == HSpec => QueueSpec
<1>1. HInit => Queue!Init
  BY DEF HInit, Init, Queue!Init, Status
<1>2. QueueInv /\ [HNext]_linkVars => [Queue!Next]_Queue!queueVars
  <2>1. QueueInv /\ HNext => [Queue!Next]_Queue!queueVars
    BY StepOfQueue
  <2>2. UNCHANGED linkVars => UNCHANGED Queue!queueVars
    BY DEF linkVars, vars, Queue!queueVars, Status
  <2> QED BY <2>1, <2>2
<1> QED BY <1>1, <1>2, QueueInvInit, QueueInvStep, PTL
    DEF HSpec, QueueSpec, Queue!Spec
=============================================================================
