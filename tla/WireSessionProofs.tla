------------------------- MODULE WireSessionProofs --------------------------
(***************************************************************************)
(* Proofs about one session of the Constellation wire, for any requests,    *)
(* lengths and segment size: that it implements RemoteCall.                 *)
(***************************************************************************)
EXTENDS WireSession, SequenceTheorems, TLAPS

-----------------------------------------------------------------------------
(* The invariant.                                                          *)

Count(says) == (Header + Bytes[says] + MaxSegment - 1) \div MaxSegment

\* These are the segments of a frame that come after its first k.
PartOf(segs, call, says, k) ==
    /\ k + Len(segs) <= Count(says)
    /\ \A i \in 1 .. Len(segs) : segs[i] = Segments(call, says)[k + i]

Settled(n) == told[n] \in {"stored", "failed"}

\* The call whose request or reply is on its way is the last one made, and its
\* caller was told nothing, or was told that the link failed.
LastCall(call, does, says) ==
    /\ call = Len(told) /\ Len(told) > 0
    /\ \A n \in 1 .. (Len(told) - 1) : Settled(n)
    /\ effect[call] = does /\ told[call] = says

InHello ==
    /\ caller.stage = "hello" /\ server.stage \in {"hello", "closed"}
    /\ linked => server.stage = "hello"
    /\ up = << >> /\ down = << >> /\ told = << >>

AtRest ==
    /\ caller.stage = "idle" /\ server.stage \in {"read", "closed"}
    /\ linked => server.stage = "read"
    /\ server.stage = "read" => server.plain = 0
    /\ up = << >> /\ down = << >>
    /\ \A n \in DOMAIN told : Settled(n)

\* A request is on its way: the server has read k segments of it, those that were
\* written since are in up, and what is left to write comes after them.
Requesting(call, says, k) ==
    /\ says \in Request \cup {"bye"} /\ k \in Nat /\ k < Count(says)
    /\ caller.stage \in {"write", "read", "closed"} /\ server.stage \in {"read", "closed"}
    /\ linked => caller.stage # "closed" /\ server.stage = "read"
    /\ server.stage = "read" => server.plain = k * MaxSegment
    /\ down = << >>
    /\ PartOf(up, call, says, k)
    /\ caller.stage = "write" =>
          /\ caller.out # << >>
          /\ k + Len(up) < Count(says)
          /\ linked => /\ PartOf(caller.out, call, says, k + Len(up))
                       /\ k + Len(up) + Len(caller.out) = Count(says)
    /\ caller.stage = "read" =>
          /\ caller.plain = 0
          /\ linked => k + Len(up) = Count(says)
    /\ says # "bye" =>
          LastCall(call, "none", IF caller.stage = "closed" THEN "lost" ELSE "waiting")
    /\ says = "bye" => \A n \in DOMAIN told : Settled(n)

\* A reply is on its way: the caller has read k segments of it.
Replying(call, says, k) ==
    /\ says \in Reply /\ k \in Nat /\ k < Count(says)
    /\ caller.stage = "read" /\ server.stage \in {"write", "read", "closed"}
    /\ linked => server.stage = IF k + Len(down) < Count(says) THEN "write"
                                ELSE IF says = "bye" THEN "closed" ELSE "read"
    /\ caller.plain = k * MaxSegment
    /\ server.stage = "read" => server.plain = 0
    /\ server.stage = "write" => k + Len(down) < Count(says)
    /\ up = << >>
    /\ PartOf(down, call, says, k)
    /\ linked /\ server.stage = "write" =>
          /\ PartOf(server.out, call, says, k + Len(down))
          /\ k + Len(down) + Len(server.out) = Count(says)
    /\ says # "bye" => LastCall(call, says, "waiting")
    /\ says = "bye" => \A n \in DOMAIN told : Settled(n)

\* The session is over for the caller, and the server has all it will get.
Over == caller.stage = "closed" /\ ~ linked /\ up = << >>

RequestOnItsWay == \E call, k \in Nat, says \in Message : Requesting(call, says, k)
ReplyOnItsWay == \E call, k \in Nat, says \in Message : Replying(call, says, k)

WireInv ==
    /\ WireTypeOK
    /\ Len(effect) = Len(told)
    /\ InHello \/ AtRest \/ RequestOnItsWay \/ ReplyOnItsWay \/ Over
-----------------------------------------------------------------------------
(* Frames and lists.                                                       *)

\* Rounding up: the number of pieces of at most m that n is cut into.
LEMMA RoundUp ==
    ASSUME NEW n \in Nat \ {0}, NEW m \in Nat \ {0}
    PROVE  LET c == (n + m - 1) \div m
           IN  c \in Nat \ {0} /\ (c - 1) * m < n /\ n <= c * m
<1> DEFINE c == (n + m - 1) \div m
<1>1. c \in Int /\ c * m <= n + m - 1 /\ n + m - 1 < c * m + m
  OBVIOUS
<1> HIDE DEF c
<1>2. (c - 1) * m = c * m - m
  BY <1>1
<1>3. (c - 1) * m < n /\ n <= c * m
  BY <1>1, <1>2
<1>4. c > 0
  <2>1. c <= 0 => c * m <= 0
    BY <1>1
  <2>2. QED
    BY <1>1, <1>3, <2>1
<1>5. QED
  BY <1>1, <1>3, <1>4 DEF c

\* It is the number of segments of a frame, the length before the bytes included.
LEMMA CountBounds ==
    ASSUME NEW says \in Message
    PROVE  /\ Header + Bytes[says] \in Nat \ {0} /\ MaxSegment \in Nat \ {0}
           /\ Count(says) \in Nat \ {0}
           /\ (Count(says) - 1) * MaxSegment < Header + Bytes[says]
           /\ Header + Bytes[says] <= Count(says) * MaxSegment
<1>1. Header + Bytes[says] \in Nat \ {0} /\ MaxSegment \in Nat \ {0}
  BY WireAssumption
<1>2. Header + Bytes[says] + MaxSegment - 1 = (Header + Bytes[says]) + MaxSegment - 1
  OBVIOUS
<1>3. QED
  BY <1>1, <1>2, RoundUp DEF Count

SegmentBytes(says, i) ==
    IF i < Count(says) THEN MaxSegment
    ELSE (Header + Bytes[says]) - (Count(says) - 1) * MaxSegment

\* What NoiseChannel::send cuts a frame into.
LEMMA SegmentsTyped ==
    ASSUME NEW call \in Nat, NEW says \in Message
    PROVE  /\ Segments(call, says) \in Seq(Segment)
           /\ Len(Segments(call, says)) = Count(says)
           /\ \A i \in 1 .. Count(says) :
                 /\ Segments(call, says)[i] \in Segment
                 /\ Segments(call, says)[i].call = call
                 /\ Segments(call, says)[i].says = says
                 /\ Segments(call, says)[i].bytes = SegmentBytes(says, i)
<1> DEFINE seg(i) == [call |-> call, says |-> says, bytes |-> SegmentBytes(says, i)]
<1>1. Segments(call, says) = [i \in 1 .. Count(says) |-> seg(i)]
  BY DEF Segments, Count, SegmentBytes
<1>2. MaxSegment \in Nat /\ Count(says) \in Nat
  BY CountBounds
<1>3. \A i \in 1 .. Count(says) : SegmentBytes(says, i) \in Nat
  <2>1. Header + Bytes[says] \in Nat /\ (Count(says) - 1) * MaxSegment \in Int
        /\ (Count(says) - 1) * MaxSegment < Header + Bytes[says]
    BY CountBounds
  <2>2. QED
    BY <1>2, <2>1 DEF SegmentBytes
<1>4. \A i \in 1 .. Count(says) :
          /\ seg(i) \in Segment
          /\ seg(i).call = call /\ seg(i).says = says /\ seg(i).bytes = SegmentBytes(says, i)
  BY <1>3 DEF Segment
<1> HIDE DEF seg
<1>5. Segments(call, says) \in Seq(Segment) /\ Len(Segments(call, says)) = Count(says)
  BY <1>1, <1>2, <1>4
<1>6. \A i \in 1 .. Count(says) : Segments(call, says)[i] = seg(i)
  BY <1>1
<1>7. QED
  BY <1>4, <1>5, <1>6

\* A reader has the whole frame just when it has its last segment.
LEMMA WholeAtLast ==
    ASSUME NEW call \in Nat, NEW says \in Message, NEW k \in Nat, k < Count(says),
           NEW seg, seg = Segments(call, says)[k + 1]
    PROVE  LET plain == k * MaxSegment + seg.bytes
           IN  /\ plain \in Nat
               /\ k + 1 = Count(says) <=> Whole(plain, seg)
               /\ k + 1 < Count(says) => plain = (k + 1) * MaxSegment
<1> DEFINE c == Count(says)
           size == Header + Bytes[says]
           m == MaxSegment
           plain == k * m + seg.bytes
<1>1. c \in Nat \ {0} /\ size \in Nat \ {0} /\ m \in Nat \ {0}
      /\ (c - 1) * m < size
  BY CountBounds
<1>2. seg.says = says /\ seg.bytes = (IF k + 1 < c THEN m ELSE size - (c - 1) * m)
  <2>1. k + 1 \in 1 .. Count(says)
    BY <1>1
  <2>2. seg.says = says /\ seg.bytes = SegmentBytes(says, k + 1)
    BY <2>1, SegmentsTyped
  <2>3. QED
    BY <2>2 DEF SegmentBytes
<1>3. Whole(plain, seg) <=> plain >= size
  BY <1>2 DEF Whole
<1> HIDE DEF c, size, m, plain
<1>4. CASE k + 1 = c
  <2>1. plain = k * m + (size - k * m)
    BY <1>1, <1>2, <1>4 DEF plain
  <2>2. k * m \in Int
    BY <1>1
  <2>3. plain = size
    BY <1>1, <2>1, <2>2
  <2>4. QED
    BY <1>1, <1>3, <1>4, <2>3 DEF c, plain, m
<1>5. CASE k + 1 < c
  <2>1. plain = k * m + m /\ (k + 1) * m = k * m + m /\ k * m \in Nat
    BY <1>1, <1>2, <1>5 DEF plain
  <2>2. k + 1 <= c - 1 /\ (k + 1) * m <= (c - 1) * m
    BY <1>1, <1>5
  <2>3. plain \in Nat /\ plain = (k + 1) * m /\ (c - 1) * m \in Int
    BY <1>1, <2>1
  <2>4. plain < size
    BY <1>1, <2>2, <2>3
  <2>5. ~ Whole(plain, seg)
    BY <1>1, <1>3, <2>3, <2>4
  <2>6. QED
    BY <1>1, <1>5, <2>3, <2>5 DEF c, plain, m
<1>6. k + 1 = c \/ k + 1 < c
  BY <1>1 DEF c
<1>7. QED
  BY <1>4, <1>5, <1>6

\* One segment goes from the b to be written to the a that are on their way.
LEMMA OneMore ==
    ASSUME NEW k \in Nat, NEW a \in Nat, NEW b \in Nat, NEW c \in Nat,
           k + a + b = c, k + a < c
    PROVE  /\ b > 0 /\ k + (a + 1) = k + a + 1
           /\ k + (a + 1) + (b - 1) = c
           /\ b = 1 => k + (a + 1) = c
           /\ b # 1 => b > 1 /\ b - 1 > 0 /\ k + (a + 1) < c
OBVIOUS

\* A segment is written after those that are on their way.
LEMMA PartAppend ==
    ASSUME NEW segs \in Seq(Segment), NEW call, NEW says, NEW k \in Nat,
           Count(says) \in Nat, PartOf(segs, call, says, k), k + Len(segs) < Count(says),
           NEW seg \in Segment, seg = Segments(call, says)[k + Len(segs) + 1]
    PROVE  /\ Append(segs, seg) \in Seq(Segment)
           /\ Len(Append(segs, seg)) = Len(segs) + 1
           /\ PartOf(Append(segs, seg), call, says, k)
<1>1. /\ Append(segs, seg) \in Seq(Segment) /\ Len(segs) \in Nat
      /\ Len(Append(segs, seg)) = Len(segs) + 1
      /\ \A i \in 1 .. Len(segs) : Append(segs, seg)[i] = segs[i]
      /\ Append(segs, seg)[Len(segs) + 1] = seg
  BY AppendProperties
<1>2. PICK n \in Nat : n = Len(segs)
  BY <1>1
<1>3. k + n + 1 = k + (n + 1)
  OBVIOUS
<1>4. k + n < Count(says) => k + (n + 1) <= Count(says)
  OBVIOUS
<1>5. \A i \in 1 .. (n + 1) : i \in 1 .. n \/ i = n + 1
  OBVIOUS
<1>6. Append(segs, seg)[n + 1] = Segments(call, says)[k + (n + 1)]
  BY <1>1, <1>2, <1>3
<1>7. \A i \in 1 .. n : Append(segs, seg)[i] = Segments(call, says)[k + i]
  BY <1>1, <1>2 DEF PartOf
<1>8. \A i \in 1 .. (n + 1) : Append(segs, seg)[i] = Segments(call, says)[k + i]
  BY <1>5, <1>6, <1>7
<1>9. Len(Append(segs, seg)) = n + 1 /\ k + (n + 1) <= Count(says)
  BY <1>1, <1>2, <1>4
<1>10. QED
  BY <1>1, <1>2, <1>8, <1>9 DEF PartOf

\* A segment is taken from the front.
LEMMA PartTail ==
    ASSUME NEW segs \in Seq(Segment), segs # << >>, NEW call, NEW says, NEW k \in Nat,
           PartOf(segs, call, says, k)
    PROVE  /\ Head(segs) \in Segment /\ Head(segs) = Segments(call, says)[k + 1]
           /\ Tail(segs) \in Seq(Segment) /\ Len(segs) \in Nat \ {0}
           /\ Len(Tail(segs)) = Len(segs) - 1
           /\ PartOf(Tail(segs), call, says, k + 1)
<1>1. /\ Tail(segs) \in Seq(Segment) /\ Len(segs) \in Nat \ {0}
      /\ Len(Tail(segs)) = Len(segs) - 1 /\ Head(segs) = segs[1]
      /\ \A i \in 1 .. (Len(segs) - 1) : Tail(segs)[i] = segs[i + 1]
  BY HeadTailProperties
<1>2. Head(segs) \in Segment
  BY <1>1, ElementOfSeq
<1>3. segs[1] = Segments(call, says)[k + 1]
  BY <1>1 DEF PartOf
<1>4. \A i \in 1 .. (Len(segs) - 1) :
          i + 1 \in 1 .. Len(segs) /\ k + (i + 1) = (k + 1) + i
  BY <1>1
<1>5. PartOf(Tail(segs), call, says, k + 1)
  BY <1>1, <1>4 DEF PartOf
<1>6. QED
  BY <1>1, <1>2, <1>3, <1>5

\* Some end of it is lost.
LEMMA PartPrefix ==
    ASSUME NEW segs \in Seq(Segment), NEW call, NEW says, NEW k \in Nat,
           Count(says) \in Nat, PartOf(segs, call, says, k), NEW i \in 0 .. Len(segs)
    PROVE  /\ SubSeq(segs, 1, i) \in Seq(Segment)
           /\ Len(SubSeq(segs, 1, i)) = i
           /\ PartOf(SubSeq(segs, 1, i), call, says, k)
<1>1. Len(segs) \in Nat /\ DOMAIN segs = 1 .. Len(segs)
  OBVIOUS
<1>2. \A j \in 1 .. i : segs[j] \in Segment
  BY <1>1
<1>3. /\ SubSeq(segs, 1, i) \in Seq(Segment) /\ Len(SubSeq(segs, 1, i)) = i
      /\ \A j \in 1 .. i : SubSeq(segs, 1, i)[j] = segs[j]
  BY <1>1, <1>2, SubSeqProperties
<1>4. QED
  BY <1>1, <1>3 DEF PartOf

-----------------------------------------------------------------------------
(* The steps.  Each keeps the invariant, and is a step of RemoteCall or     *)
(* changes nothing it can see.                                              *)

Kept == WireInv' /\ [Remote!RemoteNext]_<<effect, told>>

\* Where a side is tells what is on its way.
LEMMA Phases ==
    ASSUME WireInv
    PROVE  /\ caller.stage = "hello" => InHello
           /\ caller.stage = "idle" => AtRest
           /\ caller.stage = "write" => RequestOnItsWay
           /\ server.stage = "read" /\ up # << >> => RequestOnItsWay
           /\ caller.stage = "read" /\ down # << >> => ReplyOnItsWay
           /\ server.stage = "write" /\ linked => ReplyOnItsWay
<1>1. CASE InHello
  BY <1>1 DEF InHello
<1>2. CASE AtRest
  BY <1>2 DEF AtRest
<1>3. CASE Over
  BY <1>3 DEF Over
<1>4. CASE RequestOnItsWay
  <2>1. PICK call \in Nat, k \in Nat, says \in Message : Requesting(call, says, k)
    BY <1>4 DEF RequestOnItsWay
  <2>2. /\ caller.stage \in {"write", "read", "closed"} /\ server.stage \in {"read", "closed"}
        /\ down = << >>
    BY <2>1 DEF Requesting
  <2>3. QED
    BY <1>4, <2>2
<1>5. CASE ReplyOnItsWay
  <2>1. PICK call \in Nat, k \in Nat, says \in Message : Replying(call, says, k)
    BY <1>5 DEF ReplyOnItsWay
  <2>2. caller.stage = "read" /\ up = << >>
    BY <2>1 DEF Replying
  <2>3. QED
    BY <1>5, <2>2
<1>6. QED
  BY <1>1, <1>2, <1>3, <1>4, <1>5 DEF WireInv

\* The types of what the sides hold.
LEMMA TypesOfSides ==
    ASSUME WireTypeOK
    PROVE  /\ caller.stage \in {"closed", "hello", "idle", "write", "read"}
           /\ server.stage \in {"closed", "hello", "idle", "write", "read"}
           /\ caller.out \in Seq(Segment) /\ server.out \in Seq(Segment)
           /\ caller.plain \in Nat /\ server.plain \in Nat
           /\ up \in Seq(Segment) /\ down \in Seq(Segment)
BY DEF WireTypeOK, Side

\* A side that has nothing to write and has read nothing.
LEMMA ResumeIs ==
    ASSUME NEW stage \in {"closed", "hello", "idle", "write", "read"}
    PROVE  /\ Resume(stage) \in Side
           /\ Resume(stage).stage = stage /\ Resume(stage).plain = 0
<1>1. << >> \in Seq(Segment)
  OBVIOUS
<1>2. QED
  BY <1>1 DEF Resume, Side

\* A frame that has just been begun.
LEMMA WritingIs ==
    ASSUME NEW call \in Nat, NEW says \in Message
    PROVE  LET w == Writing("write", call, says)
           IN  /\ w \in Side /\ w.stage = "write"
               /\ w.out \in Seq(Segment) /\ w.out # << >> /\ Len(w.out) = Count(says)
               /\ PartOf(w.out, call, says, 0)
<1> DEFINE w == Writing("write", call, says)
<1>1. /\ Segments(call, says) \in Seq(Segment)
      /\ Len(Segments(call, says)) = Count(says) /\ Count(says) \in Nat \ {0}
  BY SegmentsTyped, CountBounds
<1>2. w.stage = "write" /\ w.out = Segments(call, says) /\ w \in Side
  BY <1>1 DEF Writing, Side
<1> HIDE DEF w
<1>3. Segments(call, says) # << >>
  BY <1>1
<1>4. PartOf(w.out, call, says, 0)
  BY <1>1, <1>2 DEF PartOf
<1>5. QED
  BY <1>1, <1>2, <1>3, <1>4 DEF w

\* The session begins, or is refused.
LEMMA HandshakeStep ==
    ASSUME WireInv, Handshake
    PROVE  Kept
<1>1. InHello /\ UNCHANGED <<up, down, effect, told>>
  BY Phases DEF Handshake
<1>2. CASE caller' = Resume("idle") /\ server' = Resume("read") /\ UNCHANGED linked
  <2>1. AtRest'
    BY <1>1, <1>2, ResumeIs DEF InHello, AtRest
  <2>2. WireTypeOK' /\ Len(effect') = Len(told')
    BY <1>1, <1>2, ResumeIs DEF WireInv, WireTypeOK
  <2>3. QED
    BY <1>1, <2>1, <2>2 DEF WireInv, Kept
<1>3. CASE caller' = Resume("closed") /\ server' = Resume("closed") /\ linked' = FALSE
  <2>1. Over'
    BY <1>1, <1>3, ResumeIs DEF InHello, Over
  <2>2. WireTypeOK' /\ Len(effect') = Len(told')
    BY <1>1, <1>3, ResumeIs DEF WireInv, WireTypeOK
  <2>3. QED
    BY <1>1, <2>1, <2>2 DEF WireInv, Kept
<1>4. QED
  BY <1>2, <1>3 DEF Handshake

\* A call and a Bye begin to be written when nothing is on its way.
LEMMA BeginStep ==
    ASSUME WireInv, AtRest, NEW says \in Request \cup {"bye"},
           caller' = Writing("write", Len(told) + 1, says),
           UNCHANGED <<server, up, down, linked>>,
           \/ /\ says # "bye"
              /\ told' = Append(told, "waiting") /\ effect' = Append(effect, "none")
           \/ says = "bye" /\ UNCHANGED <<effect, told>>
    PROVE  Kept
<1> DEFINE Told == {"waiting", "stored", "failed", "lost"}
           Effect == {"none", "stored", "failed"}
<1>0. PICK call : call = Len(told) + 1
  OBVIOUS
<1>1. WireTypeOK /\ told \in Seq(Told) /\ effect \in Seq(Effect) /\ Len(effect) = Len(told)
      /\ Len(told) \in Nat /\ call \in Nat /\ says \in Message
  BY <1>0 DEF WireInv, WireTypeOK, Message
<1>2. /\ caller' \in Side /\ caller'.stage = "write"
      /\ caller'.out \in Seq(Segment) /\ caller'.out # << >> /\ Len(caller'.out) = Count(says)
      /\ PartOf(caller'.out, call, says, 0) /\ Count(says) \in Nat \ {0}
  BY <1>0, <1>1, WritingIs, CountBounds
<1>3. CASE says # "bye"
  <2>1. told' = Append(told, "waiting") /\ effect' = Append(effect, "none")
    BY <1>3
  <2>2. /\ told' \in Seq(Told) /\ Len(told') = call /\ told'[call] = "waiting"
        /\ \A n \in 1 .. Len(told) : told'[n] = told[n]
        /\ effect' \in Seq(Effect) /\ Len(effect') = call /\ effect'[call] = "none"
    BY <1>0, <1>1, <2>1, AppendProperties
  <2>3. LastCall(call, "none", "waiting")'
    <3>1. \A n \in 1 .. Len(told) : Settled(n)'
      BY <1>1, <2>2 DEF AtRest, Settled
    <3>2. 1 .. (call - 1) = 1 .. Len(told) /\ call > 0
      BY <1>0, <1>1
    <3>3. QED
      BY <2>2, <3>1, <3>2 DEF LastCall, Settled
  <2>4. Requesting(call, says, 0)'
    <3>1. PartOf(up', call, says, 0) /\ up' = << >> /\ Len(up') = 0
      BY <1>2 DEF AtRest, PartOf
    <3>2. server'.stage = "read" => server'.plain = 0 * MaxSegment
      BY WireAssumption DEF AtRest
    <3>3. /\ server'.stage \in {"read", "closed"} /\ down' = << >>
          /\ linked' => server'.stage = "read"
      BY DEF AtRest
    <3>4. PartOf(caller'.out, call, says, 0 + Len(up'))
          /\ 0 + Len(up') + Len(caller'.out) = Count(says) /\ 0 + Len(up') < Count(says)
      BY <1>2, <3>1
    <3>5. QED
      BY <1>1, <1>2, <1>3, <2>3, <3>1, <3>2, <3>3, <3>4 DEF Requesting, LastCall
  <2>5. WireTypeOK' /\ Len(effect') = Len(told')
    BY <1>1, <1>2, <2>2 DEF WireTypeOK
  <2>6. Remote!MakeCall
    BY <2>1 DEF AtRest, Settled, Remote!MakeCall
  <2>7. QED
    BY <1>1, <2>4, <2>5, <2>6 DEF WireInv, Kept, Remote!RemoteNext, RequestOnItsWay
<1>4. CASE says = "bye"
  <2>1. UNCHANGED <<effect, told>>
    BY <1>4
  <2>2. Requesting(call, says, 0)'
    <3>1. PartOf(up', call, says, 0) /\ up' = << >> /\ Len(up') = 0
      BY <1>2 DEF AtRest, PartOf
    <3>2. server'.stage = "read" => server'.plain = 0 * MaxSegment
      BY WireAssumption DEF AtRest
    <3>3. /\ server'.stage \in {"read", "closed"} /\ down' = << >>
          /\ linked' => server'.stage = "read"
          /\ \A n \in DOMAIN told' : Settled(n)'
      BY <2>1 DEF AtRest, Settled
    <3>4. PartOf(caller'.out, call, says, 0 + Len(up'))
          /\ 0 + Len(up') + Len(caller'.out) = Count(says) /\ 0 + Len(up') < Count(says)
      BY <1>2, <3>1
    <3>5. QED
      BY <1>1, <1>2, <1>4, <3>1, <3>2, <3>3, <3>4 DEF Requesting
  <2>3. WireTypeOK' /\ Len(effect') = Len(told')
    BY <1>1, <1>2, <2>1 DEF WireTypeOK
  <2>4. QED
    BY <1>1, <2>1, <2>2, <2>3 DEF WireInv, Kept, RequestOnItsWay
<1>5. QED
  BY <1>3, <1>4

\* A call is made.
LEMMA CallStep ==
    ASSUME WireInv, NEW req \in Request, Call(req)
    PROVE  Kept
BY Phases, BeginStep, WireAssumption DEF Call

\* The caller takes leave.
LEMMA SayByeStep ==
    ASSUME WireInv, SayBye
    PROVE  Kept
BY Phases, BeginStep DEF SayBye

\* A segment of the request leaves the caller.
LEMMA CallerWritesStep ==
    ASSUME WireInv, CallerWrites
    PROVE  Kept
<1>1. PICK call \in Nat, k \in Nat, says \in Message : Requesting(call, says, k)
  BY Phases DEF CallerWrites, RequestOnItsWay
<1>2. /\ WireTypeOK /\ linked /\ caller.stage = "write" /\ Count(says) \in Nat
      /\ up \in Seq(Segment) /\ Len(up) \in Nat
      /\ caller.out \in Seq(Segment) /\ caller.out # << >> /\ Len(caller.out) \in Nat \ {0}
      /\ caller \in Side /\ k \in Nat
  <2>1. /\ WireTypeOK /\ linked /\ caller.stage = "write" /\ Count(says) \in Nat
        /\ up \in Seq(Segment) /\ caller.out \in Seq(Segment) /\ caller \in Side
    BY TypesOfSides, CountBounds DEF CallerWrites, WireInv, WireTypeOK
  <2>2. caller.out # << >>
    BY <1>1, <2>1 DEF Requesting
  <2>3. Len(caller.out) \in Nat \ {0} /\ Len(up) \in Nat
    BY <2>1, <2>2
  <2>4. QED
    BY <1>1, <2>1, <2>2, <2>3
<1>3. /\ PartOf(up, call, says, k) /\ PartOf(caller.out, call, says, k + Len(up))
      /\ k + Len(up) + Len(caller.out) = Count(says) /\ k + Len(up) < Count(says)
  BY <1>1, <1>2 DEF Requesting
<1>4. /\ Head(caller.out) \in Segment
      /\ Head(caller.out) = Segments(call, says)[k + Len(up) + 1]
      /\ Tail(caller.out) \in Seq(Segment) /\ Len(Tail(caller.out)) = Len(caller.out) - 1
      /\ PartOf(Tail(caller.out), call, says, k + Len(up) + 1)
  BY <1>2, <1>3, PartTail
<1>5. /\ up' = Append(up, Head(caller.out)) /\ up' \in Seq(Segment)
      /\ Len(up') = Len(up) + 1 /\ PartOf(up', call, says, k)
  BY <1>2, <1>3, <1>4, PartAppend, SMTT(30) DEF CallerWrites
<1>6. UNCHANGED <<server, down, linked, effect, told>>
  BY DEF CallerWrites
<1>7. CASE Len(caller.out) = 1
  <2>1. caller' = Resume("read")
    BY <1>7 DEF CallerWrites
  <2>2. caller' \in Side /\ caller'.stage = "read" /\ caller'.plain = 0
    BY <2>1, ResumeIs
  <2>3. k + Len(up') = Count(says)
    BY <1>2, <1>3, <1>5, <1>7, OneMore
  <2>4. Requesting(call, says, k)'
    BY <1>1, <1>2, <1>5, <1>6, <2>2, <2>3 DEF Requesting, LastCall, Settled
  <2>5. WireTypeOK'
    BY <1>2, <1>5, <1>6, <2>2 DEF WireTypeOK
  <2>6. QED
    BY <1>6, <2>4, <2>5 DEF Kept, WireInv, RequestOnItsWay
<1>8. CASE Len(caller.out) # 1
  <2>1. caller' = [caller EXCEPT !.out = Tail(@)]
    BY <1>8 DEF CallerWrites
  <2>2. caller' \in Side /\ caller'.stage = "write" /\ caller'.out = Tail(caller.out)
    BY <1>2, <1>4, <2>1 DEF Side
  <2>3. caller'.out # << >> /\ k + Len(up') < Count(says)
        /\ PartOf(caller'.out, call, says, k + Len(up'))
        /\ k + Len(up') + Len(caller'.out) = Count(says)
    <3>1. /\ k + Len(up') = k + Len(up) + 1 /\ Len(caller.out) - 1 > 0
          /\ k + Len(up') + (Len(caller.out) - 1) = Count(says)
          /\ k + Len(up') < Count(says)
      <4>1. /\ Len(up) \in Nat /\ Len(caller.out) \in Nat /\ Count(says) \in Nat
            /\ k + Len(up) + Len(caller.out) = Count(says) /\ k + Len(up) < Count(says)
            /\ Len(caller.out) # 1 /\ Len(up') = Len(up) + 1
        BY <1>2, <1>3, <1>5, <1>8
      <4>2. PICK a \in Nat, b \in Nat, c \in Nat :
                a = Len(up) /\ b = Len(caller.out) /\ c = Count(says)
        BY <4>1
      <4>3. k + a + b = c /\ k + a < c /\ b # 1
        BY <4>1, <4>2
      <4>4. /\ b - 1 > 0 /\ k + (a + 1) = k + a + 1 /\ k + (a + 1) < c
            /\ k + (a + 1) + (b - 1) = c
        BY <4>3, OneMore
      <4>5. QED
        BY <4>1, <4>2, <4>4
    <3>2. Len(caller'.out) = Len(caller.out) - 1 /\ caller'.out \in Seq(Segment)
      BY <1>4, <2>2
    <3>3. PartOf(caller'.out, call, says, k + Len(up'))
      BY <1>4, <2>2, <3>1
    <3>4. caller'.out # << >>
      BY <3>1, <3>2
    <3>5. QED
      BY <3>1, <3>2, <3>3, <3>4
  <2>4. Requesting(call, says, k)'
    BY <1>1, <1>2, <1>5, <1>6, <2>2, <2>3 DEF Requesting, LastCall, Settled
  <2>5. WireTypeOK'
    BY <1>2, <1>5, <1>6, <2>2 DEF WireTypeOK
  <2>6. QED
    BY <1>6, <2>4, <2>5 DEF Kept, WireInv, RequestOnItsWay
<1>9. QED
  BY <1>7, <1>8

\* A segment of the reply leaves the server.
LEMMA ServerWritesStep ==
    ASSUME WireInv, ServerWrites
    PROVE  Kept
<1>1. PICK call \in Nat, k \in Nat, says \in Message : Replying(call, says, k)
  BY Phases DEF ServerWrites, ReplyOnItsWay
<1>2. /\ WireTypeOK /\ linked /\ server.stage = "write" /\ Count(says) \in Nat
      /\ down \in Seq(Segment) /\ Len(down) \in Nat
      /\ server.out \in Seq(Segment) /\ Len(server.out) \in Nat /\ server \in Side
      /\ k \in Nat
  BY <1>1, TypesOfSides, CountBounds, SMTT(30) DEF ServerWrites, WireInv, WireTypeOK
<1>3. /\ PartOf(down, call, says, k) /\ PartOf(server.out, call, says, k + Len(down))
      /\ k + Len(down) + Len(server.out) = Count(says) /\ k + Len(down) < Count(says)
  BY <1>1, <1>2 DEF Replying
<1>4. server.out # << >> /\ Len(server.out) \in Nat \ {0}
  <2>1. Len(server.out) \in Nat \ {0}
    <3>1. /\ Len(down) \in Nat /\ Len(server.out) \in Nat /\ Count(says) \in Nat
          /\ k + Len(down) + Len(server.out) = Count(says) /\ k + Len(down) < Count(says)
      BY <1>2, <1>3
    <3>2. PICK a \in Nat, b \in Nat, c \in Nat :
              a = Len(down) /\ b = Len(server.out) /\ c = Count(says)
      BY <3>1
    <3>3. k + a + b = c /\ k + a < c
      BY <3>1, <3>2
    <3>4. b > 0
      BY <3>3, OneMore
    <3>5. QED
      BY <3>2, <3>4
  <2>2. QED
    BY <1>2, <2>1
<1>5. /\ Head(server.out) \in Segment
      /\ Head(server.out) = Segments(call, says)[k + Len(down) + 1]
      /\ Tail(server.out) \in Seq(Segment) /\ Len(Tail(server.out)) = Len(server.out) - 1
      /\ PartOf(Tail(server.out), call, says, k + Len(down) + 1)
  BY <1>2, <1>3, <1>4, PartTail
<1>6. /\ down' = Append(down, Head(server.out)) /\ down' \in Seq(Segment)
      /\ Len(down') = Len(down) + 1 /\ PartOf(down', call, says, k)
  BY <1>2, <1>3, <1>5, PartAppend, SMTT(30) DEF ServerWrites
<1>7. UNCHANGED <<caller, up, linked, effect, told>>
  BY DEF ServerWrites
<1>8. Head(server.out).says = says
  <2>1. k + Len(down) + 1 \in 1 .. Count(says)
    BY <1>2, <1>3
  <2>2. QED
    BY <1>5, <2>1, SegmentsTyped
<1>9. CASE Len(server.out) = 1
  <2>1. server' = Resume(IF says = "bye" THEN "closed" ELSE "read")
    BY <1>8, <1>9 DEF ServerWrites
  <2>2. /\ server' \in Side /\ server'.stage = (IF says = "bye" THEN "closed" ELSE "read")
        /\ server'.plain = 0
    BY <2>1, ResumeIs
  <2>3. k + Len(down') = Count(says)
    BY <1>2, <1>3, <1>6, <1>9, OneMore
  <2>4. Replying(call, says, k)'
    BY <1>1, <1>2, <1>6, <1>7, <2>2, <2>3 DEF Replying, LastCall, Settled
  <2>5. WireTypeOK'
    BY <1>2, <1>6, <1>7, <2>2 DEF WireTypeOK
  <2>6. QED
    BY <1>7, <2>4, <2>5 DEF Kept, WireInv, ReplyOnItsWay
<1>10. CASE Len(server.out) # 1
  <2>1. server' = [server EXCEPT !.out = Tail(@)]
    <3>1. Len(server.out) > 1
      BY <1>2, <1>3, <1>10, OneMore
    <3>2. QED
      BY <3>1 DEF ServerWrites
  <2>2. server' \in Side /\ server'.stage = "write" /\ server'.out = Tail(server.out)
    BY <1>2, <1>5, <2>1 DEF Side
  <2>3. k + Len(down') < Count(says)
        /\ PartOf(server'.out, call, says, k + Len(down'))
        /\ k + Len(down') + Len(server'.out) = Count(says)
    <3>1. /\ k + Len(down') = k + Len(down) + 1 /\ k + Len(down') < Count(says)
          /\ k + Len(down') + (Len(server.out) - 1) = Count(says)
      <4>1. /\ Len(down) \in Nat /\ Len(server.out) \in Nat /\ Count(says) \in Nat
            /\ k + Len(down) + Len(server.out) = Count(says) /\ k + Len(down) < Count(says)
            /\ Len(server.out) # 1 /\ Len(down') = Len(down) + 1
        BY <1>2, <1>3, <1>6, <1>10
      <4>2. PICK a \in Nat, b \in Nat, c \in Nat :
                a = Len(down) /\ b = Len(server.out) /\ c = Count(says)
        BY <4>1
      <4>3. k + a + b = c /\ k + a < c /\ b # 1
        BY <4>1, <4>2
      <4>4. /\ b - 1 > 0 /\ k + (a + 1) = k + a + 1 /\ k + (a + 1) < c
            /\ k + (a + 1) + (b - 1) = c
        BY <4>3, OneMore
      <4>5. QED
        BY <4>1, <4>2, <4>4
    <3>2. Len(server'.out) = Len(server.out) - 1
      BY <1>5, <2>2
    <3>3. PartOf(server'.out, call, says, k + Len(down'))
      BY <1>5, <2>2, <3>1
    <3>4. QED
      BY <3>1, <3>2, <3>3
  <2>4. Replying(call, says, k)'
    BY <1>1, <1>2, <1>6, <1>7, <2>2, <2>3 DEF Replying, LastCall, Settled
  <2>5. WireTypeOK'
    BY <1>2, <1>6, <1>7, <2>2 DEF WireTypeOK
  <2>6. QED
    BY <1>7, <2>4, <2>5 DEF Kept, WireInv, ReplyOnItsWay
<1>11. QED
  BY <1>9, <1>10

\* The server has read more of the request, or handles it, as the call it is of.
LEMMA ServerReadsStep ==
    ASSUME WireInv, ServerReads
    PROVE  Kept
<1>1. PICK call \in Nat, k \in Nat, says \in Message : Requesting(call, says, k)
  BY Phases DEF ServerReads, RequestOnItsWay
<1> DEFINE seg == Head(up)
           plain == server.plain + seg.bytes
<1>2. /\ WireTypeOK /\ server.stage = "read" /\ up # << >> /\ Count(says) \in Nat
      /\ up \in Seq(Segment) /\ server \in Side /\ k \in Nat /\ k < Count(says)
      /\ says \in Request \cup {"bye"} /\ "bye" \notin Request
      /\ server.plain = k * MaxSegment /\ PartOf(up, call, says, k)
      /\ up' = Tail(up) /\ UNCHANGED <<caller, down, linked, told>>
  BY <1>1, CountBounds, WireAssumption DEF ServerReads, WireInv, WireTypeOK, Requesting
<1>3. /\ seg = Segments(call, says)[k + 1]
      /\ up' \in Seq(Segment) /\ Len(up) \in Nat \ {0} /\ Len(up') = Len(up) - 1
      /\ PartOf(up', call, says, k + 1)
  BY <1>2, PartTail
<1>4. /\ plain \in Nat
      /\ k + 1 = Count(says) <=> Whole(plain, seg)
      /\ k + 1 < Count(says) => plain = (k + 1) * MaxSegment
  <2> HIDE DEF seg
  <2>1. QED
    BY <1>2, <1>3, WholeAtLast
<1>5. seg.says = says /\ seg.call = call
  <2>1. k + 1 \in 1 .. Count(says)
    BY <1>2
  <2> HIDE DEF seg
  <2>2. /\ Segments(call, says)[k + 1].says = says
        /\ Segments(call, says)[k + 1].call = call
    BY <2>1, SegmentsTyped
  <2>3. QED
    BY <1>3, <2>2
<1>6. CASE ~ Whole(plain, seg)
  <2>1. server' = [server EXCEPT !.plain = plain] /\ UNCHANGED effect
    BY <1>6 DEF ServerReads
  <2>2. server' \in Side /\ server'.stage = "read" /\ server'.plain = plain
    BY <1>2, <1>4, <2>1 DEF Side
  <2>3. k + 1 < Count(says) /\ plain = (k + 1) * MaxSegment
    BY <1>2, <1>4, <1>6
  <2>4. (k + 1) + Len(up') = k + Len(up)
    BY <1>2, <1>3
  <2> HIDE DEF plain, seg
  <2>5. Requesting(call, says, k + 1)'
    BY <1>1, <1>2, <1>3, <2>1, <2>2, <2>3, <2>4 DEF Requesting, LastCall, Settled
  <2>6. WireTypeOK'
    BY <1>2, <1>3, <2>1, <2>2 DEF WireTypeOK
  <2>7. Len(effect') = Len(told') /\ k + 1 \in Nat
    BY <1>2, <2>1 DEF WireInv
  <2>8. RequestOnItsWay'
    BY <2>5, <2>7 DEF RequestOnItsWay
  <2>9. QED
    BY <1>2, <2>1, <2>6, <2>7, <2>8 DEF Kept, WireInv
<1>7. ASSUME Whole(plain, seg), NEW answer \in Reply,
             server' = Writing("write", call, answer), says = "bye" <=> answer = "bye",
             effect' \in Seq({"none", "stored", "failed"}), Len(effect') = Len(effect),
             [Remote!RemoteNext]_<<effect, told>>,
             answer # "bye" => effect' = [effect EXCEPT ![call] = answer],
             answer = "bye" => effect' = effect
      PROVE  Kept
  <2>1. /\ server' \in Side /\ server'.stage = "write"
        /\ server'.out \in Seq(Segment) /\ Len(server'.out) = Count(answer)
        /\ PartOf(server'.out, call, answer, 0) /\ Count(answer) \in Nat \ {0}
        /\ answer \in Message
    BY <1>7, WritingIs, CountBounds DEF Message
  <2>2. k + 1 = Count(says)
    BY <1>4, <1>7
  <2>3. k + Len(up) <= Count(says)
    BY <1>2 DEF PartOf
  <2>4. up' = << >> /\ Len(up) = 1
    BY <1>2, <1>3, <2>2, <2>3
  <2>5. caller.stage \in {"read", "closed"}
    <3>1. ~ (k + Len(up) < Count(says))
      BY <1>2, <2>2, <2>4
    <3>2. QED
      BY <1>1, <3>1 DEF Requesting
  <2>6. WireTypeOK'
    BY <1>2, <1>3, <1>7, <2>1 DEF WireTypeOK
  <2>7. CASE caller.stage = "closed"
    BY <1>1, <1>2, <1>7, <2>4, <2>6, <2>7 DEF Kept, WireInv, Over, Requesting
  <2>8. CASE caller.stage = "read"
    <3>1. caller'.plain = 0 * MaxSegment /\ down' = << >> /\ caller'.stage = "read"
      BY <1>1, <1>2, <2>8, WireAssumption DEF Requesting
    <3>2. PartOf(down', call, answer, 0) /\ Len(down') = 0
      BY <2>1, <3>1 DEF PartOf
    <3>3. PartOf(server'.out, call, answer, 0 + Len(down'))
          /\ 0 + Len(down') + Len(server'.out) = Count(answer)
          /\ 0 + Len(down') < Count(answer)
      BY <2>1, <3>2
    <3>4. answer # "bye" => LastCall(call, answer, "waiting")'
      <4> SUFFICES ASSUME answer # "bye" PROVE LastCall(call, answer, "waiting")'
        OBVIOUS
      <4>1. LastCall(call, "none", "waiting")
        BY <1>1, <1>7, <2>8 DEF Requesting, LastCall
      <4>2. call \in DOMAIN effect
        BY <4>1 DEF LastCall, WireInv, WireTypeOK
      <4>3. QED
        BY <1>2, <1>7, <4>1, <4>2 DEF LastCall, Settled
    <3>5. answer = "bye" => \A n \in DOMAIN told' : Settled(n)'
      BY <1>1, <1>2, <1>7 DEF Requesting, Settled
    <3>6. Replying(call, answer, 0)'
      BY <1>7, <2>1, <2>4, <3>1, <3>2, <3>3, <3>4, <3>5 DEF Replying
    <3>7. QED
      BY <1>2, <1>7, <2>1, <2>6, <3>6 DEF Kept, WireInv, ReplyOnItsWay
  <2>9. QED
    BY <2>5, <2>7, <2>8
<1>8. CASE Whole(plain, seg) /\ says = "bye"
  <2>1. server' = Writing("write", call, "bye") /\ UNCHANGED effect
    BY <1>5, <1>8 DEF ServerReads
  <2>2. effect' \in Seq({"none", "stored", "failed"})
    BY <1>2, <2>1 DEF WireTypeOK
  <2> HIDE DEF plain, seg
  <2>3. QED
    BY <1>2, <1>7, <1>8, <2>1, <2>2 DEF Reply
<1>9. CASE Whole(plain, seg) /\ says # "bye"
  <2>1. PICK answer \in {"stored", "failed"} :
            /\ effect' = [effect EXCEPT ![call] = answer]
            /\ server' = Writing("write", call, answer)
    BY <1>5, <1>9 DEF ServerReads
  <2>2. /\ effect \in Seq({"none", "stored", "failed"}) /\ Len(effect) = Len(told)
        /\ Len(told) \in Nat /\ DOMAIN effect = 1 .. Len(effect)
    BY DEF WireInv, WireTypeOK
  <2>3. LastCall(call, "none", IF caller.stage = "closed" THEN "lost" ELSE "waiting")
    BY <1>1, <1>9 DEF Requesting
  <2>4. call \in DOMAIN effect /\ effect[call] = "none" /\ told[call] \in {"waiting", "lost"}
    BY <2>2, <2>3 DEF LastCall
  <2>5. effect' \in Seq({"none", "stored", "failed"}) /\ Len(effect') = Len(effect)
    BY <2>1, <2>2, <2>4
  <2>6. Remote!TakeEffect
    BY <1>2, <2>1, <2>4 DEF Remote!TakeEffect
  <2> HIDE DEF plain, seg
  <2>7. QED
    BY <1>7, <1>9, <2>1, <2>5, <2>6 DEF Reply, Remote!RemoteNext
<1>10. QED
  BY <1>6, <1>8, <1>9

\* The caller has read more of the reply, or returns with it, as the call it is of.
LEMMA CallerReadsStep ==
    ASSUME WireInv, CallerReads
    PROVE  Kept
<1>1. PICK call \in Nat, k \in Nat, says \in Message : Replying(call, says, k)
  BY Phases DEF CallerReads, ReplyOnItsWay
<1> DEFINE seg == Head(down)
           plain == caller.plain + seg.bytes
<1>2. /\ WireTypeOK /\ caller.stage = "read" /\ down # << >> /\ Count(says) \in Nat
      /\ down \in Seq(Segment) /\ caller \in Side /\ k \in Nat /\ k < Count(says)
      /\ says \in Reply /\ up = << >>
      /\ caller.plain = k * MaxSegment /\ PartOf(down, call, says, k)
      /\ down' = Tail(down) /\ UNCHANGED <<server, up, effect>>
  BY <1>1, CountBounds DEF CallerReads, WireInv, WireTypeOK, Replying
<1>3. /\ seg = Segments(call, says)[k + 1]
      /\ down' \in Seq(Segment) /\ Len(down) \in Nat \ {0} /\ Len(down') = Len(down) - 1
      /\ PartOf(down', call, says, k + 1)
  BY <1>2, PartTail
<1>4. /\ plain \in Nat
      /\ k + 1 = Count(says) <=> Whole(plain, seg)
      /\ k + 1 < Count(says) => plain = (k + 1) * MaxSegment
  <2> HIDE DEF seg
  <2>1. QED
    BY <1>2, <1>3, WholeAtLast
<1>5. seg.says = says
  <2>1. k + 1 \in 1 .. Count(says)
    BY <1>2
  <2> HIDE DEF seg
  <2>2. Segments(call, says)[k + 1].says = says
    BY <2>1, SegmentsTyped
  <2>3. QED
    BY <1>3, <2>2
<1>6. CASE ~ Whole(plain, seg)
  <2>1. caller' = [caller EXCEPT !.plain = plain] /\ UNCHANGED <<linked, told>>
    BY <1>6 DEF CallerReads
  <2>2. caller' \in Side /\ caller'.stage = "read" /\ caller'.plain = plain
    BY <1>2, <1>4, <2>1 DEF Side
  <2>3. k + 1 < Count(says) /\ plain = (k + 1) * MaxSegment
    BY <1>2, <1>4, <1>6
  <2>4. (k + 1) + Len(down') = k + Len(down)
    BY <1>2, <1>3
  <2> HIDE DEF plain, seg
  <2>5. Replying(call, says, k + 1)'
    <3>1. server.stage # "write" \/ ~ linked \/
              (PartOf(server.out, call, says, (k + 1) + Len(down'))
               /\ (k + 1) + Len(down') + Len(server.out) = Count(says))
      BY <1>1, <2>4 DEF Replying
    <3>2. linked => server.stage = IF (k + 1) + Len(down') < Count(says) THEN "write"
                                   ELSE IF says = "bye" THEN "closed" ELSE "read"
      BY <1>1, <2>4 DEF Replying
    <3>3. server.stage = "write" => (k + 1) + Len(down') < Count(says)
      BY <1>1, <2>4 DEF Replying
    <3>4. /\ says # "bye" => LastCall(call, says, "waiting")'
          /\ says = "bye" => \A n \in DOMAIN told' : Settled(n)'
      BY <1>1, <1>2, <2>1 DEF Replying, LastCall, Settled
    <3>5. QED
      BY <1>1, <1>2, <1>3, <2>1, <2>2, <2>3, <3>1, <3>2, <3>3, <3>4 DEF Replying
  <2>6. WireTypeOK'
    BY <1>2, <1>3, <2>1, <2>2 DEF WireTypeOK
  <2>7. Len(effect') = Len(told') /\ k + 1 \in Nat
    BY <1>2, <2>1 DEF WireInv
  <2>8. ReplyOnItsWay'
    BY <2>5, <2>7 DEF ReplyOnItsWay
  <2>9. QED
    BY <1>2, <2>1, <2>6, <2>7, <2>8 DEF Kept, WireInv
<1>7. CASE Whole(plain, seg) /\ says = "bye"
  <2>1. caller' = Resume("closed") /\ linked' = FALSE /\ UNCHANGED told
    BY <1>5, <1>7 DEF CallerReads
  <2> HIDE DEF plain, seg
  <2>2. Over' /\ WireTypeOK' /\ Len(effect') = Len(told')
    BY <1>2, <1>3, <2>1, ResumeIs DEF Over, WireTypeOK, WireInv
  <2>3. QED
    BY <1>2, <2>1, <2>2 DEF Kept, WireInv
<1>8. CASE Whole(plain, seg) /\ says # "bye"
  <2>1. /\ caller' = Resume("idle") /\ UNCHANGED linked
        /\ told' = [told EXCEPT ![Len(told)] = says]
    BY <1>5, <1>8 DEF CallerReads
  <2>2. k + 1 = Count(says)
    BY <1>4, <1>8
  <2> HIDE DEF plain, seg
  <2>3. down' = << >> /\ Len(down) = 1
    <3>1. k + Len(down) <= Count(says)
      BY <1>2 DEF PartOf
    <3>2. QED
      BY <1>2, <1>3, <2>2, <3>1
  <2>4. ~ (k + Len(down) < Count(says))
    BY <1>2, <2>2, <2>3
  <2>5. /\ server.stage \in {"read", "closed"}
        /\ linked => server.stage = "read"
        /\ server.stage = "read" => server.plain = 0
    BY <1>1, <1>8, <2>4 DEF Replying
  <2>6. LastCall(call, says, "waiting") /\ says \in {"stored", "failed"}
    BY <1>1, <1>2, <1>8 DEF Replying, Reply
  <2>7. /\ told \in Seq({"waiting", "stored", "failed", "lost"}) /\ Len(effect) = Len(told)
        /\ call = Len(told) /\ call \in DOMAIN told /\ told[call] = "waiting"
        /\ effect[call] = says /\ DOMAIN told = 1 .. Len(told) /\ Len(told) \in Nat
    BY <2>6 DEF WireInv, WireTypeOK, LastCall
  <2>8. /\ told' \in Seq({"waiting", "stored", "failed", "lost"}) /\ Len(told') = Len(told)
        /\ DOMAIN told' = DOMAIN told /\ told'[call] = says
        /\ \A n \in DOMAIN told : n # call => told'[n] = told[n]
    BY <2>1, <2>6, <2>7
  <2>9. \A n \in DOMAIN told' : Settled(n)'
    <3>1. \A n \in DOMAIN told : n # call => n \in 1 .. (Len(told) - 1)
      BY <2>7
    <3>2. QED
      BY <2>6, <2>8, <3>1 DEF LastCall, Settled
  <2>10. Remote!Return
    BY <1>2, <2>1, <2>6, <2>7 DEF Remote!Return
  <2>11. AtRest'
    BY <1>2, <2>1, <2>3, <2>5, <2>9, ResumeIs DEF AtRest
  <2>12. WireTypeOK' /\ Len(effect') = Len(told')
    BY <1>2, <1>3, <2>1, <2>7, <2>8, ResumeIs DEF WireTypeOK
  <2>13. QED
    BY <2>10, <2>11, <2>12 DEF Kept, WireInv, Remote!RemoteNext
<1>9. QED
  BY <1>6, <1>7, <1>8

\* The caller finds the link dead.
LEMMA CallerFailsStep ==
    ASSUME WireInv, CallerFails
    PROVE  Kept
<1> DEFINE Told == {"waiting", "stored", "failed", "lost"}
<1>1. /\ WireTypeOK /\ ~ linked /\ caller.stage # "closed" /\ caller' = Resume("closed")
      /\ told' = [n \in DOMAIN told |-> IF told[n] = "waiting" THEN "lost" ELSE told[n]]
      /\ UNCHANGED <<server, up, down, linked, effect>>
      /\ told \in Seq(Told) /\ Len(effect) = Len(told) /\ Len(told) \in Nat
      /\ DOMAIN told = 1 .. Len(told)
  BY DEF CallerFails, WireInv, WireTypeOK
<1>2. caller'.stage = "closed" /\ caller' \in Side
  BY <1>1, ResumeIs
<1>3. /\ told' \in Seq(Told) /\ Len(told') = Len(told) /\ DOMAIN told' = DOMAIN told
      /\ \A n \in DOMAIN told : told'[n] = IF told[n] = "waiting" THEN "lost" ELSE told[n]
  BY <1>1
<1>4. WireTypeOK' /\ Len(effect') = Len(told')
  BY <1>1, <1>2, <1>3 DEF WireTypeOK
<1>5. ASSUME \A n \in DOMAIN told : Settled(n)
      PROVE  told' = told
  BY <1>1, <1>5 DEF Settled
<1>6. ASSUME NEW call \in Nat, NEW does, LastCall(call, does, "waiting")
      PROVE  /\ LastCall(call, does, "lost")' /\ Remote!Return
  <2>1. call \in DOMAIN told /\ told[call] = "waiting" /\ call = Len(told)
    BY <1>1, <1>6 DEF LastCall
  <2>2. \A n \in DOMAIN told : n # call => told[n] \in {"stored", "failed"}
    <3>1. \A n \in DOMAIN told : n # call => n \in 1 .. (Len(told) - 1)
      BY <1>1, <2>1
    <3>2. QED
      BY <1>6, <3>1 DEF LastCall, Settled
  <2>3. told' = [told EXCEPT ![call] = "lost"]
    BY <1>1, <2>1, <2>2
  <2>4. Remote!Return
    BY <1>1, <2>1, <2>3 DEF Remote!Return
  <2>5. \A n \in 1 .. (Len(told') - 1) : Settled(n)'
    <3>1. \A n \in 1 .. (Len(told) - 1) : n \in DOMAIN told /\ n # call
      BY <1>1, <2>1
    <3>2. QED
      BY <1>3, <2>2, <3>1 DEF Settled
  <2>6. LastCall(call, does, "lost")'
    BY <1>1, <1>3, <1>6, <2>1, <2>5 DEF LastCall, Settled
  <2>7. QED
    BY <2>4, <2>6
<1>7. CASE InHello \/ AtRest
  <2>1. up = << >> /\ told' = told
    BY <1>1, <1>5, <1>7 DEF InHello, AtRest
  <2>2. Over'
    BY <1>1, <1>2, <2>1 DEF Over
  <2>3. QED
    BY <1>1, <1>4, <2>1, <2>2 DEF Kept, WireInv
<1>8. CASE ReplyOnItsWay
  <2>1. PICK call \in Nat, k \in Nat, says \in Message : Replying(call, says, k)
    BY <1>8 DEF ReplyOnItsWay
  <2>2. Over'
    BY <1>1, <1>2, <2>1 DEF Over, Replying
  <2>3. [Remote!RemoteNext]_<<effect, told>>
    BY <1>1, <1>5, <1>6, <2>1 DEF Replying, Remote!RemoteNext
  <2>4. QED
    BY <1>4, <2>2, <2>3 DEF Kept, WireInv
<1>9. CASE RequestOnItsWay
  <2>1. PICK call \in Nat, k \in Nat, says \in Message : Requesting(call, says, k)
    BY <1>9 DEF RequestOnItsWay
  <2>2. says # "bye" => LastCall(call, "none", "waiting")
    BY <1>1, <2>1 DEF Requesting
  <2>3. says = "bye" => told' = told
    BY <1>5, <2>1 DEF Requesting
  <2>4. [Remote!RemoteNext]_<<effect, told>>
    BY <1>1, <1>6, <2>2, <2>3 DEF Remote!RemoteNext
  <2>5. /\ says # "bye" => LastCall(call, "none", "lost")'
        /\ says = "bye" => \A n \in DOMAIN told' : Settled(n)'
    BY <1>3, <1>6, <2>1, <2>2, <2>3 DEF Requesting, Settled
  <2>6. Requesting(call, says, k)'
    BY <1>1, <1>2, <2>1, <2>5 DEF Requesting
  <2>7. QED
    BY <1>4, <2>4, <2>6 DEF Kept, WireInv, RequestOnItsWay
<1>10. CASE Over
  BY <1>1, <1>10 DEF Over
<1>11. QED
  BY <1>7, <1>8, <1>9, <1>10 DEF WireInv

\* The server finds the link dead.
LEMMA ServerFailsStep ==
    ASSUME WireInv, ServerFails
    PROVE  Kept
<1>1. /\ WireTypeOK /\ ~ linked /\ server.stage # "closed" /\ server' = Resume("closed")
      /\ UNCHANGED <<caller, up, down, linked, effect, told>>
      /\ Len(effect) = Len(told)
  BY DEF ServerFails, WireInv
<1>2. server' \in Side /\ server'.stage = "closed"
  BY <1>1, ResumeIs
<1>3. WireTypeOK' /\ Len(effect') = Len(told') /\ [Remote!RemoteNext]_<<effect, told>>
  BY <1>1, <1>2 DEF WireTypeOK
<1>4. ASSUME NEW n PROVE Settled(n)' <=> Settled(n)
  BY <1>1 DEF Settled
<1>5. CASE InHello
  BY <1>1, <1>2, <1>3, <1>5 DEF InHello, Kept, WireInv
<1>6. CASE AtRest
  BY <1>1, <1>2, <1>3, <1>4, <1>6 DEF AtRest, Kept, WireInv
<1>7. CASE RequestOnItsWay
  <2>1. PICK call \in Nat, k \in Nat, says \in Message : Requesting(call, says, k)
    BY <1>7 DEF RequestOnItsWay
  <2>2. Requesting(call, says, k)'
    BY <1>1, <1>2, <1>4, <2>1 DEF Requesting, LastCall
  <2>3. QED
    BY <1>3, <2>2 DEF Kept, WireInv, RequestOnItsWay
<1>8. CASE ReplyOnItsWay
  <2>1. PICK call \in Nat, k \in Nat, says \in Message : Replying(call, says, k)
    BY <1>8 DEF ReplyOnItsWay
  <2>2. Replying(call, says, k)'
    BY <1>1, <1>2, <1>4, <2>1 DEF Replying, LastCall
  <2>3. QED
    BY <1>3, <2>2 DEF Kept, WireInv, ReplyOnItsWay
<1>9. CASE Over
  BY <1>1, <1>3, <1>9 DEF Over, Kept, WireInv
<1>10. QED
  BY <1>5, <1>6, <1>7, <1>8, <1>9 DEF WireInv

\* The link is cut.
LEMMA CutLinkStep ==
    ASSUME WireInv, CutLink
    PROVE  Kept
<1>1. PICK i \in 0 .. Len(up), j \in 0 .. Len(down) :
          up' = SubSeq(up, 1, i) /\ down' = SubSeq(down, 1, j)
  BY DEF CutLink
<1>2. /\ WireTypeOK /\ linked /\ linked' = FALSE /\ UNCHANGED <<caller, server, effect, told>>
      /\ Len(effect) = Len(told) /\ up \in Seq(Segment) /\ down \in Seq(Segment)
      /\ Len(up) \in Nat /\ Len(down) \in Nat
  BY DEF CutLink, WireInv, WireTypeOK
<1>3. /\ up' \in Seq(Segment) /\ Len(up') = i /\ i <= Len(up)
      /\ down' \in Seq(Segment) /\ Len(down') = j /\ j <= Len(down)
  <2>1. \A s \in Seq(Segment) : \A n \in 0 .. Len(s) :
            SubSeq(s, 1, n) \in Seq(Segment) /\ Len(SubSeq(s, 1, n)) = n
    <3>1. SUFFICES ASSUME NEW s \in Seq(Segment), NEW n \in 0 .. Len(s)
                   PROVE  SubSeq(s, 1, n) \in Seq(Segment) /\ Len(SubSeq(s, 1, n)) = n
      OBVIOUS
    <3>2. \A m \in 1 .. n : s[m] \in Segment
      OBVIOUS
    <3>3. QED
      BY <3>2, SubSeqProperties
  <2>2. QED
    BY <1>1, <1>2, <2>1
<1>4. /\ up = << >> => up' = << >>
      /\ down = << >> => down' = << >>
  BY <1>2, <1>3
<1>5. WireTypeOK' /\ Len(effect') = Len(told') /\ [Remote!RemoteNext]_<<effect, told>>
  BY <1>2, <1>3 DEF WireTypeOK
<1>6. ASSUME NEW n PROVE Settled(n)' <=> Settled(n)
  BY <1>2 DEF Settled
<1>7. CASE InHello
  BY <1>2, <1>4, <1>5, <1>7 DEF InHello, Kept, WireInv
<1>8. CASE AtRest
  BY <1>2, <1>4, <1>5, <1>6, <1>8 DEF AtRest, Kept, WireInv
<1>9. CASE RequestOnItsWay
  <2>1. PICK call \in Nat, k \in Nat, says \in Message : Requesting(call, says, k)
    BY <1>9 DEF RequestOnItsWay
  <2>2. Count(says) \in Nat /\ PartOf(up, call, says, k)
    BY <2>1, CountBounds DEF Requesting
  <2>3. PartOf(up', call, says, k)
    BY <1>1, <1>2, <2>2, PartPrefix
  <2>4. caller.stage = "write" => k + Len(up') < Count(says)
    <3>1. caller.stage = "write" => k + Len(up) < Count(says)
      BY <2>1 DEF Requesting
    <3>2. Len(up') \in Nat /\ Len(up') <= Len(up)
      BY <1>2, <1>3
    <3>3. QED
      BY <1>2, <2>2, <3>1, <3>2
  <2>5. Requesting(call, says, k)'
    BY <1>2, <1>4, <1>6, <2>1, <2>3, <2>4 DEF Requesting, LastCall
  <2>6. QED
    BY <1>5, <2>5 DEF Kept, WireInv, RequestOnItsWay
<1>10. CASE ReplyOnItsWay
  <2>1. PICK call \in Nat, k \in Nat, says \in Message : Replying(call, says, k)
    BY <1>10 DEF ReplyOnItsWay
  <2>2. Count(says) \in Nat /\ PartOf(down, call, says, k)
    BY <2>1, CountBounds DEF Replying
  <2>3. PartOf(down', call, says, k)
    BY <1>1, <1>2, <2>2, PartPrefix
  <2>4. server.stage = "write" => k + Len(down') < Count(says)
    <3>1. server.stage = "write" => k + Len(down) < Count(says)
      BY <2>1 DEF Replying
    <3>2. Len(down') \in Nat /\ Len(down') <= Len(down)
      BY <1>2, <1>3
    <3>3. QED
      BY <1>2, <2>2, <3>1, <3>2
  <2>5. Replying(call, says, k)'
    BY <1>2, <1>4, <1>6, <2>1, <2>3, <2>4 DEF Replying, LastCall
  <2>6. QED
    BY <1>5, <2>5 DEF Kept, WireInv, ReplyOnItsWay
<1>11. CASE Over
  BY <1>2, <1>11 DEF Over
<1>12. QED
  BY <1>7, <1>8, <1>9, <1>10, <1>11 DEF WireInv

-----------------------------------------------------------------------------
(* The session.                                                            *)

\* Every step.
LEMMA WireStep ==
    ASSUME WireInv, [WireNext]_wireVars
    PROVE  Kept
<1>1. CASE UNCHANGED wireVars
  <2>1. /\ UNCHANGED <<caller, server, up, down, linked, effect, told>>
        /\ [Remote!RemoteNext]_<<effect, told>>
    BY <1>1 DEF wireVars
  <2>2. ASSUME NEW call \in Nat, NEW k \in Nat, NEW says \in Message
        PROVE  /\ Requesting(call, says, k) => Requesting(call, says, k)'
               /\ Replying(call, says, k) => Replying(call, says, k)'
    BY <2>1 DEF Requesting, Replying, LastCall, Settled
  <2>3. /\ RequestOnItsWay => RequestOnItsWay'
        /\ ReplyOnItsWay => ReplyOnItsWay'
    BY <2>2 DEF RequestOnItsWay, ReplyOnItsWay
  <2>4. InHello \/ AtRest \/ Over => InHello' \/ AtRest' \/ Over'
    BY <2>1 DEF InHello, AtRest, Over, Settled
  <2>5. WireTypeOK' /\ Len(effect') = Len(told')
    BY <2>1 DEF WireInv, WireTypeOK
  <2>6. QED
    BY <2>1, <2>3, <2>4, <2>5 DEF WireInv, Kept
<1>2. CASE SideSteps
  BY <1>2, CallerWritesStep, CallerReadsStep, CallerFailsStep, ServerReadsStep,
      ServerWritesStep, ServerFailsStep DEF SideSteps
<1>3. CASE Handshake \/ SayBye \/ CutLink \/ \E req \in Request : Call(req)
  BY <1>3, HandshakeStep, SayByeStep, CutLinkStep, CallStep
<1>4. QED
  BY <1>1, <1>2, <1>3 DEF WireNext

\* Between its steps a session is where the invariant says: before the handshake,
\* at rest, with one request or one reply on its way, or over for the caller.
THEOREM WireInvCorrect == WireSpec => []WireInv
<1>1. WireInit => WireInv
  <2>1. SUFFICES ASSUME WireInit PROVE WireInv
    OBVIOUS
  <2>2. WireTypeOK /\ InHello
    BY <2>1, ResumeIs DEF WireInit, WireTypeOK, InHello
  <2>3. QED
    BY <2>1, <2>2 DEF WireInit, WireInv
<1>2. WireInv /\ [WireNext]_wireVars => WireInv'
  BY WireStep DEF Kept
<1>3. QED
  BY <1>1, <1>2, PTL DEF WireSpec

\* The sides and the streams hold what NetworkTransport and serve_stream hold.
THEOREM WireTypeCorrect == WireSpec => []WireTypeOK
BY WireInvCorrect, PTL DEF WireInv

\* NetworkTransport::call over segments of any size, with the link cut anywhere,
\* is a call that takes effect at most once and is answered with what it did.
THEOREM SessionImplementsRemoteCall == WireSpec => CallsAreRemote
<1>1. WireInit => Remote!RemoteInit
  BY DEF WireInit, Remote!RemoteInit
<1>2. WireInv /\ [WireNext]_wireVars => [Remote!RemoteNext]_<<effect, told>>
  BY WireStep DEF Kept
<1>3. QED
  BY <1>1, <1>2, WireInvCorrect, PTL DEF WireSpec, CallsAreRemote, Remote!RemoteSpec
=============================================================================
