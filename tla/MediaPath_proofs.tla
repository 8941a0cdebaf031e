-------------------------- MODULE MediaPath_proofs --------------------------
(***************************************************************************)
(* Theorems about the path of the media from the station to the viewers'   *)
(* queues: about Transport, for frames and media of any length and bytes   *)
(* that arrive in pieces of any size, and about HikDecoder, which gets the *)
(* media in chunks of any size, for any header length, any marker and any  *)
(* base of the length field.                                               *)
(***************************************************************************)
EXTENDS Transport, HikDecoder, SequenceTheorems, TLAPS

(* The bytes of the exchange, and the socket that close is about to close. *)
Progress ==
  /\ phase # "started" => closer = "idle" /\ reader = "idle" /\ ~playSock /\ media = 0
  /\ At("tls") => got = 0 /\ phase = "cas"
  /\ At("route") => phase = "discover"
  /\ At("reply") => phase # "discover"
  /\ closer \in {"idle", "shutdown", "close"} /\ phase = "started" => playSock

Inv == TypeOK /\ Progress /\ RepliesExact /\ SocketsAccounted

LEMMA Sizes ==
  ASSUME TypeOK
  PROVE  /\ WireSize \in Nat /\ Expected = WireSize /\ HeaderLen <= WireSize
         /\ TrailerLen \in Nat /\ Media \in Nat /\ HeaderLen \in Nat \ {0}
<1>1. frame.body \in Nat /\ frame.hint \in Nat
  BY SizesAssumption DEF TypeOK, Frames
<1> QED
  BY <1>1, SizesAssumption DEF WireSize, Expected, CasRest, LanRest

LEMMA SizesNext ==
  ASSUME TypeOK'
  PROVE  WireSize' \in Nat /\ Expected' = WireSize' /\ HeaderLen <= WireSize'
<1>1. frame.body' \in Nat /\ frame.hint' \in Nat
  BY SizesAssumption DEF TypeOK, Frames
<1> QED
  BY <1>1, SizesAssumption DEF WireSize, Expected, CasRest, LanRest

LEMMA InvInit == Init => Inv
<1> SUFFICES ASSUME Init PROVE Inv
  OBVIOUS
<1>1. /\ lenient \in BOOLEAN /\ playSock \in BOOLEAN
      /\ closed \in BOOLEAN /\ shut \in BOOLEAN
  BY Zenon DEF Init
<1>2. TypeOK
  BY <1>1 DEF Init, TypeOK, Exchanges
<1>3. Progress /\ RepliesExact /\ SocketsAccounted
  BY DEF Init, Progress, RepliesExact, SocketsAccounted, At, Whole, Exchanges
<1> QED
  BY <1>2, <1>3 DEF Inv

(* A step that leaves the exchange and the bytes alone.                    *)
LEMMA SameSize ==
  ASSUME UNCHANGED <<phase, frame>>
  PROVE  WireSize' = WireSize /\ Expected' = Expected
BY DEF WireSize, Expected, CasRest, LanRest

LEMMA InvStep ==
  ASSUME Inv, [Next]_vars
  PROVE  Inv'
<1> USE DEF Inv, TypeOK, Progress, RepliesExact, SocketsAccounted, Exchanges, At, Whole,
            exchange, bytes, stream
<1> USE Sizes
<1>1. CASE UNCHANGED vars
  BY <1>1, SameSize DEF vars
<1>2. CASE Arrives
  BY <1>2, SameSize DEF Arrives
<1>3. CASE Connects
  <2>1. TypeOK'
    BY <1>3 DEF Connects
  <2> QED
    BY <1>3, <2>1, SizesNext DEF Connects
<1>4. CASE ConnectFails \/ HandshakeFails \/ ReplyFails \/ Unusable \/ PlayFails
  BY <1>4 DEF ConnectFails, HandshakeFails, ReplyFails, Unusable, PlayFails, Fail
<1>5. CASE Handshake \/ Expired
  <2>1. CASE Handshake
    BY <2>1, SameSize DEF Handshake
  <2>2. CASE Expired
    <3>1. /\ phase = "cas"
          /\ step = "tls" /\ step' = "connect" /\ open' = {} /\ lenient' = TRUE
          /\ UNCHANGED <<phase, frame, bytes, stream>>
      BY <2>2 DEF Expired
    <3>2. TypeOK'
      BY <3>1
    <3>3. Progress' /\ RepliesExact' /\ SocketsAccounted'
      BY <3>1
    <3> QED
      BY <3>2, <3>3
  <2> QED
    BY <1>5, <2>1, <2>2
<1>6. CASE Receives
  BY <1>6, SameSize DEF Receives, Room
<1>7. CASE Replied
  <2>1. /\ phase \in {"cas", "init", "invite"} /\ step = "reply"
        /\ open = {phase} /\ open' = {}
        /\ phase' \in {"discover", "invite", "play"} /\ step' = "connect"
        /\ UNCHANGED <<lenient, frame, bytes, stream>>
    BY <1>7 DEF Replied, Next1
  <2>2. TypeOK'
    BY <2>1
  <2>3. Progress' /\ RepliesExact' /\ SocketsAccounted'
    BY <2>1
  <2> QED
    BY <2>2, <2>3
<1>12. CASE Discovered \/ NoRoute
  BY <1>12 DEF Discovered, NoRoute
<1>8. CASE Played
  BY <1>8 DEF Played, WireSize
<1>9. CASE ReadStarts \/ SetsTimeout \/ Blocks \/ Released \/ ReadsNothing
  BY <1>9, SameSize DEF ReadStarts, SetsTimeout, Blocks, Released, ReadsNothing, ReaderGoes
<1>10. CASE Reads
  BY <1>10, SameSize DEF Reads, ReaderGoes
<1>11. CASE CloseStarts \/ Shuts \/ Closes \/ Forgets
  <2>1. CASE CloseStarts
    BY <2>1, SameSize DEF CloseStarts, CloserGoes
  <2>2. CASE Shuts
    BY <2>2, SameSize DEF Shuts, CloserGoes
  <2>3. CASE Closes
    BY <2>3, SameSize DEF Closes, CloserGoes
  <2>4. CASE Forgets
    BY <2>4, SameSize DEF Forgets, CloserGoes
  <2> QED
    BY <1>11, <2>1, <2>2, <2>3, <2>4
<1> QED
  BY <1>1, <1>2, <1>3, <1>4, <1>5, <1>6, <1>7, <1>8, <1>9, <1>10, <1>11, <1>12
     DEF Next, Opening, Reading, Closing

(* Every reachable state is well typed.                                    *)
THEOREM TypeCorrect == Spec => []TypeOK
<1>1. Inv => TypeOK
  BY DEF Inv
<1> QED
  BY <1>1, InvInit, InvStep, PTL DEF Spec

(* Replies are taken whole and exactly, for any sizes and any cuts.        *)
THEOREM Exact == Spec => []RepliesExact
<1>1. Inv => RepliesExact
  BY DEF Inv
<1> QED
  BY <1>1, InvInit, InvStep, PTL DEF Spec

(* No path through an opening, a failure or a close leaves a socket open,  *)
(* but for that of _discover_local_ip when it has no route to the station. *)
THEOREM NoSocketLeft == Spec => []SocketsAccounted
<1>1. Inv => SocketsAccounted
  BY DEF Inv
<1> QED
  BY <1>1, InvInit, InvStep, PTL DEF Spec

-----------------------------------------------------------------------------
(* The decoder                                                             *)

(* What packets come to.                                                   *)
Pieces == {Depacketized(packet) : packet \in Seq(Bytes)}

Places == [first : Nat, last : Nat]

DecoderTyped ==
  /\ buf \in Seq(Bytes) /\ fed \in Seq(Bytes) /\ synced \in BOOLEAN
  /\ out \in Seq(Pieces) /\ taken \in Seq(Pieces)
  /\ mode \in {"idle", "feeding", "raised"}
  /\ packets \in Seq(Places)

(* The buffer is the end of what was fed; what was deleted before it and   *)
(* after the last packet is no marker, nor the first byte of one that the  *)
(* next chunk may complete.                                                *)
Gone == Len(fed) - Len(buf)
LastEnd == EndBefore(Len(packets) + 1)

Suffix == Len(buf) <= Len(fed) /\ \A i \in 1..Len(buf) : buf[i] = fed[Gone + i]

Skipped ==
  /\ LastEnd <= Gone
  /\ LastEnd < Gone => buf # <<>>
  /\ NoMarkerIn(fed, LastEnd + 1, Gone)

(* Between two feeds the buffer has no complete packet.                    *)
Settled ==
  mode = "idle" => IF synced THEN Len(buf) < 4 \/ (MarkerAt(buf, 1) /\ ~Complete(buf, 1))
                             ELSE Len(buf) <= 1

(* The packets are the recording's, only the last one may break, and what  *)
(* was put out is what those before it hold.                               *)
PacketAt(k) == Packet(fed, packets[k].first)

OnlyLastBreaks ==
  \A k \in 1..Len(packets) :
    Breaks(PacketAt(k)) <=> mode = "raised" /\ k = Len(packets)

PutOut ==
  /\ Len(taken) + Len(out) = Len(packets) - (IF mode = "raised" THEN 1 ELSE 0)
  /\ \A k \in 1..Len(taken) : taken[k] = Depacketized(PacketAt(k))
  /\ \A k \in 1..Len(out) : out[k] = Depacketized(PacketAt(Len(taken) + k))
  /\ mode = "idle" => out = <<>>

Framing == Suffix /\ Skipped /\ Settled
Output == Packets /\ OnlyLastBreaks /\ PutOut
DecoderInv == DecoderTyped /\ Framing /\ Output

(* What is cut out of a sequence, and out of two that agree there.         *)
LEMMA Cut ==
  ASSUME NEW S, NEW s \in Seq(S), NEW m \in Nat \ {0}, NEW n \in Nat, m <= n + 1, n <= Len(s)
  PROVE  /\ SubSeq(s, m, n) \in Seq(S) /\ Len(SubSeq(s, m, n)) = n - m + 1
         /\ \A j \in 1..(n - m + 1) : SubSeq(s, m, n)[j] = s[m + j - 1]
<1>1. \A i \in m..n : s[i] \in S
  OBVIOUS
<1> QED
  BY <1>1, SubSeqProperties

LEMMA SameCut ==
  ASSUME NEW S, NEW s \in Seq(S), NEW t \in Seq(S), NEW d \in Nat,
         NEW m \in Nat \ {0}, NEW n \in Nat, m <= n + 1, n <= Len(s), d + n <= Len(t),
         \A i \in m..n : s[i] = t[d + i]
  PROVE  SubSeq(s, m, n) = SubSeq(t, d + m, d + n)
<1> DEFINE p == SubSeq(s, m, n)
           q == SubSeq(t, d + m, d + n)
<1>1. /\ p \in Seq(S) /\ Len(p) = n - m + 1
      /\ \A j \in 1..(n - m + 1) : p[j] = s[m + j - 1]
  BY Cut
<1>2. d + m \in Nat \ {0} /\ d + n \in Nat /\ d + m <= (d + n) + 1 /\ (d + n) - (d + m) + 1 = n - m + 1
  OBVIOUS
<1>3. /\ q \in Seq(S) /\ Len(q) = n - m + 1
      /\ \A j \in 1..(n - m + 1) : q[j] = t[(d + m) + j - 1]
  <2> HIDE DEF p
  <2> QED
    BY <1>2, Cut
<1>4. ASSUME NEW j \in 1..Len(p) PROVE p[j] = q[j]
  <2> HIDE DEF p, q
  <2>1. m + j - 1 \in m..n /\ (d + m) + j - 1 = d + (m + j - 1)
    BY <1>1, <1>4
  <2> QED
    BY <1>1, <1>3, <2>1
<1> HIDE DEF p, q
<1>5. p = q
  BY <1>1, <1>3, <1>4, SeqEqual
<1> QED
  BY <1>5 DEF p, q

(* A complete packet is made of bytes.                                     *)
LEMMA EndIs ==
  ASSUME NEW s \in Seq(Bytes), NEW i \in Nat \ {0}, i + 3 <= Len(s)
  PROVE  End(s, i) \in Nat /\ End(s, i) >= i + 3
<1>1. s[i + 2] \in 0..(Base - 1) /\ s[i + 2 + 1] \in 0..(Base - 1)
  BY HeaderAssumption DEF Bytes
<1>2. s[i + 2] * Base \in Nat
  BY <1>1, HeaderAssumption
<1> QED
  BY <1>1, <1>2 DEF End, BigEndian

(* What is known of a recording stays so as it grows.                      *)
LEMMA Grows ==
  ASSUME NEW s \in Seq(Bytes), NEW t \in Seq(Bytes), Len(s) <= Len(t),
         \A i \in 1..Len(s) : t[i] = s[i]
  PROVE  /\ \A i \in 1..(Len(s) - 1) : MarkerAt(t, i) <=> MarkerAt(s, i)
         /\ \A i \in Nat \ {0} : Complete(s, i) =>
              /\ Complete(t, i) /\ End(t, i) = End(s, i)
              /\ Packet(t, i) = Packet(s, i)
<1>1. \A i \in 1..(Len(s) - 1) : MarkerAt(t, i) <=> MarkerAt(s, i)
  BY DEF MarkerAt
<1>2. ASSUME NEW i \in Nat \ {0}, Complete(s, i)
      PROVE  /\ Complete(t, i) /\ End(t, i) = End(s, i)
             /\ Packet(t, i) = Packet(s, i)
  <2>1. i + 3 <= Len(s) /\ End(s, i) <= Len(s)
    BY <1>2 DEF Complete
  <2>2. End(s, i) \in Nat /\ End(s, i) >= i + 3
    BY <2>1, EndIs
  <2>3. t[i + 2] = s[i + 2] /\ t[i + 2 + 1] = s[i + 2 + 1]
    BY <2>1
  <2>4. End(t, i) = End(s, i)
    BY <2>3 DEF End, BigEndian
  <2> DEFINE end == End(s, i)
  <2>5. SubSeq(s, i + 4, end) = SubSeq(t, 0 + (i + 4), 0 + end)
    <3>1. i + 4 \in Nat \ {0} /\ end \in Nat /\ i + 4 <= end + 1 /\ end <= Len(s) /\ 0 + end <= Len(t)
      BY <2>1, <2>2
    <3>2. \A j \in (i + 4)..end : s[j] = t[0 + j]
      BY <2>1, <2>2
    <3> HIDE DEF end
    <3> QED
      BY <3>1, <3>2, SameCut
  <2>6. 0 + (i + 4) = i + 4 /\ 0 + end = end
    BY <2>2
  <2>7. Packet(t, i) = Packet(s, i)
    BY <2>4, <2>5, <2>6 DEF Packet
  <2> QED
    BY <2>1, <2>2, <2>4, <2>7 DEF Complete
<1> QED
  BY <1>1, <1>2

(* The buffer shows the end of the recording.                              *)
LEMMA Shows ==
  ASSUME DecoderTyped, Suffix, NEW i \in 1..Len(buf)
  PROVE  /\ MarkerAt(buf, i) <=> MarkerAt(fed, Gone + i)
         /\ Complete(buf, i) <=> Complete(fed, Gone + i)
         /\ Complete(buf, i) =>
              /\ End(fed, Gone + i) = Gone + End(buf, i)
              /\ Packet(buf, i) = Packet(fed, Gone + i)
<1>0. /\ Len(buf) \in Nat /\ Len(fed) \in Nat /\ Gone \in Nat /\ Gone + Len(buf) = Len(fed)
      /\ buf \in Seq(Bytes) /\ fed \in Seq(Bytes)
      /\ \A j \in 1..Len(buf) : buf[j] = fed[Gone + j]
  BY DEF DecoderTyped, Suffix, Gone
<1>1. MarkerAt(buf, i) <=> MarkerAt(fed, Gone + i)
  <2>1. i < Len(buf) <=> Gone + i < Len(fed)
    BY <1>0
  <2>2. CASE i < Len(buf)
    <3>1. i + 1 \in 1..Len(buf) /\ Gone + (i + 1) = Gone + i + 1
      BY <1>0, <2>2
    <3>2. buf[i] = fed[Gone + i] /\ buf[i + 1] = fed[Gone + i + 1]
      BY <1>0, <3>1
    <3> QED
      BY <2>1, <3>2 DEF MarkerAt
  <2> QED
    BY <2>1, <2>2 DEF MarkerAt
<1>2. i + 3 <= Len(buf) <=> Gone + i + 3 <= Len(fed)
  BY <1>0
<1>3. ASSUME i + 3 <= Len(buf)
      PROVE  /\ End(buf, i) \in Nat /\ End(buf, i) >= i + 3
             /\ End(fed, Gone + i) = Gone + End(buf, i)
  <2>1. End(buf, i) \in Nat /\ End(buf, i) >= i + 3
    BY <1>0, <1>3, EndIs
  <2>0. /\ i + 2 \in 1..Len(buf) /\ i + 2 + 1 \in 1..Len(buf)
        /\ Gone + (i + 2) = Gone + i + 2 /\ Gone + (i + 2 + 1) = Gone + i + 2 + 1
    BY <1>0, <1>3
  <2>2. buf[i + 2] = fed[Gone + i + 2] /\ buf[i + 2] \in Bytes
    <3>1. buf[i + 2] = fed[Gone + (i + 2)] /\ buf[i + 2] \in Bytes
      BY <1>0, <2>0
    <3> QED
      BY <2>0, <3>1
  <2>3. buf[i + 2 + 1] = fed[Gone + i + 2 + 1] /\ buf[i + 2 + 1] \in Bytes
    BY <1>0, <2>0
  <2> DEFINE high == buf[i + 2] * Base
             low == buf[i + 2 + 1]
  <2>4. high \in Nat /\ low \in Nat
    BY <2>2, <2>3, HeaderAssumption DEF Bytes
  <2>5. /\ End(buf, i) = i + 3 + (high + low)
        /\ End(fed, Gone + i) = Gone + i + 3 + (high + low)
    BY <2>2, <2>3 DEF End, BigEndian
  <2> QED
    <3> HIDE DEF high, low
    <3> QED
      BY <1>0, <2>1, <2>4, <2>5
<1>4. ASSUME Complete(buf, i)
      PROVE  Packet(buf, i) = Packet(fed, Gone + i)
  <2>1. /\ i + 3 <= Len(buf) /\ End(buf, i) <= Len(buf)
        /\ End(buf, i) \in Nat /\ End(buf, i) >= i + 3
        /\ End(fed, Gone + i) = Gone + End(buf, i)
    BY <1>3, <1>4 DEF Complete
  <2> DEFINE end == End(buf, i)
  <2>2. /\ i + 4 \in Nat \ {0} /\ end \in Nat /\ i + 4 <= end + 1 /\ end <= Len(buf)
        /\ Gone + end <= Len(fed)
    BY <1>0, <2>1
  <2>3. \A j \in (i + 4)..end : buf[j] = fed[Gone + j]
    BY <1>0, <2>1
  <2>4. SubSeq(buf, i + 4, end) = SubSeq(fed, Gone + (i + 4), Gone + end)
    <3> HIDE DEF end
    <3> QED
      BY <1>0, <2>2, <2>3, SameCut
  <2>5. Gone + (i + 4) = Gone + i + 4
    BY <1>0
  <2> QED
    BY <2>1, <2>4, <2>5 DEF Packet
<1> QED
  BY <1>0, <1>1, <1>2, <1>3, <1>4 DEF Complete

LEMMA LastEndIs ==
  ASSUME DecoderTyped
  PROVE  /\ LastEnd \in Nat
         /\ LastEnd = IF Len(packets) = 0 THEN 0 ELSE packets[Len(packets)].last
<1>1. Len(packets) \in Nat /\ \A k \in 1..Len(packets) : packets[k] \in Places
  BY DEF DecoderTyped
<1>2. Len(packets) + 1 = 1 <=> Len(packets) = 0
  BY <1>1
<1>3. Len(packets) + 1 - 1 = Len(packets) /\ (Len(packets) # 0 => Len(packets) \in 1..Len(packets))
  BY <1>1
<1>4. \A place \in Places : place.last \in Nat
  BY DEF Places
<1> QED
  BY <1>1, <1>2, <1>3, <1>4 DEF LastEnd, EndBefore

(* What a step that feeds, or only deletes from the buffer, leaves of the  *)
(* packets and of what was put out.                                        *)
LEMMA OutputKept ==
  ASSUME DecoderTyped, DecoderTyped', Output, packets' = packets,
         Len(fed) <= Len(fed'), \A i \in 1..Len(fed) : fed'[i] = fed[i],
         mode # "raised", mode' # "raised"
  PROVE  /\ Packets' /\ OnlyLastBreaks'
         /\ \A k \in 1..Len(packets) : PacketAt(k)' = PacketAt(k)
<1> USE DEF Output
<1>0. /\ fed \in Seq(Bytes) /\ fed' \in Seq(Bytes)
      /\ Len(packets) \in Nat /\ DOMAIN packets = 1..Len(packets)
      /\ \A k \in 1..Len(packets) : packets[k] \in Places
  BY DEF DecoderTyped
<1>5. \A place \in Places : place.first \in Nat /\ place.last \in Nat
  BY DEF Places
<1>1. \A k : EndBefore(k)' = EndBefore(k)
  BY DEF EndBefore
<1>2. ASSUME NEW k \in 1..Len(packets)
      PROVE  /\ FirstMarker(fed', EndBefore(k), packets[k].first)
             /\ Complete(fed', packets[k].first)
             /\ packets[k].last = End(fed', packets[k].first)
             /\ PacketAt(k)' = PacketAt(k)
  <2> DEFINE f == packets[k].first
             e == EndBefore(k)
  <2>1. /\ FirstMarker(fed, e, f) /\ Complete(fed, f)
        /\ packets[k].last = End(fed, f) /\ f \in Nat
    BY <1>0, <1>2, <1>5 DEF Packets
  <2>2. e \in Nat
    <3>1. k = 1 \/ k - 1 \in 1..Len(packets)
      BY <1>0, <1>2
    <3> QED
      BY <1>0, <1>5, <3>1 DEF EndBefore
  <2>3. f > e /\ f < Len(fed) /\ MarkerAt(fed, f)
        /\ \A j \in (e + 1)..(f - 1) : ~MarkerAt(fed, j)
    BY <2>1 DEF FirstMarker, NoMarkerIn, MarkerAt
  <2>4. /\ f \in 1..(Len(fed) - 1) /\ f \in Nat \ {0}
        /\ \A j \in (e + 1)..(f - 1) : j \in 1..(Len(fed) - 1)
    BY <2>1, <2>2, <2>3, <1>0
  <2>5. \A j \in 1..(Len(fed) - 1) : MarkerAt(fed', j) <=> MarkerAt(fed, j)
    BY <1>0, Grows
  <2>6. /\ Complete(fed', f) /\ End(fed', f) = End(fed, f)
        /\ Packet(fed', f) = Packet(fed, f)
    BY <1>0, <2>1, <2>4, Grows
  <2>7. FirstMarker(fed', e, f)
    BY <2>3, <2>4, <2>5 DEF FirstMarker, NoMarkerIn
  <2> QED
    BY <2>1, <2>6, <2>7 DEF PacketAt
<1>3. Packets'
  BY <1>0, <1>1, <1>2 DEF Packets
<1>4. OnlyLastBreaks'
  BY <1>2 DEF OnlyLastBreaks
<1> QED
  BY <1>2, <1>3, <1>4

LEMMA PutOutSame ==
  ASSUME DecoderTyped, PutOut, UNCHANGED <<out, taken, packets>>, mode # "raised",
         mode' = "feeding", \A k \in 1..Len(packets) : PacketAt(k)' = PacketAt(k)
  PROVE  PutOut'
<1>1. Len(taken) \in Nat /\ Len(out) \in Nat /\ Len(packets) \in Nat
  BY DEF DecoderTyped
<1>2. /\ Len(taken) + Len(out) = Len(packets)
      /\ \A k \in 1..Len(taken) : taken[k] = Depacketized(PacketAt(k))
      /\ \A k \in 1..Len(out) : out[k] = Depacketized(PacketAt(Len(taken) + k))
  BY <1>1 DEF PutOut
<1>3. /\ \A k \in 1..Len(taken) : PacketAt(k)' = PacketAt(k)
      /\ \A k \in 1..Len(out) : PacketAt(Len(taken) + k)' = PacketAt(Len(taken) + k)
  BY <1>1, <1>2
<1>4. Len(taken') + Len(out') = Len(packets') - (IF mode' = "raised" THEN 1 ELSE 0)
  BY <1>1, <1>2
<1> QED
  BY <1>2, <1>3, <1>4 DEF PutOut

LEMMA FeedKeeps ==
  ASSUME DecoderInv, NEW chunk \in Chunks, Feed(chunk)
  PROVE  DecoderInv'
<1> USE DEF DecoderInv
<1>1. /\ mode = "idle" /\ mode' = "feeding" /\ fed' = fed \o chunk /\ buf' = buf \o chunk
      /\ UNCHANGED <<synced, out, taken, packets>>
  BY DEF Feed
<1>2. chunk \in Seq(Bytes)
  BY DEF Chunks
<1>3. DecoderTyped'
  BY <1>1, <1>2 DEF DecoderTyped
<1>4. /\ fed \in Seq(Bytes) /\ buf \in Seq(Bytes)
      /\ Len(fed') = Len(fed) + Len(chunk) /\ Len(buf') = Len(buf) + Len(chunk)
      /\ Len(fed) \in Nat /\ Len(buf) \in Nat /\ Len(chunk) \in Nat
      /\ \A i \in 1..Len(fed) : fed'[i] = fed[i]
      /\ \A i \in 1..Len(buf) : buf'[i] = buf[i]
      /\ \A i \in 1..Len(chunk) : fed'[Len(fed) + i] = chunk[i] /\ buf'[Len(buf) + i] = chunk[i]
  <2>1. fed \in Seq(Bytes) /\ buf \in Seq(Bytes)
    BY DEF DecoderTyped
  <2>2. /\ Len(fed') = Len(fed) + Len(chunk) /\ Len(fed) \in Nat /\ Len(chunk) \in Nat
        /\ \A i \in 1..Len(fed) : fed'[i] = fed[i]
        /\ \A i \in 1..Len(chunk) : fed'[Len(fed) + i] = chunk[i]
    <3>1. fed' = fed \o chunk
      BY <1>1
    <3> QED
      BY <1>2, <2>1, <3>1
  <2>3. /\ Len(buf') = Len(buf) + Len(chunk) /\ Len(buf) \in Nat
        /\ \A i \in 1..Len(buf) : buf'[i] = buf[i]
        /\ \A i \in 1..Len(chunk) : buf'[Len(buf) + i] = chunk[i]
    <3>1. buf' = buf \o chunk
      BY <1>1
    <3> QED
      BY <1>2, <2>1, <3>1
  <2> QED
    BY <2>1, <2>2, <2>3
<1>5. Gone' = Gone /\ Gone \in Nat /\ Gone + Len(buf) = Len(fed) /\ LastEnd' = LastEnd
  BY <1>1, <1>4 DEF Gone, LastEnd, EndBefore, Framing, Suffix
<1>6. Suffix'
  <2>1. Len(buf') <= Len(fed')
    BY <1>4, <1>5
  <2>2. ASSUME NEW i \in 1..Len(buf') PROVE buf'[i] = fed'[Gone + i]
    <3>1. CASE i \in 1..Len(buf)
      <4>1. buf[i] = fed[Gone + i] /\ Gone + i \in 1..Len(fed)
        BY <1>5, <1>4, <3>1 DEF Framing, Suffix
      <4> QED
        BY <1>4, <3>1, <4>1
    <3>2. CASE i \in (Len(buf) + 1)..(Len(buf) + Len(chunk))
      <4>1. PICK j \in 1..Len(chunk) : i = Len(buf) + j
        <5>1. i - Len(buf) \in 1..Len(chunk) /\ i = Len(buf) + (i - Len(buf))
          BY <1>4, <3>2
        <5> QED
          BY <5>1
      <4>2. Gone + i = Len(fed) + j
        <5>1. Len(buf) \in Nat /\ Len(fed) \in Nat /\ j \in Nat
          BY <1>4, <4>1
        <5> QED
          BY <1>5, <4>1, <5>1
      <4> QED
        BY <1>4, <4>1, <4>2
    <3> QED
      BY <1>4, <2>2, <3>1, <3>2
  <2> QED
    BY <1>5, <2>1, <2>2 DEF Suffix
<1>7. Skipped'
  <2>1. LastEnd <= Gone /\ (LastEnd < Gone => buf # <<>>)
        /\ \A i \in (LastEnd + 1)..Gone : ~MarkerAt(fed, i)
    BY DEF Framing, Skipped, NoMarkerIn
  <2>2. LastEnd \in Nat
    BY LastEndIs
  <2>3. LastEnd < Gone => buf' # <<>>
    BY <1>4, <2>1
  <2>4. ASSUME NEW i \in (LastEnd + 1)..Gone PROVE ~MarkerAt(fed', i)
    <3>1. Len(buf) > 0
      BY <1>4, <1>5, <2>1, <2>2, <2>4
    <3>2. i \in 1..(Len(fed) - 1)
      BY <1>4, <1>5, <2>2, <2>4, <3>1
    <3>3. MarkerAt(fed', i) <=> MarkerAt(fed, i)
      <4>1. fed \in Seq(Bytes) /\ fed' \in Seq(Bytes) /\ Len(fed) <= Len(fed')
        BY <1>3, <1>4 DEF DecoderTyped
      <4> QED
        BY <1>4, <3>2, <4>1, Grows
    <3> QED
      BY <2>1, <2>4, <3>3
  <2> QED
    BY <1>5, <2>1, <2>3, <2>4 DEF Skipped, NoMarkerIn
<1>8. Packets' /\ OnlyLastBreaks' /\ \A k \in 1..Len(packets) : PacketAt(k)' = PacketAt(k)
  BY <1>1, <1>3, <1>4, OutputKept
<1>9. PutOut'
  BY <1>1, <1>8, PutOutSame DEF Output
<1> QED
  BY <1>1, <1>3, <1>6, <1>7, <1>8, <1>9 DEF Framing, Settled, Output

(* A step that deletes the first d bytes of the buffer.                    *)
LEMMA Deleted ==
  ASSUME DecoderTyped, Suffix, fed' = fed, NEW d \in Nat, d <= Len(buf),
         buf' = From(buf, d + 1)
  PROVE  /\ buf' \in Seq(Bytes) /\ Len(buf') = Len(buf) - d
         /\ Gone' = Gone + d /\ Gone \in Nat /\ Gone + Len(buf) = Len(fed) /\ Suffix'
<1>0. /\ buf \in Seq(Bytes) /\ Len(buf) \in Nat /\ Len(fed) \in Nat
      /\ Len(buf) <= Len(fed) /\ \A i \in 1..Len(buf) : buf[i] = fed[Gone + i]
  <2>1. /\ buf \in Seq(Bytes) /\ Len(buf) \in Nat /\ Len(fed) \in Nat
    BY DEF DecoderTyped
  <2> QED
    BY <2>1, Zenon DEF Suffix
<1>1. Gone \in Nat /\ Gone + Len(buf) = Len(fed)
  BY <1>0 DEF Gone
<1>2. d + 1 \in Nat \ {0} /\ d + 1 <= Len(buf) + 1 /\ Len(buf) - (d + 1) + 1 = Len(buf) - d
  BY <1>0
<1>3. /\ buf' \in Seq(Bytes) /\ Len(buf') = Len(buf) - d
      /\ \A j \in 1..(Len(buf) - d) : buf'[j] = buf[(d + 1) + j - 1]
  <2>1. PICK m \in Nat \ {0}, n \in Nat : m = d + 1 /\ n = Len(buf)
    BY <1>0, <1>2
  <2>2. m <= n + 1 /\ n <= Len(buf) /\ n - m + 1 = Len(buf) - d /\ buf' = SubSeq(buf, m, n)
    BY <1>2, <2>1 DEF From
  <2>3. /\ SubSeq(buf, m, n) \in Seq(Bytes) /\ Len(SubSeq(buf, m, n)) = n - m + 1
        /\ \A j \in 1..(n - m + 1) : SubSeq(buf, m, n)[j] = buf[m + j - 1]
    BY <1>0, <2>1, <2>2, Cut
  <2> QED
    BY <2>1, <2>2, <2>3
<1>4. Gone' = Gone + d
  <2>1. Gone' = Len(fed) - Len(buf') /\ Gone = Len(fed) - Len(buf)
    BY DEF Gone
  <2> QED
    BY <1>0, <1>3, <2>1
<1>5. ASSUME NEW j \in 1..Len(buf') PROVE buf'[j] = fed[Gone' + j]
  <2>1. (d + 1) + j - 1 = d + j /\ d + j \in 1..Len(buf) /\ Gone' + j = Gone + (d + j)
    BY <1>0, <1>1, <1>3, <1>4
  <2> QED
    BY <1>0, <1>3, <2>1
<1>6. Suffix'
  BY <1>0, <1>3, <1>5 DEF Suffix
<1> QED
  BY <1>1, <1>3, <1>4, <1>6

(* Where no marker is in the first d bytes, none is skipped by deleting    *)
(* them, if one byte at least stays.                                       *)
LEMMA SkippedOn ==
  ASSUME DecoderTyped, DecoderTyped', Suffix, Skipped,
         fed' = fed, packets' = packets,
         NEW d \in Nat, d <= Len(buf), buf' = From(buf, d + 1),
         d > 0 => d < Len(buf), NoMarkerIn(buf, 1, d)
  PROVE  Suffix' /\ Skipped'
<1>1. /\ Len(buf') = Len(buf) - d /\ Gone' = Gone + d /\ Gone \in Nat /\ Suffix'
      /\ Gone + Len(buf) = Len(fed)
  BY Deleted
<1>2. /\ Len(buf) \in Nat /\ LastEnd \in Nat /\ LastEnd' = LastEnd
      /\ buf' \in Seq(Bytes) /\ buf \in Seq(Bytes)
  BY LastEndIs DEF DecoderTyped, LastEnd, EndBefore
<1>3. /\ LastEnd <= Gone /\ (LastEnd < Gone => buf # <<>>)
      /\ \A i \in (LastEnd + 1)..Gone : ~MarkerAt(fed, i)
  BY DEF Skipped, NoMarkerIn
<1>4. LastEnd' <= Gone'
  BY <1>1, <1>2, <1>3
<1>5. LastEnd' < Gone' => buf' # <<>>
  <2>1. CASE d = 0
    <3>1. Gone' = Gone /\ Len(buf') = Len(buf)
      BY <1>1, <1>2, <2>1
    <3> QED
      BY <1>2, <1>3, <3>1
  <2>2. CASE d > 0
    <3>1. Len(buf') > 0
      BY <1>1, <1>2, <2>2
    <3> QED
      BY <1>2, <3>1
  <2> QED
    BY <2>1, <2>2
<1>6. ASSUME NEW i \in (LastEnd + 1)..(Gone + d) PROVE ~MarkerAt(fed, i)
  <2>1. CASE i \in (LastEnd + 1)..Gone
    BY <1>3, <2>1
  <2>2. CASE i \in (Gone + 1)..(Gone + d)
    <3>1. i - Gone \in 1..Len(buf) /\ i - Gone \in 1..d /\ Gone + (i - Gone) = i
      BY <1>1, <1>2, <2>2
    <3>2. ~MarkerAt(buf, i - Gone)
      BY <3>1 DEF NoMarkerIn
    <3> QED
      BY <3>1, <3>2, Shows
  <2> QED
    BY <1>1, <1>2, <2>1, <2>2
<1>7. NoMarkerIn(fed, LastEnd + 1, Gone)'
  BY <1>1, <1>2, <1>6 DEF NoMarkerIn
<1> QED
  BY <1>1, <1>4, <1>5, <1>7 DEF Skipped

(* What was put out is taken.                                              *)
LEMMA ReturnsKeeps ==
  ASSUME DecoderTyped, PutOut, Returns, mode = "feeding",
         \A k \in 1..Len(packets) : PacketAt(k)' = PacketAt(k)
  PROVE  /\ taken' \in Seq(Pieces) /\ out' \in Seq(Pieces) /\ PutOut'
<1>1. /\ taken' = taken \o out /\ out' = <<>> /\ mode' = "idle" /\ packets' = packets
  BY DEF Returns
<1>2. /\ taken \in Seq(Pieces) /\ out \in Seq(Pieces)
      /\ Len(taken) \in Nat /\ Len(out) \in Nat /\ Len(packets) \in Nat
  BY DEF DecoderTyped
<1>3. /\ Len(taken) + Len(out) = Len(packets)
      /\ \A k \in 1..Len(taken) : taken[k] = Depacketized(PacketAt(k))
      /\ \A k \in 1..Len(out) : out[k] = Depacketized(PacketAt(Len(taken) + k))
  BY <1>2 DEF PutOut
<1>4. /\ taken' \in Seq(Pieces) /\ Len(taken') = Len(taken) + Len(out)
      /\ \A k \in 1..Len(taken) : taken'[k] = taken[k]
      /\ \A k \in 1..Len(out) : taken'[Len(taken) + k] = out[k]
  BY <1>1, <1>2
<1>5. ASSUME NEW k \in 1..Len(taken') PROVE taken'[k] = Depacketized(PacketAt(k)')
  <2>1. PacketAt(k)' = PacketAt(k)
    BY <1>3, <1>4
  <2>2. CASE k \in 1..Len(taken)
    BY <1>3, <1>4, <2>1, <2>2
  <2>3. CASE k \in (Len(taken) + 1)..(Len(taken) + Len(out))
    <3>1. k - Len(taken) \in 1..Len(out) /\ Len(taken) + (k - Len(taken)) = k
      BY <1>2, <2>3
    <3> QED
      BY <1>3, <1>4, <2>1, <3>1
  <2> QED
    BY <1>2, <1>4, <2>2, <2>3
<1> QED
  BY <1>1, <1>2, <1>3, <1>4, <1>5 DEF PutOut

LEMMA NoMarkerKeeps ==
  ASSUME DecoderInv, NoMarker
  PROVE  DecoderInv'
<1> USE DEF DecoderInv, Framing, Output
<1>1. /\ mode = "feeding" /\ mode' = "idle" /\ ~synced /\ synced' = synced
      /\ fed' = fed /\ packets' = packets /\ Returns
      /\ NoMarkerIn(buf, 1, Len(buf)) /\ buf' = Kept(buf)
  BY DEF NoMarker, Returns
<1>2. buf \in Seq(Bytes) /\ Len(buf) \in Nat
  BY DEF DecoderTyped
<1> DEFINE d == IF Len(buf) > 1 THEN Len(buf) - 1 ELSE 0
<1>3. /\ d \in Nat /\ d <= Len(buf) /\ (d > 0 => d < Len(buf))
      /\ Len(buf) - d <= 1 /\ (Len(buf) > 1 => d + 1 = Len(buf)) /\ (Len(buf) <= 1 => d + 1 = 1)
  BY <1>2
<1> HIDE DEF d
<1>4. From(buf, 1) = buf
  BY <1>2 DEF From
<1>5. buf' = From(buf, d + 1)
  BY <1>1, <1>2, <1>3, <1>4 DEF Kept
<1>6. NoMarkerIn(buf, 1, d)
  BY <1>1, <1>2, <1>3 DEF NoMarkerIn
<1>7. buf' \in Seq(Bytes) /\ Len(buf') = Len(buf) - d
  BY <1>1, <1>3, <1>5, Deleted
<1>8. \A k \in 1..Len(packets) : PacketAt(k)' = PacketAt(k)
  BY <1>1 DEF PacketAt, Packet, End, BigEndian
<1>9. taken' \in Seq(Pieces) /\ out' \in Seq(Pieces) /\ PutOut'
  BY <1>1, <1>8, ReturnsKeeps
<1>10. DecoderTyped'
  BY <1>1, <1>7, <1>9 DEF DecoderTyped
<1>11. Suffix' /\ Skipped'
  BY <1>1, <1>3, <1>5, <1>6, <1>10, SkippedOn
<1>12. Packets' /\ OnlyLastBreaks'
  BY <1>1, <1>10, OutputKept DEF DecoderTyped
<1>13. Settled'
  BY <1>1, <1>3, <1>7 DEF Settled
<1> QED
  BY <1>9, <1>10, <1>11, <1>12, <1>13

LEMMA ResyncKeeps ==
  ASSUME DecoderInv, Resync
  PROVE  DecoderInv'
<1> USE DEF DecoderInv, Framing, Output
<1>1. PICK i \in 1..Len(buf) : FirstMarker(buf, 0, i) /\ buf' = From(buf, i)
  BY DEF Resync
<1>2. /\ mode = "feeding" /\ synced' = TRUE /\ UNCHANGED <<out, taken, mode, fed, packets>>
  BY DEF Resync
<1>3. /\ buf \in Seq(Bytes) /\ Len(buf) \in Nat /\ fed \in Seq(Bytes)
  BY DEF DecoderTyped
<1>4. /\ i - 1 \in Nat /\ i - 1 < Len(buf) /\ (i - 1) + 1 = i /\ 0 + 1 = 1
  BY <1>1, <1>3
<1>5. NoMarkerIn(buf, 1, i - 1) /\ buf' = From(buf, (i - 1) + 1)
  BY <1>1, <1>4 DEF FirstMarker
<1>6. buf' \in Seq(Bytes)
  BY <1>2, <1>3, <1>4, <1>5, Deleted
<1>7. DecoderTyped'
  BY <1>2, <1>6 DEF DecoderTyped
<1>8. Suffix' /\ Skipped'
  BY <1>2, <1>3, <1>4, <1>5, <1>7, SkippedOn
<1>9. Packets' /\ OnlyLastBreaks' /\ \A k \in 1..Len(packets) : PacketAt(k)' = PacketAt(k)
  BY <1>2, <1>3, <1>7, OutputKept
<1>10. PutOut'
  BY <1>2, <1>9, PutOutSame
<1> QED
  BY <1>2, <1>7, <1>8, <1>9, <1>10 DEF Settled

LEMMA LosesSyncKeeps ==
  ASSUME DecoderInv, LosesSync
  PROVE  DecoderInv'
<1> USE DEF DecoderInv, Framing, Output
<1>1. mode = "feeding" /\ synced' = FALSE /\ UNCHANGED <<buf, out, taken, mode, fed, packets>>
  BY DEF LosesSync
<1>2. DecoderTyped'
  BY <1>1 DEF DecoderTyped
<1>3. Suffix' /\ Skipped' /\ Settled'
  BY <1>1 DEF Suffix, Skipped, Settled, Gone, LastEnd, EndBefore, NoMarkerIn,
              MarkerAt
<1>4. Packets' /\ OnlyLastBreaks' /\ PutOut'
  BY <1>1 DEF Packets, FirstMarker, EndBefore, NoMarkerIn,
              MarkerAt, Complete, End, BigEndian,
              OnlyLastBreaks, PutOut, PacketAt, Packet
<1> QED
  BY <1>2, <1>3, <1>4

LEMMA WaitsKeeps ==
  ASSUME DecoderInv, Waits
  PROVE  DecoderInv'
<1> USE DEF DecoderInv, Framing, Output
<1>1. /\ mode = "feeding" /\ synced /\ synced' = synced /\ mode' = "idle"
      /\ UNCHANGED <<buf, fed, packets>> /\ Returns
      /\ Len(buf) < 4 \/ (MarkerAt(buf, 1) /\ ~Complete(buf, 1))
  BY DEF Waits, Returns
<1>2. \A k \in 1..Len(packets) : PacketAt(k)' = PacketAt(k)
  BY <1>1 DEF PacketAt, Packet, End, BigEndian
<1>3. taken' \in Seq(Pieces) /\ out' \in Seq(Pieces) /\ PutOut'
  BY <1>1, <1>2, ReturnsKeeps
<1>4. DecoderTyped'
  BY <1>1, <1>3 DEF DecoderTyped
<1>5. Suffix' /\ Skipped'
  BY <1>1 DEF Suffix, Skipped, Gone, LastEnd, EndBefore, NoMarkerIn,
              MarkerAt
<1>6. Settled'
  BY <1>1 DEF Settled, MarkerAt, Complete, End, BigEndian
<1>7. Packets' /\ OnlyLastBreaks'
  BY <1>1, <1>4, OutputKept DEF DecoderTyped
<1> QED
  BY <1>3, <1>4, <1>5, <1>6, <1>7

(* The packet in front starts at the first marker after the last one.      *)
LEMMA HandlesKeeps ==
  ASSUME DecoderInv, Handles
  PROVE  DecoderInv'
<1> USE DEF DecoderInv, Framing, Output
<1>n. PICK n \in Nat : n = Len(packets)
  BY DEF DecoderTyped
<1>t. PICK t \in Nat : t = Len(taken)
  BY DEF DecoderTyped
<1> DEFINE end == End(buf, 1)
           packet == Packet(buf, 1)
           place == [first |-> Gone + 1, last |-> Gone + end]
<1>1. /\ mode = "feeding" /\ UNCHANGED <<synced, taken, fed>>
      /\ MarkerAt(buf, 1) /\ Complete(buf, 1)
      /\ buf' = From(buf, end + 1) /\ packets' = Append(packets, place)
      /\ IF Breaks(packet) THEN mode' = "raised" /\ out' = out
                                   ELSE out' = Append(out, Depacketized(packet)) /\ mode' = mode
  BY DEF Handles, Gone
<1>2. /\ buf \in Seq(Bytes) /\ Len(buf) \in Nat /\ fed \in Seq(Bytes)
      /\ packets \in Seq(Places) /\ out \in Seq(Pieces) /\ taken \in Seq(Pieces)
      /\ n \in Nat /\ Len(out) \in Nat /\ Len(taken) \in Nat
      /\ \A k \in 1..n : packets[k] \in Places
  BY <1>n DEF DecoderTyped
<1>3. /\ 1 + 3 <= Len(buf) /\ end \in Nat /\ end >= 4 /\ end <= Len(buf)
      /\ 1 \in 1..Len(buf) /\ 1 \in Nat \ {0} /\ 1 + 4 <= end + 1 /\ 1 + 4 \in Nat \ {0}
  BY <1>1, <1>2, EndIs DEF Complete
<1>4. packet \in Seq(Bytes)
  BY <1>2, <1>3, Cut DEF Packet
<1> HIDE DEF end, packet
<1>5. /\ Gone \in Nat /\ Gone' = Gone + end /\ buf' \in Seq(Bytes) /\ Suffix'
  BY <1>1, <1>3, Deleted
<1>6. /\ MarkerAt(fed, Gone + 1) /\ Complete(fed, Gone + 1)
      /\ End(fed, Gone + 1) = Gone + end /\ packet = Packet(fed, Gone + 1)
  BY <1>1, <1>3, Shows DEF end, packet
<1>7. /\ Depacketized(packet) \in Pieces /\ place \in Places
      /\ place.first = Gone + 1 /\ place.last = Gone + end
  BY <1>3, <1>4, <1>5 DEF Pieces, Places
<1> HIDE DEF place
<1>8. DecoderTyped'
  <2>1. packets' \in Seq(Places)
    BY <1>1, <1>2, <1>7
  <2>2. out' \in Seq(Pieces) /\ mode' \in {"idle", "feeding", "raised"}
    <3> DEFINE pieces == Depacketized(packet)
    <3>1. pieces \in Pieces
      BY <1>7
    <3>2. \/ mode' = "raised" /\ out' = out
          \/ mode' = mode /\ out' = Append(out, pieces)
      BY <1>1
    <3> HIDE DEF pieces
    <3>3. out' \in Seq(Pieces)
      <4>1. out \in Seq(Pieces)
        BY <1>2
      <4>2. Append(out, pieces) \in Seq(Pieces)
        BY <3>1, <4>1
      <4> QED
        BY <3>2, <4>1, <4>2
    <3>4. mode' \in {"idle", "feeding", "raised"}
      BY <1>1, <3>2
    <3> QED
      BY <3>3, <3>4
  <2> QED
    BY <1>1, <1>5, <2>1, <2>2 DEF DecoderTyped
<1>9. /\ Len(packets') = n + 1 /\ packets'[n + 1] = place /\ n + 1 \in 1..(n + 1)
      /\ \A k \in 1..n : packets'[k] = packets[k]
      /\ \A k \in 1..(n + 1) : k \in 1..n \/ k = n + 1
  BY <1>1, <1>2, <1>7, <1>n
<1>10. LastEnd' = Gone + end
  <2>1. LastEnd' = IF Len(packets') = 0 THEN 0 ELSE packets'[Len(packets')].last
    <3>1. Len(packets') + 1 = n + 2 /\ n + 2 # 1 /\ (n + 2) - 1 = Len(packets') /\ Len(packets') # 0
      BY <1>2, <1>9
    <3> QED
      BY <3>1 DEF LastEnd, EndBefore
  <2>2. n + 1 # 0
    BY <1>2
  <2> QED
    BY <1>7, <1>9, <2>1, <2>2
<1>11. Skipped' /\ Settled'
  BY <1>1, <1>3, <1>5, <1>10 DEF Skipped, Settled, NoMarkerIn
<1>12. /\ \A k \in 1..n : PacketAt(k)' = PacketAt(k)
       /\ PacketAt(n + 1)' = packet
  <2>1. fed' = fed
    BY <1>1
  <2>2. \A k \in 1..n : PacketAt(k)' = PacketAt(k)
    BY <1>9, <2>1 DEF PacketAt, Packet, End, BigEndian
  <2>3. PacketAt(n + 1)' = Packet(fed, Gone + 1)
    BY <1>7, <1>9, <2>1 DEF PacketAt, Packet, End, BigEndian
  <2> QED
    BY <1>6, <2>2, <2>3
<1>13. FirstMarker(fed, LastEnd, Gone + 1)
  <2>1. LastEnd <= Gone /\ NoMarkerIn(fed, LastEnd + 1, Gone) /\ LastEnd \in Nat
    BY LastEndIs DEF Skipped
  <2> QED
    BY <1>5, <1>6, <2>1 DEF FirstMarker
<1>14. Packets'
  <2>1. ASSUME NEW k \in 1..n
        PROVE  /\ FirstMarker(fed, EndBefore(k)', packets'[k].first)
               /\ Complete(fed, packets'[k].first)
               /\ packets'[k].last = End(fed, packets'[k].first)
    <3>1. k = 1 \/ k - 1 \in 1..n
      BY <1>2, <2>1
    <3>2. EndBefore(k)' = EndBefore(k)
      BY <1>9, <3>1 DEF EndBefore
    <3>3. k \in DOMAIN packets /\ packets'[k] = packets[k]
      BY <1>n, <1>2, <1>9, <2>1
    <3> QED
      BY <3>2, <3>3 DEF Packets
  <2>2. EndBefore(n + 1)' = LastEnd
    <3>1. (n + 1) - 1 = n /\ (n + 1 = 1 \/ n \in 1..n)
      BY <1>2
    <3>2. EndBefore(n + 1)' = IF n + 1 = 1 THEN 0 ELSE packets'[n].last
      BY <3>1 DEF EndBefore
    <3>3. LastEnd = IF n + 1 = 1 THEN 0 ELSE packets[n].last
      BY <3>1, <1>n DEF EndBefore, LastEnd
    <3> QED
      BY <1>9, <3>1, <3>2, <3>3
  <2>3. DOMAIN packets' = 1..(n + 1)
    BY <1>8, <1>9 DEF DecoderTyped
  <2>4. ASSUME NEW k \in 1..(n + 1)
        PROVE  /\ FirstMarker(fed, EndBefore(k)', packets'[k].first)
               /\ Complete(fed, packets'[k].first)
               /\ packets'[k].last = End(fed, packets'[k].first)
    <3>1. CASE k \in 1..n
      BY <2>1, <3>1
    <3>2. CASE k = n + 1
      <4>1. packets'[k].first = Gone + 1 /\ packets'[k].last = Gone + end
        BY <1>7, <1>9, <3>2
      <4>2. EndBefore(k)' = LastEnd
        BY <2>2, <3>2
      <4> QED
        BY <1>6, <1>13, <4>1, <4>2
    <3> QED
      BY <1>9, <2>4, <3>1, <3>2
  <2>5. ASSUME NEW k \in 1..(n + 1)
        PROVE  /\ FirstMarker(fed', EndBefore(k)', packets'[k].first)
               /\ Complete(fed', packets'[k].first)
               /\ packets'[k].last = End(fed', packets'[k].first)
    BY <1>1, <2>4
  <2> QED
    BY <2>3, <2>5 DEF Packets
<1>15. OnlyLastBreaks'
  <2>1. \A k \in 1..n : ~Breaks(PacketAt(k)) /\ k # n + 1
    BY <1>1, <1>2, <1>n DEF OnlyLastBreaks
  <2>2. mode' = "raised" <=> Breaks(packet)
    BY <1>1
  <2>3. ASSUME NEW k \in 1..(n + 1)
        PROVE  Breaks(PacketAt(k)') <=> mode' = "raised" /\ k = n + 1
    BY <1>9, <1>12, <2>1, <2>2, <2>3
  <2> QED
    BY <1>9, <2>3 DEF OnlyLastBreaks
<1>16. PutOut'
  <2>1. /\ Len(out) + t = n
        /\ \A k \in 1..t : taken[k] = Depacketized(PacketAt(k))
        /\ \A k \in 1..Len(out) : out[k] = Depacketized(PacketAt(t + k))
    BY <1>1, <1>2, <1>n, <1>t DEF PutOut
  <2>2. /\ \A k \in 1..t : k \in 1..n
        /\ \A k \in 1..Len(out) : t + k \in 1..n
    BY <1>2, <2>1
  <2>3. taken' = taken /\ Len(taken') = t
    BY <1>1, <1>t
  <2>4. \A k \in 1..t : taken'[k] = Depacketized(PacketAt(k)')
    BY <1>12, <2>1, <2>2, <2>3
  <2>5. \A k \in 1..Len(out) : out[k] = Depacketized(PacketAt(t + k)')
    BY <1>12, <2>1, <2>2
  <2>6. SUFFICES /\ t + Len(out') = n + 1 - (IF mode' = "raised" THEN 1 ELSE 0)
                 /\ \A k \in 1..Len(out') : out'[k] = Depacketized(PacketAt(t + k)')
                 /\ mode' # "idle"
    BY <1>9, <2>3, <2>4 DEF PutOut
  <2>7. CASE Breaks(packet)
    <3>1. out' = out /\ mode' = "raised"
      BY <1>1, <2>7
    <3> QED
      BY <1>2, <2>1, <2>5, <3>1
  <2>8. CASE ~Breaks(packet)
    <3> DEFINE pieces == Depacketized(packet)
    <3>1. out' = Append(out, pieces) /\ mode' = "feeding" /\ pieces \in Pieces
      BY <1>1, <1>7, <2>8
    <3> HIDE DEF pieces
    <3>3. /\ Len(out') = Len(out) + 1 /\ out'[Len(out) + 1] = pieces
          /\ \A k \in 1..Len(out) : out'[k] = out[k]
      BY <1>2, <3>1
    <3>4. ASSUME NEW k \in 1..Len(out') PROVE out'[k] = Depacketized(PacketAt(t + k)')
      <4>1. CASE k \in 1..Len(out)
        BY <2>5, <3>3, <4>1
      <4>2. CASE k = Len(out) + 1
        <5>1. t + k = n + 1
          <6>1. Len(out) + t = n /\ Len(out) \in Nat
            BY <1>2, <2>1
          <6> QED
            BY <4>2, <6>1
        <5> QED
          BY <1>12, <3>3, <4>2, <5>1 DEF pieces
      <4> QED
        BY <1>2, <3>3, <4>1, <4>2
    <3>5. t + Len(out') = n + 1 - 0
      BY <1>2, <2>1, <3>3
    <3> QED
      BY <3>1, <3>4, <3>5
  <2> QED
    BY <2>7, <2>8
<1> QED
  BY <1>5, <1>8, <1>11, <1>14, <1>15, <1>16

LEMMA DecoderInvInit ==
  ASSUME DecoderInit
  PROVE  DecoderInv
<1>1. /\ buf = <<>> /\ synced = FALSE /\ out = <<>> /\ taken = <<>> /\ mode = "idle"
      /\ fed = <<>> /\ packets = <<>>
  BY DEF DecoderInit
<1>2. DecoderTyped
  <2>1. \A S : <<>> \in Seq(S)
    OBVIOUS
  <2> QED
    BY <1>1, <2>1 DEF DecoderTyped
<1>3. Len(buf) = 0 /\ Len(fed) = 0 /\ Len(out) = 0 /\ Len(taken) = 0 /\ Len(packets) = 0 /\ Gone = 0
  BY <1>1 DEF Gone
<1>4. LastEnd = 0
  BY <1>2, <1>3, LastEndIs
<1>5. Suffix /\ Skipped /\ Settled
  BY <1>1, <1>3, <1>4 DEF Suffix, Skipped, Settled, NoMarkerIn
<1>6. Packets
  BY <1>1 DEF Packets
<1>7. OnlyLastBreaks /\ PutOut
  BY <1>1, <1>3 DEF OnlyLastBreaks, PutOut
<1> QED
  BY <1>2, <1>5, <1>6, <1>7 DEF DecoderInv, Framing, Output

LEMMA DecoderInvStutters ==
  ASSUME DecoderInv, UNCHANGED decoderVars
  PROVE  DecoderInv'
<1>1. UNCHANGED <<buf, synced, out, taken, mode, fed, packets>>
  BY DEF decoderVars
<1>2. DecoderTyped'
  BY <1>1 DEF DecoderInv, DecoderTyped
<1>3. Framing'
  BY <1>1 DEF DecoderInv, Framing, Suffix, Skipped, Settled, Gone, LastEnd, EndBefore,
              NoMarkerIn, MarkerAt, Complete, End,
              BigEndian
<1>4. Output'
  BY <1>1 DEF DecoderInv, Output, Packets, FirstMarker, EndBefore,
              NoMarkerIn, MarkerAt, Complete, End,
              BigEndian, OnlyLastBreaks, PutOut, PacketAt, Packet
<1> QED
  BY <1>2, <1>3, <1>4 DEF DecoderInv

LEMMA DecoderInvStep ==
  ASSUME DecoderInv, [DecoderNext]_decoderVars
  PROVE  DecoderInv'
<1>1. CASE \E chunk \in Chunks : Feed(chunk)
  BY <1>1, FeedKeeps
<1>2. CASE NoMarker
  BY <1>2, NoMarkerKeeps
<1>3. CASE Resync
  BY <1>3, ResyncKeeps
<1>4. CASE LosesSync
  BY <1>4, LosesSyncKeeps
<1>5. CASE Waits
  BY <1>5, WaitsKeeps
<1>6. CASE Handles
  BY <1>6, HandlesKeeps
<1>7. CASE UNCHANGED decoderVars
  BY <1>7, DecoderInvStutters
<1> QED
  BY <1>1, <1>2, <1>3, <1>4, <1>5, <1>6, <1>7 DEF DecoderNext

LEMMA DecoderAlways == DecoderSpec => []DecoderInv
<1>1. DecoderInit => DecoderInv
  BY DecoderInvInit
<1>2. DecoderInv /\ [DecoderNext]_decoderVars => DecoderInv'
  BY DecoderInvStep
<1> QED
  BY <1>1, <1>2, PTL DEF DecoderSpec

(* Between two feeds no packet of the recording is left: a first marker    *)
(* after the last packet is in the buffer, and at its head if synced.      *)
LEMMA NoMoreLeft ==
  ASSUME DecoderInv, mode = "idle"
  PROVE  NoMore
<1> USE DEF DecoderInv, Framing
<1>1. /\ Len(buf) \in Nat /\ Len(fed) \in Nat /\ Gone \in Nat /\ Gone + Len(buf) = Len(fed)
      /\ LastEnd \in Nat /\ LastEnd <= Gone
      /\ \A j \in (LastEnd + 1)..Gone : ~MarkerAt(fed, j)
  BY LastEndIs DEF DecoderTyped, Suffix, Skipped, Gone, NoMarkerIn
<1>2. SUFFICES ASSUME NEW i \in 1..Len(fed), FirstMarker(fed, LastEnd, i)
               PROVE  ~Complete(fed, i)
  BY DEF NoMore, LastEnd
<1>3. /\ i > LastEnd /\ MarkerAt(fed, i)
      /\ \A j \in (LastEnd + 1)..(i - 1) : ~MarkerAt(fed, j)
  BY <1>2 DEF FirstMarker, NoMarkerIn
<1>4. i > Gone
  BY <1>1, <1>2, <1>3
<1>5. PICK b \in 1..Len(buf) : i = Gone + b
  <2>1. i - Gone \in 1..Len(buf) /\ i = Gone + (i - Gone)
    BY <1>1, <1>2, <1>4
  <2> QED
    BY <2>1
<1>6. Complete(fed, i) => Complete(buf, b) /\ b + 3 <= Len(buf)
  BY <1>5, Shows DEF Complete
<1>7. CASE Len(buf) < 4
  BY <1>1, <1>5, <1>6, <1>7
<1>8. CASE Len(buf) >= 4 /\ MarkerAt(buf, 1) /\ ~Complete(buf, 1)
  <2>1. 1 \in 1..Len(buf)
    BY <1>1, <1>8
  <2>2. MarkerAt(fed, Gone + 1)
    BY <1>8, <2>1, Shows
  <2>3. ~(Gone + 1 \in (LastEnd + 1)..(i - 1))
    BY <1>3, <2>2
  <2>4. b = 1
    BY <1>1, <1>2, <1>5, <2>3
  <2> QED
    BY <1>6, <1>8, <2>4
<1> QED
  BY <1>1, <1>7, <1>8 DEF Settled

(* However the reads cut the stream, the packets handled are those of the  *)
(* whole recording, and what was taken is what they hold: the resync and   *)
(* wait of hik_decoder.py's feed neither lose nor invent a packet.         *)
THEOREM CutsNeverMatter == DecoderSpec => []CutsDoNotMatter
<1>1. DecoderInv => CutsDoNotMatter
  <2> SUFFICES ASSUME DecoderInv PROVE CutsDoNotMatter
    OBVIOUS
  <2> USE DEF DecoderInv, Output
  <2> DEFINE whole == [k \in DOMAIN packets |-> Packet(fed, packets[k].first)]
  <2>1. SUFFICES ASSUME mode # "feeding"
                 PROVE  /\ Packets
                        /\ \A k \in DOMAIN whole :
                             Breaks(whole[k]) <=> mode = "raised" /\ k = Len(packets)
                        /\ \A k \in DOMAIN taken :
                             k \in DOMAIN whole /\ taken[k] = Depacketized(whole[k])
                        /\ IF mode = "raised" THEN Len(taken) < Len(packets)
                           ELSE NoMore /\ Len(taken) = Len(packets)
    BY DEF CutsDoNotMatter
  <2>2. /\ DOMAIN packets = 1..Len(packets) /\ DOMAIN taken = 1..Len(taken)
        /\ Len(packets) \in Nat /\ Len(taken) \in Nat /\ Len(out) \in Nat
        /\ mode \in {"idle", "feeding", "raised"}
    BY DEF DecoderTyped
  <2>3. DOMAIN whole = 1..Len(packets) /\ \A k \in 1..Len(packets) : whole[k] = PacketAt(k)
    BY <2>2 DEF PacketAt
  <2> HIDE DEF whole
  <2>4. \A k \in DOMAIN whole : Breaks(whole[k]) <=> mode = "raised" /\ k = Len(packets)
    BY <2>3 DEF OnlyLastBreaks
  <2>5. /\ Len(taken) + Len(out) = Len(packets) - (IF mode = "raised" THEN 1 ELSE 0)
        /\ \A k \in 1..Len(taken) : taken[k] = Depacketized(PacketAt(k))
        /\ mode = "idle" => out = <<>>
    BY DEF PutOut
  <2>6. \A k \in DOMAIN taken : k \in DOMAIN whole /\ taken[k] = Depacketized(whole[k])
    BY <2>2, <2>3, <2>5
  <2>7. CASE mode = "raised"
    BY <2>2, <2>4, <2>5, <2>6, <2>7
  <2>8. CASE mode = "idle"
    <3>1. Len(taken) = Len(packets)
      <4>1. out = <<>> /\ mode # "raised"
        BY <2>5, <2>8
      <4>2. Len(out) = 0
        BY <4>1
      <4>3. Len(taken) + Len(out) = Len(packets) - 0
        BY <2>5, <4>1
      <4>4. Len(taken) \in Nat /\ Len(packets) \in Nat
        BY <2>2
      <4> QED
        BY <4>2, <4>3, <4>4
    <3> QED
      BY <2>4, <2>6, <2>8, <3>1, NoMoreLeft
  <2> QED
    BY <2>1, <2>2, <2>7, <2>8
<1>2. DecoderSpec => []DecoderInv
  BY DecoderAlways
<1> QED
  BY <1>1, <1>2, PTL

(* Between two feeds the buffer holds one byte of a stream without the     *)
(* channel's marker, or the incomplete packet its head announces.          *)
THEOREM BufferStaysBounded == DecoderSpec => []BufferBounded
<1>1. DecoderInv => BufferBounded
  BY DEF DecoderInv, Framing, Settled, BufferBounded
<1>2. DecoderSpec => []DecoderInv
  BY DecoderAlways
<1> QED
  BY <1>1, <1>2, PTL
=============================================================================
