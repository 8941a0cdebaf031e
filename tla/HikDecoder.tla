----------------------------- MODULE HikDecoder -----------------------------
(***************************************************************************)
(* hik_decoder.py: the incremental decoder between read_chunk and the      *)
(* viewers' queues.  The pump feeds it what the socket returns, in chunks  *)
(* cut anywhere, and takes what it has put out after each.  Bytes are      *)
(* numbers below Base; Base and Header stand for 256 and the 12 + 13 bytes *)
(* of the two headers.  The specification's names begin with Decoder, so   *)
(* that MediaPath_proofs can extend this module beside Transport.          *)
(***************************************************************************)
EXTENDS Integers, Sequences

CONSTANTS Base,
          Dollar,      \* 0x24
          Interleave,  \* the channel's byte of the marker
          Header,      \* _RTP_HEADER + _HIK_HEADER
          MaxChunk,    \* longest chunk
          MaxFed       \* bound on the bytes of a behaviour

Bytes == 0..(Base - 1)

ASSUME MarkerAssumption == Dollar \in Bytes /\ Interleave \in Bytes /\ Dollar # Interleave
ASSUME HeaderAssumption == Base \in Nat /\ Header \in Nat
ASSUME BoundsAssumption == MaxChunk \in Nat /\ MaxFed \in Nat

(* _SC, and the NAL unit header rebuilt from those of a first fragment.    *)
StartCode == Base
Rebuilt == Base + 1
Out == 0..(Base + 1)

VARIABLES
  buf,      \* _buf
  synced,   \* _synced
  out,      \* _out, by packet
  taken,    \* what take() has returned so far, by packet
  mode,     \* idle, feeding, or raised: feed raised and the pump has ended
  fed,      \* history: the bytes fed so far
  packets   \* history: the places in fed of the packets handled so far

decoderVars == <<buf, synced, out, taken, mode, fed, packets>>

DecoderTypeOK ==
  /\ buf \in Seq(Bytes)
  /\ synced \in BOOLEAN
  /\ out \in Seq(Seq(Out)) /\ taken \in Seq(Seq(Out))
  /\ mode \in {"idle", "feeding", "raised"}
  /\ fed \in Seq(Bytes)
  /\ packets \in Seq([first : Nat, last : Nat])

DecoderInit ==
  /\ buf = <<>> /\ synced = FALSE /\ out = <<>> /\ taken = <<>> /\ mode = "idle"
  /\ fed = <<>> /\ packets = <<>>

From(s, i) == SubSeq(s, i, Len(s))
BigEndian(s, i) == s[i] * Base + s[i + 1]

-----------------------------------------------------------------------------
(* _handle_packet                                                          *)

(* t = pay[0] & 0x1F; the bit that marks a first fragment is fu_hdr's.     *)
IsFragment(b) == b % 4 = 2
IsAggregate(b) == b % 4 = 3
IsSingle(b) == b % 4 = 1
IsStart(b) == b % 2 = 1

(* The NAL units from place i of an aggregate on.                          *)
Aggregated(pay) ==
  LET units[i \in Nat] ==
        IF i + 1 > Len(pay) \/ i + 1 + BigEndian(pay, i) > Len(pay) THEN <<>>
        ELSE LET end == i + 1 + BigEndian(pay, i) IN
             <<StartCode>> \o SubSeq(pay, i + 2, end) \o units[end + 1]
  IN units[2]

(* The payload of a fragment has no second byte: IndexError.               *)
Breaks(packet) ==
  /\ Len(packet) = Header + 1
  /\ IsFragment(packet[Header + 1])

Depacketized(packet) ==
  LET pay == From(packet, Header + 1) IN
  IF Len(packet) < Header + 1 THEN <<>>
  ELSE CASE IsSingle(pay[1]) -> <<StartCode>> \o pay
         [] IsFragment(pay[1]) -> (IF IsStart(pay[2]) THEN <<StartCode, Rebuilt>> ELSE <<>>)
                                    \o From(pay, 3)
         [] IsAggregate(pay[1]) -> Aggregated(pay)
         [] OTHER -> <<>>

-----------------------------------------------------------------------------
(* feed and take: _consume_one_chunk is called until it returns False      *)

MarkerAt(s, i) == i < Len(s) /\ s[i] = Dollar /\ s[i + 1] = Interleave
NoMarkerIn(s, from, to) == \A i \in from..to : ~MarkerAt(s, i)

(* i is the place of the first marker after place e.                       *)
FirstMarker(s, e, i) == i > e /\ MarkerAt(s, i) /\ NoMarkerIn(s, e + 1, i - 1)

(* Mutants: nothing is kept; everything is.                                *)
KeptNothing(s) == <<>>
KeptAll(s) == s

(* Without a marker only the last byte is kept: it may be its first half.  *)
Kept(s) == IF Len(s) > 1 THEN From(s, Len(s)) ELSE s

(* The packet that starts at i is complete, and ends there.                *)
End(s, i) == i + 3 + BigEndian(s, i + 2)
Complete(s, i) == i + 3 <= Len(s) /\ End(s, i) <= Len(s)
Packet(s, i) == SubSeq(s, i + 4, End(s, i))

Feed(chunk) ==
  /\ mode = "idle" /\ mode' = "feeding"
  /\ Len(fed) + Len(chunk) <= MaxFed
  /\ fed' = fed \o chunk /\ buf' = buf \o chunk
  /\ UNCHANGED <<synced, out, taken, packets>>

(* It returns False, and take empties _out.                                *)
Returns ==
  /\ mode' = "idle"
  /\ taken' = taken \o out /\ out' = <<>>
  /\ UNCHANGED <<synced, fed, packets>>

NoMarker ==
  /\ mode = "feeding" /\ ~synced /\ NoMarkerIn(buf, 1, Len(buf))
  /\ buf' = Kept(buf)
  /\ Returns

Resync ==
  /\ mode = "feeding" /\ ~synced
  /\ \E i \in 1..Len(buf) : FirstMarker(buf, 0, i) /\ buf' = From(buf, i)
  /\ synced' = TRUE
  /\ UNCHANGED <<out, taken, mode, fed, packets>>

LosesSync ==
  /\ mode = "feeding" /\ synced /\ Len(buf) >= 4 /\ ~MarkerAt(buf, 1)
  /\ synced' = FALSE
  /\ UNCHANGED <<buf, out, taken, mode, fed, packets>>

Waits ==
  /\ mode = "feeding" /\ synced
  /\ Len(buf) < 4 \/ (MarkerAt(buf, 1) /\ ~Complete(buf, 1))
  /\ UNCHANGED buf
  /\ Returns

(* The packet leaves the buffer before it is handled.                      *)
Handles ==
  /\ mode = "feeding" /\ synced /\ MarkerAt(buf, 1) /\ Complete(buf, 1)
  /\ buf' = From(buf, End(buf, 1) + 1)
  /\ IF Breaks(Packet(buf, 1))
       THEN mode' = "raised" /\ UNCHANGED out
       ELSE out' = Append(out, Depacketized(Packet(buf, 1))) /\ UNCHANGED mode
  /\ LET before == Len(fed) - Len(buf) IN
     packets' = Append(packets, [first |-> before + 1, last |-> before + End(buf, 1)])
  /\ UNCHANGED <<synced, taken, fed>>

Chunks == UNION {[1..n -> Bytes] : n \in 1..MaxChunk}

DecoderNext == \/ \E chunk \in Chunks : Feed(chunk)
        \/ NoMarker \/ Resync \/ LosesSync \/ Waits \/ Handles

DecoderSpec == DecoderInit /\ [][DecoderNext]_decoderVars

-----------------------------------------------------------------------------
(* Properties                                                              *)

(* The reference, on the whole recording and regardless of how it was cut: *)
(* a packet starts at the first marker after the end of the one before.    *)
EndBefore(k) == IF k = 1 THEN 0 ELSE packets[k - 1].last

Packets ==
  \A k \in DOMAIN packets : LET p == packets[k] IN
    FirstMarker(fed, EndBefore(k), p.first) /\ Complete(fed, p.first) /\ p.last = End(fed, p.first)

NoMore ==
  \A i \in 1..Len(fed) : FirstMarker(fed, EndBefore(Len(packets) + 1), i) => ~Complete(fed, i)

(* However the reads of the socket cut the stream, the packets handled are *)
(* those of the whole recording, and the viewers get what they hold; if    *)
(* one cannot be handled the pump ends there, for any cuts, and what the   *)
(* viewers got is no more than what the packets before it hold.            *)
CutsDoNotMatter ==
  LET whole == [k \in DOMAIN packets |-> Packet(fed, packets[k].first)] IN
  mode # "feeding" =>
    /\ Packets
    /\ \A k \in DOMAIN whole : Breaks(whole[k]) <=> mode = "raised" /\ k = Len(packets)
    /\ \A k \in DOMAIN taken : k \in DOMAIN whole /\ taken[k] = Depacketized(whole[k])
    /\ IF mode = "raised" THEN Len(taken) < Len(packets)
                          ELSE NoMore /\ Len(taken) = Len(packets)

(* A stream that never shows the channel's marker, as another channel's    *)
(* does, is not hoarded: between two feeds the buffer holds one byte of    *)
(* it, or the incomplete packet that its head announces.                   *)
BufferBounded ==
  mode = "idle" => IF synced THEN Len(buf) < 4 \/ ~Complete(buf, 1) ELSE Len(buf) <= 1
=============================================================================
