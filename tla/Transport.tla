----------------------------- MODULE Transport -----------------------------
(***************************************************************************)
(* The sockets of one stream: the exchange with the CAS for the control    *)
(* key (lib/cas.py), the look for the local address, INIT, INVITE and PLAY *)
(* with the station and the media that follow PLAY's reply on the same     *)
(* socket (lib/lan_client.py).  Once it has started, an executor thread    *)
(* reads while another closes.                                             *)
(*                                                                         *)
(* Bytes are counted.  A peer sends one well-formed frame in answer to a   *)
(* request; TCP delivers it, and what follows, in pieces of any size.      *)
(* What a refusal does to the control key is StreamOpen's.                 *)
(***************************************************************************)
EXTENDS Naturals

CONSTANTS HeaderLen,  \* HEADER_LEN, CAS_FRAME_HEADER_SIZE: 32
          TrailerLen, \* MD5_TRAILER_LEN, CAS_RESPONSE_DIGEST_SIZE: 32
          Bodies,     \* lengths of the bodies peers send
          Hints,      \* tail sizes the CAS declares, 0 if it declares none
          Media       \* bytes of media the station sends

ASSUME SizesAssumption ==
  /\ HeaderLen \in Nat \ {0} /\ TrailerLen \in Nat /\ Media \in Nat
  /\ Bodies \subseteq Nat /\ Hints \subseteq Nat

VARIABLES
  phase,    \* the exchange under way, or how the attempt ended
  step,     \* connect, tls, route or reply
  lenient,  \* the connection to the CAS is the one made after an expiry
  open,     \* sockets that are open, by their exchange
  frame,    \* the reply of the peer
  arrived,  \* bytes that came in on the present socket
  got,      \* bytes taken from it
  media,    \* bytes that read_chunk returned
  playSock, \* _play_sock is not None
  closed,   \* _closed
  shut,     \* the play socket is shut down
  reader,   \* the thread in read_chunk
  closer    \* the thread in close

exchange == <<phase, step, lenient, frame>>
bytes == <<arrived, got, media>>
stream == <<playSock, closed, shut, reader, closer>>
vars == <<exchange, open, bytes, stream>>

(* "discover": no request, a datagram socket that is asked for its own     *)
(* address.                                                                *)
Exchanges == {"cas", "discover", "init", "invite", "play"}
Frames == [body : Bodies, hint : Hints]

TypeOK ==
  /\ phase \in Exchanges \cup {"started", "failed", "unrouted"}
  /\ step \in {"connect", "tls", "route", "reply"}
  /\ open \subseteq Exchanges
  /\ frame \in Frames
  /\ arrived \in Nat /\ got \in 0..arrived /\ media \in Nat
  /\ lenient \in BOOLEAN /\ playSock \in BOOLEAN /\ closed \in BOOLEAN /\ shut \in BOOLEAN
  /\ reader \in {"idle", "settimeout", "recv", "blocked"}
  /\ closer \in {"idle", "shutdown", "close", "forget", "done"}

(* An attempt with a cached key does not ask the CAS.                      *)
Init ==
  /\ phase \in {"cas", "discover"} /\ step = "connect" /\ lenient = FALSE
  /\ open = {}
  /\ frame \in Frames
  /\ arrived = 0 /\ got = 0 /\ media = 0
  /\ playSock = FALSE /\ closed = FALSE /\ shut = FALSE
  /\ reader = "idle" /\ closer = "idle"

-----------------------------------------------------------------------------
(* Peers                                                                   *)

(* The reply on the wire; the station sends a trailer of 32 bytes whatever *)
(* its header says, the CAS one of the size it declares, if it does.       *)
WireSize ==
  HeaderLen + frame.body + IF phase = "cas" /\ frame.hint > 0 THEN frame.hint ELSE TrailerLen

Arrives ==
  /\ phase \in open \/ (phase = "started" /\ "play" \in open)
  /\ step = "reply"
  /\ arrived' \in (arrived + 1)..(WireSize + IF phase \in {"play", "started"} THEN Media ELSE 0)
  /\ UNCHANGED <<exchange, open, got, media, stream>>

-----------------------------------------------------------------------------
(* start, and _send_cas_payload for the key                                *)

At(s) == phase \in Exchanges /\ step = s

(* An exception leaves the exchange on a way out that closes its socket.   *)
Fail ==
  /\ phase' = "failed"
  /\ open' = open \ {phase}
  /\ UNCHANGED <<step, lenient, frame, bytes, stream>>

Connects ==
  /\ At("connect")
  /\ open' = open \cup {phase}
  /\ step' = CASE phase = "cas" -> "tls" [] phase = "discover" -> "route" [] OTHER -> "reply"
  /\ frame' \in Frames
  /\ arrived' = 0 /\ got' = 0
  /\ UNCHANGED <<phase, lenient, media, stream>>

(* No route, a refusal, a timeout.                                         *)
ConnectFails == At("connect") /\ Fail

(* _discover_local_ip: the socket has a route to the station, which tells  *)
(* its address, and is closed.                                             *)
Discovered ==
  /\ At("route")
  /\ open' = open \ {phase}
  /\ phase' = "init" /\ step' = "connect"
  /\ UNCHANGED <<lenient, frame, bytes, stream>>

(* Its connect raises before the try whose finally would close the socket, *)
(* which is left to the garbage collector.                                 *)
NoRoute ==
  /\ At("route")
  /\ phase' = "unrouted"
  /\ UNCHANGED <<step, lenient, open, frame, bytes, stream>>

(* The certificate is good, or has expired and names the host.             *)
Handshake ==
  /\ At("tls") /\ step' = "reply"
  /\ UNCHANGED <<phase, lenient, open, frame, bytes, stream>>

(* Rejected for its expiry only: the socket is closed for a second one     *)
(* that does not verify.                                                   *)
Expired ==
  /\ At("tls") /\ ~lenient
  /\ open' = open \ {phase}
  /\ lenient' = TRUE /\ step' = "connect"
  /\ UNCHANGED <<phase, frame, bytes, stream>>

HandshakeFails == At("tls") /\ Fail

(* What follows the header, as the client works it out.                    *)
CasRest == frame.body + IF frame.hint = 0 THEN TrailerLen ELSE frame.hint
LanRest == frame.body + TrailerLen
Expected == HeaderLen + IF phase = "cas" THEN CasRest ELSE LanRest

(* Mutant: each recv asks for the whole rest.                              *)
RoomWhole == IF got < HeaderLen THEN HeaderLen - got ELSE Expected - HeaderLen

(* The bytes the next recv asks for: of the header, then of the rest.      *)
Room == IF got < HeaderLen THEN HeaderLen - got ELSE Expected - got

Receives ==
  /\ At("reply") /\ got < Expected
  /\ \E k \in 1..Room : got + k <= arrived /\ got' = got + k
  /\ UNCHANGED <<exchange, open, arrived, media, stream>>

(* The peer closed, or no byte came in time.                               *)
ReplyFails == At("reply") /\ got < Expected /\ phase # "play" /\ Fail

Whole == At("reply") /\ got >= Expected

(* The reply is good: its socket is closed before the next exchange.       *)
Next1 == [cas |-> "discover", init |-> "invite", invite |-> "play"]
Replied ==
  /\ Whole /\ phase # "play"
  /\ open' = open \ {phase}
  /\ phase' = Next1[phase] /\ step' = "connect"
  /\ UNCHANGED <<lenient, frame, bytes, stream>>

(* It is no frame, cannot be decrypted, refuses, or names no session.      *)
Unusable == Whole /\ phase # "play" /\ Fail

(* PLAY's result is not looked at.                                         *)
Played ==
  /\ Whole /\ phase = "play"
  /\ phase' = "started" /\ playSock' = TRUE
  /\ UNCHANGED <<step, lenient, frame, open, bytes, closed, shut, reader, closer>>

(* Mutant: PLAY's socket is not closed.                                    *)
PlayFailsOpen ==
  /\ At("reply") /\ phase = "play"
  /\ phase' = "failed"
  /\ UNCHANGED <<step, lenient, frame, open, bytes, stream>>

(* No reply to PLAY, or one that is no frame or cannot be decrypted.       *)
PlayFails == At("reply") /\ phase = "play" /\ Fail

-----------------------------------------------------------------------------
(* read_chunk                                                              *)

ReaderGoes(from, to) ==
  /\ reader = from /\ reader' = to
  /\ UNCHANGED <<exchange, open, playSock, closed, shut, closer>>

ReadStarts ==
  /\ phase = "started" /\ playSock /\ ~closed
  /\ ReaderGoes("idle", "settimeout")
  /\ UNCHANGED bytes

(* settimeout, then recv: each looks _play_sock up again, and raises or    *)
(* returns nothing if close has forgotten or closed it.                    *)
Usable == playSock /\ "play" \in open
SetsTimeout ==
  /\ ReaderGoes("settimeout", IF Usable THEN "recv" ELSE "idle")
  /\ UNCHANGED bytes
Blocks ==
  /\ ReaderGoes("recv", IF Usable THEN "blocked" ELSE "idle")
  /\ UNCHANGED bytes

Reads ==
  /\ ReaderGoes("blocked", "idle")
  /\ got' \in (got + 1)..arrived
  /\ media' = media + (got' - got)
  /\ UNCHANGED arrived

(* The end of the stream of a socket that is shut down.                    *)
Released == shut /\ ReaderGoes("blocked", "idle") /\ UNCHANGED bytes

(* The time is up, or the station closed.                                  *)
ReadsNothing == ReaderGoes("blocked", "idle") /\ UNCHANGED bytes

-----------------------------------------------------------------------------
(* close, by the teardown of a stream that has started                     *)

CloserGoes(from, to) ==
  /\ phase = "started"
  /\ closer = from /\ closer' = to
  /\ UNCHANGED <<exchange, bytes, reader>>

CloseStarts == CloserGoes("idle", "shutdown") /\ closed' = TRUE /\ UNCHANGED <<open, playSock, shut>>

(* Mutant: the socket is closed without a shutdown.                        *)
ShutsNothing == CloserGoes("shutdown", "close") /\ UNCHANGED <<open, playSock, closed, shut>>

(* A station that is gone makes it fail, and has ended the recv as well.   *)
Shuts == CloserGoes("shutdown", "close") /\ shut' = TRUE /\ UNCHANGED <<open, playSock, closed>>
Closes ==
  /\ CloserGoes("close", "forget")
  /\ open' = open \ {"play"}
  /\ UNCHANGED <<playSock, closed, shut>>
Forgets == CloserGoes("forget", "done") /\ playSock' = FALSE /\ UNCHANGED <<open, closed, shut>>

-----------------------------------------------------------------------------
Opening ==
  \/ Connects \/ ConnectFails \/ Discovered \/ NoRoute \/ Handshake \/ Expired \/ HandshakeFails
  \/ Receives \/ ReplyFails \/ Replied \/ Unusable \/ Played \/ PlayFails
Reading == ReadStarts \/ SetsTimeout \/ Blocks \/ Reads \/ Released \/ ReadsNothing
Closing == CloseStarts \/ Shuts \/ Closes \/ Forgets

Next == Arrives \/ Opening \/ Reading \/ Closing

(* Threads run; the time-out of recv, eight seconds, is not counted on.    *)
Fairness ==
  /\ WF_vars(Shuts \/ Closes \/ Forgets)
  /\ WF_vars(SetsTimeout \/ Blocks) /\ WF_vars(Released)

Spec == Init /\ [][Next]_vars /\ Fairness

-----------------------------------------------------------------------------
(* Properties                                                              *)

(* However TCP cuts the bytes, an exchange takes its reply and not a byte  *)
(* of what follows: the media start with the first byte after PLAY's reply.*)
RepliesExact ==
  /\ At("reply") => got <= WireSize
  /\ Whole => got = WireSize
  /\ phase = "started" => got - media = WireSize

(* Failures, at any step of any exchange, leave no socket open, no         *)
(* exchange opens one before the last is closed, and a stream that started *)
(* keeps its own until it is closed.  The exception is the datagram socket *)
(* that has no route to the station, which the code does not close.        *)
SocketsAccounted ==
  open = CASE phase = "started" -> IF closer \in {"forget", "done"} THEN {} ELSE {"play"}
           [] phase \in Exchanges /\ step # "connect" -> {phase}
           [] phase = "unrouted" -> {"discover"}
           [] OTHER -> {}

(* Closing frees a thread that reads, wherever in read_chunk it stands,    *)
(* for good and without waiting for a time-out of recv.                    *)
ReaderReleased == closer # "idle" ~> [](reader = "idle")
=============================================================================
