------------------------------- MODULE FanOut -------------------------------
(***************************************************************************)
(* camera.py: how the pump of one channel hands the decoded stream to the  *)
(* bounded queues of its viewers, and how each viewer's feed task drains   *)
(* its queue into ffmpeg.  Frames (what decoder.take() returns at a time)  *)
(* are numbered in the order the pump produces them.  select.py chooses    *)
(* the quality with which the next upstream is opened.                     *)
(*                                                                         *)
(* The station is external: a stream starts with the parameter sets of its *)
(* quality, which are the same in every stream.  That it repeats them is   *)
(* left out: nothing below counts on it.                                   *)
(*                                                                         *)
(* Opening, closing and the lock are ChannelStream's; here a subscribe and *)
(* an unsubscribe are one step, a reopening of the upstream included.      *)
(***************************************************************************)
EXTENDS Naturals, Sequences

CONSTANTS Viewers,
          QueueMax,      \* _SUB_QUEUE_MAX
          MaxEmptyReads, \* _MAX_EMPTY_READS
          MaxFrames,     \* bound on the frames of a behaviour
          MaxSelects     \* bound on the selections

ASSUME QueueMaxAssumption == QueueMax \in Nat \ {0}
ASSUME MaxEmptyReadsAssumption == MaxEmptyReads \in Nat \ {0}
ASSUME MaxFramesAssumption == MaxFrames \in Nat /\ MaxSelects \in Nat

Qualities == {"MAIN", "SUB"}
ParamKinds == {"sps", "pps"}
NoSets == [k \in ParamKinds |-> "none"]

(* An item of a queue: a frame with its number, the parameter sets in it,  *)
(* by their quality, and the quality of its pictures, if it has any.  The  *)
(* cached SPS and PPS, put first into a new queue, are number 0.           *)
Item(n, sets, picture) == [number |-> n, sets |-> sets, picture |-> picture]
Eof == Item(MaxFrames + 1, NoSets, "none")  \* None
Sets == [ParamKinds -> Qualities \cup {"none"}]
Items == [number : 0..(MaxFrames + 1), sets : Sets, picture : Qualities \cup {"none"}]

VARIABLES
  alive,      \* the pump task runs
  empty,      \* empty reads in a row
  published,  \* number of the last frame
  quality,    \* the entry of the channel in the quality dictionary
  selects,    \* how often it changed
  opened,     \* the quality of the upstream of the pump
  sent,       \* the parameter sets that it has sent
  cached,     \* _sps and _pps, by their quality
  subs,       \* _subs
  queue,      \* queue[v]: the viewer's asyncio.Queue
  feed,       \* feed[v]: the viewer's _feed task
  got,        \* got[v]: the last frame the feed took, or published before it joined
  held,       \* held[v]: the parameter sets that its ffmpeg holds, while it runs
  behind,     \* history: the viewers whose queues were full when the pump last ended
  missed      \* history: the viewers who lost an item, or joined after the channel's
              \* first SPS and before its first PPS

stream == <<published, opened, sent, cached>>
viewing == <<subs, queue, feed, got, held>>
select == <<quality, selects>>
vars == <<alive, empty, select, stream, viewing, behind, missed>>

(* "none": no call; "starting": ffmpeg is being started; "get": in q.get;  *)
(* "write": in drain; "ended": the task is over, ffmpeg's stdin closed.    *)
FeedStates == {"none", "starting", "get", "write", "ended"}

TypeOK ==
  /\ alive \in BOOLEAN
  /\ empty \in 0..MaxEmptyReads
  /\ published \in 0..MaxFrames
  /\ quality \in Qualities /\ selects \in 0..MaxSelects
  /\ opened \in Qualities \cup {"none"}
  /\ sent \subseteq ParamKinds
  /\ cached \in Sets
  /\ subs \subseteq Viewers
  /\ queue \in [Viewers -> Seq(Items)]
  /\ \A v \in Viewers : Len(queue[v]) <= QueueMax
  /\ feed \in [Viewers -> FeedStates]
  /\ got \in [Viewers -> 0..MaxFrames]
  /\ held \in [Viewers -> Sets]
  /\ behind \subseteq Viewers /\ missed \subseteq Viewers

Init ==
  /\ alive = FALSE
  /\ empty = 0
  /\ published = 0
  /\ quality = "MAIN" /\ selects = 0
  /\ opened = "none"
  /\ sent = {} /\ cached = NoSets
  /\ subs = {}
  /\ queue = [v \in Viewers |-> <<>>]
  /\ feed = [v \in Viewers |-> "none"]
  /\ got = [v \in Viewers |-> 0]
  /\ held = [v \in Viewers |-> NoSets]
  /\ behind = {} /\ missed = {}

-----------------------------------------------------------------------------
(* async_select_option, or async_added_to_hass with the last state.        *)
Select(option) ==
  /\ quality # option /\ quality' = option
  /\ selects < MaxSelects /\ selects' = selects + 1
  /\ UNCHANGED <<alive, empty, stream, viewing, behind, missed>>

(* subscribe: a pump that is done is replaced; the queue starts with the   *)
(* cached parameter sets if both are known.                                *)
Known == \A k \in ParamKinds : cached[k] # "none"
Subscribe(v) ==
  /\ feed[v] = "none"
  /\ alive' = TRUE
  /\ opened' = IF alive THEN opened ELSE quality
  /\ subs' = subs \cup {v}
  /\ queue' = [queue EXCEPT ![v] = IF Known THEN <<Item(0, cached, "none")>> ELSE <<>>]
  /\ feed' = [feed EXCEPT ![v] = "starting"]
  /\ got' = [got EXCEPT ![v] = published]
  /\ missed' = IF ~Known /\ cached # NoSets /\ alive THEN missed \cup {v} ELSE missed
  /\ behind' = IF alive THEN behind ELSE {}
  /\ UNCHANGED <<empty, published, sent, select, cached, held>>

Unsubscribe(v) ==
  /\ feed[v] \notin {"none", "starting"}
  /\ subs' = subs \ {v}
  /\ queue' = [queue EXCEPT ![v] = <<>>]
  /\ feed' = [feed EXCEPT ![v] = "none"]
  /\ got' = [got EXCEPT ![v] = 0]
  /\ held' = [held EXCEPT ![v] = NoSets]
  /\ missed' = missed \ {v} /\ behind' = behind \ {v}
  /\ UNCHANGED <<alive, empty, select, stream>>

-----------------------------------------------------------------------------
(* The pump                                                                *)

(* Mutants: the new frame is the one that is dropped; the frame jumps the  *)
(* queue.                                                                  *)
PutNewestLost(q, item) == IF Len(q) = QueueMax THEN q ELSE Append(q, item)
PutFirst(q, item) == IF Len(q) = QueueMax THEN <<item>> \o Tail(q) ELSE <<item>> \o q

(* A full queue loses its oldest item to make room.                        *)
Put(q, item) == Append(IF Len(q) = QueueMax THEN Tail(q) ELSE q, item)

(* Mutant: nobody is told.                                                 *)
PutNothing(q) == q

(* The finally block: put_nowait, QueueFull suppressed.                    *)
PutEof(q) == IF Len(q) = QueueMax THEN q ELSE Append(q, Eof)

PumpStops ==
  /\ alive' = FALSE /\ empty' = 0
  /\ opened' = "none" /\ sent' = {}
  /\ queue' = [v \in Viewers |-> IF v \in subs THEN PutEof(queue[v]) ELSE queue[v]]
  /\ behind' = {v \in subs : Len(queue[v]) = QueueMax}
  /\ UNCHANGED <<select, published, cached, subs, feed, got, held, missed>>

(* read_chunk returned b'': a timeout, or the socket is at its end.        *)
ReadNothing ==
  /\ alive /\ empty + 1 < MaxEmptyReads
  /\ empty' = empty + 1
  /\ UNCHANGED <<alive, select, stream, viewing, behind, missed>>

ReadNothingOnceMore == alive /\ empty + 1 = MaxEmptyReads /\ PumpStops

(* A chunk that completes no NAL unit.                                     *)
ReadPart ==
  /\ alive /\ empty > 0
  /\ empty' = 0
  /\ UNCHANGED <<alive, select, stream, viewing, behind, missed>>

(* Mutant: the sets that were learned first are kept.                      *)
RememberFirst(kinds) ==
  cached' = [k \in ParamKinds |-> IF k \in kinds /\ cached[k] = "none" THEN opened ELSE cached[k]]

(* _remember_params                                                        *)
Remember(kinds) ==
  cached' = [k \in ParamKinds |-> IF k \in kinds THEN opened ELSE cached[k]]

(* A chunk that does: the first parameter sets of the stream, the SPS      *)
(* before the PPS, or pictures.                                            *)
ReadFrame(kinds) ==
  /\ alive
  /\ CASE sent = {} -> "sps" \in kinds
       [] sent = {"sps"} -> kinds = {"pps"}
       [] OTHER -> kinds = {}
  /\ published < MaxFrames
  /\ empty' = 0
  /\ published' = published + 1
  /\ sent' = sent \cup kinds
  /\ Remember(kinds)
  /\ LET sets == [k \in ParamKinds |-> IF k \in kinds THEN opened ELSE "none"]
         picture == IF sent' = ParamKinds THEN opened ELSE "none"
         item == Item(published', sets, picture) IN
     queue' = [v \in Viewers |-> IF v \in subs THEN Put(queue[v], item) ELSE queue[v]]
  /\ missed' = missed \cup {v \in subs : Len(queue[v]) = QueueMax}
  /\ UNCHANGED <<alive, select, opened, subs, feed, got, held, behind>>

(* The decoder raises, or the task is cancelled.                           *)
PumpFails == alive /\ PumpStops

-----------------------------------------------------------------------------
(* A viewer's feed                                                         *)

FeedMoves(v, from, to) == feed[v] = from /\ feed' = [feed EXCEPT ![v] = to]

FeedStarts(v) ==
  /\ FeedMoves(v, "starting", "get")
  /\ UNCHANGED <<alive, empty, select, stream, subs, queue, got, held, behind, missed>>

Takes(v, item) ==
  /\ queue' = [queue EXCEPT ![v] = Tail(@)]
  /\ got' = [got EXCEPT ![v] = IF item.number \in 1..MaxFrames THEN item.number ELSE @]
  /\ held' = [held EXCEPT ![v] = [k \in ParamKinds |-> IF item.sets[k] = "none" THEN @[k] ELSE item.sets[k]]]
  /\ UNCHANGED <<alive, empty, select, stream, subs, behind, missed>>

(* Mutant: the feed goes on after None.                                    *)
TakeIgnoresEof(v) ==
  /\ queue[v] # <<>> /\ Takes(v, Head(queue[v]))
  /\ FeedMoves(v, "get", IF Head(queue[v]) = Eof THEN "get" ELSE "write")

Take(v) ==
  /\ queue[v] # <<>> /\ Takes(v, Head(queue[v]))
  /\ FeedMoves(v, "get", IF Head(queue[v]) = Eof THEN "ended" ELSE "write")

Drained(v) ==
  /\ FeedMoves(v, "write", "get")
  /\ UNCHANGED <<alive, empty, select, stream, subs, queue, got, held, behind, missed>>

(* ffmpeg is gone: BrokenPipeError or ConnectionResetError.                *)
FeedBreaks(v) ==
  /\ FeedMoves(v, "write", "ended")
  /\ held' = [held EXCEPT ![v] = NoSets]
  /\ UNCHANGED <<alive, empty, select, stream, subs, queue, got, behind, missed>>

-----------------------------------------------------------------------------
Pump == \/ ReadNothing \/ ReadNothingOnceMore \/ ReadPart \/ PumpFails
        \/ \E kinds \in SUBSET ParamKinds : ReadFrame(kinds)

Feed(v) == FeedStarts(v) \/ Take(v) \/ Drained(v)

Next == \/ Pump \/ \E option \in Qualities : Select(option)
        \/ \E v \in Viewers : Subscribe(v) \/ Unsubscribe(v) \/ Feed(v) \/ FeedBreaks(v)

(* ffmpeg reads its stdin as long as it runs, so drain returns.            *)
Fairness == \A v \in Viewers : WF_vars(Feed(v))

Spec == Init /\ [][Next]_vars /\ Fairness

-----------------------------------------------------------------------------
(* Properties                                                              *)

Watching(v) == v \in subs /\ feed[v] # "ended"

(* The numbers of the frames in a queue.                                   *)
Frames(v) == {queue[v][i].number : i \in DOMAIN queue[v]} \cap (1..MaxFrames)
HasEof(v) == Eof \in {queue[v][i] : i \in DOMAIN queue[v]}

(* The frames a viewer gets are the stream's, in order, none twice: joins, *)
(* drops and a reopening of the upstream behind its back included.         *)
InOrder ==
  \A v \in subs : \A i \in DOMAIN queue[v] :
    queue[v][i].number \in 1..MaxFrames =>
      /\ got[v] < queue[v][i].number
      /\ \A j \in 1..(i - 1) :
           queue[v][j].number \in 1..MaxFrames => queue[v][j].number < queue[v][i].number

(* Dropping bounds the latency: the frames a viewer still has to come are  *)
(* the newest ones, without a gap, up to the last one published, and some  *)
(* are missed only while its queue is full.                               *)
NewestKept ==
  \A v \in subs : Watching(v) /\ ~HasEof(v) =>
    /\ \A n \in Frames(v) : n..published \subseteq Frames(v)
    /\ IF Frames(v) = {} THEN got[v] = published
                         ELSE got[v] + 1 \in Frames(v) \/ Len(queue[v]) = QueueMax

(* A viewer whose queue was closed ends, unless the channel is reopened.   *)
ClosedFeedEnds ==
  \A v \in Viewers : HasEof(v) ~> feed[v] \in {"none", "ended"} \/ alive

(* "and finally None when the upstream ends": only a viewer that was a     *)
(* full queue behind waits at an empty queue for a pump that is done.      *)
EofReachesViewers ==
  \A v \in subs : ~alive /\ feed[v] = "get" /\ queue[v] = <<>> => v \in behind

(* "prime late joiners": a viewer holds the parameter sets of every        *)
(* picture it gets, also if the upstream was reopened with another quality *)
(* than that of the cached sets, unless it has lost an item, or joined     *)
(* between the very first SPS and PPS of the channel.                      *)
PicturesDecode ==
  [][\A v \in Viewers \ missed : feed[v] = "get" /\ feed'[v] = "write" =>
       LET picture == Head(queue[v]).picture IN
       picture = "none" \/ \A k \in ParamKinds : held'[v][k] = picture]_vars
=============================================================================
