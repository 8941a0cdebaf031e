--------------------------- MODULE FanOut_proofs ----------------------------
(***************************************************************************)
(* Proofs about FanOut for every set of viewers, every queue size, every   *)
(* number of empty reads and any number of frames and selections.          *)
(***************************************************************************)
EXTENDS FanOut, TLAPS

(* What a put does to a queue; a full one is shortened first.              *)
Grown(q, r, item) ==
  Len(r) = Len(q) + 1 /\ r[Len(r)] = item /\ \A i \in 1..Len(q) : r[i] = q[i]

LEMMA ItemType ==
  ASSUME NEW n \in 0..(MaxFrames + 1), NEW sets \in Sets, NEW picture \in Qualities \cup {"none"}
  PROVE  Item(n, sets, picture) \in Items
  BY DEF Item, Items

LEMMA EofType == Eof \in Items /\ Eof.number = MaxFrames + 1 /\ Eof.picture = "none"
                   /\ Eof.sets = NoSets /\ NoSets \in Sets
  BY MaxFramesAssumption DEF Eof, Item, Items, NoSets, Sets

LEMMA TailIs ==
  ASSUME NEW q \in Seq(Items), q # <<>>
  PROVE  /\ Tail(q) \in Seq(Items) /\ Len(Tail(q)) = Len(q) - 1
         /\ \A i \in 1..Len(Tail(q)) : Tail(q)[i] = q[i + 1]
         /\ Head(q) = q[1] /\ 1 \in 1..Len(q) /\ q[1] \in Items
  OBVIOUS

LEMMA PutIs ==
  ASSUME NEW q \in Seq(Items), NEW item \in Items, Len(q) <= QueueMax
  PROVE  /\ Put(q, item) \in Seq(Items) /\ Len(Put(q, item)) <= QueueMax
         /\ Len(q) < QueueMax => Grown(q, Put(q, item), item)
         /\ Len(q) = QueueMax => q # <<>> /\ Grown(Tail(q), Put(q, item), item)
<1>1. CASE Len(q) < QueueMax
  <2>1. Put(q, item) = Append(q, item)
    BY <1>1, QueueMaxAssumption DEF Put
  <2>2. QED
    BY <1>1, <2>1, QueueMaxAssumption DEF Grown
<1>2. CASE Len(q) = QueueMax
  <2>1. Put(q, item) = Append(Tail(q), item) /\ q # <<>>
    BY <1>2, QueueMaxAssumption DEF Put
  <2>2. QED
    BY <1>2, <2>1, TailIs, QueueMaxAssumption DEF Grown
<1> QED
  BY <1>1, <1>2, QueueMaxAssumption

LEMMA PutEofIs ==
  ASSUME NEW q \in Seq(Items), Len(q) <= QueueMax
  PROVE  /\ PutEof(q) \in Seq(Items) /\ Len(PutEof(q)) <= QueueMax
         /\ Len(q) < QueueMax => Grown(q, PutEof(q), Eof)
         /\ Len(q) = QueueMax => PutEof(q) = q
<1>1. Len(q) < QueueMax => PutEof(q) = Append(q, Eof)
  BY QueueMaxAssumption DEF PutEof
<1> QED
  BY <1>1, EofType, QueueMaxAssumption DEF PutEof, Grown

-----------------------------------------------------------------------------
(* Types.                                                                  *)
LEMMA TypeStep == TypeOK /\ [Next]_vars => TypeOK'
<1> SUFFICES ASSUME TypeOK, [Next]_vars PROVE TypeOK'
  OBVIOUS
<1> USE MaxFramesAssumption, QueueMaxAssumption, MaxEmptyReadsAssumption
    DEF TypeOK, stream, viewing, select
<1>s. NoSets \in Sets
  BY EofType
<1>1. ASSUME NEW option \in Qualities, Select(option) PROVE TypeOK'
  BY <1>1 DEF Select
<1>2. ASSUME NEW v \in Viewers, Subscribe(v) PROVE TypeOK'
  <2>1. Item(0, cached, "none") \in Items
    BY ItemType
  <2>2. /\ queue' \in [Viewers -> Seq(Items)]
        /\ \A w \in Viewers : Len(queue'[w]) <= QueueMax
    BY <1>2, <2>1 DEF Subscribe
  <2>3. /\ alive' \in BOOLEAN /\ opened' \in Qualities \cup {"none"}
        /\ subs' \subseteq Viewers /\ feed' \in [Viewers -> FeedStates]
        /\ got' \in [Viewers -> 0..MaxFrames]
        /\ behind' \subseteq Viewers /\ missed' \subseteq Viewers
    BY <1>2 DEF Subscribe, FeedStates
  <2> QED
    BY <1>2, <2>2, <2>3 DEF Subscribe
<1>3. ASSUME NEW v \in Viewers, Unsubscribe(v) PROVE TypeOK'
  BY <1>3, <1>s DEF Unsubscribe, FeedStates
<1>4. CASE ReadNothing
  BY <1>4 DEF ReadNothing
<1>5. CASE PumpStops
  <2>1. /\ queue' \in [Viewers -> Seq(Items)]
        /\ \A w \in Viewers : Len(queue'[w]) <= QueueMax
    BY <1>5, PutEofIs DEF PumpStops
  <2>2. /\ alive' = FALSE /\ empty' = 0 /\ opened' = "none" /\ sent' = {}
        /\ behind' \subseteq Viewers
        /\ UNCHANGED <<quality, selects, published, cached, subs, feed, got, held, missed>>
    BY <1>5 DEF PumpStops
  <2>3. alive' \in BOOLEAN
    BY <2>2
  <2>4. empty' \in 0..MaxEmptyReads
    BY <2>2
  <2> QED
    BY <2>1, <2>2, <2>3, <2>4
<1>6. CASE ReadPart
  BY <1>6 DEF ReadPart
<1>7. ASSUME NEW kinds \in SUBSET ParamKinds, ReadFrame(kinds) PROVE TypeOK'
  <2> DEFINE sets == [k \in ParamKinds |-> IF k \in kinds THEN opened ELSE "none"]
             picture == IF sent' = ParamKinds THEN opened ELSE "none"
             item == Item(published', sets, picture)
  <2>1. published' \in 0..MaxFrames /\ item \in Items
    <3>1. published' \in 0..MaxFrames
      BY <1>7 DEF ReadFrame
    <3>2. sets \in Sets /\ picture \in Qualities \cup {"none"}
      BY DEF Sets
    <3> QED
      BY <3>1, <3>2, ItemType
  <2>2. queue' = [v \in Viewers |-> IF v \in subs THEN Put(queue[v], item) ELSE queue[v]]
    BY <1>7 DEF ReadFrame
  <2> HIDE DEF item
  <2>3. /\ queue' \in [Viewers -> Seq(Items)]
        /\ \A w \in Viewers : Len(queue'[w]) <= QueueMax
    BY <2>1, <2>2, PutIs
  <2>4. cached' \in Sets /\ sent' \subseteq ParamKinds /\ missed' \subseteq Viewers
    BY <1>7 DEF ReadFrame, Remember, Sets
  <2>5. /\ empty' = 0
        /\ UNCHANGED <<alive, quality, selects, opened, subs, feed, got, held, behind>>
    BY <1>7 DEF ReadFrame
  <2> QED
    BY <2>1, <2>3, <2>4, <2>5
<1>8. ASSUME NEW v \in Viewers, FeedStarts(v) \/ Drained(v) PROVE TypeOK'
  BY <1>8 DEF FeedStarts, Drained, FeedMoves, FeedStates
<1>9. ASSUME NEW v \in Viewers, Take(v) PROVE TypeOK'
  <2>1. queue[v] # <<>> /\ queue[v] \in Seq(Items) /\ Head(queue[v]) \in Items
    BY <1>9 DEF Take
  <2>2. /\ queue' \in [Viewers -> Seq(Items)]
        /\ \A w \in Viewers : Len(queue'[w]) <= QueueMax
    BY <1>9, <2>1 DEF Take, Takes
  <2>3. feed' \in [Viewers -> FeedStates]
    BY <1>9 DEF Take, FeedMoves, FeedStates
  <2>4. got' \in [Viewers -> 0..MaxFrames] /\ held' \in [Viewers -> Sets]
    BY <1>9, <2>1 DEF Take, Takes, Items, Sets
  <2> QED
    BY <1>9, <2>2, <2>3, <2>4 DEF Take, Takes
<1>10. ASSUME NEW v \in Viewers, FeedBreaks(v) PROVE TypeOK'
  BY <1>10, <1>s DEF FeedBreaks, FeedMoves, FeedStates
<1>11. CASE UNCHANGED vars
  BY <1>11 DEF vars
<1> QED
  BY <1>1, <1>2, <1>3, <1>4, <1>5, <1>6, <1>7, <1>8, <1>9, <1>10, <1>11
     DEF Next, Pump, Feed, ReadNothingOnceMore, PumpFails

(* No queue ever exceeds _SUB_QUEUE_MAX, and every variable stays in its   *)
(* type.                                                                   *)
THEOREM TypeCorrect == Spec => []TypeOK
<1>1. Init => TypeOK
  <2> SUFFICES ASSUME Init PROVE TypeOK
    OBVIOUS
  <2>1. NoSets \in Sets /\ 0 \in 0..MaxFrames /\ 0 \in 0..MaxSelects /\ 0 \in 0..MaxEmptyReads
    BY EofType, MaxFramesAssumption, MaxEmptyReadsAssumption
  <2>2. queue \in [Viewers -> Seq(Items)] /\ \A v \in Viewers : Len(queue[v]) <= QueueMax
    BY QueueMaxAssumption DEF Init
  <2> QED
    BY <2>1, <2>2 DEF Init, TypeOK, Qualities, FeedStates
<1> QED
  BY <1>1, TypeStep, PTL DEF Spec

-----------------------------------------------------------------------------
(* The frames of a queue: their numbers, and that they are in order.       *)
Num(q) == {q[i].number : i \in 1..Len(q)} \cap (1..MaxFrames)

Sorted(q) ==
  \A i \in 1..Len(q) : \A j \in 1..(i - 1) :
    q[i].number \in 1..MaxFrames /\ q[j].number \in 1..MaxFrames => q[j].number < q[i].number

LEMMA TailFrames ==
  ASSUME NEW q \in Seq(Items), q # <<>>, Sorted(q)
  PROVE  /\ Sorted(Tail(q)) /\ Num(Tail(q)) = Num(q) \ {q[1].number}
         /\ q[1].number \in 1..MaxFrames => \A n \in Num(Tail(q)) : q[1].number < n
<1> DEFINE r == Tail(q)
<1>1. /\ r \in Seq(Items) /\ Len(r) = Len(q) - 1 /\ Len(q) \in Nat \ {0}
      /\ \A i \in 1..Len(r) : r[i] = q[i + 1] /\ i + 1 \in 2..Len(q)
  BY TailIs
<1> HIDE DEF r
<1>2. Sorted(r)
  <2> SUFFICES ASSUME NEW i \in 1..Len(r), NEW j \in 1..(i - 1),
                      r[i].number \in 1..MaxFrames, r[j].number \in 1..MaxFrames
               PROVE  r[j].number < r[i].number
    BY DEF Sorted
  <2>1. i + 1 \in 1..Len(q) /\ j + 1 \in 1..((i + 1) - 1) /\ r[i] = q[i + 1] /\ r[j] = q[j + 1]
    BY <1>1
  <2> QED
    BY <2>1 DEF Sorted
<1>3. q[1].number \in 1..MaxFrames => \A n \in Num(r) : q[1].number < n
  <2> SUFFICES ASSUME q[1].number \in 1..MaxFrames, NEW n \in Num(r) PROVE q[1].number < n
    OBVIOUS
  <2>1. PICK i \in 1..Len(r) : n = r[i].number
    BY DEF Num
  <2>2. i + 1 \in 1..Len(q) /\ 1 \in 1..((i + 1) - 1) /\ r[i] = q[i + 1] /\ n \in 1..MaxFrames
    BY <1>1 DEF Num
  <2> QED
    BY <2>1, <2>2 DEF Sorted
<1>4. Num(r) \subseteq Num(q)
  BY <1>1 DEF Num
<1>5. ASSUME NEW n \in Num(q), n # q[1].number PROVE n \in Num(r)
  <2>1. PICK i \in 1..Len(q) : n = q[i].number
    BY DEF Num
  <2>2. i - 1 \in 1..Len(r) /\ q[i] = r[i - 1]
    BY <1>1, <1>5, <2>1
  <2> QED
    BY <2>1, <2>2 DEF Num
<1>6. \A n \in Num(r) : n # q[1].number
  <2> SUFFICES ASSUME NEW n \in Num(r), n = q[1].number PROVE FALSE
    OBVIOUS
  <2>1. n \in 1..MaxFrames
    BY DEF Num
  <2> QED
    BY <1>3, <2>1, MaxFramesAssumption
<1> QED
  BY <1>2, <1>3, <1>4, <1>5, <1>6 DEF r

LEMMA GrownFrames ==
  ASSUME NEW q \in Seq(Items), NEW r \in Seq(Items), NEW item \in Items, Grown(q, r, item),
         Sorted(q),
         item.number \in 1..MaxFrames => \A n \in Num(q) : n < item.number
  PROVE  Sorted(r) /\ Num(r) = Num(q) \cup ({item.number} \cap (1..MaxFrames))
<1>1. /\ Len(r) = Len(q) + 1 /\ Len(q) \in Nat /\ r[Len(r)] = item
      /\ \A i \in 1..Len(q) : r[i] = q[i] /\ i \in 1..Len(r)
      /\ \A i \in 1..Len(r) : i \in 1..Len(q) \/ i = Len(r)
  BY DEF Grown
<1>2. Sorted(r)
  <2> SUFFICES ASSUME NEW i \in 1..Len(r), NEW j \in 1..(i - 1),
                      r[i].number \in 1..MaxFrames, r[j].number \in 1..MaxFrames
               PROVE  r[j].number < r[i].number
    BY DEF Sorted
  <2>1. j \in 1..Len(q) /\ r[j] = q[j]
    BY <1>1
  <2>2. CASE i \in 1..Len(q)
    BY <1>1, <2>1, <2>2 DEF Sorted
  <2>3. CASE i = Len(r)
    BY <1>1, <2>1, <2>3 DEF Num
  <2> QED
    BY <1>1, <2>2, <2>3
<1>3. Num(r) = Num(q) \cup ({item.number} \cap (1..MaxFrames))
  <2>1. Len(r) \in 1..Len(r)
    BY <1>1
  <2>2. {r[i].number : i \in 1..Len(r)} = {q[i].number : i \in 1..Len(q)} \cup {item.number}
    BY <1>1, <2>1
  <2> QED
    BY <2>2 DEF Num
<1> QED
  BY <1>2, <1>3

-----------------------------------------------------------------------------
(* A viewer's queue.  The numbers come from the pump's counter; no queue   *)
(* has a gap, whether its viewer still reads or not; the cached sets stand *)
(* first, and only as long as nothing was dropped.                         *)
InSequence(v) ==
  /\ Sorted(queue[v])
  /\ got[v] <= published /\ \A n \in Frames(v) : got[v] < n /\ n <= published

NoGap(v) == \A n \in Frames(v) : n..published \subseteq Frames(v)

Follows(v) == IF Frames(v) = {} THEN got[v] = published ELSE got[v] + 1 \in Frames(v)

Kept(v) ==
  feed[v] # "ended" => Follows(v) \/ (Frames(v) # {} /\ Len(queue[v]) = QueueMax)

Ends(v) ==
  \A i \in 1..Len(queue[v]) :
    /\ queue[v][i].number = 0 => i = 1 /\ Follows(v)
    /\ queue[v][i].number = MaxFrames + 1 => queue[v][i] = Eof

FrameOK(v) == InSequence(v) /\ NoGap(v) /\ Kept(v) /\ Ends(v)
FrameInv == \A v \in subs : FrameOK(v)

LEMMA FramesAre ==
  ASSUME TypeOK, NEW v \in Viewers
  PROVE  Frames(v) = Num(queue[v])
<1>1. DOMAIN queue[v] = 1..Len(queue[v])
  BY DEF TypeOK
<1> QED
  BY <1>1, Zenon DEF Frames, Num

LEMMA FramesAreNext ==
  ASSUME TypeOK', NEW v \in Viewers
  PROVE  Frames(v)' = Num(queue'[v])
<1>1. DOMAIN queue'[v] = 1..Len(queue'[v])
  BY DEF TypeOK
<1> QED
  BY <1>1, Zenon DEF Frames, Num

(* A step that leaves a viewer's queue, place and the counter alone.       *)
LEMMA FrameSame ==
  ASSUME NEW v \in Viewers, FrameOK(v), queue'[v] = queue[v], got'[v] = got[v],
         published' = published, feed[v] = "ended" => feed'[v] = "ended"
  PROVE  FrameOK(v)'
<1>1. Frames(v)' = Frames(v)
  BY DEF Frames
<1>2. Follows(v)' <=> Follows(v)
  BY <1>1 DEF Follows
<1> QED
  BY <1>1, <1>2 DEF FrameOK, InSequence, NoGap, Kept, Ends

(* The pump publishes the next frame.                                      *)
LEMMA FramePut ==
  ASSUME TypeOK, TypeOK', NEW v \in subs, FrameOK(v), NEW item \in Items,
         published < MaxFrames, published' = published + 1, item.number = published',
         queue'[v] = Put(queue[v], item), got'[v] = got[v], feed'[v] = feed[v]
  PROVE  FrameOK(v)'
<1> DEFINE q == queue[v]
           r == queue'[v]
<1>1. /\ v \in Viewers /\ q \in Seq(Items) /\ r \in Seq(Items) /\ Len(q) <= QueueMax
      /\ published \in 0..MaxFrames /\ got[v] \in 0..MaxFrames
      /\ Frames(v) = Num(q) /\ Frames(v)' = Num(r)
  BY FramesAre, FramesAreNext DEF TypeOK
<1>2. published + 1 \in 1..MaxFrames
  BY <1>1, MaxFramesAssumption
<1>3. CASE Len(q) < QueueMax
  <2>1. Grown(q, r, item)
    BY <1>1, <1>3, PutIs
  <2>2. \A n \in Num(q) : n < item.number
    BY <1>1, MaxFramesAssumption DEF FrameOK, InSequence, Num
  <2>3. Sorted(r) /\ Num(r) = Num(q) \cup {published + 1}
    BY <1>1, <1>2, <2>1, <2>2, GrownFrames DEF FrameOK, InSequence
  <2>4. InSequence(v)'
    BY <1>1, <2>3, MaxFramesAssumption DEF FrameOK, InSequence, Num
  <2>5. NoGap(v)'
    <3> SUFFICES ASSUME NEW n \in Num(r), NEW m \in n..published' PROVE m \in Num(r)
      BY <1>1 DEF NoGap
    <3>1. Num(q) \subseteq Nat /\ published \in Nat
      BY <1>1 DEF Num
    <3>2. CASE m = published + 1
      BY <2>3, <3>2
    <3>3. CASE m # published + 1
      <4>1. n \in Num(q) /\ m \in n..published
        BY <2>3, <3>1, <3>3
      <4> QED
        BY <1>1, <2>3, <4>1 DEF FrameOK, NoGap
    <3> QED
      BY <3>2, <3>3
  <2>6. Follows(v) => Follows(v)'
    BY <1>1, <2>3 DEF Follows
  <2>7. Kept(v)'
    BY <1>1, <1>3, <2>6 DEF FrameOK, Kept
  <2>8. Ends(v)'
    <3> SUFFICES ASSUME NEW i \in 1..Len(r)
                 PROVE  /\ r[i].number = 0 => i = 1 /\ Follows(v)'
                        /\ r[i].number = MaxFrames + 1 => r[i] = Eof
      BY DEF Ends
    <3>1. CASE i = Len(r)
      BY <1>1, <1>2, <2>1, <3>1, MaxFramesAssumption DEF Grown
    <3>2. CASE i # Len(r)
      <4>1. i \in 1..Len(q) /\ r[i] = q[i]
        BY <1>1, <2>1, <3>2 DEF Grown
      <4> QED
        BY <2>6, <4>1 DEF FrameOK, Ends
    <3> QED
      BY <3>1, <3>2
  <2> QED
    BY <2>4, <2>5, <2>7, <2>8 DEF FrameOK
<1>4. CASE Len(q) = QueueMax
  <2> DEFINE t == Tail(q)
  <2>1. /\ q # <<>> /\ Grown(t, r, item) /\ t \in Seq(Items) /\ Len(t) = Len(q) - 1
        /\ \A i \in 1..Len(t) : t[i] = q[i + 1]
    BY <1>1, <1>4, PutIs, TailIs
  <2>2. /\ Sorted(t) /\ Num(t) = Num(q) \ {q[1].number}
        /\ q[1].number \in 1..MaxFrames => \A n \in Num(t) : q[1].number < n
    BY <1>1, <2>1, TailFrames DEF FrameOK, InSequence
  <2> HIDE DEF t
  <2>3. \A n \in Num(t) : n < item.number /\ n \in Num(q) /\ n \in Nat
    BY <1>1, <2>2, MaxFramesAssumption DEF FrameOK, InSequence, Num
  <2>4. Sorted(r) /\ Num(r) = Num(t) \cup {published + 1}
    <3>1. {item.number} \cap (1..MaxFrames) = {published + 1}
      BY <1>2
    <3> QED
      BY <1>1, <2>1, <2>2, <2>3, <3>1, GrownFrames
  <2>5. InSequence(v)'
    <3>1. got[v] <= published /\ \A n \in Num(t) : got[v] < n /\ n <= published
      BY <1>1, <2>3 DEF FrameOK, InSequence
    <3>2. \A n \in Num(r) : got'[v] < n /\ n <= published'
      BY <1>1, <2>3, <2>4, <3>1
    <3> QED
      BY <1>1, <2>4, <3>1, <3>2 DEF InSequence
  <2>6. \A n \in Num(t) : n..published \subseteq Num(t)
    <3> SUFFICES ASSUME NEW n \in Num(t), NEW m \in n..published PROVE m \in Num(t)
      OBVIOUS
    <3>1. m \in Num(q)
      BY <1>1, <2>3 DEF FrameOK, NoGap
    <3>2. q[1].number # m
      <4>1. m \in 1..MaxFrames
        BY <3>1 DEF Num
      <4>2. ASSUME q[1].number = m PROVE m < n
        BY <2>2, <4>1, <4>2
      <4> QED
        BY <2>3, <4>1, <4>2, MaxFramesAssumption
    <3> QED
      BY <2>2, <3>1, <3>2
  <2>7. NoGap(v)'
    BY <1>1, <2>3, <2>4, <2>6, MaxFramesAssumption DEF NoGap
  <2>8. Kept(v)'
    BY <1>1, <1>4, <2>1, <2>4 DEF Kept, Grown
  <2>9. Ends(v)'
    <3> SUFFICES ASSUME NEW i \in 1..Len(r)
                 PROVE  /\ r[i].number # 0
                        /\ r[i].number = MaxFrames + 1 => r[i] = Eof
      BY DEF Ends
    <3>1. CASE i = Len(r)
      BY <1>1, <1>2, <2>1, <3>1, MaxFramesAssumption DEF Grown
    <3>2. CASE i # Len(r)
      <4>1. i \in 1..Len(t) /\ r[i] = q[i + 1] /\ i + 1 \in 1..Len(q) /\ i + 1 # 1
        BY <1>1, <2>1, <3>2 DEF Grown
      <4> QED
        BY <4>1 DEF FrameOK, Ends
    <3> QED
      BY <3>1, <3>2
  <2> QED
    BY <2>5, <2>7, <2>8, <2>9 DEF FrameOK
<1> QED
  BY <1>1, <1>3, <1>4, QueueMaxAssumption

(* The pump puts the end of the stream.                                    *)
LEMMA FramePutEof ==
  ASSUME TypeOK, TypeOK', NEW v \in subs, FrameOK(v), queue'[v] = PutEof(queue[v]),
         got'[v] = got[v], published' = published, feed'[v] = feed[v]
  PROVE  FrameOK(v)'
<1> DEFINE q == queue[v]
           r == queue'[v]
<1>1. /\ v \in Viewers /\ q \in Seq(Items) /\ r \in Seq(Items) /\ Len(q) <= QueueMax
      /\ Frames(v) = Num(q) /\ Frames(v)' = Num(r)
  BY FramesAre, FramesAreNext DEF TypeOK
<1>2. CASE Len(q) = QueueMax
  BY <1>1, <1>2, PutEofIs, FrameSame
<1>3. CASE Len(q) < QueueMax
  <2>1. Grown(q, r, Eof)
    BY <1>1, <1>3, PutEofIs
  <2>2. Eof \in Items /\ Eof.number = MaxFrames + 1 /\ Eof.number \notin 1..MaxFrames
    BY EofType, MaxFramesAssumption
  <2>3. Sorted(r) /\ Num(r) = Num(q)
    <3>1. {Eof.number} \cap (1..MaxFrames) = {} /\ Sorted(q)
      BY <2>2 DEF FrameOK, InSequence
    <3>2. Sorted(r) /\ Num(r) = Num(q) \cup ({Eof.number} \cap (1..MaxFrames))
      BY <1>1, <2>1, <2>2, <3>1, GrownFrames
    <3> QED
      BY <3>1, <3>2
  <2>4. Follows(v)' <=> Follows(v)
    BY <1>1, <2>3 DEF Follows
  <2>5. InSequence(v)' /\ NoGap(v)'
    BY <1>1, <2>3 DEF FrameOK, InSequence, NoGap
  <2>6. Kept(v)'
    BY <1>1, <1>3, <2>4, QueueMaxAssumption DEF FrameOK, Kept
  <2>7. Ends(v)'
    <3> SUFFICES ASSUME NEW i \in 1..Len(r)
                 PROVE  /\ r[i].number = 0 => i = 1 /\ Follows(v)'
                        /\ r[i].number = MaxFrames + 1 => r[i] = Eof
      BY DEF Ends
    <3>1. CASE i = Len(r)
      BY <1>1, <2>1, <2>2, <3>1, MaxFramesAssumption DEF Grown
    <3>2. CASE i # Len(r)
      <4>1. i \in 1..Len(q) /\ r[i] = q[i]
        BY <1>1, <2>1, <3>2 DEF Grown
      <4> QED
        BY <2>4, <4>1 DEF FrameOK, Ends
    <3> QED
      BY <3>1, <3>2
  <2> QED
    BY <2>5, <2>6, <2>7 DEF FrameOK
<1> QED
  BY <1>1, <1>2, <1>3, QueueMaxAssumption

(* The feed takes an item.                                                 *)
LEMMA FrameTake ==
  ASSUME TypeOK, TypeOK', NEW v \in subs, FrameOK(v), Take(v)
  PROVE  FrameOK(v)'
<1> DEFINE q == queue[v]
           r == queue'[v]
           h == q[1].number
<1>1. /\ v \in Viewers /\ q \in Seq(Items) /\ r \in Seq(Items) /\ Len(q) <= QueueMax
      /\ published \in 0..MaxFrames /\ got[v] \in 0..MaxFrames /\ q # <<>>
      /\ Frames(v) = Num(q) /\ Frames(v)' = Num(r)
  BY FramesAre, FramesAreNext DEF TypeOK, Take
<1>2. /\ r = Tail(q) /\ Head(q) = q[1] /\ Len(r) = Len(q) - 1 /\ 1 \in 1..Len(q)
      /\ \A i \in 1..Len(r) : r[i] = q[i + 1] /\ i + 1 \in 1..Len(q) /\ i + 1 # 1
      /\ q[1] \in Items /\ h \in 0..(MaxFrames + 1)
  <2>1. r = Tail(q)
    BY <1>1 DEF Take, Takes, TypeOK
  <2>2. /\ Head(q) = q[1] /\ Len(r) = Len(q) - 1 /\ 1 \in 1..Len(q) /\ q[1] \in Items
        /\ \A i \in 1..Len(r) : r[i] = q[i + 1]
    BY <1>1, <2>1, TailIs
  <2>3. \A i \in 1..Len(r) : i + 1 \in 1..Len(q) /\ i + 1 # 1
    BY <1>1, <2>2
  <2>4. h \in 0..(MaxFrames + 1)
    BY <2>2 DEF Items
  <2> QED
    BY <2>1, <2>2, <2>3, <2>4
<1>3. /\ published' = published /\ got'[v] = IF h \in 1..MaxFrames THEN h ELSE got[v]
      /\ feed[v] = "get" /\ feed'[v] = IF q[1] = Eof THEN "ended" ELSE "write"
  BY <1>1, <1>2 DEF Take, Takes, FeedMoves, stream, TypeOK
<1>4. /\ Sorted(r) /\ Num(r) = Num(q) \ {h}
      /\ h \in 1..MaxFrames => \A n \in Num(r) : h < n
  BY <1>1, <1>2, TailFrames DEF FrameOK, InSequence
<1> HIDE DEF q, r, h
<1>5. Num(q) \subseteq 1..MaxFrames /\ (h \in 1..MaxFrames => h \in Num(q))
  BY <1>2 DEF Num, h
<1>6. InSequence(v)'
  BY <1>1, <1>3, <1>4, <1>5, MaxFramesAssumption DEF FrameOK, InSequence, q, r
<1>7. NoGap(v)'
  <2> SUFFICES ASSUME NEW n \in Num(r), NEW m \in n..published PROVE m \in Num(r)
    BY <1>1, <1>3 DEF NoGap
  <2>1. m \in Num(q) /\ n \in Num(q)
    BY <1>1, <1>4 DEF FrameOK, NoGap
  <2>2. m # h
    BY <1>1, <1>4, <1>5, <2>1, MaxFramesAssumption
  <2> QED
    BY <1>4, <2>1, <2>2
<1>8. \A i \in 1..Len(r) : r[i].number # 0 /\ (r[i].number = MaxFrames + 1 => r[i] = Eof)
  BY <1>1, <1>2 DEF FrameOK, Ends, q
<1>9. CASE h \in 1..MaxFrames
  <2>1. h \in Num(q) /\ \A n \in h..published : n \in Num(q)
    BY <1>1, <1>5, <1>9 DEF FrameOK, NoGap
  <2>2. h <= published
    BY <1>1, <2>1 DEF FrameOK, InSequence
  <2>3. CASE h = published
    <3>1. Num(r) = {}
      BY <1>1, <1>4, <1>5, <1>9, <2>3, MaxFramesAssumption DEF FrameOK, InSequence
    <3> QED
      BY <1>1, <1>3, <1>6, <1>7, <1>8, <1>9, <2>3, <3>1 DEF FrameOK, Kept, Follows, Ends, r
  <2>4. CASE h < published
    <3>1. h + 1 \in Num(r)
      BY <1>1, <1>4, <1>9, <2>1, <2>4, MaxFramesAssumption
    <3> QED
      BY <1>1, <1>3, <1>6, <1>7, <1>8, <1>9, <3>1 DEF FrameOK, Kept, Follows, Ends, r
  <2> QED
    BY <1>1, <1>9, <2>2, <2>3, <2>4
<1>10. CASE h \notin 1..MaxFrames
  <2>1. Num(r) = Num(q)
    BY <1>4, <1>5, <1>10
  <2>2. Follows(v)' <=> Follows(v)
    BY <1>1, <1>3, <1>10, <2>1 DEF Follows
  <2>3. q[1] = Eof \/ Follows(v)
    BY <1>2, <1>10, MaxFramesAssumption DEF FrameOK, Ends, q, h
  <2>4. Kept(v)'
    BY <1>3, <2>2, <2>3 DEF Kept
  <2> QED
    BY <1>6, <1>7, <1>8, <2>4 DEF FrameOK, Ends, r
<1> QED
  BY <1>9, <1>10

(* A viewer that joins.                                                    *)
LEMMA FrameJoin ==
  ASSUME TypeOK, TypeOK', NEW v \in Viewers, Subscribe(v)
  PROVE  FrameOK(v)'
<1>1. /\ queue'[v] = <<>> \/ queue'[v] = <<Item(0, cached, "none")>>
      /\ got'[v] = published /\ published' = published /\ published \in Nat
  BY MaxFramesAssumption DEF Subscribe, TypeOK
<1>2. \A i \in 1..Len(queue'[v]) : i = 1 /\ queue'[v][i].number = 0
  <2> DEFINE primer == Item(0, cached, "none")
  <2>1. primer.number = 0
    BY DEF Item
  <2> HIDE DEF primer
  <2>2. CASE queue'[v] = <<>>
    BY <2>2
  <2>3. CASE queue'[v] = <<primer>>
    BY <2>1, <2>3
  <2> QED
    BY <1>1, <2>2, <2>3 DEF primer
<1>3. Frames(v)' = {}
  <2>1. Frames(v)' = Num(queue'[v])
    BY FramesAreNext
  <2> QED
    BY <1>2, <2>1 DEF Num
<1>4. Sorted(queue'[v])
  BY <1>2 DEF Sorted
<1>5. Follows(v)'
  BY <1>1, <1>3 DEF Follows
<1>6. Ends(v)'
  BY <1>2, <1>5, MaxFramesAssumption DEF Ends
<1> QED
  BY <1>1, <1>3, <1>4, <1>5, <1>6 DEF FrameOK, InSequence, NoGap, Kept

LEMMA FrameStep ==
  ASSUME TypeOK, TypeOK', FrameInv, [Next]_vars
  PROVE  FrameInv'
<1> SUFFICES ASSUME NEW v \in subs' PROVE FrameOK(v)'
  BY DEF FrameInv
<1>v. v \in Viewers
  BY DEF TypeOK
<1> USE DEF FrameInv, stream, viewing, select
<1>1. ASSUME NEW option \in Qualities, Select(option) PROVE FrameOK(v)'
  BY <1>v, <1>1, FrameSame DEF Select
<1>2. ASSUME NEW w \in Viewers, Subscribe(w) PROVE FrameOK(v)'
  <2>1. CASE v = w
    BY <1>2, <2>1, FrameJoin
  <2>2. CASE v # w
    <3>1. /\ v \in subs /\ queue'[v] = queue[v] /\ got'[v] = got[v] /\ published' = published
          /\ feed'[v] = feed[v]
      BY <1>v, <1>2, <2>2 DEF Subscribe, TypeOK
    <3> QED
      BY <1>v, <3>1, FrameSame
  <2> QED
    BY <2>1, <2>2
<1>3. ASSUME NEW w \in Viewers, Unsubscribe(w) PROVE FrameOK(v)'
  <2>1. /\ v # w /\ v \in subs /\ queue'[v] = queue[v] /\ got'[v] = got[v]
        /\ published' = published /\ feed'[v] = feed[v]
    BY <1>v, <1>3 DEF Unsubscribe, TypeOK
  <2> QED
    BY <1>v, <2>1, FrameSame
<1>4. CASE ReadNothing \/ ReadPart
  BY <1>v, <1>4, FrameSame DEF ReadNothing, ReadPart
<1>5. CASE PumpStops
  BY <1>v, <1>5, FramePutEof DEF PumpStops
<1>6. ASSUME NEW kinds \in SUBSET ParamKinds, ReadFrame(kinds) PROVE FrameOK(v)'
  <2> DEFINE sets == [k \in ParamKinds |-> IF k \in kinds THEN opened ELSE "none"]
             picture == IF sent' = ParamKinds THEN opened ELSE "none"
             item == Item(published', sets, picture)
  <2>1. sets \in Sets /\ picture \in Qualities \cup {"none"} /\ published' \in 0..MaxFrames
    BY DEF Sets, TypeOK
  <2>2. item \in Items /\ item.number = published'
    BY <2>1, ItemType, MaxFramesAssumption DEF Item
  <2>3. /\ published < MaxFrames /\ published' = published + 1 /\ v \in subs
        /\ queue'[v] = Put(queue[v], item) /\ got' = got /\ feed' = feed
    BY <1>v, <1>6 DEF ReadFrame
  <2> HIDE DEF item
  <2> QED
    BY <2>2, <2>3, FramePut
<1>7. ASSUME NEW w \in Viewers, FeedStarts(w) \/ Drained(w) \/ FeedBreaks(w) PROVE FrameOK(v)'
  <2>1. /\ v \in subs /\ queue' = queue /\ got' = got /\ published' = published
        /\ feed[v] = "ended" => feed'[v] = "ended"
    BY <1>v, <1>7 DEF FeedStarts, Drained, FeedBreaks, FeedMoves, TypeOK
  <2> QED
    BY <1>v, <2>1, FrameSame
<1>8. ASSUME NEW w \in Viewers, Take(w) PROVE FrameOK(v)'
  <2>1. v \in subs
    BY <1>8 DEF Take, Takes
  <2>2. CASE v = w
    BY <1>8, <2>1, <2>2, FrameTake
  <2>3. CASE v # w
    <3>1. /\ queue'[v] = queue[v] /\ got'[v] = got[v] /\ published' = published
          /\ feed'[v] = feed[v]
      BY <1>v, <1>8, <2>3 DEF Take, Takes, FeedMoves, TypeOK
    <3> QED
      BY <1>v, <2>1, <3>1, FrameSame
  <2> QED
    BY <2>2, <2>3
<1>9. CASE UNCHANGED vars
  BY <1>v, <1>9, FrameSame DEF vars
<1> QED
  BY <1>1, <1>2, <1>3, <1>4, <1>5, <1>6, <1>7, <1>8, <1>9
     DEF Next, Pump, Feed, ReadNothingOnceMore, PumpFails

LEMMA FrameInvariant == Spec => []FrameInv
<1>1. Init => FrameInv
  BY DEF Init, FrameInv
<1>2. TypeOK /\ TypeOK' /\ FrameInv /\ [Next]_vars => FrameInv'
  BY FrameStep
<1> QED
  BY <1>1, <1>2, TypeCorrect, PTL DEF Spec

(* The frames a viewer gets are the stream's, in order and none twice,     *)
(* whatever is dropped and however often the upstream is reopened.         *)
THEOREM FramesInOrder == Spec => []InOrder
<1>1. TypeOK /\ FrameInv => InOrder
  <2> SUFFICES ASSUME TypeOK, NEW v \in subs, FrameOK(v), NEW i \in DOMAIN queue[v],
                      queue[v][i].number \in 1..MaxFrames
               PROVE  /\ got[v] < queue[v][i].number
                      /\ \A j \in 1..(i - 1) : queue[v][j].number \in 1..MaxFrames =>
                           queue[v][j].number < queue[v][i].number
    BY DEF InOrder, FrameInv
  <2>1. i \in 1..Len(queue[v]) /\ queue[v][i].number \in Frames(v)
    BY DEF TypeOK, Frames
  <2> QED
    BY <2>1 DEF FrameOK, InSequence, Sorted
<1> QED
  BY <1>1, TypeCorrect, FrameInvariant, PTL

(* What a viewer still has to come ends with the newest frame and has no   *)
(* gap; it has missed some only if its queue is full.                      *)
THEOREM NewestFramesKept == Spec => []NewestKept
<1>1. TypeOK /\ FrameInv => NewestKept
  BY DEF FrameInv, FrameOK, NoGap, Kept, Follows, NewestKept, Watching
<1> QED
  BY <1>1, TypeCorrect, FrameInvariant, PTL

-----------------------------------------------------------------------------
(* The end of the stream.                                                  *)

Owed(v) ==
  ~alive /\ feed[v] \in {"starting", "get", "write"} => HasEof(v) \/ v \in behind
EofOwed == \A v \in subs : Owed(v)

LEMMA OwedStep ==
  ASSUME TypeOK, TypeOK', EofOwed, [Next]_vars
  PROVE  EofOwed'
<1> SUFFICES ASSUME NEW v \in subs', ~alive', feed'[v] \in {"starting", "get", "write"}
             PROVE  HasEof(v)' \/ v \in behind'
  BY DEF EofOwed, Owed
<1>v. v \in Viewers /\ queue[v] \in Seq(Items) /\ Len(queue[v]) <= QueueMax
  BY DEF TypeOK
<1> USE DEF EofOwed, Owed, stream, viewing, select
<1>1. ASSUME NEW option \in Qualities, Select(option) PROVE HasEof(v)' \/ v \in behind'
  BY <1>v, <1>1 DEF Select, HasEof
<1>2. ASSUME NEW w \in Viewers, Subscribe(w) PROVE FALSE
  BY <1>2 DEF Subscribe
<1>3. ASSUME NEW w \in Viewers, Unsubscribe(w) PROVE HasEof(v)' \/ v \in behind'
  BY <1>v, <1>3 DEF Unsubscribe, HasEof, TypeOK
<1>4. CASE ReadNothing \/ ReadPart
  BY <1>4 DEF ReadNothing, ReadPart
<1>5. CASE PumpStops
  <2>1. CASE Len(queue[v]) = QueueMax
    BY <1>v, <1>5, <2>1 DEF PumpStops
  <2>2. CASE Len(queue[v]) < QueueMax
    <3>1. Grown(queue[v], queue'[v], Eof)
      BY <1>v, <1>5, <2>2, PutEofIs DEF PumpStops
    <3>2. Len(queue'[v]) \in DOMAIN queue'[v] /\ queue'[v][Len(queue'[v])] = Eof
      BY <1>v, <3>1 DEF Grown, TypeOK
    <3> QED
      BY <3>2 DEF HasEof
  <2> QED
    BY <1>v, <2>1, <2>2, QueueMaxAssumption
<1>6. ASSUME NEW kinds \in SUBSET ParamKinds, ReadFrame(kinds) PROVE FALSE
  BY <1>6 DEF ReadFrame
<1>7. ASSUME NEW w \in Viewers, FeedStarts(w) \/ Drained(w) \/ FeedBreaks(w)
      PROVE  HasEof(v)' \/ v \in behind'
  <2>1. /\ v \in subs /\ queue' = queue /\ behind' = behind /\ ~alive
        /\ feed[v] \in {"starting", "get", "write"}
    BY <1>v, <1>7 DEF FeedStarts, Drained, FeedBreaks, FeedMoves, TypeOK
  <2> QED
    BY <2>1 DEF HasEof
<1>8. ASSUME NEW w \in Viewers, Take(w) PROVE HasEof(v)' \/ v \in behind'
  <2>1. /\ v \in subs /\ behind' = behind /\ ~alive /\ queue[w] # <<>>
        /\ feed[v] \in {"starting", "get", "write"}
    BY <1>v, <1>8 DEF Take, Takes, FeedMoves, TypeOK
  <2>2. CASE v # w
    BY <1>v, <1>8, <2>1, <2>2 DEF Take, Takes, TypeOK, HasEof
  <2>3. CASE v = w /\ HasEof(v)
    <3>1. /\ queue'[v] = Tail(queue[v]) /\ queue[v][1] # Eof
      BY <1>v, <1>8, <2>1, <2>3 DEF Take, Takes, FeedMoves, TypeOK
    <3>2. PICK i \in 1..Len(queue[v]) : queue[v][i] = Eof
      BY <1>v, <2>3 DEF HasEof
    <3>3. i - 1 \in DOMAIN queue'[v] /\ queue'[v][i - 1] = Eof
      BY <1>v, <2>1, <2>3, <3>1, <3>2
    <3> QED
      BY <3>3 DEF HasEof
  <2> QED
    BY <2>1, <2>2, <2>3
<1>9. CASE UNCHANGED vars
  BY <1>9 DEF vars, HasEof
<1> QED
  BY <1>1, <1>2, <1>3, <1>4, <1>5, <1>6, <1>7, <1>8, <1>9
     DEF Next, Pump, Feed, ReadNothingOnceMore, PumpFails

(* None reaches every viewer of a pump that is done, except those whose    *)
(* queues were full when it ended.                                         *)
THEOREM EofReaches == Spec => []EofReachesViewers
<1>1. Init => EofOwed
  BY DEF Init, EofOwed
<1>2. TypeOK /\ TypeOK' /\ EofOwed /\ [Next]_vars => EofOwed'
  BY OwedStep
<1>3. EofOwed => EofReachesViewers
  BY DEF EofOwed, Owed, EofReachesViewers, HasEof
<1> QED
  BY <1>1, <1>2, <1>3, TypeCorrect, PTL DEF Spec

-----------------------------------------------------------------------------
(* The parameter sets.                                                     *)

(* An ffmpeg that holds the sets h and is given the first i items of q     *)
(* then holds the set of kind k for quality p.                             *)
After(q, h, i, k, p) ==
  \/ h[k] = p /\ \A m \in 1..i : q[m].sets[k] \in {"none", p}
  \/ \E j \in 1..i : /\ q[j].sets[k] = p
                     /\ \A m \in j..i : q[m].sets[k] \in {"none", p}

LEMMA AfterPrefix ==
  ASSUME NEW q, NEW r, NEW h, NEW i \in Nat, NEW k, NEW p,
         \A m \in 1..i : r[m] = q[m], After(q, h, i, k, p)
  PROVE  After(r, h, i, k, p)
<1>1. CASE h[k] = p /\ \A m \in 1..i : q[m].sets[k] \in {"none", p}
  BY <1>1 DEF After
<1>2. ASSUME NEW j \in 1..i, q[j].sets[k] = p, \A m \in j..i : q[m].sets[k] \in {"none", p}
      PROVE  After(r, h, i, k, p)
  <2>1. \A m \in j..i : m \in 1..i
    OBVIOUS
  <2> QED
    BY <1>2, <2>1 DEF After
<1> QED
  BY <1>1, <1>2 DEF After

LEMMA AfterGrown ==
  ASSUME NEW q \in Seq(Items), NEW r \in Seq(Items), NEW item, Grown(q, r, item), NEW h,
         NEW k, NEW p, item.sets[k] = p \/ (item.sets[k] = "none" /\ After(q, h, Len(q), k, p))
  PROVE  After(r, h, Len(r), k, p)
<1>1. /\ Len(q) \in Nat /\ Len(r) = Len(q) + 1 /\ r[Len(r)] = item /\ Len(r) \in 1..Len(r)
      /\ \A m \in 1..Len(q) : r[m] = q[m]
      /\ \A m \in 1..Len(r) : m \in 1..Len(q) \/ m = Len(r)
  BY DEF Grown
<1>2. CASE item.sets[k] = p
  <2>1. \A m \in Len(r)..Len(r) : m = Len(r)
    BY <1>1
  <2> QED
    BY <1>1, <1>2, <2>1 DEF After
<1>3. CASE item.sets[k] = "none" /\ h[k] = p /\ \A m \in 1..Len(q) : q[m].sets[k] \in {"none", p}
  BY <1>1, <1>3 DEF After
<1>4. ASSUME item.sets[k] = "none", NEW j \in 1..Len(q), q[j].sets[k] = p,
             \A m \in j..Len(q) : q[m].sets[k] \in {"none", p}
      PROVE  After(r, h, Len(r), k, p)
  <2>1. /\ j \in 1..Len(r)
        /\ \A m \in j..Len(r) : (m \in j..Len(q) /\ m \in 1..Len(q)) \/ m = Len(r)
    BY <1>1
  <2> QED
    BY <1>1, <1>4, <2>1 DEF After
<1> QED
  BY <1>2, <1>3, <1>4 DEF After

LEMMA AfterTake ==
  ASSUME NEW q \in Seq(Items), q # <<>>, NEW h, NEW g, NEW k, NEW p, p # "none",
         g[k] = IF q[1].sets[k] = "none" THEN h[k] ELSE q[1].sets[k],
         NEW i \in 0..Len(Tail(q)), After(q, h, i + 1, k, p)
  PROVE  After(Tail(q), g, i, k, p)
<1> DEFINE r == Tail(q)
<1>1. \A m \in 1..i : r[m] = q[m + 1] /\ m + 1 \in 2..(i + 1)
  BY TailIs
<1> HIDE DEF r
<1>2. 1 \in 1..(i + 1) /\ \A m \in 1..i : m + 1 \in 1..(i + 1)
  OBVIOUS
<1>3. CASE \A m \in 1..(i + 1) : q[m].sets[k] \in {"none", p} /\ (h[k] = p \/ q[1].sets[k] = p)
  <2>1. g[k] = p
    BY <1>2, <1>3
  <2>2. \A m \in 1..i : r[m].sets[k] \in {"none", p}
    BY <1>1, <1>2, <1>3
  <2> QED
    BY <2>1, <2>2 DEF After, r
<1>4. ASSUME NEW j \in 2..(i + 1), q[j].sets[k] = p,
             \A m \in j..(i + 1) : q[m].sets[k] \in {"none", p}
      PROVE  After(r, g, i, k, p)
  <2>1. j - 1 \in 1..i /\ (j - 1) + 1 = j
    OBVIOUS
  <2>2. r[j - 1].sets[k] = p
    BY <1>1, <1>4, <2>1
  <2>3. ASSUME NEW m \in (j - 1)..i PROVE r[m].sets[k] \in {"none", p}
    <3>1. m \in 1..i /\ m + 1 \in j..(i + 1)
      OBVIOUS
    <3> QED
      BY <1>1, <1>4, <3>1
  <2> QED
    BY <2>1, <2>2, <2>3 DEF After
<1>5. \/ h[k] = p /\ \A m \in 1..(i + 1) : q[m].sets[k] \in {"none", p}
      \/ \E j \in 1..(i + 1) : /\ q[j].sets[k] = p
                               /\ \A m \in j..(i + 1) : q[m].sets[k] \in {"none", p}
  BY DEF After
<1>6. \A j \in 1..(i + 1) : j = 1 \/ j \in 2..(i + 1)
  OBVIOUS
<1> QED
  BY <1>3, <1>4, <1>5, <1>6 DEF r

(* The viewers with a call are those with a queue; what the pump knows of  *)
(* its stream.                                                             *)
CallsAreSubscribed == \A v \in Viewers : v \in subs <=> feed[v] # "none"

StreamKnown ==
  /\ ~alive => sent = {}
  /\ alive => opened # "none" /\ \A k \in sent : cached[k] = opened

(* A viewer that has lost nothing: every picture in its queue comes after  *)
(* its sets, and at the end of the queue ffmpeg holds those that the       *)
(* stream has sent.                                                        *)
Decodes(v) ==
  v \notin missed /\ feed[v] \in {"starting", "get", "write"} =>
    /\ \A i \in 1..Len(queue[v]) : queue[v][i].picture # "none" =>
         \A k \in ParamKinds : After(queue[v], held[v], i, k, queue[v][i].picture)
    /\ \A k \in sent : After(queue[v], held[v], Len(queue[v]), k, opened)

DecodeInv == CallsAreSubscribed /\ StreamKnown /\ \A v \in Viewers : Decodes(v)

LEMMA KnownStep ==
  ASSUME TypeOK, TypeOK', CallsAreSubscribed, StreamKnown, [Next]_vars
  PROVE  CallsAreSubscribed' /\ StreamKnown'
<1> USE DEF CallsAreSubscribed, StreamKnown, TypeOK, stream, viewing, select
<1>1. ASSUME NEW option \in Qualities, Select(option) PROVE CallsAreSubscribed' /\ StreamKnown'
  BY <1>1 DEF Select
<1>2. ASSUME NEW v \in Viewers, Subscribe(v) PROVE CallsAreSubscribed' /\ StreamKnown'
  BY <1>2 DEF Subscribe, Qualities
<1>3. ASSUME NEW v \in Viewers, Unsubscribe(v) PROVE CallsAreSubscribed' /\ StreamKnown'
  BY <1>3 DEF Unsubscribe
<1>4. CASE ReadNothing \/ ReadPart
  BY <1>4 DEF ReadNothing, ReadPart
<1>5. CASE PumpStops
  BY <1>5 DEF PumpStops
<1>6. ASSUME NEW kinds \in SUBSET ParamKinds, ReadFrame(kinds)
      PROVE  CallsAreSubscribed' /\ StreamKnown'
  <2>1. /\ alive /\ alive' = alive /\ sent' = sent \cup kinds /\ opened' = opened
        /\ cached' = [k \in ParamKinds |-> IF k \in kinds THEN opened ELSE cached[k]]
        /\ UNCHANGED <<subs, feed>>
    BY <1>6 DEF ReadFrame, Remember
  <2> QED
    BY <2>1
<1>7. ASSUME NEW v \in Viewers, FeedStarts(v) \/ Drained(v) \/ FeedBreaks(v) \/ Take(v)
      PROVE  CallsAreSubscribed' /\ StreamKnown'
  <2>1. /\ feed[v] # "none" /\ UNCHANGED <<subs, alive, sent, opened, cached>>
        /\ \E to \in {"get", "write", "ended"} : feed' = [feed EXCEPT ![v] = to]
    BY <1>7 DEF FeedStarts, Drained, FeedBreaks, Take, Takes, FeedMoves
  <2> QED
    BY <2>1
<1>8. CASE UNCHANGED vars
  BY <1>8 DEF vars
<1> QED
  BY <1>1, <1>2, <1>3, <1>4, <1>5, <1>6, <1>7, <1>8
     DEF Next, Pump, Feed, ReadNothingOnceMore, PumpFails

(* A step that adds nothing to what a viewer has to come.                  *)
LEMMA DecodesSame ==
  ASSUME NEW v \in Viewers, Decodes(v), queue'[v] = queue[v],
         feed'[v] \in {"starting", "get", "write"} =>
           held'[v] = held[v] /\ feed[v] \in {"starting", "get", "write"},
         v \in missed => v \in missed',
         sent' = {} \/ (sent' = sent /\ opened' = opened)
  PROVE  Decodes(v)'
BY DEF Decodes

(* A step that appends an item.                                            *)
LEMMA DecodesGrown ==
  ASSUME TypeOK, TypeOK', NEW v \in Viewers, Decodes(v), NEW item \in Items,
         v \notin missed, feed[v] \in {"starting", "get", "write"}, held'[v] = held[v],
         Grown(queue[v], queue'[v], item),
         \A k \in sent' : item.sets[k] = opened' \/
           (item.sets[k] = "none" /\ k \in sent /\ opened' = opened),
         item.picture = "none" \/ (item.picture = opened' /\ sent' = ParamKinds)
  PROVE  Decodes(v)'
<1> DEFINE q == queue[v]
           r == queue'[v]
           h == held[v]
<1>1. /\ q \in Seq(Items) /\ r \in Seq(Items) /\ Grown(q, r, item) /\ Len(q) \in Nat
      /\ Len(r) = Len(q) + 1 /\ r[Len(r)] = item
      /\ \A i \in 1..Len(q) : r[i] = q[i]
  BY DEF TypeOK, Grown
<1>2. /\ \A i \in 1..Len(q) : q[i].picture # "none" =>
           \A k \in ParamKinds : After(q, h, i, k, q[i].picture)
      /\ \A k \in sent : After(q, h, Len(q), k, opened)
  BY DEF Decodes
<1> HIDE DEF q, r, h
<1>3. ASSUME NEW k \in sent' PROVE After(r, h, Len(r), k, opened')
  BY <1>1, <1>2, <1>3, AfterGrown
<1>4. ASSUME NEW i \in 1..Len(r), r[i].picture # "none", NEW k \in ParamKinds
      PROVE  After(r, h, i, k, r[i].picture)
  <2>1. CASE i \in 1..Len(q)
    <3>1. r[i] = q[i] /\ After(q, h, i, k, q[i].picture)
      BY <1>1, <1>2, <1>4, <2>1
    <3>2. i \in Nat /\ \A m \in 1..i : r[m] = q[m]
      BY <1>1, <2>1
    <3> QED
      BY <3>1, <3>2, AfterPrefix
  <2>2. CASE i = Len(r)
    BY <1>1, <1>3, <1>4, <2>2
  <2> QED
    BY <1>1, <2>1, <2>2
<1> QED
  BY <1>3, <1>4 DEF Decodes, q, r, h

LEMMA DecodesStep ==
  ASSUME TypeOK, TypeOK', DecodeInv, [Next]_vars, NEW v \in Viewers
  PROVE  Decodes(v)'
<1>v. /\ queue[v] \in Seq(Items) /\ Len(queue[v]) <= QueueMax /\ Decodes(v) /\ StreamKnown
      /\ v \in subs <=> feed[v] # "none"
  BY DEF TypeOK, DecodeInv, CallsAreSubscribed
<1> USE DEF stream, viewing, select
<1>1. ASSUME NEW option \in Qualities, Select(option) PROVE Decodes(v)'
  BY <1>v, <1>1, DecodesSame DEF Select
<1>2. ASSUME NEW w \in Viewers, Subscribe(w) PROVE Decodes(v)'
  <2>1. CASE v # w
    BY <1>v, <1>2, <2>1, DecodesSame DEF Subscribe, TypeOK, StreamKnown
  <2>2. CASE v = w /\ v \notin missed'
    <3> DEFINE primer == Item(0, cached, "none")
    <3>1. primer.sets = cached /\ primer.picture = "none"
      BY DEF Item
    <3>2. /\ queue'[v] = IF Known THEN <<primer>> ELSE <<>>
          /\ sent' = sent /\ cached' = cached
          /\ alive => opened' = opened /\ (Known \/ cached = NoSets)
      BY <1>2, <2>2 DEF Subscribe, TypeOK
    <3>3. ASSUME NEW k \in sent
          PROVE  Known /\ cached[k] = opened'
      <4>1. alive /\ cached[k] = opened /\ opened # "none" /\ k \in ParamKinds
        BY <1>v, <3>3 DEF StreamKnown, TypeOK
      <4>2. NoSets[k] = "none"
        BY <4>1 DEF NoSets
      <4> QED
        BY <3>2, <4>1, <4>2
    <3> HIDE DEF primer
    <3>4. ASSUME NEW k \in sent
          PROVE  After(queue'[v], held'[v], Len(queue'[v]), k, opened')
      <4>1. queue'[v] = <<primer>> /\ primer.sets[k] = opened'
        BY <3>1, <3>2, <3>3, <3>4
      <4>2. /\ Len(queue'[v]) = 1 /\ queue'[v][1] = primer
            /\ 1 \in 1..1 /\ \A m \in 1..1 : m = 1
        BY <4>1
      <4> QED
        BY <4>1, <4>2 DEF After
    <3>5. \A i \in 1..Len(queue'[v]) : queue'[v][i].picture = "none"
      <4>1. CASE queue'[v] = <<>>
        BY <4>1
      <4>2. CASE queue'[v] = <<primer>>
        BY <3>1, <4>2
      <4> QED
        BY <3>2, <4>1, <4>2
    <3> QED
      BY <3>2, <3>4, <3>5 DEF Decodes
  <2> QED
    BY <2>1, <2>2 DEF Decodes
<1>3. ASSUME NEW w \in Viewers, Unsubscribe(w) PROVE Decodes(v)'
  <2>1. CASE v = w
    BY <1>3, <2>1 DEF Unsubscribe, Decodes, TypeOK
  <2>2. CASE v # w
    BY <1>v, <1>3, <2>2, DecodesSame DEF Unsubscribe, TypeOK
  <2> QED
    BY <2>1, <2>2
<1>4. CASE ReadNothing \/ ReadPart
  BY <1>v, <1>4, DecodesSame DEF ReadNothing, ReadPart
<1>5. CASE PumpStops
  <2>1. CASE queue'[v] = queue[v]
    BY <1>v, <1>5, <2>1, DecodesSame DEF PumpStops
  <2>2. CASE queue'[v] # queue[v] /\ v \notin missed' /\ feed'[v] \in {"starting", "get", "write"}
    <3>1. Grown(queue[v], queue'[v], Eof)
      BY <1>v, <1>5, <2>2, PutEofIs, QueueMaxAssumption DEF PumpStops
    <3>2. Eof \in Items /\ Eof.picture = "none" /\ sent' = {}
      BY <1>5, EofType DEF PumpStops
    <3> QED
      BY <1>v, <1>5, <2>2, <3>1, <3>2, DecodesGrown DEF PumpStops
  <2> QED
    BY <2>1, <2>2 DEF Decodes
<1>6. ASSUME NEW kinds \in SUBSET ParamKinds, ReadFrame(kinds) PROVE Decodes(v)'
  <2> DEFINE sets == [k \in ParamKinds |-> IF k \in kinds THEN opened ELSE "none"]
             picture == IF sent' = ParamKinds THEN opened ELSE "none"
             item == Item(published', sets, picture)
  <2>1. /\ sent' = sent \cup kinds /\ UNCHANGED <<opened, feed, held>>
        /\ queue'[v] = IF v \in subs THEN Put(queue[v], item) ELSE queue[v]
        /\ missed' = missed \cup {u \in subs : Len(queue[u]) = QueueMax}
    BY <1>6 DEF ReadFrame
  <2>2. item \in Items
    <3>1. sets \in Sets /\ picture \in Qualities \cup {"none"} /\ published' \in 0..MaxFrames
      BY DEF Sets, TypeOK
    <3> QED
      BY <3>1, ItemType, MaxFramesAssumption
  <2>3. item.picture = "none" \/ (item.picture = opened' /\ sent' = ParamKinds)
    BY <2>1 DEF Item
  <2>4. \A k \in sent' : \/ item.sets[k] = opened'
                         \/ item.sets[k] = "none" /\ k \in sent /\ opened' = opened
    <3>1. item.sets = sets
      BY DEF Item
    <3>2. sent' \subseteq ParamKinds
      BY DEF TypeOK
    <3> QED
      BY <2>1, <3>1, <3>2
  <2> HIDE DEF item
  <2>5. CASE v \notin missed' /\ feed'[v] \in {"starting", "get", "write"}
    <3>1. v \in subs /\ v \notin missed /\ Len(queue[v]) < QueueMax
      BY <1>v, <2>1, <2>5, QueueMaxAssumption
    <3>2. Grown(queue[v], queue'[v], item)
      BY <1>v, <2>1, <2>2, <3>1, PutIs
    <3> QED
      BY <1>v, <2>1, <2>2, <2>3, <2>4, <2>5, <3>1, <3>2, DecodesGrown
  <2> QED
    BY <2>5 DEF Decodes
<1>7. ASSUME NEW w \in Viewers, FeedStarts(w) \/ Drained(w) \/ FeedBreaks(w) PROVE Decodes(v)'
  <2>1. /\ queue' = queue /\ missed' = missed /\ sent' = sent /\ opened' = opened
        /\ feed'[v] \in {"starting", "get", "write"} =>
             held'[v] = held[v] /\ feed[v] \in {"starting", "get", "write"}
    BY <1>7 DEF FeedStarts, Drained, FeedBreaks, FeedMoves, TypeOK
  <2> QED
    BY <1>v, <2>1, DecodesSame
<1>8. ASSUME NEW w \in Viewers, Take(w) PROVE Decodes(v)'
  <2>1. CASE v # w
    BY <1>v, <1>8, <2>1, DecodesSame DEF Take, Takes, FeedMoves, TypeOK
  <2>2. CASE v = w /\ v \notin missed' /\ feed'[v] # "ended"
    <3> DEFINE q == queue[v]
               h == held[v]
               g == held'[v]
    <3>1. /\ q # <<>> /\ queue'[v] = Tail(q) /\ Head(q) = q[1]
          /\ feed[v] = "get" /\ missed' = missed /\ sent' = sent /\ opened' = opened
          /\ \A k \in ParamKinds : g[k] = IF q[1].sets[k] = "none" THEN h[k] ELSE q[1].sets[k]
      BY <1>v, <1>8, <2>2, TailIs DEF Take, Takes, FeedMoves, TypeOK
    <3>2. /\ q \in Seq(Items) /\ Tail(q) \in Seq(Items) /\ Len(Tail(q)) = Len(q) - 1
          /\ Len(q) \in Nat \ {0}
          /\ \A i \in 1..Len(Tail(q)) : Tail(q)[i] = q[i + 1]
      BY <1>v, <3>1, TailIs
    <3>3. /\ \A i \in 1..Len(q) : q[i].picture # "none" =>
               \A k \in ParamKinds : After(q, h, i, k, q[i].picture)
          /\ \A k \in sent : After(q, h, Len(q), k, opened)
      BY <1>v, <2>2, <3>1 DEF Decodes
    <3> HIDE DEF q, h, g
    <3>4. ASSUME NEW i \in 1..Len(Tail(q)), Tail(q)[i].picture # "none", NEW k \in ParamKinds
          PROVE  After(Tail(q), g, i, k, Tail(q)[i].picture)
      <4>1. /\ i + 1 \in 1..Len(q) /\ Tail(q)[i] = q[i + 1] /\ i \in 0..Len(Tail(q))
            /\ After(q, h, i + 1, k, q[i + 1].picture)
        BY <3>2, <3>3, <3>4
      <4> QED
        BY <3>1, <3>2, <3>4, <4>1, AfterTake
    <3>5. ASSUME NEW k \in sent PROVE After(Tail(q), g, Len(Tail(q)), k, opened)
      <4>1. opened # "none" /\ k \in ParamKinds
        BY <1>v, <3>5 DEF StreamKnown, TypeOK
      <4>2. Len(Tail(q)) \in 0..Len(Tail(q)) /\ Len(Tail(q)) + 1 = Len(q)
        BY <3>2
      <4>3. After(q, h, Len(Tail(q)) + 1, k, opened)
        BY <3>3, <4>2
      <4> QED
        BY <3>1, <3>2, <4>1, <4>2, <4>3, AfterTake
    <3> QED
      BY <3>1, <3>4, <3>5 DEF Decodes, q, h, g
  <2> QED
    BY <2>1, <2>2 DEF Decodes
<1>9. CASE UNCHANGED vars
  BY <1>v, <1>9, DecodesSame DEF vars
<1> QED
  BY <1>1, <1>2, <1>3, <1>4, <1>5, <1>6, <1>7, <1>8, <1>9
     DEF Next, Pump, Feed, ReadNothingOnceMore, PumpFails

LEMMA DecodeInvariant == Spec => []DecodeInv
<1>1. Init => DecodeInv
  BY DEF Init, DecodeInv, CallsAreSubscribed, StreamKnown, Decodes
<1>2. TypeOK /\ TypeOK' /\ DecodeInv /\ [Next]_vars => DecodeInv'
  BY KnownStep, DecodesStep DEF DecodeInv
<1> QED
  BY <1>1, <1>2, TypeCorrect, PTL DEF Spec

(* A viewer that has lost nothing gets no picture without the parameter    *)
(* sets of its quality, with any number of reopenings and selections.      *)
THEOREM PicturesHaveTheirSets == Spec => PicturesDecode
<1>1. TypeOK /\ DecodeInv /\ [Next]_vars =>
        [\A v \in Viewers \ missed : feed[v] = "get" /\ feed'[v] = "write" =>
           LET picture == Head(queue[v]).picture IN
           picture = "none" \/ \A k \in ParamKinds : held'[v][k] = picture]_vars
  <2> SUFFICES ASSUME TypeOK, DecodeInv, Next, NEW v \in Viewers \ missed,
                      feed[v] = "get", feed'[v] = "write",
                      Head(queue[v]).picture # "none", NEW k \in ParamKinds
               PROVE  held'[v][k] = Head(queue[v]).picture
    BY DEF vars
  <2> DEFINE q == queue[v]
  <2>1. Take(v)
    <3>1. ASSUME feed' = feed PROVE FALSE
      BY <3>1
    <3>2. \A w \in Viewers : ~Subscribe(w) /\ ~Unsubscribe(w) /\ ~FeedStarts(w)
                               /\ ~Drained(w) /\ ~FeedBreaks(w)
      BY DEF Subscribe, Unsubscribe, FeedStarts, Drained, FeedBreaks, FeedMoves, TypeOK
    <3>3. ~Pump /\ \A option \in Qualities : ~Select(option)
      BY <3>1 DEF Pump, ReadNothing, ReadNothingOnceMore, ReadPart, PumpFails, PumpStops,
                  ReadFrame, Select, viewing
    <3>4. PICK w \in Viewers : Take(w)
      BY <3>2, <3>3 DEF Next, Feed
    <3> QED
      BY <3>4 DEF Take, FeedMoves, TypeOK
  <2>2. /\ q \in Seq(Items) /\ q # <<>> /\ Head(q) = q[1] /\ 1 \in 1..Len(q)
        /\ held'[v][k] = IF q[1].sets[k] = "none" THEN held[v][k] ELSE q[1].sets[k]
    BY <2>1, TailIs DEF Take, Takes, TypeOK
  <2>3. After(q, held[v], 1, k, q[1].picture)
    BY <2>2 DEF DecodeInv, Decodes
  <2> HIDE DEF q
  <2>4. 1 \in 1..1 /\ \A m \in 1..1 : m = 1
    OBVIOUS
  <2> QED
    BY <2>2, <2>3, <2>4 DEF After, q
<1> QED
  BY <1>1, TypeCorrect, DecodeInvariant, PTL DEF Spec, PicturesDecode
=============================================================================
