--------------------------- MODULE ChannelStream ----------------------------
(***************************************************************************)
(* camera.py: the shared CPD7 upstreams of the channels of one door        *)
(* station.  Every channel is a _ChannelStream object; they share the      *)
(* asyncio.Semaphore of the device's serial.  A consumer is one call of    *)
(* async_camera_image or handle_async_mjpeg_stream; it subscribes, works,  *)
(* and unsubscribes.  Steps are the stretches of a coroutine between two   *)
(* awaits that can suspend.                                                *)
(*                                                                         *)
(* The asyncio.Lock of a channel is the sequence lock[ch]: its head owns   *)
(* the lock or is the next to own it, the others wait in order (the lock   *)
(* is FIFO).  step[ch] is the await at which the owner stands.             *)
(*                                                                         *)
(* A handler is interrupted by a cancellation (the browser went away, the  *)
(* caller's own timeout) or, in the prelude, by an exception of the        *)
(* subprocess or of response.prepare.  Interrupts lists the awaits at      *)
(* which that happens; it is a parameter because some of them break        *)
(* properties the others do not.                                           *)
(***************************************************************************)
EXTENDS Naturals, Sequences, FiniteSets

CONSTANTS Channels,     \* the channels of the device
          Viewers,      \* the calls of a camera handler
          ChannelOf,    \* ChannelOf[v]: the camera the call is about
          MaxStreams,   \* _MAX_STREAMS_PER_DEVICE
          Linger,       \* names a _linger_teardown task in a lock queue
          Interrupts    \* the awaits at which a handler may be interrupted

AwaitPoints == {"lock", "slot", "opening", "closing", "prelude", "unsubscribe"}

ASSUME ChannelsAssumption == IsFiniteSet(Channels)
ASSUME ViewersAssumption == Linger \notin Viewers
ASSUME ChannelOfAssumption == ChannelOf \in [Viewers -> Channels]
ASSUME MaxStreamsAssumption == MaxStreams \in Nat
ASSUME InterruptsAssumption == Interrupts \subseteq AwaitPoints

VARIABLES
  sem,       \* value of the device's semaphore: free stream slots
  lan,       \* lan[ch]: _lan is not None
  pump,      \* pump[ch]: _pump is None, a running task, or a task that is done
  subs,      \* subs[ch]: _subs, a queue named by the consumer that owns it
  lock,      \* lock[ch]: _lock, owner first
  step,      \* step[ch]: the await at which the lock's owner is suspended
  linger,    \* linger[ch]: _linger is None, a pending timer, or one that fired
  timers,    \* timers[ch]: pending linger timers of the event loop
  spawned,   \* spawned[ch]: linger tasks created that have not run yet
  pc,        \* pc[v]: where the consumer stands
  eof,       \* consumers whose queue the pump closed with None
  missed     \* consumers whose queue was full when the pump ended: no None

vars == <<sem, lan, pump, subs, lock, step, linger, timers, spawned, pc, eof,
          missed>>

timing == <<linger, timers, spawned>>
upstream == <<sem, lan, pump>>
ends == <<eof, missed>>

(* "idle": no call; "sub": in subscribe; "prelude": subscribed, ffmpeg     *)
(* being started; "active": in the try block; "leaving": in unsubscribe;   *)
(* "lost": the handler ended and left its queue in _subs.                  *)
ViewerStates == {"idle", "sub", "prelude", "active", "leaving", "lost"}

TypeOK ==
  /\ sem \in Nat
  /\ lan \in [Channels -> BOOLEAN]
  /\ pump \in [Channels -> {"none", "running", "done"}]
  /\ subs \in [Channels -> SUBSET Viewers]
  /\ lock \in [Channels -> Seq(Viewers \cup {Linger})]
  /\ step \in [Channels -> {"none", "join", "closing", "slot", "granted", "opening"}]
  /\ linger \in [Channels -> {"none", "armed", "fired"}]
  /\ timers \in [Channels -> Nat]
  /\ spawned \in [Channels -> Nat]
  /\ pc \in [Viewers -> ViewerStates]
  /\ eof \in SUBSET Viewers
  /\ missed \in SUBSET Viewers

Init ==
  /\ sem = MaxStreams
  /\ lan = [ch \in Channels |-> FALSE]
  /\ pump = [ch \in Channels |-> "none"]
  /\ subs = [ch \in Channels |-> {}]
  /\ lock = [ch \in Channels |-> <<>>]
  /\ step = [ch \in Channels |-> "none"]
  /\ linger = [ch \in Channels |-> "none"]
  /\ timers = [ch \in Channels |-> 0]
  /\ spawned = [ch \in Channels |-> 0]
  /\ pc = [v \in Viewers |-> "idle"]
  /\ eof = {}
  /\ missed = {}

-----------------------------------------------------------------------------
(* The lock.                                                               *)

(* p has the lock and has not been suspended since it got it.              *)
Enters(p, ch) == lock[ch] # <<>> /\ Head(lock[ch]) = p /\ step[ch] = "none"

(* p has the lock and is suspended at await s.                             *)
StandsAt(p, ch, s) == lock[ch] # <<>> /\ Head(lock[ch]) = p /\ step[ch] = s

Queue(p, ch) == lock' = [lock EXCEPT ![ch] = Append(@, p)]

Release(ch) == lock' = [lock EXCEPT ![ch] = Tail(@)]

(* A waiter other than the head gives up its place.                        *)
StopsWaiting(p, ch) ==
  \E i \in 2..Len(lock[ch]) :
    /\ lock[ch][i] = p
    /\ lock' = [lock EXCEPT ![ch] = SubSeq(@, 1, i - 1) \o SubSeq(@, i + 1, Len(@))]

Suspend(ch, s) == step' = [step EXCEPT ![ch] = s]

(* v has a new queue, or none: how its last one ended is forgotten.        *)
Forget(v) == eof' = eof \ {v} /\ missed' = missed \ {v}

-----------------------------------------------------------------------------
(* subscribe                                                               *)

(* A handler starts; a snapshot answered from the cache takes no step.     *)
Arrive(v) ==
  /\ pc[v] = "idle"
  /\ pc' = [pc EXCEPT ![v] = "sub"]
  /\ Queue(v, ChannelOf[v])
  /\ UNCHANGED <<upstream, subs, step, timing, ends>>

(* Mutants: the handle is dropped but not cancelled; it is cancelled       *)
(* without a test that there is one.                                       *)
CancelLingerDropsHandle(ch) ==
  linger' = [linger EXCEPT ![ch] = "none"] /\ UNCHANGED <<timers, spawned>>
CancelLingerUntested(ch) ==
  /\ linger' = [linger EXCEPT ![ch] = "none"]
  /\ timers' = [timers EXCEPT ![ch] = @ - 1]
  /\ UNCHANGED spawned

CancelLinger(ch) ==
  /\ linger' = [linger EXCEPT ![ch] = "none"]
  /\ timers' = [timers EXCEPT ![ch] = IF linger[ch] = "armed" THEN @ - 1 ELSE @]
  /\ UNCHANGED spawned

Attach(v, ch) ==
  /\ subs' = [subs EXCEPT ![ch] = @ \cup {v}]
  /\ pc' = [pc EXCEPT ![v] = "prelude"]
  /\ Forget(v)

(* Mutants: subscribe does not wait for the lock when the upstream is      *)
(* there; it does not look at pump.done().                                 *)
JoinUnlocked(v) ==
  LET ch == ChannelOf[v] IN
  /\ pc[v] = "sub"
  /\ lan[ch] /\ pump[ch] # "done"
  /\ CancelLinger(ch)
  /\ Attach(v, ch)
  /\ StopsWaiting(v, ch)
  /\ UNCHANGED <<upstream, step>>
JoinWithoutLook(v) ==
  LET ch == ChannelOf[v] IN
  /\ Enters(v, ch)
  /\ pc[v] = "sub"
  /\ lan[ch]
  /\ CancelLinger(ch)
  /\ Attach(v, ch)
  /\ Release(ch)
  /\ UNCHANGED <<upstream, step>>

(* The upstream is there and its pump task is not done: no await.          *)
JoinUpstream(v) ==
  LET ch == ChannelOf[v] IN
  /\ Enters(v, ch)
  /\ pc[v] = "sub"
  /\ lan[ch] /\ pump[ch] # "done"
  /\ CancelLinger(ch)
  /\ Attach(v, ch)
  /\ Release(ch)
  /\ UNCHANGED <<upstream, step>>

(* The upstream died: _teardown drops the finished pump and closes the     *)
(* connection in an executor job.                                          *)
DropDeadUpstream(v) ==
  LET ch == ChannelOf[v] IN
  /\ Enters(v, ch)
  /\ pc[v] = "sub"
  /\ lan[ch] /\ pump[ch] = "done"
  /\ CancelLinger(ch)
  /\ pump' = [pump EXCEPT ![ch] = "none"]
  /\ Suspend(ch, "closing")
  /\ UNCHANGED <<sem, lan, subs, lock, pc, ends>>

AskForSlot(v) ==
  LET ch == ChannelOf[v] IN
  /\ Enters(v, ch)
  /\ pc[v] = "sub"
  /\ ~lan[ch]
  /\ CancelLinger(ch)
  /\ Suspend(ch, "slot")
  /\ UNCHANGED <<upstream, subs, lock, pc, ends>>

(* A slot is free, or release() handed one on: the semaphore counts it as  *)
(* taken and wakes v up.  Any of the channels that wait may get it.        *)
GrantSlot(v) ==
  LET ch == ChannelOf[v] IN
  /\ StandsAt(v, ch, "slot")
  /\ sem > 0
  /\ sem' = sem - 1
  /\ Suspend(ch, "granted")
  /\ UNCHANGED <<lan, pump, subs, lock, timing, pc, ends>>

(* wait_for returns, _open goes on to _open_lan.                           *)
AcquireSlot(v) ==
  LET ch == ChannelOf[v] IN
  /\ StandsAt(v, ch, "granted")
  /\ Suspend(ch, "opening")
  /\ UNCHANGED <<upstream, subs, lock, timing, pc, ends>>

(* subscribe returns None.                                                 *)
Refuse(v) ==
  /\ pc' = [pc EXCEPT ![v] = "idle"]
  /\ Suspend(ChannelOf[v], "none")
  /\ Release(ChannelOf[v])
  /\ UNCHANGED <<lan, pump, subs, timing, ends>>

(* Mutant: _open waits for the semaphore without a timeout.                *)
SlotTimeoutNever(v) == FALSE /\ Refuse(v) /\ UNCHANGED sem

(* wait_for gives up after _ACQUIRE_TIMEOUT.                               *)
SlotTimeout(v) ==
  /\ StandsAt(v, ChannelOf[v], "slot")
  /\ sem = 0
  /\ Refuse(v)
  /\ UNCHANGED sem

(* The timeout, or a cancellation, falls between the grant and the wake-up: *)
(* acquire gives the slot back before wait_for raises.                     *)
SlotTooLate(v) ==
  /\ StandsAt(v, ChannelOf[v], "granted")
  /\ sem' = sem + 1
  /\ Refuse(v)

(* Mutant: _open forgets sem.release() when there is no live feed.         *)
OpenFailsKeepsSlot(v) ==
  /\ StandsAt(v, ChannelOf[v], "opening")
  /\ Refuse(v)
  /\ UNCHANGED sem

(* _open_lan returned None: the slot goes back.                            *)
OpenFails(v) ==
  /\ StandsAt(v, ChannelOf[v], "opening")
  /\ sem' = sem + 1
  /\ Refuse(v)

(* _open_lan returned a connection: the pump starts and, with no await in  *)
(* between, the consumer gets its queue.                                   *)
OpenSucceeds(v) ==
  LET ch == ChannelOf[v] IN
  /\ StandsAt(v, ch, "opening")
  /\ lan' = [lan EXCEPT ![ch] = TRUE]
  /\ pump' = [pump EXCEPT ![ch] = "running"]
  /\ Attach(v, ch)
  /\ Suspend(ch, "none")
  /\ Release(ch)
  /\ UNCHANGED <<sem, timing>>

-----------------------------------------------------------------------------
(* The consumer's work, and unsubscribe                                    *)

(* ffmpeg runs and the response is prepared.  That takes several rounds of *)
(* the event loop, a linger task created before runs in the next one.      *)
Begin(v) ==
  /\ pc[v] = "prelude"
  /\ spawned[ChannelOf[v]] = 0
  /\ pc' = [pc EXCEPT ![v] = "active"]
  /\ UNCHANGED <<upstream, subs, lock, step, timing, ends>>

(* The viewer left, the still is taken, it timed out, the handler was      *)
(* cancelled, or the feed ended: _cleanup.                                 *)
Leave(v) ==
  /\ pc[v] = "active"
  /\ pc' = [pc EXCEPT ![v] = "leaving"]
  /\ Queue(v, ChannelOf[v])
  /\ UNCHANGED <<upstream, subs, step, timing, ends>>

(* Mutant: unsubscribe does not set the linger timer.                      *)
UnsubscribeWithoutTimer(v) ==
  LET ch == ChannelOf[v] IN
  /\ Enters(v, ch)
  /\ pc[v] = "leaving"
  /\ pc' = [pc EXCEPT ![v] = "idle"]
  /\ subs' = [subs EXCEPT ![ch] = @ \ {v}]
  /\ Forget(v)
  /\ Release(ch)
  /\ UNCHANGED <<upstream, step, timing>>

Unsubscribe(v) ==
  LET ch == ChannelOf[v]
      rest == subs[ch] \ {v}
      last == rest = {} /\ lan[ch]
  IN
  /\ Enters(v, ch)
  /\ pc[v] = "leaving"
  /\ pc' = [pc EXCEPT ![v] = "idle"]
  /\ subs' = [subs EXCEPT ![ch] = rest]
  /\ linger' = [linger EXCEPT ![ch] = IF last THEN "armed" ELSE @]
  /\ timers' = [timers EXCEPT ![ch] = IF last THEN @ + 1 ELSE @]
  /\ Forget(v)
  /\ Release(ch)
  /\ UNCHANGED <<upstream, step, spawned>>

-----------------------------------------------------------------------------
(* The linger timer and its task                                           *)

(* The timer due first fires.  _linger names the one set last.             *)
LingerFires(ch) ==
  /\ timers[ch] > 0
  /\ timers' = [timers EXCEPT ![ch] = @ - 1]
  /\ spawned' = [spawned EXCEPT ![ch] = @ + 1]
  /\ linger' = [linger EXCEPT ![ch] =
                  IF @ = "armed" /\ timers[ch] = 1 THEN "fired" ELSE @]
  /\ UNCHANGED <<upstream, subs, lock, step, pc, ends>>

(* The task's first step: it asks for the lock.                            *)
LingerStarts(ch) ==
  /\ spawned[ch] > 0
  /\ spawned' = [spawned EXCEPT ![ch] = @ - 1]
  /\ Queue(Linger, ch)
  /\ UNCHANGED <<upstream, subs, step, linger, timers, pc, ends>>

(* Somebody subscribed meanwhile, or there is nothing to tear down.        *)
LingerSkips(ch) ==
  /\ Enters(Linger, ch)
  /\ subs[ch] # {} \/ ~lan[ch]
  /\ linger' = [linger EXCEPT ![ch] = "none"]
  /\ Release(ch)
  /\ UNCHANGED <<upstream, subs, step, timers, spawned, pc, ends>>

(* _teardown: a running pump is cancelled and awaited; one that is done or *)
(* missing is not.                                                         *)
LingerTeardown(ch) ==
  /\ Enters(Linger, ch)
  /\ subs[ch] = {} /\ lan[ch]
  /\ linger' = [linger EXCEPT ![ch] = "none"]
  /\ IF pump[ch] = "running"
       THEN Suspend(ch, "join") /\ UNCHANGED pump
       ELSE Suspend(ch, "closing") /\ pump' = [pump EXCEPT ![ch] = "none"]
  /\ UNCHANGED <<sem, lan, subs, lock, timers, spawned, pc, ends>>

(* The pump's finally block: None for every queue, which a full one drops. *)
CloseQueues(ch) ==
  \E full \in SUBSET subs[ch] :
    /\ eof' = eof \cup (subs[ch] \ full)
    /\ missed' = missed \cup full

(* The cancelled pump has ended, its finally block included.               *)
PumpJoined(ch) ==
  /\ StandsAt(Linger, ch, "join")
  /\ pump' = [pump EXCEPT ![ch] = "none"]
  /\ CloseQueues(ch)
  /\ Suspend(ch, "closing")
  /\ UNCHANGED <<sem, lan, subs, lock, timing, pc>>

(* Mutant: _teardown releases the slot but leaves _lan set.                *)
CloseKeepsLan(ch) ==
  /\ step[ch] = "closing"
  /\ sem' = sem + 1
  /\ Suspend(ch, "none") /\ Release(ch)
  /\ UNCHANGED <<lan, pump, subs, timing, pc, ends>>

(* The executor closed the connection.  A subscribe goes on to _open.      *)
CloseDone(ch) ==
  /\ step[ch] = "closing"
  /\ lan' = [lan EXCEPT ![ch] = FALSE]
  /\ sem' = sem + 1
  /\ IF lock[ch] # <<>> /\ Head(lock[ch]) = Linger
       THEN Suspend(ch, "none") /\ Release(ch)
       ELSE Suspend(ch, "slot") /\ UNCHANGED lock
  /\ UNCHANGED <<pump, subs, timing, pc, ends>>

(* Mutant: the pump ends without its finally block.                        *)
PumpEndsSilently(ch) ==
  /\ pump[ch] = "running" /\ step[ch] # "join"
  /\ pump' = [pump EXCEPT ![ch] = "done"]
  /\ UNCHANGED <<sem, lan, subs, lock, step, timing, pc, ends>>

(* The station ends the stream, three reads in a row give nothing, or the  *)
(* decoder raises: the pump goes over the queues it knows and is done.     *)
PumpEnds(ch) ==
  /\ pump[ch] = "running" /\ step[ch] # "join"
  /\ pump' = [pump EXCEPT ![ch] = "done"]
  /\ CloseQueues(ch)
  /\ UNCHANGED <<sem, lan, subs, lock, step, timing, pc>>

-----------------------------------------------------------------------------
(* Interruptions                                                           *)

(* Waiting for the lock in subscribe.                                      *)
InterruptedInQueue(v) ==
  /\ "lock" \in Interrupts
  /\ pc[v] = "sub"
  /\ StopsWaiting(v, ChannelOf[v])
  /\ pc' = [pc EXCEPT ![v] = "idle"]
  /\ UNCHANGED <<upstream, subs, step, timing, ends>>

(* With the lock, at await s: async with gives the lock back, nothing else *)
(* is undone.  At "opening" the semaphore stays taken; at "closing" _lan   *)
(* stays set, and nobody releases the slot.                                *)
InterruptedAt(v, s) ==
  /\ s \in Interrupts
  /\ StandsAt(v, ChannelOf[v], s)
  /\ Refuse(v)
  /\ UNCHANGED sem

(* Before the try block: no _cleanup, the queue stays in _subs.            *)
InterruptedInPrelude(v) ==
  /\ "prelude" \in Interrupts
  /\ pc[v] = "prelude"
  /\ pc' = [pc EXCEPT ![v] = "lost"]
  /\ UNCHANGED <<upstream, subs, lock, step, timing, ends>>

(* In _cleanup, waiting for the lock in unsubscribe.                       *)
InterruptedInCleanup(v) ==
  /\ "unsubscribe" \in Interrupts
  /\ pc[v] = "leaving"
  /\ StopsWaiting(v, ChannelOf[v])
  /\ pc' = [pc EXCEPT ![v] = "lost"]
  /\ UNCHANGED <<upstream, subs, step, timing, ends>>

-----------------------------------------------------------------------------
Subscribes(v) == \/ JoinUpstream(v) \/ DropDeadUpstream(v) \/ AskForSlot(v)
                 \/ GrantSlot(v) \/ AcquireSlot(v)
                 \/ SlotTimeout(v) \/ SlotTooLate(v)
                 \/ OpenFails(v) \/ OpenSucceeds(v)

LingerTask(ch) == \/ LingerFires(ch) \/ LingerStarts(ch) \/ LingerSkips(ch)
                  \/ LingerTeardown(ch) \/ PumpJoined(ch) \/ CloseDone(ch)

Interrupted(v) == \/ InterruptedInQueue(v) \/ InterruptedInPrelude(v)
                  \/ InterruptedInCleanup(v)
                  \/ \E s \in {"slot", "opening", "closing"} : InterruptedAt(v, s)

Next ==
  \/ \E v \in Viewers : \/ Arrive(v) \/ Subscribes(v) \/ Begin(v) \/ Leave(v)
                        \/ Unsubscribe(v) \/ Interrupted(v)
  \/ \E ch \in Channels : LingerTask(ch) \/ PumpEnds(ch)

Spec == Init /\ [][Next]_vars

(* The event loop runs what is ready; every await ends: the slot by the    *)
(* timeout, opening and closing by the socket timeouts of the executor     *)
(* job, the pump by its cancellation.  A viewer need not ever leave.       *)
Fairness ==
  /\ \A v \in Viewers :
       /\ WF_vars(Subscribes(v))
       /\ WF_vars(Begin(v))
       /\ WF_vars(Unsubscribe(v))
  /\ \A ch \in Channels : WF_vars(LingerTask(ch))

FairSpec == Spec /\ Fairness

-----------------------------------------------------------------------------
(* Properties                                                              *)

(* The channels that account for a slot of the device: connected ones,     *)
(* those whose connection is being opened, and those that were granted a   *)
(* slot and have not run since.                                            *)
Holding == {ch \in Channels : lan[ch] \/ step[ch] \in {"granted", "opening"}}

(* The calls about ch whose handler is running.                            *)
Handlers(ch) == {v \in Viewers : ChannelOf[v] = ch /\ pc[v] \notin {"idle", "lost"}}

(* Wherever handlers are interrupted, no slot is released twice: the       *)
(* connections of a device never exceed _MAX_STREAMS_PER_DEVICE.           *)
NeverOverReleased == sem + Cardinality(Holding) <= MaxStreams

(* Every slot is free or accounted for by a channel (_open and _teardown   *)
(* pair each acquire with one release, on every path).                     *)
SlotsConserved == sem + Cardinality(Holding) = MaxStreams

(* A queue subscribe handed out is fed by a running pump, or the pump      *)
(* that fed it has closed it; except for a queue that was full when the    *)
(* pump ended, whose None is dropped (camera.py suppresses QueueFull).     *)
Served ==
  \A ch \in Channels : \A v \in subs[ch] :
    v \in eof \/ v \in missed \/ pump[ch] = "running"

(* A channel has at most one linger timer or task alive, and a pending     *)
(* timer is the one _linger names, so that the next subscribe cancels it.  *)
OneLinger ==
  \A ch \in Channels :
    /\ timers[ch] = IF linger[ch] = "armed" THEN 1 ELSE 0
    /\ timers[ch] + spawned[ch]
         + Cardinality({i \in DOMAIN lock[ch] : lock[ch][i] = Linger}) <= 1

(* As long as a linger task tears down, through the await of the cancelled *)
(* pump and the close in the executor, no queue is attached: the lock      *)
(* keeps out the viewers that arrive meanwhile, so none is handed a queue  *)
(* of an upstream that is being given up.                                  *)
CancelsOnlyUnwatched ==
  \A ch \in Channels :
    StandsAt(Linger, ch, "join") \/ StandsAt(Linger, ch, "closing") => subs[ch] = {}

(* The warning of _open: when a subscribe gives up waiting for a slot,     *)
(* _MAX_STREAMS_PER_DEVICE upstreams are in use.  (SlotTooLate is not      *)
(* meant: it was granted a slot at that very moment.)                      *)
TimeoutMeansBusy ==
  [][\A v \in Viewers : SlotTimeout(v) => Cardinality(Holding) = MaxStreams]_vars

(* subscribe and unsubscribe end: whatever the holder of the channel's     *)
(* lock awaits, the waiters are served.                                    *)
HandlersProgress ==
  \A v \in Viewers : /\ pc[v] = "sub" ~> pc[v] # "sub"
                     /\ pc[v] = "leaving" ~> pc[v] # "leaving"

(* An upstream none of whose handlers runs any more is closed, unless a    *)
(* new one arrives ("hold the upstream briefly after the last viewer       *)
(* leaves").                                                               *)
ClosedWhenUnwatched ==
  \A ch \in Channels : lan[ch] /\ Handlers(ch) = {} ~> ~lan[ch] \/ Handlers(ch) # {}

-----------------------------------------------------------------------------
(* The promise this module implements.                                     *)
StateOf(ch) ==
  IF step[ch] \in {"granted", "opening"} THEN "opening"
  ELSE IF step[ch] \in {"join", "closing"} THEN "closing"
  ELSE IF ~lan[ch] THEN "closed"
  ELSE IF pump[ch] = "running" THEN "live" ELSE "dead"

UpstreamState == [ch \in Channels |-> StateOf(ch)]

Promise == INSTANCE SharedUpstream WITH up <- UpstreamState, viewers <- subs

(* Every step is one of the promise's or leaves its state alone: one       *)
(* upstream per channel, at most MaxStreams, viewers attached only to a    *)
(* live one, and none given up while it delivers to somebody.              *)
KeepsPromise == Promise!Spec
=============================================================================
