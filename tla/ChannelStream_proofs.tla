----------------------- MODULE ChannelStream_proofs -------------------------
(***************************************************************************)
(* Proofs about ChannelStream for every set of channels and viewers, every *)
(* number of slots and, where a theorem does not say otherwise, every set  *)
(* of awaits at which handlers are interrupted: its types, the account of  *)
(* its slots, the linger timers and tasks, the pump behind every queue,    *)
(* and that it implements SharedUpstream.                                  *)
(***************************************************************************)
EXTENDS ChannelStream, FiniteSetTheorems, TLAPS

(* A waiter that gives up leaves a queue of the same kind of elements.     *)
LEMMA StopsWaitingType ==
  ASSUME TypeOK, NEW v \in Viewers, StopsWaiting(v, ChannelOf[v])
  PROVE  lock' \in [Channels -> Seq(Viewers \cup {Linger})]
  <1> DEFINE ch == ChannelOf[v]
             Q == Viewers \cup {Linger}
  <1>1. ch \in Channels
    BY ChannelOfAssumption
  <1>2. PICK i \in 2..Len(lock[ch]) :
          lock' = [lock EXCEPT ![ch] = SubSeq(@, 1, i - 1) \o SubSeq(@, i + 1, Len(@))]
    BY DEF StopsWaiting
  <1>3. lock[ch] \in Seq(Q) /\ lock \in [Channels -> Seq(Q)]
    BY <1>1 DEF TypeOK
  <1>4. SubSeq(lock[ch], 1, i - 1) \in Seq(Q) /\ SubSeq(lock[ch], i + 1, Len(lock[ch])) \in Seq(Q)
    BY <1>3
  <1>5. SubSeq(lock[ch], 1, i - 1) \o SubSeq(lock[ch], i + 1, Len(lock[ch])) \in Seq(Q)
    BY <1>4
  <1>6. QED
    BY <1>1, <1>2, <1>3, <1>5

(* What a queue and a release do to a lock.                                *)
LEMMA QueueType ==
  ASSUME TypeOK, NEW p \in Viewers \cup {Linger}, NEW ch \in Channels, Queue(p, ch)
  PROVE  lock' \in [Channels -> Seq(Viewers \cup {Linger})]
  BY DEF TypeOK, Queue

LEMMA ReleaseType ==
  ASSUME TypeOK, NEW ch \in Channels, lock[ch] # <<>>, Release(ch)
  PROVE  lock' \in [Channels -> Seq(Viewers \cup {Linger})]
  BY DEF TypeOK, Release

(* A handle of a pending timer names a timer that is pending: without it   *)
(* a cancel could take the number of timers below zero.                    *)
ArmedPending == \A ch \in Channels : linger[ch] = "armed" => timers[ch] > 0

TypeInv == TypeOK /\ ArmedPending

LEMMA CancelLingerType ==
  ASSUME TypeInv, NEW ch \in Channels, CancelLinger(ch)
  PROVE  /\ linger' \in [Channels -> {"none", "armed", "fired"}]
         /\ timers' \in [Channels -> Nat]
         /\ spawned' \in [Channels -> Nat]
         /\ ArmedPending'
  BY DEF TypeInv, TypeOK, ArmedPending, CancelLinger

LEMMA TypeInvStep == TypeInv /\ [Next]_vars => TypeInv'
  <1> SUFFICES ASSUME TypeInv, [Next]_vars
               PROVE  TypeInv'
    OBVIOUS
  <1> USE DEF TypeInv, TypeOK, ArmedPending, ViewerStates
  <1>1. ASSUME NEW v \in Viewers, Arrive(v)
        PROVE  TypeInv'
    <2>1. lock' \in [Channels -> Seq(Viewers \cup {Linger})]
      BY <1>1, ChannelOfAssumption, QueueType DEF Arrive
    <2>2. QED
      BY <1>1, ChannelOfAssumption, <2>1 DEF Arrive, timing, upstream, ends
  <1>2. ASSUME NEW v \in Viewers, JoinUpstream(v)
        PROVE  TypeInv'
    <2>1. lock' \in [Channels -> Seq(Viewers \cup {Linger})]
      BY <1>2, ChannelOfAssumption, ReleaseType DEF JoinUpstream, Enters
    <2>2. ChannelOf[v] \in Channels
      BY ChannelOfAssumption
    <2>3. linger' \in [Channels -> {"none", "armed", "fired"}] /\ timers' \in [Channels -> Nat]
            /\ spawned' \in [Channels -> Nat] /\ ArmedPending'
      BY <1>2, <2>2, CancelLingerType DEF JoinUpstream
    <2>4. /\ subs' \in [Channels -> SUBSET Viewers]
          /\ pc' \in [Viewers -> ViewerStates]
          /\ eof' \in SUBSET Viewers /\ missed' \in SUBSET Viewers
      BY <1>2, <2>2 DEF JoinUpstream, Attach, Forget
    <2>5. UNCHANGED <<sem, lan, pump, step>>
      BY <1>2 DEF JoinUpstream, upstream
    <2>6. QED
      BY <2>1, <2>3, <2>4, <2>5
  <1>3. ASSUME NEW v \in Viewers, DropDeadUpstream(v)
        PROVE  TypeInv'
    BY <1>3, ChannelOfAssumption DEF DropDeadUpstream, CancelLinger, Suspend, timing, upstream, ends
  <1>4. ASSUME NEW v \in Viewers, AskForSlot(v)
        PROVE  TypeInv'
    BY <1>4, ChannelOfAssumption DEF AskForSlot, CancelLinger, Suspend, timing, upstream, ends
  <1>5. ASSUME NEW v \in Viewers, GrantSlot(v)
        PROVE  TypeInv'
    BY <1>5, ChannelOfAssumption DEF GrantSlot, Suspend, timing, upstream, ends
  <1>51. ASSUME NEW v \in Viewers, AcquireSlot(v)
        PROVE  TypeInv'
    BY <1>51, ChannelOfAssumption DEF AcquireSlot, Suspend, timing, upstream, ends
  <1>6. ASSUME NEW v \in Viewers, SlotTimeout(v)
        PROVE  TypeInv'
    <2>1. lock' \in [Channels -> Seq(Viewers \cup {Linger})]
      BY <1>6, ChannelOfAssumption, ReleaseType DEF SlotTimeout, StandsAt, Refuse
    <2>2. QED
      BY <1>6, ChannelOfAssumption, <2>1 DEF SlotTimeout, Refuse, Suspend, timing, upstream, ends
  <1>7. ASSUME NEW v \in Viewers, OpenFails(v)
        PROVE  TypeInv'
    <2>1. lock' \in [Channels -> Seq(Viewers \cup {Linger})]
      BY <1>7, ChannelOfAssumption, ReleaseType DEF OpenFails, StandsAt, Refuse
    <2>2. sem' \in Nat
      BY <1>7 DEF OpenFails
    <2>3. step' = [step EXCEPT ![ChannelOf[v]] = "none"] /\ pc' = [pc EXCEPT ![v] = "idle"]
      BY <1>7 DEF OpenFails, Refuse, Suspend
    <2>4. UNCHANGED <<lan, pump, subs, linger, timers, spawned, eof, missed>>
      BY <1>7 DEF OpenFails, Refuse, timing, ends
    <2>5. QED
      BY <2>1, <2>2, <2>3, <2>4, ChannelOfAssumption
  <1>71. ASSUME NEW v \in Viewers, SlotTooLate(v)
        PROVE  TypeInv'
    <2>1. lock' \in [Channels -> Seq(Viewers \cup {Linger})]
      BY <1>71, ChannelOfAssumption, ReleaseType DEF SlotTooLate, StandsAt, Refuse
    <2>2. sem' \in Nat
      BY <1>71 DEF SlotTooLate
    <2>3. step' = [step EXCEPT ![ChannelOf[v]] = "none"] /\ pc' = [pc EXCEPT ![v] = "idle"]
      BY <1>71 DEF SlotTooLate, Refuse, Suspend
    <2>4. UNCHANGED <<lan, pump, subs, linger, timers, spawned, eof, missed>>
      BY <1>71 DEF SlotTooLate, Refuse, timing, ends
    <2>5. QED
      BY <2>1, <2>2, <2>3, <2>4, ChannelOfAssumption
  <1>8. ASSUME NEW v \in Viewers, OpenSucceeds(v)
        PROVE  TypeInv'
    <2>1. lock' \in [Channels -> Seq(Viewers \cup {Linger})]
      BY <1>8, ChannelOfAssumption, ReleaseType DEF OpenSucceeds, StandsAt
    <2>2. QED
      BY <1>8, ChannelOfAssumption, <2>1 DEF OpenSucceeds, Attach, Forget, Suspend, timing, upstream, ends
  <1>9. ASSUME NEW v \in Viewers, Begin(v)
        PROVE  TypeInv'
    BY <1>9, ChannelOfAssumption DEF Begin, timing, upstream, ends
  <1>10. ASSUME NEW v \in Viewers, Leave(v)
        PROVE  TypeInv'
    <2>1. lock' \in [Channels -> Seq(Viewers \cup {Linger})]
      BY <1>10, ChannelOfAssumption, QueueType DEF Leave
    <2>2. QED
      BY <1>10, ChannelOfAssumption, <2>1 DEF Leave, timing, upstream, ends
  <1>11. ASSUME NEW v \in Viewers, Unsubscribe(v)
        PROVE  TypeInv'
    <2>1. lock' \in [Channels -> Seq(Viewers \cup {Linger})]
      BY <1>11, ChannelOfAssumption, ReleaseType DEF Unsubscribe, Enters
    <2>2. /\ pc' \in [Viewers -> ViewerStates]
          /\ subs' \in [Channels -> SUBSET Viewers]
          /\ eof' \in SUBSET Viewers /\ missed' \in SUBSET Viewers
      BY <1>11, ChannelOfAssumption DEF Unsubscribe, Forget
    <2>3. /\ linger' \in [Channels -> {"none", "armed", "fired"}]
          /\ timers' \in [Channels -> Nat]
          /\ ArmedPending'
      <3> DEFINE ch == ChannelOf[v]
      <3>1. ch \in Channels
        BY ChannelOfAssumption
      <3>2. CASE subs[ch] \ {v} = {} /\ lan[ch]
        <4>1. /\ linger' = [linger EXCEPT ![ch] = "armed"]
              /\ timers' = [timers EXCEPT ![ch] = @ + 1]
          BY <1>11, <3>2 DEF Unsubscribe
        <4>2. QED
          BY <3>1, <4>1
      <3>3. CASE ~(subs[ch] \ {v} = {} /\ lan[ch])
        <4>1. UNCHANGED <<linger, timers>>
          BY <1>11, <3>3 DEF Unsubscribe
        <4>2. QED
          BY <4>1
      <3>4. QED
        BY <3>2, <3>3
    <2>4. UNCHANGED <<sem, lan, pump, step, spawned>>
      BY <1>11 DEF Unsubscribe, upstream
    <2>5. QED
      BY <2>1, <2>2, <2>3, <2>4
  <1>12. ASSUME NEW v \in Viewers, InterruptedInQueue(v)
        PROVE  TypeInv'
    <2>1. lock' \in [Channels -> Seq(Viewers \cup {Linger})]
      BY <1>12, ChannelOfAssumption, StopsWaitingType DEF InterruptedInQueue
    <2>2. QED
      BY <1>12, ChannelOfAssumption, <2>1 DEF InterruptedInQueue, timing, upstream, ends
  <1>13. ASSUME NEW v \in Viewers, InterruptedInPrelude(v)
        PROVE  TypeInv'
    BY <1>13, ChannelOfAssumption DEF InterruptedInPrelude, timing, upstream, ends
  <1>14. ASSUME NEW v \in Viewers, InterruptedInCleanup(v)
        PROVE  TypeInv'
    <2>1. lock' \in [Channels -> Seq(Viewers \cup {Linger})]
      BY <1>14, ChannelOfAssumption, StopsWaitingType DEF InterruptedInCleanup
    <2>2. QED
      BY <1>14, ChannelOfAssumption, <2>1 DEF InterruptedInCleanup, timing, upstream, ends
  <1>15. ASSUME NEW v \in Viewers, NEW s \in {"slot", "opening", "closing"}, InterruptedAt(v, s)
        PROVE  TypeInv'
    <2>1. lock' \in [Channels -> Seq(Viewers \cup {Linger})]
      BY <1>15, ChannelOfAssumption, ReleaseType DEF InterruptedAt, StandsAt, Refuse
    <2>2. QED
      BY <1>15, ChannelOfAssumption, <2>1 DEF InterruptedAt, Refuse, Suspend, timing, upstream, ends
  <1>16. ASSUME NEW ch \in Channels, LingerFires(ch)
        PROVE  TypeInv'
    BY <1>16 DEF LingerFires, timing, upstream, ends
  <1>17. ASSUME NEW ch \in Channels, LingerStarts(ch)
        PROVE  TypeInv'
    <2>1. lock' \in [Channels -> Seq(Viewers \cup {Linger})]
      BY <1>17, QueueType DEF LingerStarts
    <2>2. spawned' \in [Channels -> Nat]
      BY <1>17 DEF LingerStarts
    <2>3. UNCHANGED <<sem, lan, pump, subs, step, linger, timers, pc, eof, missed>>
      BY <1>17 DEF LingerStarts, upstream, ends
    <2>4. QED
      BY <2>1, <2>2, <2>3
  <1>18. ASSUME NEW ch \in Channels, LingerSkips(ch)
        PROVE  TypeInv'
    <2>1. lock' \in [Channels -> Seq(Viewers \cup {Linger})]
      BY <1>18, ReleaseType DEF LingerSkips, Enters
    <2>2. QED
      BY <1>18, <2>1 DEF LingerSkips, timing, upstream, ends
  <1>19. ASSUME NEW ch \in Channels, LingerTeardown(ch)
        PROVE  TypeInv'
    BY <1>19 DEF LingerTeardown, Suspend, timing, upstream, ends
  <1>20. ASSUME NEW ch \in Channels, PumpJoined(ch)
        PROVE  TypeInv'
    BY <1>20 DEF PumpJoined, CloseQueues, Suspend, timing, upstream, ends
  <1>21. ASSUME NEW ch \in Channels, CloseDone(ch)
        PROVE  TypeInv'
    <2>1. lock' \in [Channels -> Seq(Viewers \cup {Linger})]
      BY <1>21, ReleaseType DEF CloseDone
    <2>2. sem' \in Nat /\ lan' \in [Channels -> BOOLEAN]
      BY <1>21 DEF CloseDone
    <2>3. step' \in [Channels -> {"none", "join", "closing", "slot", "granted", "opening"}]
      <3>1. \E await \in {"none", "slot"} : step' = [step EXCEPT ![ch] = await]
        BY <1>21, Zenon DEF CloseDone, Suspend
      <3>2. QED
        BY <3>1
    <2>4. UNCHANGED <<pump, subs, linger, timers, spawned, pc, eof, missed>>
      BY <1>21 DEF CloseDone, timing, ends
    <2>5. QED
      BY <2>1, <2>2, <2>3, <2>4
  <1>22. ASSUME NEW ch \in Channels, PumpEnds(ch)
        PROVE  TypeInv'
    BY <1>22 DEF PumpEnds, CloseQueues, timing, upstream, ends
  <1>23. CASE UNCHANGED vars
    BY <1>23 DEF vars
  <1>24. QED
    BY <1>1, <1>2, <1>3, <1>4, <1>5, <1>6, <1>7, <1>8, <1>9, <1>10, <1>11,
       <1>12, <1>13, <1>14, <1>15, <1>16, <1>17, <1>18, <1>19, <1>20, <1>21, <1>22, <1>23,
       <1>51, <1>71 DEF Next, Subscribes, LingerTask, Interrupted

(* Every variable stays in its type, _lock's queue and the counters        *)
(* included: no timer count or semaphore value ever drops below zero.      *)
THEOREM TypeCorrect == Spec => []TypeOK
  <1>1. Init => TypeInv
    BY MaxStreamsAssumption DEF Init, TypeInv, TypeOK, ArmedPending, ViewerStates
  <1>2. TypeInv => TypeOK
    BY DEF TypeInv
  <1>3. QED
    BY <1>1, <1>2, TypeInvStep, PTL DEF Spec

-----------------------------------------------------------------------------
(* Slot accounting.  What a suspended holder of a channel's lock knows of  *)
(* _lan: none while a slot is awaited or a connection is being opened, one *)
(* while the pump is awaited or the connection is being closed.            *)
StepInv ==
  \A ch \in Channels : /\ step[ch] \in {"slot", "granted", "opening"} => ~lan[ch]
                       /\ step[ch] \in {"join", "closing"} => lan[ch]

(* The four things a step can do to the accounts of the device.            *)
Kept == sem' = sem /\ Holding' = Holding
Taken(ch) == /\ sem > 0 /\ sem' = sem - 1
             /\ ch \notin Holding /\ Holding' = Holding \cup {ch}
Returned(ch) == sem' = sem + 1 /\ ch \in Holding /\ Holding' = Holding \ {ch}
Leaked(ch) == /\ "opening" \in Interrupts
              /\ sem' = sem /\ Holding' = Holding \ {ch}

Account == Kept \/ \E ch \in Channels : Taken(ch) \/ Returned(ch) \/ Leaked(ch)

LEMMA AccountStep ==
  TypeOK /\ StepInv /\ [Next]_vars => StepInv' /\ Account
  <1> SUFFICES ASSUME TypeOK, StepInv, [Next]_vars
               PROVE  StepInv' /\ Account
    OBVIOUS
  <1>0. /\ lan \in [Channels -> BOOLEAN]
        /\ step \in [Channels -> {"none", "join", "closing", "slot", "granted", "opening"}]
        /\ sem \in Nat
    BY DEF TypeOK
  <1> USE DEF StepInv, Account, Kept, Holding
  <1>1. ASSUME NEW v \in Viewers, Arrive(v)
        PROVE  StepInv' /\ Account
    BY <1>1 DEF Arrive, upstream
  <1>2. ASSUME NEW v \in Viewers, JoinUpstream(v)
        PROVE  StepInv' /\ Account
    BY <1>2 DEF JoinUpstream, upstream
  <1>3. ASSUME NEW v \in Viewers, DropDeadUpstream(v)
        PROVE  StepInv' /\ Account
    BY <1>0, <1>3, ChannelOfAssumption DEF DropDeadUpstream, Enters, Suspend, upstream
  <1>4. ASSUME NEW v \in Viewers, AskForSlot(v)
        PROVE  StepInv' /\ Account
    BY <1>0, <1>4, ChannelOfAssumption DEF AskForSlot, Enters, Suspend, upstream
  <1>5. ASSUME NEW v \in Viewers, GrantSlot(v)
        PROVE  StepInv' /\ Account
    <2>1. StepInv'
      BY <1>0, <1>5, ChannelOfAssumption DEF GrantSlot, StandsAt, Suspend
    <2>2. Taken(ChannelOf[v])
      BY <1>0, <1>5, ChannelOfAssumption DEF Taken, GrantSlot, StandsAt, Suspend
    <2>3. QED
      BY <2>1, <2>2, ChannelOfAssumption
  <1>51. ASSUME NEW v \in Viewers, AcquireSlot(v)
        PROVE  StepInv' /\ Account
    BY <1>0, <1>51, ChannelOfAssumption DEF AcquireSlot, StandsAt, Suspend, upstream
  <1>6. ASSUME NEW v \in Viewers, SlotTimeout(v)
        PROVE  StepInv' /\ Account
    BY <1>0, <1>6, ChannelOfAssumption DEF SlotTimeout, StandsAt, Refuse, Suspend, upstream
  <1>7. ASSUME NEW v \in Viewers, OpenFails(v)
        PROVE  StepInv' /\ Account
    <2>1. StepInv'
      BY <1>0, <1>7, ChannelOfAssumption DEF OpenFails, StandsAt, Refuse, Suspend
    <2>2. Returned(ChannelOf[v])
      BY <1>0, <1>7, ChannelOfAssumption DEF Returned, OpenFails, StandsAt, Refuse, Suspend
    <2>3. QED
      BY <2>1, <2>2, ChannelOfAssumption
  <1>71. ASSUME NEW v \in Viewers, SlotTooLate(v)
        PROVE  StepInv' /\ Account
    <2>1. StepInv'
      BY <1>0, <1>71, ChannelOfAssumption DEF SlotTooLate, StandsAt, Refuse, Suspend
    <2>2. Returned(ChannelOf[v])
      BY <1>0, <1>71, ChannelOfAssumption DEF Returned, SlotTooLate, StandsAt, Refuse, Suspend
    <2>3. QED
      BY <2>1, <2>2, ChannelOfAssumption
  <1>8. ASSUME NEW v \in Viewers, OpenSucceeds(v)
        PROVE  StepInv' /\ Account
    <2>1. StepInv'
      BY <1>0, <1>8, ChannelOfAssumption DEF OpenSucceeds, StandsAt, Suspend
    <2>2. Kept
      BY <1>0, <1>8, ChannelOfAssumption DEF OpenSucceeds, StandsAt, Suspend
    <2>3. QED
      BY <2>1, <2>2
  <1>9. ASSUME NEW v \in Viewers, Begin(v)
        PROVE  StepInv' /\ Account
    BY <1>9 DEF Begin, upstream
  <1>10. ASSUME NEW v \in Viewers, Leave(v)
        PROVE  StepInv' /\ Account
    BY <1>10 DEF Leave, upstream
  <1>11. ASSUME NEW v \in Viewers, Unsubscribe(v)
        PROVE  StepInv' /\ Account
    BY <1>11 DEF Unsubscribe, upstream
  <1>12. ASSUME NEW v \in Viewers, InterruptedInQueue(v)
        PROVE  StepInv' /\ Account
    BY <1>12 DEF InterruptedInQueue, upstream
  <1>13. ASSUME NEW v \in Viewers, InterruptedInPrelude(v)
        PROVE  StepInv' /\ Account
    BY <1>13 DEF InterruptedInPrelude, upstream
  <1>14. ASSUME NEW v \in Viewers, InterruptedInCleanup(v)
        PROVE  StepInv' /\ Account
    BY <1>14 DEF InterruptedInCleanup, upstream
  <1>15. ASSUME NEW v \in Viewers, NEW s \in {"slot", "opening", "closing"}, InterruptedAt(v, s)
        PROVE  StepInv' /\ Account
    <2>1. StepInv'
      BY <1>0, <1>15, ChannelOfAssumption DEF InterruptedAt, StandsAt, Refuse, Suspend
    <2>2. CASE s = "opening"
      <3>1. Leaked(ChannelOf[v])
        BY <1>0, <1>15, <2>2, ChannelOfAssumption DEF Leaked, InterruptedAt, StandsAt, Refuse, Suspend
      <3>2. QED
        BY <2>1, <3>1, ChannelOfAssumption
    <2>3. CASE s # "opening"
      BY <1>0, <1>15, <2>1, <2>3, ChannelOfAssumption DEF InterruptedAt, StandsAt, Refuse, Suspend
    <2>4. QED
      BY <2>2, <2>3
  <1>16. ASSUME NEW ch \in Channels, LingerFires(ch)
        PROVE  StepInv' /\ Account
    BY <1>16 DEF LingerFires, upstream
  <1>17. ASSUME NEW ch \in Channels, LingerStarts(ch)
        PROVE  StepInv' /\ Account
    BY <1>17 DEF LingerStarts, upstream
  <1>18. ASSUME NEW ch \in Channels, LingerSkips(ch)
        PROVE  StepInv' /\ Account
    BY <1>18 DEF LingerSkips, upstream
  <1>19. ASSUME NEW ch \in Channels, LingerTeardown(ch)
        PROVE  StepInv' /\ Account
    BY <1>0, <1>19 DEF LingerTeardown, Enters, Suspend, upstream
  <1>20. ASSUME NEW ch \in Channels, PumpJoined(ch)
        PROVE  StepInv' /\ Account
    BY <1>0, <1>20 DEF PumpJoined, StandsAt, Suspend, upstream
  <1>21. ASSUME NEW ch \in Channels, CloseDone(ch)
        PROVE  StepInv' /\ Account
    <2>1. StepInv'
      BY <1>0, <1>21 DEF CloseDone, Suspend
    <2>2. Returned(ch)
      BY <1>0, <1>21 DEF Returned, CloseDone, Suspend
    <2>3. QED
      BY <2>1, <2>2
  <1>22. ASSUME NEW ch \in Channels, PumpEnds(ch)
        PROVE  StepInv' /\ Account
    BY <1>22 DEF PumpEnds, upstream
  <1>23. CASE UNCHANGED vars
    BY <1>23 DEF vars
  <1>24. QED
    BY <1>1, <1>2, <1>3, <1>4, <1>5, <1>6, <1>7, <1>8, <1>9, <1>10, <1>11,
       <1>12, <1>13, <1>14, <1>15, <1>16, <1>17, <1>18, <1>19, <1>20, <1>21, <1>22, <1>23,
       <1>51, <1>71 DEF Next, Subscribes, LingerTask, Interrupted

(* The accounts balance up to leaks; without an interruption of an opening *)
(* they balance.                                                           *)
Balance == /\ NeverOverReleased
           /\ "opening" \notin Interrupts => SlotsConserved

LEMMA AccountKeepsBalance ==
  ASSUME sem \in Nat, Balance, Account
  PROVE  Balance'
  <1> USE MaxStreamsAssumption DEF Balance, NeverOverReleased, SlotsConserved
  <1>1. IsFiniteSet(Holding) /\ Cardinality(Holding) \in Nat
    BY ChannelsAssumption, FS_Subset, FS_CardinalityType DEF Holding
  <1>2. CASE Kept
    BY <1>2 DEF Kept
  <1>3. ASSUME NEW ch \in Channels, Taken(ch)
        PROVE  Balance'
    <2>1. Cardinality(Holding') = Cardinality(Holding) + 1
      BY <1>1, <1>3, FS_AddElement DEF Taken
    <2>2. QED
      BY <1>1, <1>3, <2>1 DEF Taken
  <1>4. ASSUME NEW ch \in Channels, Returned(ch)
        PROVE  Balance'
    <2>1. Cardinality(Holding') = Cardinality(Holding) - 1
      BY <1>1, <1>4, FS_RemoveElement DEF Returned
    <2>2. QED
      BY <1>1, <1>4, <2>1 DEF Returned
  <1>5. ASSUME NEW ch \in Channels, Leaked(ch)
        PROVE  Balance'
    <2>1. Cardinality(Holding') <= Cardinality(Holding) /\ Cardinality(Holding') \in Nat
      <3>1. Holding' = Holding \ {ch}
        BY <1>5 DEF Leaked
      <3>2. /\ IsFiniteSet(Holding \ {ch})
            /\ Cardinality(Holding \ {ch}) = IF ch \in Holding THEN Cardinality(Holding) - 1
                                                             ELSE Cardinality(Holding)
        BY <1>1, FS_RemoveElement
      <3>3. Cardinality(Holding \ {ch}) \in Nat
        BY <3>2, FS_CardinalityType
      <3>4. Cardinality(Holding \ {ch}) <= Cardinality(Holding)
        BY <1>1, <3>2, <3>3
      <3>5. QED
        BY <3>1, <3>3, <3>4
    <2>2. QED
      BY <1>1, <1>5, <2>1 DEF Leaked
  <1>6. QED
    BY <1>2, <1>3, <1>4, <1>5 DEF Account

LEMMA SlotInvariants == Spec => [](TypeOK /\ StepInv /\ Balance)
  <1>1. Init => StepInv /\ Balance
    <2> SUFFICES ASSUME Init PROVE StepInv /\ Balance
      OBVIOUS
    <2>1. Holding = {}
      BY DEF Init, Holding
    <2>2. Cardinality(Holding) = 0
      BY <2>1, FS_EmptySet
    <2>3. QED
      BY <2>2, MaxStreamsAssumption
         DEF Init, StepInv, Balance, NeverOverReleased, SlotsConserved
  <1>2. TypeOK /\ StepInv /\ Balance /\ [Next]_vars => (StepInv /\ Balance)'
    <2> SUFFICES ASSUME TypeOK, StepInv, Balance, [Next]_vars
                 PROVE  StepInv' /\ Balance'
      OBVIOUS
    <2>1. sem \in Nat
      BY DEF TypeOK
    <2>2. QED
      BY <2>1, AccountStep, AccountKeepsBalance
  <1>3. QED
    BY <1>1, <1>2, TypeCorrect, PTL DEF Spec

(* Wherever handlers are interrupted, the device never has more upstreams  *)
(* than _MAX_STREAMS_PER_DEVICE: no path releases a slot it does not hold. *)
THEOREM NoOverRelease == Spec => []NeverOverReleased
  <1>1. Balance => NeverOverReleased
    BY DEF Balance
  <1>2. QED
    BY <1>1, SlotInvariants, PTL

(* The opening of a connection is the only await whose interruption loses  *)
(* a slot: where it is not interrupted, every slot is free or in use.      *)
THEOREM SlotsKept ==
  ASSUME "opening" \notin Interrupts
  PROVE  Spec => []SlotsConserved
  <1>1. Balance => SlotsConserved
    BY DEF Balance
  <1>2. QED
    BY <1>1, SlotInvariants, PTL

-----------------------------------------------------------------------------
(* The linger timer and its task.  What its proof rests on is the order of *)
(* the lock's queue, so that order is an invariant first.                  *)

(* Nobody waits twice, and a handler waits for its own channel's lock, in  *)
(* subscribe or in unsubscribe.                                            *)
Places ==
  \A ch \in Channels : \A i \in 1..Len(lock[ch]) :
    /\ \A j \in 1..Len(lock[ch]) : lock[ch][i] = lock[ch][j] => i = j
    /\ lock[ch][i] # Linger => /\ ChannelOf[lock[ch][i]] = ch
                               /\ pc[lock[ch][i]] \in {"sub", "leaving"}

InQueue(p, ch) == \E i \in 1..Len(lock[ch]) : lock[ch][i] = p

(* A handler keeps its queue until it unsubscribes.                        *)
Subscribed ==
  \A v \in Viewers :
    pc[v] \in {"prelude", "active", "leaving"} => v \in subs[ChannelOf[v]]

(* No timer runs for a channel that is watched or whose lock is held       *)
(* across an await.                                                        *)
TimerIdle ==
  \A ch \in Channels : subs[ch] # {} \/ step[ch] # "none" => timers[ch] = 0

(* A handler that works has seen the task that was created before it came  *)
(* start, so that the task is ahead of it in the lock's queue.             *)
TaskSeen ==
  \A v \in Viewers : pc[v] \in {"active", "leaving"} => spawned[ChannelOf[v]] = 0
TaskAhead ==
  \A ch \in Channels : \A i, j \in 1..Len(lock[ch]) :
    i < j /\ lock[ch][j] = Linger => pc[lock[ch][i]] # "leaving"

(* The timer, the task to come and the task in the queue exclude each      *)
(* other.                                                                  *)
OneOfThree ==
  \A ch \in Channels :
    /\ timers[ch] = IF linger[ch] = "armed" THEN 1 ELSE 0
    /\ spawned[ch] <= 1
    /\ timers[ch] = 1 => spawned[ch] = 0
    /\ InQueue(Linger, ch) => timers[ch] = 0 /\ spawned[ch] = 0

Order == Places /\ TaskAhead
Counts == Subscribed /\ TimerIdle /\ TaskSeen /\ OneOfThree
LingerInv == TypeOK /\ Order /\ Counts

(* What a queue, and a release or a waiter that gives up, do to the lock.  *)
Grows(p, ch) ==
  /\ \A c \in Channels \ {ch} : lock'[c] = lock[c]
  /\ Len(lock'[ch]) = Len(lock[ch]) + 1
  /\ \A i \in 1..Len(lock[ch]) : lock'[ch][i] = lock[ch][i]
  /\ lock'[ch][Len(lock[ch]) + 1] = p

Shrinks(p, ch) ==
  /\ \A c \in Channels \ {ch} : lock'[c] = lock[c]
  /\ \E k \in 1..Len(lock[ch]) :
       /\ lock[ch][k] = p
       /\ Len(lock'[ch]) = Len(lock[ch]) - 1
       /\ \A i \in 1..Len(lock'[ch]) :
            lock'[ch][i] = lock[ch][IF i < k THEN i ELSE i + 1]

LEMMA QueueGrows ==
  ASSUME TypeOK, NEW ch \in Channels, NEW p \in Viewers \cup {Linger}, Queue(p, ch)
  PROVE  Grows(p, ch)
  BY DEF TypeOK, Queue, Grows

LEMMA ReleaseShrinks ==
  ASSUME TypeOK, NEW ch \in Channels, NEW p, lock[ch] # <<>>, Head(lock[ch]) = p, Release(ch)
  PROVE  Shrinks(p, ch)
  <1>1. /\ lock[ch] \in Seq(Viewers \cup {Linger}) /\ lock'[ch] = Tail(lock[ch])
        /\ \A c \in Channels \ {ch} : lock'[c] = lock[c]
    BY DEF TypeOK, Release
  <1>2. /\ 1 \in 1..Len(lock[ch]) /\ lock[ch][1] = p
        /\ Len(lock'[ch]) = Len(lock[ch]) - 1
        /\ \A i \in 1..Len(lock'[ch]) : lock'[ch][i] = lock[ch][i + 1]
    BY <1>1
  <1>3. QED
    BY <1>1, <1>2 DEF Shrinks

LEMMA StopsWaitingShrinks ==
  ASSUME TypeOK, NEW ch \in Channels, NEW p, StopsWaiting(p, ch)
  PROVE  Shrinks(p, ch)
  <1>1. lock[ch] \in Seq(Viewers \cup {Linger})
    BY DEF TypeOK
  <1>2. PICK k \in 2..Len(lock[ch]) :
          /\ lock[ch][k] = p
          /\ lock' = [lock EXCEPT ![ch] = SubSeq(@, 1, k - 1) \o SubSeq(@, k + 1, Len(@))]
    BY DEF StopsWaiting
  <1>3. /\ lock'[ch] = SubSeq(lock[ch], 1, k - 1) \o SubSeq(lock[ch], k + 1, Len(lock[ch]))
        /\ \A c \in Channels \ {ch} : lock'[c] = lock[c]
    BY <1>2 DEF TypeOK
  <1>4. /\ Len(lock'[ch]) = Len(lock[ch]) - 1
        /\ \A i \in 1..Len(lock'[ch]) :
             lock'[ch][i] = lock[ch][IF i < k THEN i ELSE i + 1]
    BY <1>1, <1>2, <1>3
  <1>5. QED
    BY <1>2, <1>3, <1>4 DEF Shrinks

(* The order of the queue survives a newcomer that does not wait yet and,  *)
(* if it is the linger task, comes after no handler that is leaving; a     *)
(* departure; and steps of handlers that do not wait.                      *)
OthersStay(p) == \A w \in Viewers \ {p} : pc'[w] = pc[w]

LEMMA PlacesGrow ==
  ASSUME TypeOK, Order, NEW ch \in Channels, NEW p \in Viewers \cup {Linger},
         Grows(p, ch), ~InQueue(p, ch), OthersStay(p),
         p \in Viewers => ChannelOf[p] = ch /\ pc'[p] \in {"sub", "leaving"},
         p \in Viewers => pc[p] \notin {"sub", "leaving"},
         p = Linger => \A w \in Viewers : ChannelOf[w] = ch => pc[w] # "leaving"
  PROVE  Order'
  <1> USE DEF Order
  <1>0. \A c \in Channels : /\ Len(lock[c]) \in Nat
                            /\ \A i \in 1..Len(lock[c]) : lock[c][i] \in Viewers \cup {Linger}
    BY DEF TypeOK
  <1>1. ASSUME NEW c \in Channels, NEW i \in 1..Len(lock[c]), lock[c][i] # Linger
        PROVE  lock[c][i] # p /\ pc'[lock[c][i]] = pc[lock[c][i]]
    BY <1>0, <1>1, ViewersAssumption DEF Places, InQueue, OthersStay
  <1>2. Places'
    <2> SUFFICES ASSUME NEW c \in Channels, NEW i \in 1..Len(lock'[c])
                 PROVE  /\ \A j \in 1..Len(lock'[c]) : lock'[c][i] = lock'[c][j] => i = j
                        /\ lock'[c][i] # Linger => /\ ChannelOf[lock'[c][i]] = c
                                                  /\ pc'[lock'[c][i]] \in {"sub", "leaving"}
      BY DEF Places
    <2>1. CASE c # ch
      <3>1. lock'[c] = lock[c]
        BY <2>1 DEF Grows
      <3>2. QED
        BY <1>1, <3>1 DEF Places
    <2>2. CASE c = ch
      <3>1. \A j \in 1..Len(lock'[c]) :
              \/ j \in 1..Len(lock[c]) /\ lock'[c][j] = lock[c][j]
              \/ j = Len(lock[c]) + 1 /\ lock'[c][j] = p
        BY <1>0, <2>2 DEF Grows
      <3>2. \A j \in 1..Len(lock[c]) : lock[c][j] # p
        BY <2>2 DEF InQueue
      <3>3. \A j \in 1..Len(lock'[c]) : lock'[c][i] = lock'[c][j] => i = j
        BY <3>1, <3>2 DEF Places
      <3>4. CASE i \in 1..Len(lock[c]) /\ lock'[c][i] = lock[c][i]
        BY <1>1, <3>3, <3>4 DEF Places
      <3>5. CASE lock'[c][i] = p
        BY <2>2, <3>3, <3>5
      <3>6. QED
        BY <3>1, <3>4, <3>5
    <2>3. QED
      BY <2>1, <2>2
  <1>3. TaskAhead'
    <2> SUFFICES ASSUME NEW c \in Channels, NEW i \in 1..Len(lock'[c]), NEW j \in 1..Len(lock'[c]),
                        i < j, lock'[c][j] = Linger
                 PROVE  pc'[lock'[c][i]] # "leaving"
      BY DEF TaskAhead
    <2>1. CASE c # ch \/ j \in 1..Len(lock[c])
      <3>1. /\ i \in 1..Len(lock[c]) /\ j \in 1..Len(lock[c])
            /\ lock'[c][i] = lock[c][i] /\ lock'[c][j] = lock[c][j]
        BY <1>0, <2>1 DEF Grows
      <3>2. lock[c][i] # Linger
        BY <1>0, <3>1 DEF Places
      <3>3. QED
        BY <1>1, <3>1, <3>2 DEF TaskAhead
    <2>2. CASE c = ch /\ j \notin 1..Len(lock[c])
      <3>1. /\ p = Linger /\ i \in 1..Len(lock[c]) /\ lock'[c][i] = lock[c][i]
        BY <1>0, <2>2 DEF Grows
      <3>2. lock[c][i] \in Viewers /\ ChannelOf[lock[c][i]] = ch
        BY <1>0, <2>2, <3>1 DEF Places, InQueue
      <3>3. QED
        BY <1>1, <3>1, <3>2, ViewersAssumption
    <2>3. QED
      BY <2>1, <2>2
  <1>4. QED
    BY <1>2, <1>3

LEMMA PlacesShrink ==
  ASSUME TypeOK, Order, NEW ch \in Channels, NEW p \in Viewers \cup {Linger},
         Shrinks(p, ch), OthersStay(p), p \in Viewers => ChannelOf[p] = ch
  PROVE  /\ Order' /\ ~InQueue(p, ch)'
         /\ \A q : \A c \in Channels : InQueue(q, c)' => InQueue(q, c)
  <1> USE DEF Order
  <1>0. \A c \in Channels : /\ Len(lock[c]) \in Nat
                            /\ \A i \in 1..Len(lock[c]) : lock[c][i] \in Viewers \cup {Linger}
    BY DEF TypeOK
  <1>1. PICK k \in 1..Len(lock[ch]) :
          /\ lock[ch][k] = p
          /\ Len(lock'[ch]) = Len(lock[ch]) - 1
          /\ \A i \in 1..Len(lock'[ch]) :
               lock'[ch][i] = lock[ch][IF i < k THEN i ELSE i + 1]
    BY DEF Shrinks
  <1> DEFINE From(c, i) == IF c = ch /\ ~(i < k) THEN i + 1 ELSE i
  <1>2. ASSUME NEW c \in Channels, NEW i \in 1..Len(lock'[c])
        PROVE  /\ From(c, i) \in 1..Len(lock[c]) /\ lock'[c][i] = lock[c][From(c, i)]
               /\ c = ch => From(c, i) # k
               /\ From(c, i) \in Int
               /\ \A j \in 1..Len(lock'[c]) : i < j => From(c, i) < From(c, j)
    <2>1. CASE c # ch
      <3>1. lock'[c] = lock[c]
        BY <2>1 DEF Shrinks
      <3>2. \A j \in 1..Len(lock'[c]) : From(c, j) = j
        BY <2>1
      <3>3. QED
        BY <1>0, <2>1, <3>1, <3>2
    <2>2. CASE c = ch
      <3>1. /\ lock'[c][i] = lock[c][IF i < k THEN i ELSE i + 1] /\ Len(lock[c]) \in Nat
            /\ Len(lock'[c]) = Len(lock[c]) - 1 /\ k \in 1..Len(lock[c])
        BY <1>0, <1>1, <2>2
      <3>2. \A j \in 1..Len(lock'[c]) : From(c, j) = IF j < k THEN j ELSE j + 1
        BY <2>2
      <3>3. QED
        BY <3>1, <3>2
    <2>3. QED
      BY <2>1, <2>2
  <1>3. ASSUME NEW c \in Channels, NEW i \in 1..Len(lock'[c]), lock'[c][i] # Linger
        PROVE  lock'[c][i] # p /\ pc'[lock'[c][i]] = pc[lock'[c][i]]
    <2> DEFINE n == From(c, i)
    <2>1. /\ n \in 1..Len(lock[c]) /\ lock'[c][i] = lock[c][n] /\ (c = ch => n # k)
          /\ lock[c][n] \in Viewers
      BY <1>0, <1>2, <1>3
    <2> HIDE DEF n, From
    <2>2. lock[c][n] # p
      BY <1>1, <1>3, <2>1 DEF Places
    <2>3. QED
      BY <2>1, <2>2 DEF OthersStay
  <1> HIDE DEF From
  <1>4. ASSUME NEW c \in Channels, NEW i \in 1..Len(lock'[c]), NEW j \in 1..Len(lock'[c]),
               lock'[c][i] = lock'[c][j]
        PROVE  i = j
    <2>1. /\ From(c, i) \in 1..Len(lock[c]) /\ From(c, j) \in 1..Len(lock[c])
          /\ lock[c][From(c, i)] = lock[c][From(c, j)]
      BY <1>2, <1>4
    <2>2. i \in Int /\ j \in Int /\ From(c, i) \in Int /\ From(c, i) = From(c, j)
      BY <1>2, <2>1 DEF Places
    <2>3. (i < j => From(c, i) < From(c, j)) /\ (j < i => From(c, j) < From(c, i))
      BY <1>2
    <2>4. QED
      BY <2>2, <2>3
  <1>5. Places'
    BY <1>2, <1>3, <1>4 DEF Places
  <1>6. TaskAhead'
    <2> SUFFICES ASSUME NEW c \in Channels, NEW i \in 1..Len(lock'[c]), NEW j \in 1..Len(lock'[c]),
                        i < j, lock'[c][j] = Linger
                 PROVE  pc'[lock'[c][i]] # "leaving"
      BY DEF TaskAhead
    <2>1. lock'[c][i] # Linger
      BY <1>4
    <2>2. /\ From(c, i) < From(c, j) /\ From(c, i) \in 1..Len(lock[c]) /\ From(c, j) \in 1..Len(lock[c])
          /\ lock'[c][i] = lock[c][From(c, i)] /\ lock[c][From(c, j)] = Linger
      BY <1>2
    <2>3. pc[lock[c][From(c, i)]] # "leaving"
      BY <2>2 DEF TaskAhead
    <2>4. QED
      BY <1>3, <2>1, <2>2, <2>3
  <1>7. ~InQueue(p, ch)'
    <2> SUFFICES ASSUME NEW i \in 1..Len(lock'[ch]) PROVE lock'[ch][i] # p
      BY DEF InQueue
    <2>1. /\ From(ch, i) \in 1..Len(lock[ch]) /\ lock'[ch][i] = lock[ch][From(ch, i)]
          /\ From(ch, i) # k
      BY <1>2
    <2>2. QED
      BY <1>1, <2>1 DEF Places
  <1>8. \A q : \A c \in Channels : InQueue(q, c)' => InQueue(q, c)
    BY <1>2 DEF InQueue
  <1>9. QED
    BY <1>5, <1>6, <1>7, <1>8

LEMMA PlacesSame ==
  ASSUME TypeOK, Order, lock' = lock,
         \A v \in Viewers : pc[v] \in {"sub", "leaving"} => pc'[v] = pc[v]
  PROVE  Order'
  <1> USE DEF Order
  <1>0. \A c \in Channels : \A i \in 1..Len(lock[c]) : lock[c][i] \in Viewers \cup {Linger}
    BY DEF TypeOK
  <1>1. Places'
    BY <1>0 DEF Places
  <1>2. \A c \in Channels : Len(lock[c]) \in Nat
    BY DEF TypeOK
  <1>3. TaskAhead'
    BY <1>0, <1>2 DEF TaskAhead, Places
  <1>4. QED
    BY <1>1, <1>3

LEMMA GrowsKeeps ==
  ASSUME TypeOK, NEW ch \in Channels, NEW p, Grows(p, ch)
  PROVE  /\ \A q : \A c \in Channels : q # p /\ InQueue(q, c)' => InQueue(q, c)
         /\ \A q : \A c \in Channels \ {ch} : InQueue(q, c)' => InQueue(q, c)
  <1>1. Len(lock[ch]) \in Nat
    BY DEF TypeOK
  <1>2. QED
    BY <1>1 DEF Grows, InQueue

(* Whoever else waits now has waited before.                               *)
OnlyNew(p) == \A q : \A c \in Channels : q # p /\ InQueue(q, c)' => InQueue(q, c)

LEMMA LingerStep ==
  ASSUME LingerInv, [Next]_vars
  PROVE  Order' /\ Counts'
  <1>0. /\ TypeOK /\ Order
        /\ subs \in [Channels -> SUBSET Viewers]
        /\ lock \in [Channels -> Seq(Viewers \cup {Linger})]
        /\ step \in [Channels -> {"none", "join", "closing", "slot", "granted", "opening"}]
        /\ linger \in [Channels -> {"none", "armed", "fired"}]
        /\ timers \in [Channels -> Nat]
        /\ spawned \in [Channels -> Nat]
        /\ pc \in [Viewers -> ViewerStates]
        /\ \A v \in Viewers : ChannelOf[v] \in Channels
    BY ChannelOfAssumption DEF LingerInv, TypeOK
  <1> USE DEF LingerInv, Counts, Subscribed, TimerIdle, TaskSeen, OneOfThree
  <1>1. ASSUME NEW v \in Viewers, Arrive(v)
        PROVE  Order' /\ Counts'
    <2>1. Grows(v, ChannelOf[v]) /\ ~InQueue(v, ChannelOf[v])
      <3>1. Grows(v, ChannelOf[v])
        BY <1>0, <1>1, QueueGrows DEF Arrive
      <3>2. pc[v] \notin {"sub", "leaving"}
        BY <1>1 DEF Arrive
      <3>3. ~InQueue(v, ChannelOf[v])
        BY <1>0, <3>2, ViewersAssumption DEF InQueue, Places, Order
      <3>4. QED
        BY <3>1, <3>3
    <2>2. Order' /\ OnlyNew(v)
      BY <1>0, <1>1, <2>1, ChannelOfAssumption, ViewersAssumption, PlacesGrow, GrowsKeeps
         DEF Arrive, OthersStay, OnlyNew
    <2>3. QED
      BY <1>0, <1>1, <2>2, ViewersAssumption DEF Arrive, timing, OnlyNew
  <1>2. ASSUME NEW v \in Viewers, JoinUpstream(v)
        PROVE  Order' /\ Counts'
    <2>1. Shrinks(v, ChannelOf[v])
      BY <1>0, <1>2, ReleaseShrinks, ChannelOfAssumption DEF JoinUpstream, Enters
    <2>2. Order' /\ OnlyNew(v)
      BY <1>0, <1>2, <2>1, ChannelOfAssumption, PlacesShrink DEF JoinUpstream, OthersStay, OnlyNew, Attach
    <2>3. QED
      BY <1>0, <1>2, <2>2, ChannelOfAssumption, ViewersAssumption DEF JoinUpstream, timing, OnlyNew, Enters, CancelLinger, Attach
  <1>3. ASSUME NEW v \in Viewers, DropDeadUpstream(v)
        PROVE  Order' /\ Counts'
    <2>1. Order'
      BY <1>0, <1>3, PlacesSame DEF DropDeadUpstream
    <2>2. QED
      BY <1>0, <1>3, <2>1, ChannelOfAssumption DEF DropDeadUpstream, timing, Enters, CancelLinger, Suspend, InQueue
  <1>4. ASSUME NEW v \in Viewers, AskForSlot(v)
        PROVE  Order' /\ Counts'
    <2>1. Order'
      BY <1>0, <1>4, PlacesSame DEF AskForSlot
    <2>2. QED
      BY <1>0, <1>4, <2>1, ChannelOfAssumption DEF AskForSlot, timing, Enters, CancelLinger, Suspend, InQueue
  <1>5. ASSUME NEW v \in Viewers, GrantSlot(v)
        PROVE  Order' /\ Counts'
    <2>1. Order'
      BY <1>0, <1>5, PlacesSame DEF GrantSlot
    <2>2. QED
      BY <1>0, <1>5, <2>1, ChannelOfAssumption DEF GrantSlot, timing, StandsAt, Suspend, InQueue
  <1>51. ASSUME NEW v \in Viewers, AcquireSlot(v)
        PROVE  Order' /\ Counts'
    <2>1. Order'
      BY <1>0, <1>51, PlacesSame DEF AcquireSlot
    <2>2. QED
      BY <1>0, <1>51, <2>1, ChannelOfAssumption DEF AcquireSlot, timing, StandsAt, Suspend, InQueue
  <1>6. ASSUME NEW v \in Viewers, SlotTimeout(v)
        PROVE  Order' /\ Counts'
    <2>1. Shrinks(v, ChannelOf[v])
      BY <1>0, <1>6, ReleaseShrinks, ChannelOfAssumption DEF SlotTimeout, StandsAt, Refuse
    <2>2. Order' /\ OnlyNew(v)
      BY <1>0, <1>6, <2>1, ChannelOfAssumption, PlacesShrink DEF SlotTimeout, OthersStay, OnlyNew, Refuse
    <2>3. QED
      BY <1>0, <1>6, <2>2, ChannelOfAssumption, ViewersAssumption DEF SlotTimeout, timing, OnlyNew, StandsAt, Refuse, Suspend
  <1>7. ASSUME NEW v \in Viewers, OpenFails(v)
        PROVE  Order' /\ Counts'
    <2>1. Shrinks(v, ChannelOf[v])
      BY <1>0, <1>7, ReleaseShrinks, ChannelOfAssumption DEF OpenFails, StandsAt, Refuse
    <2>2. Order' /\ OnlyNew(v)
      BY <1>0, <1>7, <2>1, ChannelOfAssumption, PlacesShrink DEF OpenFails, OthersStay, OnlyNew, Refuse
    <2>3. QED
      BY <1>0, <1>7, <2>2, ChannelOfAssumption, ViewersAssumption DEF OpenFails, timing, OnlyNew, StandsAt, Refuse, Suspend
  <1>71. ASSUME NEW v \in Viewers, SlotTooLate(v)
        PROVE  Order' /\ Counts'
    <2>1. Shrinks(v, ChannelOf[v])
      BY <1>0, <1>71, ReleaseShrinks, ChannelOfAssumption DEF SlotTooLate, StandsAt, Refuse
    <2>2. Order' /\ OnlyNew(v)
      BY <1>0, <1>71, <2>1, ChannelOfAssumption, PlacesShrink DEF SlotTooLate, OthersStay, OnlyNew, Refuse
    <2>3. QED
      BY <1>0, <1>71, <2>2, ChannelOfAssumption, ViewersAssumption DEF SlotTooLate, timing, OnlyNew, StandsAt, Refuse, Suspend
  <1>8. ASSUME NEW v \in Viewers, OpenSucceeds(v)
        PROVE  Order' /\ Counts'
    <2>1. Shrinks(v, ChannelOf[v])
      BY <1>0, <1>8, ReleaseShrinks, ChannelOfAssumption DEF OpenSucceeds, StandsAt
    <2>2. Order' /\ OnlyNew(v)
      BY <1>0, <1>8, <2>1, ChannelOfAssumption, PlacesShrink DEF OpenSucceeds, OthersStay, OnlyNew, Attach
    <2>3. QED
      BY <1>0, <1>8, <2>2, ChannelOfAssumption, ViewersAssumption DEF OpenSucceeds, timing, OnlyNew, StandsAt, Attach, Suspend
  <1>9. ASSUME NEW v \in Viewers, Begin(v)
        PROVE  Order' /\ Counts'
    <2>1. Order'
      BY <1>0, <1>9, PlacesSame DEF Begin
    <2>2. QED
      BY <1>0, <1>9, <2>1, ChannelOfAssumption DEF Begin, timing, InQueue
  <1>10. ASSUME NEW v \in Viewers, Leave(v)
        PROVE  Order' /\ Counts'
    <2>1. Grows(v, ChannelOf[v]) /\ ~InQueue(v, ChannelOf[v])
      <3>1. Grows(v, ChannelOf[v])
        BY <1>0, <1>10, QueueGrows DEF Leave
      <3>2. pc[v] \notin {"sub", "leaving"}
        BY <1>10 DEF Leave
      <3>3. ~InQueue(v, ChannelOf[v])
        BY <1>0, <3>2, ViewersAssumption DEF InQueue, Places, Order
      <3>4. QED
        BY <3>1, <3>3
    <2>2. Order' /\ OnlyNew(v)
      BY <1>0, <1>10, <2>1, ChannelOfAssumption, ViewersAssumption, PlacesGrow, GrowsKeeps
         DEF Leave, OthersStay, OnlyNew
    <2>3. QED
      BY <1>0, <1>10, <2>2, ViewersAssumption DEF Leave, timing, OnlyNew
  <1>11. ASSUME NEW v \in Viewers, Unsubscribe(v)
        PROVE  Order' /\ Counts'
    <2> DEFINE at == ChannelOf[v]
    <2>0. at \in Channels /\ lock[at] # <<>> /\ Head(lock[at]) = v /\ pc[v] = "leaving"
      BY <1>11, ChannelOfAssumption DEF Unsubscribe, Enters
    <2>1. Shrinks(v, at)
      BY <1>0, <1>11, <2>0, ReleaseShrinks DEF Unsubscribe
    <2>2. Order' /\ OnlyNew(v)
      BY <1>0, <1>11, <2>1, ChannelOfAssumption, PlacesShrink DEF Unsubscribe, OthersStay, OnlyNew
    <2>3. ~InQueue(Linger, at)
      <3>1. lock[at] \in Seq(Viewers \cup {Linger}) /\ lock[at][1] = v /\ 1 \in 1..Len(lock[at])
        BY <1>0, <2>0
      <3>2. \A j \in 1..Len(lock[at]) : j = 1 \/ 1 < j
        BY <3>1
      <3>3. QED
        BY <2>0, <3>1, <3>2, ViewersAssumption DEF InQueue, Order, TaskAhead
    <2>4. v \in subs[at] /\ timers[at] = 0 /\ spawned[at] = 0
      BY <1>0, <2>0
    <2>5. Subscribed' /\ TaskSeen'
      BY <1>0, <1>11, <2>0 DEF Unsubscribe
    <2>6. /\ subs' = [subs EXCEPT ![at] = subs[at] \ {v}]
          /\ UNCHANGED <<step, spawned>> /\ step[at] = "none"
          /\ \/ /\ subs[at] \ {v} = {}
                /\ linger' = [linger EXCEPT ![at] = "armed"]
                /\ timers' = [timers EXCEPT ![at] = 1]
             \/ UNCHANGED <<linger, timers>>
      <3>1. CASE subs[at] \ {v} = {} /\ lan[at]
        <4>1. /\ linger' = [linger EXCEPT ![at] = "armed"]
              /\ timers' = [timers EXCEPT ![at] = @ + 1]
          BY <1>11, <3>1 DEF Unsubscribe
        <4>2. timers' = [timers EXCEPT ![at] = 1]
          BY <1>0, <2>0, <2>4, <4>1
        <4>3. QED
          BY <1>11, <3>1, <4>1, <4>2 DEF Unsubscribe, Enters
      <3>2. CASE ~(subs[at] \ {v} = {} /\ lan[at])
        <4>1. linger' = linger /\ timers' = timers
          BY <1>0, <1>11, <3>2 DEF Unsubscribe
        <4>2. QED
          BY <1>11, <4>1 DEF Unsubscribe, Enters
      <3>3. QED
        BY <3>1, <3>2
    <2>7. TimerIdle' /\ OneOfThree'
      BY <1>0, <2>0, <2>2, <2>3, <2>4, <2>6, ViewersAssumption DEF OnlyNew
    <2>8. QED
      BY <2>2, <2>5, <2>7
  <1>12. ASSUME NEW v \in Viewers, InterruptedInQueue(v)
        PROVE  Order' /\ Counts'
    <2>1. Shrinks(v, ChannelOf[v])
      BY <1>0, <1>12, StopsWaitingShrinks, ChannelOfAssumption DEF InterruptedInQueue
    <2>2. Order' /\ OnlyNew(v)
      BY <1>0, <1>12, <2>1, ChannelOfAssumption, PlacesShrink DEF InterruptedInQueue, OthersStay, OnlyNew
    <2>3. QED
      BY <1>0, <1>12, <2>2, ChannelOfAssumption, ViewersAssumption DEF InterruptedInQueue, timing, OnlyNew
  <1>13. ASSUME NEW v \in Viewers, InterruptedInPrelude(v)
        PROVE  Order' /\ Counts'
    <2>1. Order'
      BY <1>0, <1>13, PlacesSame DEF InterruptedInPrelude
    <2>2. QED
      BY <1>0, <1>13, <2>1, ChannelOfAssumption DEF InterruptedInPrelude, timing, InQueue
  <1>14. ASSUME NEW v \in Viewers, InterruptedInCleanup(v)
        PROVE  Order' /\ Counts'
    <2>1. Shrinks(v, ChannelOf[v])
      BY <1>0, <1>14, StopsWaitingShrinks, ChannelOfAssumption DEF InterruptedInCleanup
    <2>2. Order' /\ OnlyNew(v)
      BY <1>0, <1>14, <2>1, ChannelOfAssumption, PlacesShrink DEF InterruptedInCleanup, OthersStay, OnlyNew
    <2>3. QED
      BY <1>0, <1>14, <2>2, ChannelOfAssumption, ViewersAssumption DEF InterruptedInCleanup, timing, OnlyNew
  <1>15. ASSUME NEW v \in Viewers, NEW s \in {"slot", "opening", "closing"}, InterruptedAt(v, s)
        PROVE  Order' /\ Counts'
    <2>1. Shrinks(v, ChannelOf[v])
      BY <1>0, <1>15, ReleaseShrinks, ChannelOfAssumption DEF InterruptedAt, StandsAt, Refuse
    <2>2. Order' /\ OnlyNew(v)
      BY <1>0, <1>15, <2>1, ChannelOfAssumption, PlacesShrink DEF InterruptedAt, OthersStay, OnlyNew, Refuse
    <2>3. QED
      BY <1>0, <1>15, <2>2, ChannelOfAssumption, ViewersAssumption DEF InterruptedAt, timing, OnlyNew, StandsAt, Refuse, Suspend
  <1>16. ASSUME NEW ch \in Channels, LingerFires(ch)
        PROVE  Order' /\ Counts'
    <2>1. Order'
      BY <1>0, <1>16, PlacesSame DEF LingerFires
    <2>2. QED
      BY <1>0, <1>16, <2>1, ChannelOfAssumption DEF LingerFires, timing, InQueue
  <1>17. ASSUME NEW ch \in Channels, LingerStarts(ch)
        PROVE  Order' /\ Counts'
    <2>1. /\ spawned[ch] = 1 /\ timers[ch] = 0 /\ ~InQueue(Linger, ch)
          /\ spawned' = [spawned EXCEPT ![ch] = 0]
          /\ UNCHANGED <<subs, step, linger, timers, pc>>
      <3>1. /\ spawned[ch] > 0 /\ spawned' = [spawned EXCEPT ![ch] = @ - 1]
            /\ UNCHANGED <<subs, step, linger, timers, pc>>
        BY <1>17 DEF LingerStarts
      <3>2. spawned[ch] = 1
        BY <1>0, <3>1
      <3>3. ~InQueue(Linger, ch) /\ timers[ch] = 0
        BY <1>0, <3>2
      <3>4. QED
        BY <1>0, <3>1, <3>2, <3>3
    <2>2. Grows(Linger, ch)
      BY <1>0, <1>17, QueueGrows DEF LingerStarts
    <2>3. \A w \in Viewers : ChannelOf[w] = ch => pc[w] # "leaving"
      BY <2>1, <1>0
    <2>4. Order' /\ \A c \in Channels \ {ch} : InQueue(Linger, c)' => InQueue(Linger, c)
      BY <1>0, <2>1, <2>2, <2>3, ViewersAssumption, PlacesGrow, GrowsKeeps DEF OthersStay
    <2>5. QED
      BY <1>0, <2>1, <2>4
  <1>18. ASSUME NEW ch \in Channels, LingerSkips(ch)
        PROVE  Order' /\ Counts'
    <2>1. Shrinks(Linger, ch) /\ InQueue(Linger, ch)
      BY <1>0, <1>18, ReleaseShrinks DEF LingerSkips, Enters, InQueue
    <2>2. Order' /\ OnlyNew(Linger)
      BY <1>0, <1>18, <2>1, ViewersAssumption, PlacesShrink DEF LingerSkips, OthersStay, OnlyNew
    <2>3. \A c \in Channels : InQueue(Linger, c)' => InQueue(Linger, c)
      BY <1>0, <1>18, <2>1, ViewersAssumption, PlacesShrink DEF LingerSkips, OthersStay
    <2>4. QED
      BY <1>0, <1>18, <2>1, <2>2, <2>3 DEF LingerSkips
  <1>19. ASSUME NEW ch \in Channels, LingerTeardown(ch)
        PROVE  Order' /\ Counts'
    <2>1. Order'
      BY <1>0, <1>19, PlacesSame DEF LingerTeardown
    <2>2. InQueue(Linger, ch)
      BY <1>0, <1>19 DEF LingerTeardown, Enters, InQueue
    <2>3. /\ linger' = [linger EXCEPT ![ch] = "none"]
          /\ step' = [step EXCEPT ![ch] = "join"] \/ step' = [step EXCEPT ![ch] = "closing"]
          /\ UNCHANGED <<subs, lock, timers, spawned, pc>>
      BY <1>19 DEF LingerTeardown, Suspend
    <2>4. \A c \in Channels : InQueue(Linger, c)' <=> InQueue(Linger, c)
      BY <2>3 DEF InQueue
    <2>5. QED
      BY <1>0, <2>1, <2>2, <2>3, <2>4
  <1>20. ASSUME NEW ch \in Channels, PumpJoined(ch)
        PROVE  Order' /\ Counts'
    <2>1. Order'
      BY <1>0, <1>20, PlacesSame DEF PumpJoined
    <2>2. QED
      BY <1>0, <1>20, <2>1, ChannelOfAssumption DEF PumpJoined, timing, StandsAt, Suspend, InQueue
  <1>21. ASSUME NEW ch \in Channels, CloseDone(ch)
        PROVE  Order' /\ Counts'
    <2>1. /\ UNCHANGED <<subs, timing, pc>> /\ step[ch] = "closing"
          /\ step' = [step EXCEPT ![ch] = "none"] \/ step' = [step EXCEPT ![ch] = "slot"]
      BY <1>21 DEF CloseDone, Suspend
    <2>2. Order' /\ \A c \in Channels : InQueue(Linger, c)' => InQueue(Linger, c)
      <3>1. CASE lock[ch] # <<>> /\ Head(lock[ch]) = Linger
        <4>1. Shrinks(Linger, ch)
          BY <1>0, <1>21, <3>1, ReleaseShrinks DEF CloseDone
        <4>2. QED
          BY <1>0, <2>1, <4>1, ViewersAssumption, PlacesShrink DEF OthersStay
      <3>2. CASE ~(lock[ch] # <<>> /\ Head(lock[ch]) = Linger)
        <4>1. lock' = lock
          BY <1>21, <3>2 DEF CloseDone
        <4>2. QED
          BY <1>0, <2>1, <4>1, PlacesSame DEF InQueue
      <3>3. QED
        BY <3>1, <3>2
    <2>3. QED
      BY <1>0, <2>1, <2>2 DEF timing
  <1>22. ASSUME NEW ch \in Channels, PumpEnds(ch)
        PROVE  Order' /\ Counts'
    <2>1. Order'
      BY <1>0, <1>22, PlacesSame DEF PumpEnds
    <2>2. QED
      BY <1>0, <1>22, <2>1, ChannelOfAssumption DEF PumpEnds, timing, InQueue
  <1>23. CASE UNCHANGED vars
    <2>1. Order'
      BY <1>0, <1>23, PlacesSame DEF vars
    <2>2. QED
      BY <1>0, <1>23, <2>1 DEF vars, InQueue
  <1>24. QED
    BY <1>1, <1>2, <1>3, <1>4, <1>5, <1>6, <1>7, <1>8, <1>9, <1>10, <1>11,
       <1>12, <1>13, <1>14, <1>15, <1>16, <1>17, <1>18, <1>19, <1>20, <1>21, <1>22, <1>23,
       <1>51, <1>71 DEF Next, Subscribes, LingerTask, Interrupted

LEMMA LingerInvariant == Spec => []LingerInv
  <1>1. Init => Order /\ Counts
    BY MaxStreamsAssumption
       DEF Init, Order, Places, TaskAhead, Counts, Subscribed, TimerIdle, TaskSeen, OneOfThree, InQueue
  <1>2. TypeOK /\ Order /\ Counts /\ [Next]_vars => (Order /\ Counts)'
    BY LingerStep DEF LingerInv
  <1>3. TypeOK /\ Order /\ Counts => LingerInv
    BY DEF LingerInv
  <1>4. QED
    BY <1>1, <1>2, <1>3, TypeCorrect, PTL DEF Spec

(* Wherever handlers are interrupted, a channel has one linger timer or    *)
(* task at most, and the timer is the one the next subscribe cancels.      *)
THEOREM LingersOnce == Spec => []OneLinger
  <1>1. LingerInv => OneLinger
    <2> SUFFICES ASSUME LingerInv, NEW ch \in Channels
                 PROVE  /\ timers[ch] = IF linger[ch] = "armed" THEN 1 ELSE 0
                        /\ timers[ch] + spawned[ch]
                             + Cardinality({i \in DOMAIN lock[ch] : lock[ch][i] = Linger}) <= 1
      BY DEF OneLinger
    <2> DEFINE tasks == {i \in DOMAIN lock[ch] : lock[ch][i] = Linger}
    <2>1. /\ timers[ch] \in Nat /\ spawned[ch] \in Nat /\ DOMAIN lock[ch] = 1..Len(lock[ch])
          /\ timers[ch] = IF linger[ch] = "armed" THEN 1 ELSE 0
          /\ spawned[ch] <= 1 /\ (timers[ch] = 1 => spawned[ch] = 0)
          /\ InQueue(Linger, ch) => timers[ch] = 0 /\ spawned[ch] = 0
      BY DEF LingerInv, TypeOK, Counts, OneOfThree
    <2>2. CASE InQueue(Linger, ch)
      <3>1. PICK i \in 1..Len(lock[ch]) : lock[ch][i] = Linger
        BY <2>2 DEF InQueue
      <3>2. tasks = {i}
        BY <2>1, <3>1 DEF LingerInv, Order, Places
      <3>3. Cardinality(tasks) = 1
        BY <3>2, FS_Singleton
      <3>4. QED
        BY <2>1, <2>2, <3>3
    <2>3. CASE ~InQueue(Linger, ch)
      <3>1. tasks = {}
        BY <2>1, <2>3 DEF InQueue
      <3>2. Cardinality(tasks) = 0
        BY <3>1, FS_EmptySet
      <3>3. QED
        BY <2>1, <3>2
    <2>4. QED
      BY <2>2, <2>3
  <1>2. QED
    BY <1>1, LingerInvariant, PTL

(* While a linger task tears down, the lock keeps out whoever would attach *)
(* a queue: its owner stays the owner, whoever joins or leaves the line.   *)
Owned == \A ch \in Channels : step[ch] # "none" => lock[ch] # <<>>

TeardownInv == TypeOK /\ Owned /\ CancelsOnlyUnwatched

(* The owner of every lock that has one keeps it.                          *)
OwnersStay ==
  \A c \in Channels : lock[c] # <<>> => lock'[c] # <<>> /\ Head(lock'[c]) = Head(lock[c])

LEMMA QueueOwners ==
  ASSUME TypeOK, NEW ch \in Channels, NEW p \in Viewers \cup {Linger}, Queue(p, ch)
  PROVE  OwnersStay
  BY DEF TypeOK, Queue, OwnersStay

LEMMA StopsWaitingOwners ==
  ASSUME TypeOK, NEW ch \in Channels, NEW p, StopsWaiting(p, ch)
  PROVE  OwnersStay
  <1>1. PICK i \in 2..Len(lock[ch]) :
          lock' = [lock EXCEPT ![ch] = SubSeq(@, 1, i - 1) \o SubSeq(@, i + 1, Len(@))]
    BY DEF StopsWaiting
  <1>2. /\ lock[ch] \in Seq(Viewers \cup {Linger})
        /\ lock'[ch] = SubSeq(lock[ch], 1, i - 1) \o SubSeq(lock[ch], i + 1, Len(lock[ch]))
        /\ \A c \in Channels \ {ch} : lock'[c] = lock[c]
    BY <1>1 DEF TypeOK
  <1>3. Len(lock'[ch]) >= 1 /\ lock'[ch][1] = lock[ch][1] /\ lock'[ch] \in Seq(Viewers \cup {Linger})
    BY <1>1, <1>2
  <1>4. lock'[ch] # <<>> /\ Head(lock'[ch]) = Head(lock[ch])
    BY <1>2, <1>3
  <1>5. QED
    BY <1>2, <1>4 DEF OwnersStay

(* Steps at no lock, and steps of the owner of one.                        *)
LEMMA OwnerKept ==
  ASSUME Owned, CancelsOnlyUnwatched, OwnersStay \/ lock' = lock, UNCHANGED <<step, subs>>
  PROVE  Owned' /\ CancelsOnlyUnwatched'
  BY DEF Owned, CancelsOnlyUnwatched, OwnersStay, StandsAt

LEMMA OwnerReleases ==
  ASSUME TypeOK, Owned, CancelsOnlyUnwatched, NEW ch \in Channels,
         \A c \in Channels \ {ch} : lock'[c] = lock[c] /\ step'[c] = step[c] /\ subs'[c] = subs[c],
         step'[ch] = "none"
  PROVE  Owned' /\ CancelsOnlyUnwatched'
  BY DEF Owned, CancelsOnlyUnwatched, StandsAt

LEMMA OwnerMoves ==
  ASSUME TypeOK, Owned, CancelsOnlyUnwatched, NEW ch \in Channels,
         lock[ch] # <<>>, lock' = lock, subs' = subs, NEW s, Suspend(ch, s),
         Head(lock[ch]) = Linger /\ s \in {"join", "closing"} => subs[ch] = {}
  PROVE  Owned' /\ CancelsOnlyUnwatched'
  BY DEF TypeOK, Owned, CancelsOnlyUnwatched, StandsAt, Suspend

LEMMA TeardownStep ==
  ASSUME TeardownInv, [Next]_vars
  PROVE  Owned' /\ CancelsOnlyUnwatched'
  <1>0. /\ TypeOK /\ Owned /\ CancelsOnlyUnwatched
        /\ \A v \in Viewers : ChannelOf[v] \in Channels
        /\ lock \in [Channels -> Seq(Viewers \cup {Linger})]
        /\ step \in [Channels -> {"none", "join", "closing", "slot", "granted", "opening"}]
        /\ subs \in [Channels -> SUBSET Viewers]
    BY ChannelOfAssumption DEF TeardownInv, TypeOK
  <1>1. ASSUME NEW v \in Viewers, Arrive(v) \/ Leave(v)
        PROVE  Owned' /\ CancelsOnlyUnwatched'
    <2>1. Queue(v, ChannelOf[v]) /\ UNCHANGED <<step, subs>>
      BY <1>1 DEF Arrive, Leave
    <2>2. OwnersStay
      BY <1>0, <2>1, QueueOwners
    <2>3. QED
      BY <1>0, <2>1, <2>2, OwnerKept
  <1>2. ASSUME NEW v \in Viewers, InterruptedInQueue(v) \/ InterruptedInCleanup(v)
        PROVE  Owned' /\ CancelsOnlyUnwatched'
    <2>1. StopsWaiting(v, ChannelOf[v]) /\ UNCHANGED <<step, subs>>
      BY <1>2 DEF InterruptedInQueue, InterruptedInCleanup
    <2>2. OwnersStay
      BY <1>0, <2>1, StopsWaitingOwners
    <2>3. QED
      BY <1>0, <2>1, <2>2, OwnerKept
  <1>3. ASSUME NEW ch \in Channels, LingerStarts(ch)
        PROVE  Owned' /\ CancelsOnlyUnwatched'
    <2>1. Queue(Linger, ch) /\ UNCHANGED <<step, subs>>
      BY <1>3 DEF LingerStarts
    <2>2. OwnersStay
      BY <1>0, <2>1, QueueOwners
    <2>3. QED
      BY <1>0, <2>1, <2>2, OwnerKept
  <1>4. ASSUME NEW v \in Viewers, Begin(v) \/ InterruptedInPrelude(v)
        PROVE  Owned' /\ CancelsOnlyUnwatched'
    BY <1>0, <1>4, OwnerKept DEF Begin, InterruptedInPrelude
  <1>5. ASSUME NEW ch \in Channels, LingerFires(ch) \/ PumpEnds(ch)
        PROVE  Owned' /\ CancelsOnlyUnwatched'
    BY <1>0, <1>5, OwnerKept DEF LingerFires, PumpEnds
  <1>6. ASSUME NEW v \in Viewers,
               DropDeadUpstream(v) \/ AskForSlot(v) \/ GrantSlot(v) \/ AcquireSlot(v)
        PROVE  Owned' /\ CancelsOnlyUnwatched'
    <2>1. /\ lock[ChannelOf[v]] # <<>> /\ Head(lock[ChannelOf[v]]) = v
          /\ lock' = lock /\ subs' = subs
          /\ \E s \in {"closing", "slot", "granted", "opening"} : Suspend(ChannelOf[v], s)
      BY <1>6 DEF DropDeadUpstream, AskForSlot, GrantSlot, AcquireSlot, Enters, StandsAt
    <2>2. v # Linger
      BY ViewersAssumption
    <2>3. QED
      BY <1>0, <2>1, <2>2, OwnerMoves
  <1>7. ASSUME NEW v \in Viewers,
               JoinUpstream(v) \/ OpenSucceeds(v) \/ Unsubscribe(v)
        PROVE  Owned' /\ CancelsOnlyUnwatched'
    <2>1. /\ Release(ChannelOf[v]) /\ step'[ChannelOf[v]] = "none"
          /\ \A c \in Channels \ {ChannelOf[v]} : step'[c] = step[c] /\ subs'[c] = subs[c]
      BY <1>0, <1>7 DEF JoinUpstream, OpenSucceeds, Unsubscribe, Enters, Attach, Suspend, upstream
    <2>2. QED
      BY <1>0, <2>1, OwnerReleases DEF Release
  <1>8. ASSUME NEW v \in Viewers,
               \/ SlotTimeout(v) \/ SlotTooLate(v) \/ OpenFails(v)
               \/ \E s \in {"slot", "opening", "closing"} : InterruptedAt(v, s)
        PROVE  Owned' /\ CancelsOnlyUnwatched'
    <2>1. Refuse(v)
      BY <1>8 DEF SlotTimeout, SlotTooLate, OpenFails, InterruptedAt
    <2>2. /\ Release(ChannelOf[v]) /\ step'[ChannelOf[v]] = "none" /\ subs' = subs
          /\ \A c \in Channels \ {ChannelOf[v]} : step'[c] = step[c]
      BY <1>0, <2>1 DEF Refuse, Suspend
    <2>3. QED
      BY <1>0, <2>2, OwnerReleases DEF Release
  <1>9. ASSUME NEW ch \in Channels, LingerSkips(ch)
        PROVE  Owned' /\ CancelsOnlyUnwatched'
    BY <1>0, <1>9, OwnerReleases DEF LingerSkips, Enters, Release
  <1>10. ASSUME NEW ch \in Channels, LingerTeardown(ch)
        PROVE  Owned' /\ CancelsOnlyUnwatched'
    <2>1. /\ lock[ch] # <<>> /\ lock' = lock /\ subs' = subs /\ subs[ch] = {}
          /\ Suspend(ch, "join") \/ Suspend(ch, "closing")
      BY <1>10 DEF LingerTeardown, Enters
    <2>2. QED
      BY <1>0, <2>1, OwnerMoves
  <1>11. ASSUME NEW ch \in Channels, PumpJoined(ch)
        PROVE  Owned' /\ CancelsOnlyUnwatched'
    <2>1. /\ lock[ch] # <<>> /\ lock' = lock /\ subs' = subs /\ subs[ch] = {}
          /\ Suspend(ch, "closing")
      BY <1>0, <1>11 DEF PumpJoined, StandsAt, CancelsOnlyUnwatched
    <2>2. QED
      BY <1>0, <2>1, OwnerMoves
  <1>12. ASSUME NEW ch \in Channels, CloseDone(ch)
        PROVE  Owned' /\ CancelsOnlyUnwatched'
    <2>1. CASE lock[ch] # <<>> /\ Head(lock[ch]) = Linger
      <3>1. Suspend(ch, "none") /\ Release(ch) /\ subs' = subs
        BY <1>12, <2>1 DEF CloseDone
      <3>2. QED
        BY <1>0, <3>1, OwnerReleases DEF Release, Suspend
    <2>2. CASE ~(lock[ch] # <<>> /\ Head(lock[ch]) = Linger)
      <3>1. Suspend(ch, "slot") /\ lock' = lock /\ subs' = subs /\ lock[ch] # <<>>
        BY <1>0, <1>12, <2>2 DEF CloseDone, Owned
      <3>2. QED
        BY <1>0, <3>1, OwnerMoves
    <2>3. QED
      BY <2>1, <2>2
  <1>13. CASE UNCHANGED vars
    BY <1>0, <1>13, OwnerKept DEF vars
  <1>14. QED
    BY <1>1, <1>2, <1>3, <1>4, <1>5, <1>6, <1>7, <1>8, <1>9, <1>10, <1>11, <1>12, <1>13
       DEF Next, Subscribes, LingerTask, Interrupted

(* Wherever handlers are interrupted, nobody is handed a queue of an       *)
(* upstream while the linger task gives it up, from the cancellation of    *)
(* the pump to the end of the close.                                       *)
THEOREM CancelsUnwatched == Spec => []CancelsOnlyUnwatched
  <1>1. Init => Owned /\ CancelsOnlyUnwatched
    BY DEF Init, Owned, CancelsOnlyUnwatched, StandsAt
  <1>2. TypeOK /\ Owned /\ CancelsOnlyUnwatched /\ [Next]_vars
          => (Owned /\ CancelsOnlyUnwatched)'
    BY TeardownStep DEF TeardownInv
  <1>3. QED
    BY <1>1, <1>2, TypeCorrect, PTL DEF Spec

(* The warning of _open can lie only by a leaked slot: where no opening is *)
(* interrupted, a subscribe gives up only when all slots are in use.       *)
THEOREM WarningTrue ==
  ASSUME "opening" \notin Interrupts
  PROVE  Spec => TimeoutMeansBusy
  <1>1. TypeOK /\ StepInv /\ Balance /\ [Next]_vars
          => [\A v \in Viewers : SlotTimeout(v) => Cardinality(Holding) = MaxStreams]_vars
    <2>1. Cardinality(Holding) \in Nat
      BY ChannelsAssumption, FS_Subset, FS_CardinalityType DEF Holding
    <2>2. QED
      BY <2>1, MaxStreamsAssumption DEF Balance, SlotsConserved, SlotTimeout
  <1>2. QED
    BY <1>1, SlotInvariants, PTL DEF Spec, TimeoutMeansBusy

-----------------------------------------------------------------------------
(* The feed, and the promise of SharedUpstream.                            *)

(* The pump exists exactly while the channel is connected and nobody is    *)
(* tearing it down; a queue is attached to its own channel.                *)
Pumped ==
  \A ch \in Channels :
    /\ step[ch] \in {"none", "slot", "granted", "opening"} => (lan[ch] <=> pump[ch] # "none")
    /\ step[ch] = "join" => pump[ch] = "running"
    /\ step[ch] = "closing" => pump[ch] = "none"
Attached == \A ch \in Channels : \A v \in subs[ch] : ChannelOf[v] = ch

FeedInv == TypeOK /\ StepInv /\ Pumped /\ Attached /\ Served

LEMMA FeedStep ==
  ASSUME "closing" \notin Interrupts, FeedInv, [Next]_vars
  PROVE  Pumped' /\ Attached' /\ Served'
  <1>0. /\ lan \in [Channels -> BOOLEAN]
        /\ pump \in [Channels -> {"none", "running", "done"}]
        /\ subs \in [Channels -> SUBSET Viewers]
        /\ step \in [Channels -> {"none", "join", "closing", "slot", "granted", "opening"}]
        /\ eof \in SUBSET Viewers /\ missed \in SUBSET Viewers
    BY DEF FeedInv, TypeOK
  <1> USE DEF FeedInv, StepInv, Pumped, Attached, Served
  <1>1. ASSUME NEW v \in Viewers, Arrive(v)
        PROVE  Pumped' /\ Attached' /\ Served'
    BY <1>0, <1>1, ChannelOfAssumption DEF Arrive, upstream, ends
  <1>2. ASSUME NEW v \in Viewers, JoinUpstream(v)
        PROVE  Pumped' /\ Attached' /\ Served'
    BY <1>0, <1>2, ChannelOfAssumption DEF JoinUpstream, Enters, CancelLinger, Attach, Forget, upstream, ends
  <1>3. ASSUME NEW v \in Viewers, DropDeadUpstream(v)
        PROVE  Pumped' /\ Attached' /\ Served'
    BY <1>0, <1>3, ChannelOfAssumption DEF DropDeadUpstream, Enters, Suspend, upstream, ends
  <1>4. ASSUME NEW v \in Viewers, AskForSlot(v)
        PROVE  Pumped' /\ Attached' /\ Served'
    BY <1>0, <1>4, ChannelOfAssumption DEF AskForSlot, Enters, Suspend, upstream, ends
  <1>5. ASSUME NEW v \in Viewers, GrantSlot(v)
        PROVE  Pumped' /\ Attached' /\ Served'
    BY <1>0, <1>5, ChannelOfAssumption DEF GrantSlot, StandsAt, Suspend, upstream, ends
  <1>51. ASSUME NEW v \in Viewers, AcquireSlot(v)
        PROVE  Pumped' /\ Attached' /\ Served'
    BY <1>0, <1>51, ChannelOfAssumption DEF AcquireSlot, StandsAt, Suspend, upstream, ends
  <1>6. ASSUME NEW v \in Viewers, SlotTimeout(v)
        PROVE  Pumped' /\ Attached' /\ Served'
    BY <1>0, <1>6, ChannelOfAssumption DEF SlotTimeout, StandsAt, Refuse, Suspend, upstream, ends
  <1>7. ASSUME NEW v \in Viewers, OpenFails(v)
        PROVE  Pumped' /\ Attached' /\ Served'
    BY <1>0, <1>7, ChannelOfAssumption DEF OpenFails, StandsAt, Refuse, Suspend, upstream, ends
  <1>71. ASSUME NEW v \in Viewers, SlotTooLate(v)
        PROVE  Pumped' /\ Attached' /\ Served'
    BY <1>0, <1>71, ChannelOfAssumption DEF SlotTooLate, StandsAt, Refuse, Suspend, upstream, ends
  <1>8. ASSUME NEW v \in Viewers, OpenSucceeds(v)
        PROVE  Pumped' /\ Attached' /\ Served'
    BY <1>0, <1>8, ChannelOfAssumption DEF OpenSucceeds, StandsAt, Attach, Forget, Suspend, upstream, ends
  <1>9. ASSUME NEW v \in Viewers, Begin(v)
        PROVE  Pumped' /\ Attached' /\ Served'
    BY <1>0, <1>9, ChannelOfAssumption DEF Begin, upstream, ends
  <1>10. ASSUME NEW v \in Viewers, Leave(v)
        PROVE  Pumped' /\ Attached' /\ Served'
    BY <1>0, <1>10, ChannelOfAssumption DEF Leave, upstream, ends
  <1>11. ASSUME NEW v \in Viewers, Unsubscribe(v)
        PROVE  Pumped' /\ Attached' /\ Served'
    BY <1>0, <1>11, ChannelOfAssumption DEF Unsubscribe, Forget, upstream, ends
  <1>12. ASSUME NEW v \in Viewers, InterruptedInQueue(v)
        PROVE  Pumped' /\ Attached' /\ Served'
    BY <1>0, <1>12, ChannelOfAssumption DEF InterruptedInQueue, upstream, ends
  <1>13. ASSUME NEW v \in Viewers, InterruptedInPrelude(v)
        PROVE  Pumped' /\ Attached' /\ Served'
    BY <1>0, <1>13, ChannelOfAssumption DEF InterruptedInPrelude, upstream, ends
  <1>14. ASSUME NEW v \in Viewers, InterruptedInCleanup(v)
        PROVE  Pumped' /\ Attached' /\ Served'
    BY <1>0, <1>14, ChannelOfAssumption DEF InterruptedInCleanup, upstream, ends
  <1>15. ASSUME NEW v \in Viewers, NEW s \in {"slot", "opening", "closing"}, InterruptedAt(v, s)
        PROVE  Pumped' /\ Attached' /\ Served'
    BY <1>0, <1>15, ChannelOfAssumption DEF InterruptedAt, StandsAt, Refuse, Suspend, upstream, ends
  <1>16. ASSUME NEW ch \in Channels, LingerFires(ch)
        PROVE  Pumped' /\ Attached' /\ Served'
    BY <1>0, <1>16 DEF LingerFires, upstream, ends
  <1>17. ASSUME NEW ch \in Channels, LingerStarts(ch)
        PROVE  Pumped' /\ Attached' /\ Served'
    BY <1>0, <1>17 DEF LingerStarts, upstream, ends
  <1>18. ASSUME NEW ch \in Channels, LingerSkips(ch)
        PROVE  Pumped' /\ Attached' /\ Served'
    BY <1>0, <1>18 DEF LingerSkips, upstream, ends
  <1>19. ASSUME NEW ch \in Channels, LingerTeardown(ch)
        PROVE  Pumped' /\ Attached' /\ Served'
    BY <1>0, <1>19 DEF LingerTeardown, Enters, Suspend, upstream, ends
  <1>20. ASSUME NEW ch \in Channels, PumpJoined(ch)
        PROVE  Pumped' /\ Attached' /\ Served'
    BY <1>0, <1>20 DEF PumpJoined, CloseQueues, StandsAt, Suspend, upstream, ends
  <1>21. ASSUME NEW ch \in Channels, CloseDone(ch)
        PROVE  Pumped' /\ Attached' /\ Served'
    BY <1>0, <1>21 DEF CloseDone, Suspend, upstream, ends
  <1>22. ASSUME NEW ch \in Channels, PumpEnds(ch)
        PROVE  Pumped' /\ Attached' /\ Served'
    BY <1>0, <1>22 DEF PumpEnds, CloseQueues, upstream, ends
  <1>23. CASE UNCHANGED vars
    BY <1>23 DEF vars
  <1>24. QED
    BY <1>1, <1>2, <1>3, <1>4, <1>5, <1>6, <1>7, <1>8, <1>9, <1>10, <1>11,
       <1>12, <1>13, <1>14, <1>15, <1>16, <1>17, <1>18, <1>19, <1>20, <1>21, <1>22, <1>23,
       <1>51, <1>71 DEF Next, Subscribes, LingerTask, Interrupted

LEMMA FeedInvariant ==
  ASSUME "closing" \notin Interrupts
  PROVE  Spec => []FeedInv
  <1>1. Init => Pumped /\ Attached /\ Served
    BY DEF Init, Pumped, Attached, Served
  <1>2. TypeOK /\ StepInv /\ Pumped /\ Attached /\ Served /\ [Next]_vars
          => (Pumped /\ Attached /\ Served)'
    BY FeedStep DEF FeedInv
  <1>3. TypeOK /\ StepInv /\ Pumped /\ Attached /\ Served => FeedInv
    BY DEF FeedInv
  <1>4. QED
    BY <1>1, <1>2, <1>3, SlotInvariants, PTL DEF Spec

(* A consumer never holds a queue that nobody feeds and nobody closed,     *)
(* unless it was full when the pump ended and dropped the None.            *)
THEOREM AlwaysServed ==
  ASSUME "closing" \notin Interrupts
  PROVE  Spec => []Served
  <1>1. FeedInv => Served
    BY DEF FeedInv
  <1>2. QED
    BY <1>1, FeedInvariant, PTL

-----------------------------------------------------------------------------
(* The refinement.                                                         *)

(* A step that touches the upstream of one channel moves that channel      *)
(* alone.                                                                  *)
OnlyAt(ch) == \A c \in Channels \ {ch} :
                lan'[c] = lan[c] /\ pump'[c] = pump[c] /\ step'[c] = step[c]

LEMMA MoveOne ==
  ASSUME NEW ch \in Channels, OnlyAt(ch), NEW to, StateOf(ch)' = to
  PROVE  UpstreamState' = [UpstreamState EXCEPT ![ch] = to]
  <1>1. \A c \in Channels \ {ch} : StateOf(c)' = StateOf(c)
    BY DEF OnlyAt, StateOf
  <1>2. QED
    BY <1>1 DEF UpstreamState

LEMMA MoveNone ==
  ASSUME UNCHANGED <<lan, pump, step>>
  PROVE  UpstreamState' = UpstreamState
  BY DEF UpstreamState, StateOf

(* A slot is free only if fewer channels than slots are in use.            *)
LEMMA RoomForOne ==
  ASSUME TypeOK, StepInv, Balance, sem > 0
  PROVE  Promise!Cardinality(Promise!InUse) < MaxStreams
  <1>1. Promise!InUse = Holding
    BY DEF Promise!InUse, UpstreamState, StateOf, Holding, StepInv, TypeOK
  <1>2. Cardinality(Holding) \in Nat
    BY ChannelsAssumption, FS_Subset, FS_CardinalityType DEF Holding
  <1>3. Cardinality(Holding) < MaxStreams
    BY <1>2, MaxStreamsAssumption DEF TypeOK, Balance, NeverOverReleased
  <1>4. Promise!Cardinality(Holding) = Cardinality(Holding)
    BY DEF Cardinality, Promise!Cardinality
  <1>5. QED
    BY <1>1, <1>3, <1>4

LEMMA PromiseStep ==
  ASSUME "closing" \notin Interrupts, FeedInv, Balance, [Next]_vars
  PROVE  [Promise!Next]_(Promise!vars)
  <1>0. /\ lan \in [Channels -> BOOLEAN]
        /\ pump \in [Channels -> {"none", "running", "done"}]
        /\ subs \in [Channels -> SUBSET Viewers]
        /\ step \in [Channels -> {"none", "join", "closing", "slot", "granted", "opening"}]
        /\ StepInv /\ Pumped
    BY DEF FeedInv, TypeOK
  <1>1. ASSUME NEW v \in Viewers, Arrive(v)
        PROVE  [Promise!Next]_(Promise!vars)
    BY <1>1, MoveNone DEF Arrive, upstream, Promise!vars
  <1>2. ASSUME NEW v \in Viewers, JoinUpstream(v)
        PROVE  [Promise!Next]_(Promise!vars)
    <2>1. ChannelOf[v] \in Channels /\ StateOf(ChannelOf[v]) = "live"
      BY <1>0, <1>2, ChannelOfAssumption DEF JoinUpstream, Enters, StateOf, Pumped
    <2>2. UpstreamState[ChannelOf[v]] = "live" /\ UpstreamState' = UpstreamState
      BY <1>2, <2>1, MoveNone DEF JoinUpstream, upstream, UpstreamState
    <2>3. Promise!Join(ChannelOf[v], v)
      BY <1>2, <2>2 DEF JoinUpstream, Attach, Promise!Join, Promise!Attach
    <2>4. QED
      BY <2>1, <2>3 DEF Promise!Next
  <1>3. ASSUME NEW v \in Viewers, DropDeadUpstream(v)
        PROVE  [Promise!Next]_(Promise!vars)
    <2>1. /\ ChannelOf[v] \in Channels /\ OnlyAt(ChannelOf[v])
          /\ StateOf(ChannelOf[v]) = "dead" /\ StateOf(ChannelOf[v])' = "closing"
      BY <1>0, <1>3, ChannelOfAssumption DEF DropDeadUpstream, Enters, Suspend, upstream, OnlyAt, StateOf, StepInv, Pumped
    <2>2. UpstreamState[ChannelOf[v]] = "dead" /\ UpstreamState' = [UpstreamState EXCEPT ![ChannelOf[v]] = "closing"]
      BY <2>1, MoveOne DEF UpstreamState
    <2>3. Promise!GiveUp(ChannelOf[v])
      BY <1>3, <2>2 DEF DropDeadUpstream, Enters, Suspend, Promise!GiveUp, Promise!Move
    <2>4. QED
      BY <2>1, <2>3 DEF Promise!Next
  <1>4. ASSUME NEW v \in Viewers, AskForSlot(v)
        PROVE  [Promise!Next]_(Promise!vars)
    <2>1. ChannelOf[v] \in Channels /\ OnlyAt(ChannelOf[v]) /\ StateOf(ChannelOf[v])' = StateOf(ChannelOf[v])
      BY <1>0, <1>4, ChannelOfAssumption DEF AskForSlot, Enters, Suspend, upstream, OnlyAt, StateOf, StepInv, Pumped
    <2>2. UpstreamState' = UpstreamState
      BY <2>1, MoveOne DEF UpstreamState
    <2>3. QED
      BY <1>4, <2>2 DEF AskForSlot, Enters, Suspend, Promise!vars
  <1>5. ASSUME NEW v \in Viewers, GrantSlot(v)
        PROVE  [Promise!Next]_(Promise!vars)
    <2>1. /\ ChannelOf[v] \in Channels /\ OnlyAt(ChannelOf[v])
          /\ StateOf(ChannelOf[v]) = "closed" /\ StateOf(ChannelOf[v])' = "opening"
      BY <1>0, <1>5, ChannelOfAssumption DEF GrantSlot, StandsAt, Suspend, upstream, OnlyAt, StateOf, StepInv, Pumped
    <2>2. UpstreamState[ChannelOf[v]] = "closed" /\ UpstreamState' = [UpstreamState EXCEPT ![ChannelOf[v]] = "opening"]
      BY <2>1, MoveOne DEF UpstreamState
    <2>3. Promise!Cardinality(Promise!InUse) < MaxStreams
      BY <1>5, RoomForOne DEF GrantSlot, FeedInv
    <2>4. Promise!Move(ChannelOf[v], "closed", "opening")
      BY <2>2 DEF Promise!Move
    <2>5. subs' = subs
      BY <1>5 DEF GrantSlot
    <2>6. Promise!Reserve(ChannelOf[v])
      BY <2>3, <2>4, <2>5 DEF Promise!Reserve
    <2>7. QED
      BY <2>1, <2>6 DEF Promise!Next
  <1>51. ASSUME NEW v \in Viewers, AcquireSlot(v)
        PROVE  [Promise!Next]_(Promise!vars)
    <2>1. /\ ChannelOf[v] \in Channels /\ OnlyAt(ChannelOf[v])
          /\ StateOf(ChannelOf[v])' = StateOf(ChannelOf[v])
      BY <1>0, <1>51, ChannelOfAssumption
         DEF AcquireSlot, StandsAt, Suspend, upstream, OnlyAt, StateOf
    <2>2. UpstreamState' = UpstreamState
      BY <2>1, MoveOne DEF UpstreamState
    <2>3. QED
      BY <1>51, <2>2 DEF AcquireSlot, Promise!vars
  <1>6. ASSUME NEW v \in Viewers, SlotTimeout(v)
        PROVE  [Promise!Next]_(Promise!vars)
    <2>1. ChannelOf[v] \in Channels /\ OnlyAt(ChannelOf[v]) /\ StateOf(ChannelOf[v])' = StateOf(ChannelOf[v])
      BY <1>0, <1>6, ChannelOfAssumption DEF SlotTimeout, StandsAt, Refuse, Suspend, upstream, OnlyAt, StateOf, StepInv, Pumped
    <2>2. UpstreamState' = UpstreamState
      BY <2>1, MoveOne DEF UpstreamState
    <2>3. QED
      BY <1>6, <2>2 DEF SlotTimeout, StandsAt, Refuse, Suspend, Promise!vars
  <1>7. ASSUME NEW v \in Viewers, OpenFails(v)
        PROVE  [Promise!Next]_(Promise!vars)
    <2>1. /\ ChannelOf[v] \in Channels /\ OnlyAt(ChannelOf[v])
          /\ StateOf(ChannelOf[v]) = "opening" /\ StateOf(ChannelOf[v])' = "closed"
      BY <1>0, <1>7, ChannelOfAssumption DEF OpenFails, StandsAt, Refuse, Suspend, upstream, OnlyAt, StateOf, StepInv, Pumped
    <2>2. UpstreamState[ChannelOf[v]] = "opening" /\ UpstreamState' = [UpstreamState EXCEPT ![ChannelOf[v]] = "closed"]
      BY <2>1, MoveOne DEF UpstreamState
    <2>3. Promise!OpenFails(ChannelOf[v])
      BY <1>7, <2>2 DEF OpenFails, StandsAt, Refuse, Suspend, Promise!OpenFails, Promise!Move
    <2>4. QED
      BY <2>1, <2>3 DEF Promise!Next
  <1>71. ASSUME NEW v \in Viewers, SlotTooLate(v)
        PROVE  [Promise!Next]_(Promise!vars)
    <2>1. /\ ChannelOf[v] \in Channels /\ OnlyAt(ChannelOf[v])
          /\ StateOf(ChannelOf[v]) = "opening" /\ StateOf(ChannelOf[v])' = "closed"
      BY <1>0, <1>71, ChannelOfAssumption DEF SlotTooLate, StandsAt, Refuse, Suspend, upstream, OnlyAt, StateOf, StepInv, Pumped
    <2>2. UpstreamState[ChannelOf[v]] = "opening" /\ UpstreamState' = [UpstreamState EXCEPT ![ChannelOf[v]] = "closed"]
      BY <2>1, MoveOne DEF UpstreamState
    <2>3. Promise!OpenFails(ChannelOf[v])
      BY <1>71, <2>2 DEF SlotTooLate, StandsAt, Refuse, Suspend, Promise!OpenFails, Promise!Move
    <2>4. QED
      BY <2>1, <2>3 DEF Promise!Next
  <1>8. ASSUME NEW v \in Viewers, OpenSucceeds(v)
        PROVE  [Promise!Next]_(Promise!vars)
    <2>1. /\ ChannelOf[v] \in Channels /\ OnlyAt(ChannelOf[v])
          /\ StateOf(ChannelOf[v]) = "opening" /\ StateOf(ChannelOf[v])' = "live"
      BY <1>0, <1>8, ChannelOfAssumption DEF OpenSucceeds, StandsAt, Attach, Suspend, upstream, OnlyAt, StateOf, StepInv, Pumped
    <2>2. UpstreamState[ChannelOf[v]] = "opening" /\ UpstreamState' = [UpstreamState EXCEPT ![ChannelOf[v]] = "live"]
      BY <2>1, MoveOne DEF UpstreamState
    <2>3. Promise!Opened(ChannelOf[v], v)
      BY <1>8, <2>2 DEF OpenSucceeds, StandsAt, Attach, Suspend, Promise!Opened, Promise!Move, Promise!Attach
    <2>4. QED
      BY <2>1, <2>3 DEF Promise!Next
  <1>9. ASSUME NEW v \in Viewers, Begin(v)
        PROVE  [Promise!Next]_(Promise!vars)
    BY <1>9, MoveNone DEF Begin, upstream, Promise!vars
  <1>10. ASSUME NEW v \in Viewers, Leave(v)
        PROVE  [Promise!Next]_(Promise!vars)
    BY <1>10, MoveNone DEF Leave, upstream, Promise!vars
  <1>11. ASSUME NEW v \in Viewers, Unsubscribe(v)
        PROVE  [Promise!Next]_(Promise!vars)
    <2>1. UpstreamState' = UpstreamState
      BY <1>11, MoveNone DEF Unsubscribe, upstream
    <2>2. subs' = [subs EXCEPT ![ChannelOf[v]] = @ \ {v}]
      BY <1>11 DEF Unsubscribe
    <2>3. CASE v \in subs[ChannelOf[v]]
      <3>1. Promise!Leave(ChannelOf[v], v)
        BY <2>1, <2>2, <2>3 DEF Promise!Leave
      <3>2. QED
        BY <3>1, ChannelOfAssumption DEF Promise!Next
    <2>4. CASE v \notin subs[ChannelOf[v]]
      <3>1. subs' = subs
        BY <1>0, <2>2, <2>4, ChannelOfAssumption
      <3>2. QED
        BY <2>1, <3>1 DEF Promise!vars
    <2>5. QED
      BY <2>3, <2>4
  <1>12. ASSUME NEW v \in Viewers, InterruptedInQueue(v)
        PROVE  [Promise!Next]_(Promise!vars)
    BY <1>12, MoveNone DEF InterruptedInQueue, upstream, Promise!vars
  <1>13. ASSUME NEW v \in Viewers, InterruptedInPrelude(v)
        PROVE  [Promise!Next]_(Promise!vars)
    BY <1>13, MoveNone DEF InterruptedInPrelude, upstream, Promise!vars
  <1>14. ASSUME NEW v \in Viewers, InterruptedInCleanup(v)
        PROVE  [Promise!Next]_(Promise!vars)
    BY <1>14, MoveNone DEF InterruptedInCleanup, upstream, Promise!vars
  <1>15. ASSUME NEW v \in Viewers, NEW s \in {"slot", "opening", "closing"}, InterruptedAt(v, s)
        PROVE  [Promise!Next]_(Promise!vars)
    <2>1. subs' = subs
      BY <1>15 DEF InterruptedAt, Refuse
    <2>2. CASE s = "slot"
      <3>1. ChannelOf[v] \in Channels /\ OnlyAt(ChannelOf[v])
              /\ StateOf(ChannelOf[v])' = StateOf(ChannelOf[v])
        BY <1>0, <1>15, <2>2, ChannelOfAssumption
           DEF InterruptedAt, StandsAt, Refuse, Suspend, OnlyAt, StateOf, StepInv
      <3>2. UpstreamState' = UpstreamState
        BY <3>1, MoveOne DEF UpstreamState
      <3>3. QED
        BY <2>1, <3>2 DEF Promise!vars
    <2>3. CASE s = "opening"
      <3>1. /\ ChannelOf[v] \in Channels /\ OnlyAt(ChannelOf[v])
            /\ StateOf(ChannelOf[v]) = "opening" /\ StateOf(ChannelOf[v])' = "closed"
        BY <1>0, <1>15, <2>3, ChannelOfAssumption
           DEF InterruptedAt, StandsAt, Refuse, Suspend, OnlyAt, StateOf, StepInv
      <3>2. /\ UpstreamState[ChannelOf[v]] = "opening"
            /\ UpstreamState' = [UpstreamState EXCEPT ![ChannelOf[v]] = "closed"]
        BY <3>1, MoveOne DEF UpstreamState
      <3>3. Promise!OpenFails(ChannelOf[v])
        BY <2>1, <3>2 DEF Promise!OpenFails, Promise!Move
      <3>4. QED
        BY <3>1, <3>3 DEF Promise!Next
    <2>4. s # "closing"
      BY <1>15 DEF InterruptedAt
    <2>5. QED
      BY <2>2, <2>3, <2>4
  <1>16. ASSUME NEW ch \in Channels, LingerFires(ch)
        PROVE  [Promise!Next]_(Promise!vars)
    BY <1>16, MoveNone DEF LingerFires, upstream, Promise!vars
  <1>17. ASSUME NEW ch \in Channels, LingerStarts(ch)
        PROVE  [Promise!Next]_(Promise!vars)
    BY <1>17, MoveNone DEF LingerStarts, upstream, Promise!vars
  <1>18. ASSUME NEW ch \in Channels, LingerSkips(ch)
        PROVE  [Promise!Next]_(Promise!vars)
    BY <1>18, MoveNone DEF LingerSkips, upstream, Promise!vars
  <1>19. ASSUME NEW ch \in Channels, LingerTeardown(ch)
        PROVE  [Promise!Next]_(Promise!vars)
    <2>1. /\ OnlyAt(ch) /\ subs' = subs /\ subs[ch] = {}
          /\ StateOf(ch) \in {"live", "dead"} /\ StateOf(ch)' = "closing"
      BY <1>0, <1>19 DEF LingerTeardown, Enters, Suspend, OnlyAt, StateOf, Pumped
    <2>2. /\ UpstreamState[ch] \in {"live", "dead"}
          /\ UpstreamState' = [UpstreamState EXCEPT ![ch] = "closing"]
      BY <2>1, MoveOne DEF UpstreamState
    <2>3. Promise!GiveUp(ch)
      BY <2>1, <2>2 DEF Promise!GiveUp, Promise!Move
    <2>4. QED
      BY <2>3 DEF Promise!Next
  <1>20. ASSUME NEW ch \in Channels, PumpJoined(ch)
        PROVE  [Promise!Next]_(Promise!vars)
    <2>1. ch \in Channels /\ OnlyAt(ch) /\ StateOf(ch)' = StateOf(ch)
      BY <1>0, <1>20 DEF PumpJoined, StandsAt, Suspend, upstream, OnlyAt, StateOf, StepInv, Pumped
    <2>2. UpstreamState' = UpstreamState
      BY <2>1, MoveOne DEF UpstreamState
    <2>3. QED
      BY <1>20, <2>2 DEF PumpJoined, StandsAt, Suspend, Promise!vars
  <1>21. ASSUME NEW ch \in Channels, CloseDone(ch)
        PROVE  [Promise!Next]_(Promise!vars)
    <2>1. /\ ch \in Channels /\ OnlyAt(ch)
          /\ StateOf(ch) = "closing" /\ StateOf(ch)' = "closed"
      BY <1>0, <1>21 DEF CloseDone, Suspend, upstream, OnlyAt, StateOf, StepInv, Pumped
    <2>2. UpstreamState[ch] = "closing" /\ UpstreamState' = [UpstreamState EXCEPT ![ch] = "closed"]
      BY <2>1, MoveOne DEF UpstreamState
    <2>3. Promise!Closed(ch)
      BY <1>21, <2>2 DEF CloseDone, Suspend, Promise!Closed, Promise!Move
    <2>4. QED
      BY <2>1, <2>3 DEF Promise!Next
  <1>22. ASSUME NEW ch \in Channels, PumpEnds(ch)
        PROVE  [Promise!Next]_(Promise!vars)
    <2>1. /\ ch \in Channels /\ OnlyAt(ch)
          /\ StateOf(ch) = "live" /\ StateOf(ch)' = "dead"
      BY <1>0, <1>22 DEF PumpEnds, upstream, OnlyAt, StateOf, StepInv, Pumped
    <2>2. UpstreamState[ch] = "live" /\ UpstreamState' = [UpstreamState EXCEPT ![ch] = "dead"]
      BY <2>1, MoveOne DEF UpstreamState
    <2>3. Promise!Dies(ch)
      BY <1>22, <2>2 DEF PumpEnds, Promise!Dies, Promise!Move
    <2>4. QED
      BY <2>1, <2>3 DEF Promise!Next
  <1>23. CASE UNCHANGED vars
    BY <1>23, MoveNone DEF vars, Promise!vars
  <1>24. QED
    BY <1>1, <1>2, <1>3, <1>4, <1>5, <1>6, <1>7, <1>8, <1>9, <1>10, <1>11,
       <1>12, <1>13, <1>14, <1>15, <1>16, <1>17, <1>18, <1>19, <1>20, <1>21, <1>22, <1>23,
       <1>51, <1>71 DEF Next, Subscribes, LingerTask, Interrupted

(* The shared upstreams keep their promise: per channel one upstream, at   *)
(* most MaxStreams of them, viewers attached only to a live one, and none  *)
(* given up while it delivers to somebody.                                 *)
THEOREM PromiseKept ==
  ASSUME "closing" \notin Interrupts
  PROVE  Spec => KeepsPromise
  <1>1. Init => Promise!Init
    BY DEF Init, Promise!Init, UpstreamState, StateOf
  <1>2. FeedInv /\ Balance /\ [Next]_vars => [Promise!Next]_(Promise!vars)
    BY PromiseStep
  <1>3. QED
    BY <1>1, <1>2, FeedInvariant, SlotInvariants, PTL DEF Spec, KeepsPromise, Promise!Spec
=============================================================================
