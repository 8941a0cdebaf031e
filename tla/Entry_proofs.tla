---------------------------- MODULE Entry_proofs ----------------------------
(***************************************************************************)
(* Theorems about Entry and the doors it composes, for any number of       *)
(* credentials, doors and calls, and however many changes and faults.      *)
(***************************************************************************)
EXTENDS Entry, TLAPS

(* The steps of the doors, and what all the others leave alone.            *)
DoorsNext ==
  \/ \E c \in Calls, d \in Doors!Doors : Doors!Unlock(c, d)
  \/ \E c \in Calls : Doors!UnlockAll(c) \/ Doors!NextDoor(c)
                        \/ Doors!AllUnlocked(c) \/ Doors!Raises(c)
  \/ \E c \in Calls : Doors!Unlocked(c)
  \/ \E d \in Doors!Doors : Doors!Lock(d) \/ Doors!Relock(d)
  \/ Doors!Added \/ Doors!Removed

(* Every action is one of the doors or leaves them alone.                  *)
LEMMA DoorsStep ==
  ASSUME [Next]_vars
  PROVE  DoorsNext \/ UNCHANGED entities
<1> USE DEF DoorsNext, entities
<1>1. CASE UNCHANGED vars
  BY <1>1 DEF vars
<1>2. CASE UseDoors \/ DoorsGo \/ DoorsFail
  <2>1. CASE UseDoors
    BY <2>1 DEF UseDoors
  <2>2. CASE DoorsGo
    BY <2>2 DEF DoorsGo
  <2>3. CASE DoorsFail
    BY <2>3 DEF DoorsFail
  <2> QED
    BY <1>2, <2>1, <2>2, <2>3
<1>3. CASE SetUp \/ Unloaded \/ UnloadFails
  BY <1>3 DEF SetUp, Unloaded, UnloadFails
<1>4. CASE \/ SetupStarts \/ LoggedIn \/ Refused \/ CallsPolled \/ StatusPolled
           \/ PushStarts \/ PushFails \/ Reloads \/ ReloadRejected \/ PushStopped
  BY <1>4 DEF SetupStarts, LoggedIn, Refused, CallsPolled, StatusPolled, PushStarts,
              PushFails, Reloads, ReloadRejected, PushStopped, UnloadStarts
<1>5. CASE \/ NotReady \/ PlatformsFail \/ FormEnds \/ FormSaves \/ Owner
           \/ Disable \/ UserReloads \/ \E c \in Credentials : Submit(c)
  BY <1>5 DEF NotReady, PlatformsFail, FormEnds, FormSaves, Owner, Disable,
              UserReloads, Submit, UnloadStarts
<1> QED
  BY <1>1, <1>2, <1>3, <1>4, <1>5 DEF Next, Proceeds

-----------------------------------------------------------------------------
(* Type correctness.                                                       *)

LEMMA DoorsTyped ==
  ASSUME Doors!TypeOK, DoorsNext \/ UNCHANGED entities
  PROVE  Doors!TypeOK'
<1> USE BoundsAssumption DEF Doors!TypeOK, Doors!Doors
<1>1. CASE UNCHANGED entities
  BY <1>1 DEF entities
<1>2. CASE \E c \in Calls, d \in Doors!Doors : Doors!Unlock(c, d)
  BY <1>2 DEF Doors!Unlock, Doors!Starts
<1>3. ASSUME NEW c \in Calls, Doors!UnlockAll(c) PROVE Doors!TypeOK'
  BY <1>3 DEF Doors!UnlockAll, Doors!Starts
<1>4. ASSUME NEW c \in Calls, Doors!NextDoor(c) \/ Doors!AllUnlocked(c) \/ Doors!Raises(c)
      PROVE  Doors!TypeOK'
  <2>1. CASE Doors!NextDoor(c)
    BY <2>1 DEF Doors!NextDoor
  <2>2. CASE Doors!AllUnlocked(c)
    BY <2>2 DEF Doors!AllUnlocked, Doors!Ends
  <2>3. CASE Doors!Raises(c)
    BY <2>3 DEF Doors!Raises, Doors!Ends
  <2> QED
    BY <1>4, <2>1, <2>2, <2>3
<1>5. ASSUME NEW c \in Calls, Doors!Unlocked(c) PROVE Doors!TypeOK'
  <2>1. CASE mine[c]
    <3>1. /\ shown' = [shown EXCEPT ![target[c]] = "unlocked"]
          /\ timers' = [timers EXCEPT ![target[c]] = @ + 1]
      BY <1>5, <2>1 DEF Doors!Unlocked
    <3>2. /\ shown' \in [Doors!Doors -> {"locked", "unlocked"}]
          /\ timers' \in [Doors!Doors -> Nat]
      <4>1. CASE target[c] \in Doors!Doors
        BY <3>1, <4>1
      <4>2. CASE target[c] \notin Doors!Doors
        BY <3>1, <4>2
      <4> QED
        BY <4>1, <4>2
    <3> QED
      BY <1>5, <3>1, <3>2 DEF Doors!Unlocked, Doors!Ends
  <2>2. CASE ~mine[c]
    BY <1>5, <2>2 DEF Doors!Unlocked, Doors!Ends
  <2> QED
    BY <2>1, <2>2
<1>6. ASSUME NEW d \in Doors!Doors, Doors!Lock(d) PROVE Doors!TypeOK'
  BY <1>6 DEF Doors!Lock
<1>7. ASSUME NEW d \in Doors!Doors, Doors!Relock(d) PROVE Doors!TypeOK'
  BY <1>7 DEF Doors!Relock
<1>8. CASE Doors!Added
  BY <1>8 DEF Doors!Added
<1>9. CASE Doors!Removed
  <2>1. mine' \in [Calls -> BOOLEAN] /\ present' \in BOOLEAN
    BY <1>9, Zenon DEF Doors!Removed
  <2> QED
    BY <1>9, <2>1 DEF Doors!Removed
<1> QED
  BY <1>1, <1>2, <1>3, <1>4, <1>5, <1>6, <1>7, <1>8, <1>9 DEF DoorsNext

(* Where the entry stands in a setup or an unload.                         *)
StepOK ==
  /\ entry = "setup" => step \in {"login", "calls", "status", "push", "platforms"}
  /\ entry = "unload" => step \in {"platforms", "stop"}
  /\ entry \notin {"setup", "unload"} => step = "none"
  /\ step = "stop" => push # NoData
  /\ entry # "none" => data \in Credentials

Inv == TypeOK /\ StepOK /\ NothingElseLeft

LEMMA InvInit == Init => Inv
<1> USE NoDataAssumption, BoundsAssumption
<1>1. Init => Doors!TypeOK
  <2> SUFFICES ASSUME Init PROVE Doors!TypeOK
    OBVIOUS
  <2>1. mine \in [Calls -> BOOLEAN] /\ present \in BOOLEAN
    BY Zenon DEF Init, Doors!Init
  <2> QED
    BY <2>1 DEF Init, Doors!Init, Doors!TypeOK, Doors!Doors
<1>2. Init => StepOK /\ NothingElseLeft
  BY DEF Init, StepOK, NothingElseLeft, Connected, Listening, Count
<1>3. ASSUME Init PROVE TypeOK
  <2>1. reload \in BOOLEAN /\ rebuffed \in BOOLEAN
    BY <1>3, Zenon DEF Init
  <2> QED
    BY <1>1, <1>3, <2>1 DEF Init, TypeOK, States, Steps
<1> QED
  BY <1>2, <1>3 DEF Inv

LEMMA InvStep ==
  ASSUME Inv, [Next]_vars
  PROVE  Inv'
<1> USE NoDataAssumption, BoundsAssumption
        DEF Inv, TypeOK, StepOK, NothingElseLeft, Connected, Listening, Count, States, Steps
<1>0. Doors!TypeOK'
  BY DoorsStep, DoorsTyped
<1>1. CASE UNCHANGED vars
  BY <1>0, <1>1 DEF vars, config, setup, kept, counts
<1>2. CASE UseDoors \/ DoorsGo \/ DoorsFail
  BY <1>0, <1>2 DEF UseDoors, DoorsGo, DoorsFail, config, setup, kept, counts, Change, Fault
<1>3. ASSUME NEW c \in Credentials, Submit(c) PROVE Inv'
  BY <1>0, <1>3 DEF Submit, Change, setup, kept, counts
<1>4. CASE FormEnds \/ FormSaves \/ Owner
  <2>1. CASE FormEnds
    BY <1>0, <2>1 DEF FormEnds, setup, kept, counts
  <2>2. CASE FormSaves
    BY <1>0, <2>2 DEF FormSaves, kept, counts
  <2>3. CASE Owner
    BY <1>0, <2>3 DEF Owner, Change, config, setup, kept
  <2> QED
    BY <1>4, <2>1, <2>2, <2>3
<1> USE DEF AtSetup, Goto, Become
<1>5. CASE SetupStarts
  BY <1>0, <1>5 DEF SetupStarts, config, kept
<1>6. CASE LoggedIn \/ CallsPolled
  BY <1>0, <1>6 DEF LoggedIn, CallsPolled, config, kept, counts
<1>7. CASE Refused \/ NotReady
  <2>1. CASE Refused
    BY <1>0, <2>1 DEF Refused, Fault, config, kept
  <2>2. CASE NotReady
    BY <1>0, <2>2 DEF NotReady, Fault, config, kept
  <2> QED
    BY <1>7, <2>1, <2>2
<1>8. CASE StatusPolled
  BY <1>0, <1>8 DEF StatusPolled, config, counts
<1>9. CASE PushStarts
  BY <1>0, <1>9 DEF PushStarts, config, counts
<1>10. CASE PushFails
  BY <1>0, <1>10 DEF PushFails, Fault, config
<1>11. CASE SetUp
  BY <1>0, <1>11 DEF SetUp, config, kept, counts
<1>12. CASE PlatformsFail
  BY <1>0, <1>12 DEF PlatformsFail, Fault, config, kept
<1>13. CASE Reloads \/ Disable
  BY <1>0, <1>13 DEF Reloads, Disable, UnloadStarts, Change, config, kept, counts
<1>14. CASE UserReloads \/ ReloadRejected
  <2>1. CASE UserReloads
    BY <1>0, <2>1 DEF UserReloads, Change, config, setup, kept
  <2>2. CASE ReloadRejected
    BY <1>0, <2>2 DEF ReloadRejected, config, setup, kept, counts
  <2> QED
    BY <1>14, <2>1, <2>2
<1>15. CASE UnloadFails
  BY <1>0, <1>15 DEF UnloadFails, Fault, config, kept
<1>16. CASE Unloaded
  BY <1>0, <1>16 DEF Unloaded, config, counts
<1>17. CASE PushStopped
  BY <1>0, <1>17 DEF PushStopped, config, counts
<1> QED
  BY <1>1, <1>2, <1>3, <1>4, <1>5, <1>6, <1>7, <1>8, <1>9, <1>10, <1>11, <1>12,
     <1>13, <1>14, <1>15, <1>16, <1>17 DEF Next, Proceeds

(* Every reachable state is well typed.                                    *)
THEOREM TypeCorrect == Spec => []TypeOK
<1>1. Inv => TypeOK
  BY DEF Inv
<1> QED
  BY <1>1, InvInit, InvStep, PTL DEF Spec

(* However setups, retries, reloads and unloads follow each other and      *)
(* fail, no MQTT client and no connection is left beyond the setup in      *)
(* force, but for those that a failure to forward the platforms leaves.    *)
THEOREM NothingLeft == Spec => []NothingElseLeft
<1>1. Inv => NothingElseLeft
  BY DEF Inv
<1> QED
  BY <1>1, InvInit, InvStep, PTL DEF Spec

-----------------------------------------------------------------------------
(* The credentials in force.                                               *)

(* Data that a setup under way has not seen has a reload due.              *)
SeesData ==
  /\ entry \in {"setup", "loaded"} /\ ~reload => client = data
  /\ (entry = "setup" /\ step \in {"push", "platforms"}) \/ entry = "loaded"
       => reload \/ push \in {data, NoData}

LEMMA SeesDataStep ==
  ASSUME Inv, SeesData, [Next]_vars
  PROVE  SeesData'
<1> USE DEF Inv, StepOK, SeesData, AtSetup, Goto, Become
<1>1. CASE UNCHANGED vars
  BY <1>1 DEF vars, config, setup, kept
<1>2. CASE UseDoors \/ DoorsGo \/ DoorsFail
  BY <1>2 DEF UseDoors, DoorsGo, DoorsFail, config, setup, kept
<1>3. CASE FormEnds \/ FormSaves \/ Owner \/ \E c \in Credentials : Submit(c)
  BY <1>3 DEF FormEnds, FormSaves, Owner, Submit, setup, kept, config
<1>4. CASE SetupStarts \/ LoggedIn \/ CallsPolled \/ Refused \/ NotReady
  BY <1>4 DEF SetupStarts, LoggedIn, CallsPolled, Refused, NotReady, config, kept
<1>5. CASE StatusPolled \/ PushStarts \/ PushFails
  BY <1>5 DEF StatusPolled, PushStarts, PushFails, config
<1>6. CASE SetUp \/ PlatformsFail
  BY <1>6 DEF SetUp, PlatformsFail, config, kept
<1>7. CASE Reloads \/ Disable \/ UserReloads \/ ReloadRejected
  BY <1>7 DEF Reloads, Disable, UnloadStarts, UserReloads, ReloadRejected, config, setup, kept
<1>8. CASE UnloadFails \/ Unloaded \/ PushStopped
  BY <1>8 DEF UnloadFails, Unloaded, PushStopped, config, kept
<1> QED
  BY <1>1, <1>2, <1>3, <1>4, <1>5, <1>6, <1>7, <1>8 DEF Next, Proceeds

(* A loaded entry uses the credentials it stores, for any number of        *)
(* reconfigurations and setups that overlap.                               *)
THEOREM CredentialsMatch == Spec => []LoadedMatchesData
<1>1. Init => SeesData
  BY DEF Init, SeesData
<1>2. SeesData => LoadedMatchesData
  BY DEF SeesData, LoadedMatchesData
<1> QED
  BY <1>1, <1>2, InvInit, InvStep, SeesDataStep, PTL DEF Spec

-----------------------------------------------------------------------------
(* A door shown open has a timer pending: for any number of doors, service *)
(* calls and reloads, none stays shown open.                               *)
THEOREM DoorsLockAgain == Spec => []DoorsRelock
<1>1. Init => DoorsRelock
  BY DEF Init, Doors!Init, DoorsRelock, Doors!RelockPending
<1>2. ASSUME Inv, DoorsRelock, [Next]_vars
      PROVE  DoorsRelock'
  <2> USE <1>2, BoundsAssumption DEF Inv, TypeOK, DoorsRelock, Doors!RelockPending,
          Doors!TypeOK, Doors!Doors
  <2>1. CASE UNCHANGED entities
    BY <2>1 DEF entities
  <2>2. CASE \E c \in Calls, d \in Doors!Doors : Doors!Unlock(c, d)
    BY <2>2 DEF Doors!Unlock, Doors!Starts
  <2>3. CASE \E c \in Calls : Doors!UnlockAll(c) \/ Doors!NextDoor(c)
                                \/ Doors!AllUnlocked(c) \/ Doors!Raises(c)
    BY <2>3 DEF Doors!UnlockAll, Doors!NextDoor, Doors!AllUnlocked, Doors!Raises,
                Doors!Starts, Doors!Ends
  <2>4. CASE \E c \in Calls : Doors!Unlocked(c)
    BY <2>4 DEF Doors!Unlocked
  <2>5. CASE \E d \in Doors!Doors : Doors!Lock(d) \/ Doors!Relock(d)
    BY <2>5 DEF Doors!Lock, Doors!Relock
  <2>6. CASE Doors!Added \/ Doors!Removed
    BY <2>6 DEF Doors!Added, Doors!Removed
  <2> QED
    BY DoorsStep, <1>2, <2>1, <2>2, <2>3, <2>4, <2>5, <2>6 DEF DoorsNext
<1> QED
  BY <1>1, <1>2, InvInit, InvStep, PTL DEF Spec
=============================================================================
