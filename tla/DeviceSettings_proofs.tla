----------------------- MODULE DeviceSettings_proofs ------------------------
(* Proofs about DeviceSettings for any number of overlapping calls: its    *)
(* types, OtherVolumeKept and NoBounce.                                    *)
EXTENDS DeviceSettings, TLAPS

(* A volume call stands only where a volume is what it is about.           *)
CallInv ==
  \A c \in Calls : /\ pc[c] \in {"write", "reply"} => what[c] = "switch"
                   /\ pc[c] = "get" => what[c] \in AudioOut
                   /\ pc[c] = "put" => what[c] \in Kinds

(* What a call that nobody has overtaken writes along is what the device   *)
(* has, or 5 where that is a 0 or its GET did not show it.                 *)
KeepInv ==
  \A c \in Calls : pc[c] = "put" /\ what[c] \in AudioOut /\ c \notin raced =>
    \/ keep[c] = OrFive(volume[Other(what[c])])
    \/ c \in unread /\ keep[c] = 5

Inv == TypeOK /\ CallInv /\ KeepInv

LEMMA VolumeTypes ==
  /\ \A kind : Other(kind) \in AudioOut
  /\ \A l \in 0..10 : OrFive(l) \in 0..10
  /\ AudioOut \subseteq Kinds
  /\ "microphone" \notin AudioOut
BY DEF Other, OrFive, AudioOut, Kinds

LEMMA InitInv == Init => Inv
<1> SUFFICES ASSUME Init PROVE Inv
  OBVIOUS
<1>1. volume \in [Kinds -> 0..10]
  BY LevelsAssumption DEF Init
<1>2. TypeOK
  BY <1>1, MaxChangesAssumption, MaxFaultsAssumption DEF Init, TypeOK, Positions
<1>3. CallInv /\ KeepInv
  BY DEF Init, CallInv, KeepInv
<1> QED
  BY <1>2, <1>3 DEF Inv

(* One case per action.                                                    *)
LEMMA StepInv == Inv /\ [Next]_vars => Inv'
<1> SUFFICES ASSUME Inv, [Next]_vars PROVE Inv'
  OBVIOUS
<1> USE MaxChangesAssumption, MaxFaultsAssumption, LevelsAssumption
<1>t. TypeOK /\ CallInv /\ KeepInv
  BY DEF Inv
<1>1. CASE PollStarts \/ PollReads \/ PollSkips
  <2>1. TypeOK'
    BY <1>1, <1>t DEF PollStarts, PollReads, PollSkips, Fault, TypeOK, Positions, cloud, switch, args, history
  <2>2. CallInv' /\ KeepInv'
    BY <1>1, <1>t DEF PollStarts, PollReads, PollSkips, CallInv, KeepInv, args, history
  <2> QED
    BY <2>1, <2>2 DEF Inv
<1>2. CASE PollEnds \/ PollFails
  <2>1. TypeOK'
    BY <1>2, <1>t DEF PollEnds, PollFails, Confirm, Fault, TypeOK, Positions, cloud, switch, args, history
  <2>2. CallInv' /\ KeepInv'
    BY <1>2, <1>t DEF PollEnds, PollFails, CallInv, KeepInv, args, history
  <2> QED
    BY <2>1, <2>2 DEF Inv
<1>3. CASE Settle
  <2>1. visible' \in Positions /\ coming' \in Seq(Positions)
    BY <1>3, <1>t DEF Settle, TypeOK
  <2>2. TypeOK'
    BY <1>3, <1>t, <2>1 DEF Settle, TypeOK, switch, polling, args, history
  <2>3. CallInv' /\ KeepInv'
    BY <1>3, <1>t DEF Settle, CallInv, KeepInv, args, history
  <2> QED
    BY <2>2, <2>3 DEF Inv
<1>4. ASSUME NEW p \in Positions, PhoneSets(p) PROVE Inv'
  <2>1. coming' \in Seq(Positions)
    BY <1>4, <1>t DEF PhoneSets, TypeOK
  <2>2. TypeOK'
    BY <1>4, <1>t, <2>1 DEF PhoneSets, Change, TypeOK, switch, polling, args
  <2>3. CallInv' /\ KeepInv'
    BY <1>4, <1>t DEF PhoneSets, CallInv, KeepInv, args
  <2> QED
    BY <2>2, <2>3 DEF Inv
<1>5. ASSUME NEW c \in Calls, NEW p \in Positions, Toggle(c, p) PROVE Inv'
  <2>1. TypeOK'
    BY <1>5, <1>t DEF Toggle, Goto, Change, TypeOK, cloud, switch, polling
  <2>2. CallInv' /\ KeepInv'
    BY <1>5, <1>t DEF Toggle, Goto, TypeOK, CallInv, KeepInv
  <2> QED
    BY <2>1, <2>2 DEF Inv
<1>6. ASSUME NEW c \in Calls, Written(c) PROVE Inv'
  <2>1. coming' \in Seq(Positions)
    BY <1>6, <1>t DEF Written, TypeOK
  <2>2. TypeOK'
    BY <1>6, <1>t, <2>1 DEF Written, Goto, TypeOK, switch, polling, args, history
  <2>3. CallInv' /\ KeepInv'
    BY <1>6, <1>t DEF Written, Goto, TypeOK, CallInv, KeepInv, args, history
  <2> QED
    BY <2>2, <2>3 DEF Inv
<1>7. ASSUME NEW c \in Calls, WriteFails(c) \/ Applied(c) \/ VolumeFails(c) PROVE Inv'
  <2>1. Done(c) /\ UNCHANGED volume
    BY <1>7 DEF WriteFails, Applied, VolumeFails
  <2>2. TypeOK'
    <3>1. pending' \in Positions \cup {"none"} /\ sole' \in Positions \cup {"none"} /\ faults' \in 0..MaxFaults
      BY <1>7, <1>t DEF WriteFails, Applied, VolumeFails, Fault, TypeOK, switch
    <3>2. UNCHANGED <<cloud, data, polling, volume, changes>>
      BY <1>7 DEF WriteFails, Applied, VolumeFails, switch
    <3> QED
      BY <2>1, <3>1, <3>2, <1>t DEF Done, Goto, TypeOK, Positions, cloud, polling
  <2>3. CallInv' /\ KeepInv'
    BY <2>1, <1>t DEF Done, Goto, TypeOK, CallInv, KeepInv
  <2> QED
    BY <2>2, <2>3 DEF Inv
<1>8. ASSUME NEW c \in Calls, NEW k \in Kinds, NEW l \in Levels, SetVolume(c, k, l) PROVE Inv'
  <2>1. TypeOK'
    BY <1>8, <1>t, VolumeTypes DEF SetVolume, Goto, Change, TypeOK, cloud, switch, polling, history
  <2>2. CallInv'
    BY <1>8, <1>t, VolumeTypes DEF SetVolume, Goto, TypeOK, CallInv, Kinds
  <2>3. KeepInv'
    <3>1. pc'[c] = "put" => what'[c] \notin AudioOut
      BY <1>8, <1>t, VolumeTypes DEF SetVolume, Goto, TypeOK
    <3> QED
      BY <3>1, <1>8, <1>t, VolumeTypes DEF SetVolume, Goto, TypeOK, KeepInv, history
  <2> QED
    BY <2>1, <2>2, <2>3 DEF Inv
<1>9. ASSUME NEW c \in Calls, VolumesRead(c) PROVE Inv'
  <2>1. OrFive(volume[Other(what[c])]) \in 0..10
    BY <1>t, VolumeTypes DEF TypeOK
  <2>2. TypeOK'
    <3>1. keep' \in [Calls -> 0..10]
      BY <1>9, <1>t, <2>1 DEF VolumesRead, TypeOK
    <3>2. raced' \in SUBSET Calls /\ unread' \in SUBSET Calls /\ faults' \in 0..MaxFaults
      BY <1>9, <1>t DEF VolumesRead, Fault, TypeOK
    <3>3. pc' = [pc EXCEPT ![c] = "put"]
      BY <1>9 DEF VolumesRead, Goto
    <3>4. pc' \in [Calls -> {"idle", "write", "reply", "get", "put"}]
      BY <3>3, <1>t DEF TypeOK
    <3>5. UNCHANGED <<visible, coming, data, pending, poll, snap, volume, what, position, level, changes, sole>>
      BY <1>9 DEF VolumesRead, cloud, switch, polling, args
    <3> QED
      BY <1>t, <3>1, <3>2, <3>4, <3>5 DEF TypeOK
  <2>3. CallInv'
    BY <1>9, <1>t, VolumeTypes DEF VolumesRead, Goto, TypeOK, CallInv, args
  <2>4. KeepInv'
    BY <1>9, <1>t, VolumeTypes DEF VolumesRead, Goto, TypeOK, KeepInv, args
  <2> QED
    BY <2>2, <2>3, <2>4 DEF Inv
<1>10. ASSUME NEW c \in Calls, VolumesPut(c) PROVE Inv'
  <2>1. TypeOK'
    <3>1. volume' \in [Kinds -> 0..10]
      <4>1. level[c] \in 0..10 /\ keep[c] \in 0..10 /\ volume \in [Kinds -> 0..10]
        BY <1>t DEF TypeOK
      <4> QED
        BY <4>1, <1>10 DEF VolumesPut
    <3>2. raced' \in SUBSET Calls /\ unread' \in SUBSET Calls
      BY <1>10, <1>t DEF VolumesPut, TypeOK
    <3>3. /\ pc' = [pc EXCEPT ![c] = "idle"] /\ what' = [what EXCEPT ![c] = "switch"]
          /\ level' = [level EXCEPT ![c] = 0] /\ keep' = [keep EXCEPT ![c] = 0]
      BY <1>10 DEF VolumesPut, Goto
    <3>4. UNCHANGED <<visible, coming, data, pending, poll, snap, position, changes, faults, sole>>
      BY <1>10 DEF VolumesPut, cloud, switch, polling
    <3> QED
      BY <1>t, <3>1, <3>2, <3>3, <3>4 DEF TypeOK
  <2>2. CallInv'
    BY <1>10, <1>t, VolumeTypes DEF VolumesPut, Goto, TypeOK, CallInv
  <2>3. KeepInv'
    <3>1. CASE what[c] \in AudioOut
      BY <3>1, <1>10, <1>t, VolumeTypes DEF VolumesPut, Goto, TypeOK, KeepInv
    <3>2. CASE what[c] \notin AudioOut
      <4>1. what[c] = "microphone"
        BY <3>2, <1>10, <1>t, VolumeTypes DEF VolumesPut, CallInv, Kinds
      <4>2. \A k \in AudioOut : volume'[k] = volume[k]
        BY <4>1, <3>2, <1>10, <1>t, VolumeTypes DEF VolumesPut, TypeOK
      <4> QED
        BY <4>2, <3>2, <1>10, <1>t, VolumeTypes DEF VolumesPut, Goto, TypeOK, KeepInv
    <3> QED
      BY <3>1, <3>2
  <2> QED
    BY <2>1, <2>2, <2>3 DEF Inv
<1>11. CASE UNCHANGED vars
  BY <1>11, <1>t DEF vars, cloud, switch, polling, args, history, Inv, TypeOK, CallInv, KeepInv
<1> QED
  BY <1>1, <1>2, <1>3, <1>4, <1>5, <1>6, <1>7, <1>8, <1>9, <1>10, <1>11 DEF Next, PollGoesOn, CallGoesOn

LEMMA Invariance == Spec => []Inv
BY InitInv, StepInv, PTL DEF Spec

(* Every reachable state of the settings is well typed.                    *)
THEOREM TypeCorrect == Spec => []TypeOK
<1>1. Inv => TypeOK
  BY DEF Inv
<1> QED
  BY <1>1, Invariance, PTL

(* However calls overlap, a PUT of one volume leaves the others alone, but *)
(* for AudioOut's other field where another PUT has overtaken the call, or *)
(* where 5 is written for a 0 or for a value that its GET did not show.    *)
THEOREM OthersKept == Spec => OtherVolumeKept
<1>1. ASSUME Inv, NEW c \in Calls, VolumesPut(c), NEW o \in Kinds \ {what[c]}
      PROVE  \/ volume'[o] = volume[o]
             \/ /\ {o, what[c]} = AudioOut
                /\ c \in raced \/ (volume'[o] = 5 /\ (volume[o] = 0 \/ c \in unread))
  <2>1. volume \in [Kinds -> 0..10]
    BY <1>1 DEF Inv, TypeOK
  <2>2. CASE what[c] \in AudioOut /\ o = Other(what[c])
    <3>1. {o, what[c]} = AudioOut
      BY <2>2 DEF Other, AudioOut
    <3>2. volume'[o] = keep[c]
      BY <1>1, <2>1, <2>2 DEF VolumesPut
    <3>3. c \in raced \/ keep[c] = OrFive(volume[o]) \/ (c \in unread /\ keep[c] = 5)
      BY <1>1, <2>2 DEF Inv, KeepInv, VolumesPut
    <3> QED
      BY <3>1, <3>2, <3>3 DEF OrFive
  <2>3. CASE ~(what[c] \in AudioOut /\ o = Other(what[c]))
    BY <1>1, <2>1, <2>3 DEF VolumesPut
  <2> QED
    BY <2>2, <2>3
<1>2. Inv => [\A c \in Calls : VolumesPut(c) =>
                \A o \in Kinds \ {what[c]} :
                  \/ volume'[o] = volume[o]
                  \/ /\ {o, what[c]} = AudioOut
                     /\ c \in raced \/ (volume'[o] = 5 /\ (volume[o] = 0 \/ c \in unread))]_vars
  BY <1>1
<1> QED
  BY <1>2, Invariance, PTL DEF OtherVolumeKept

-----------------------------------------------------------------------------
(* The optimistic value.                                                   *)

(* What holds while the sole change, to sole, is on its way to the         *)
(* coordinator: every toggle under way wants it, and nothing else is       *)
(* coming.  Once a reading shows it, no later reading shows the old value, *)
(* so that pending may be given up.                                        *)
Wanted(c) == what[c] = "switch" /\ pc[c] # "idle" => position[c] = sole
Later == visible = sole /\ (poll = "read" => snap \in {sole, "unknown"})

Optimistic ==
  sole # "none" =>
    /\ \A c \in Calls : Wanted(c)
    /\ \A i \in 1..Len(coming) : coming[i] = sole
    /\ poll = "read" /\ snap = sole => visible = sole
    /\ data = sole => Later
    /\ ~Toggling => \/ pending = sole
                    \/ pending = "none" /\ Later /\ data \in {sole, "unknown"}

LEMMA OptimisticStep ==
  ASSUME Inv, Optimistic, [Next]_vars
  PROVE  Optimistic'
<1>t. TypeOK /\ CallInv
  BY DEF Inv
<1>p. /\ visible \in Positions /\ data \in Positions \cup {"unknown"}
      /\ snap \in Positions \cup {"unknown"} /\ sole \in Positions \cup {"none"}
      /\ pending \in Positions \cup {"none"}
      /\ coming \in Seq(Positions)
      /\ pc \in [Calls -> {"idle", "write", "reply", "get", "put"}]
      /\ what \in [Calls -> Kinds \cup {"switch"}]
      /\ position \in [Calls -> Positions]
      /\ "switch" \notin Kinds
  BY <1>t DEF TypeOK, Kinds, AudioOut
<1>q. "none" \notin Positions /\ "unknown" \notin Positions
  BY DEF Positions
<1> USE <1>p, <1>q DEF Optimistic, Later, Wanted, Toggling, cloud, switch, polling, args, history
<1>1. CASE PollStarts \/ PollReads \/ PollSkips
  BY <1>1 DEF PollStarts, PollReads, PollSkips
<1>2. CASE PollEnds
  BY <1>2 DEF PollEnds, Confirm
<1>3. CASE PollFails
  BY <1>3 DEF PollFails, Confirm
<1>4. CASE Settle
  <2>1. /\ coming # <<>> /\ visible' = coming[1]
        /\ Len(coming') = Len(coming) - 1 /\ \A i \in 1..Len(coming') : coming'[i] = coming[i + 1]
        /\ Len(coming) \in Nat \ {0}
    BY <1>4 DEF Settle
  <2> QED
    BY <1>4, <2>1 DEF Settle
<1>5. ASSUME NEW p \in Positions, PhoneSets(p) PROVE Optimistic'
  BY <1>5 DEF PhoneSets
<1>6. ASSUME NEW c \in Calls, NEW p \in Positions, Toggle(c, p) PROVE Optimistic'
  <2>1. sole' = "none" \/ (sole' = p /\ ~Toggling /\ Seen)
    BY <1>6 DEF Toggle
  <2>2. CASE sole' = p /\ ~Toggling /\ Seen
    <3>1. coming' = <<>> /\ \A d \in Calls \ {c} : what[d] = "switch" => pc[d] = "idle"
      BY <1>6, <2>2 DEF Toggle, Seen
    <3>2. /\ pc' = [pc EXCEPT ![c] = "write"] /\ what' = [what EXCEPT ![c] = "switch"]
          /\ position' = [position EXCEPT ![c] = p]
          /\ UNCHANGED <<visible, data, pending, poll, snap>>
      BY <1>6 DEF Toggle, Goto
    <3>3. data = visible /\ (poll = "read" => snap = visible)
      BY <2>2 DEF Seen
    <3>4. Toggling'
      BY <3>2
    <3>5. \A d \in Calls : Wanted(d)'
      BY <2>2, <3>1, <3>2
    <3> QED
      BY <2>2, <3>1, <3>2, <3>3, <3>4, <3>5
  <2> QED
    BY <2>1, <2>2
<1>7. ASSUME NEW c \in Calls, Written(c) PROVE Optimistic'
  <2>1. /\ pc[c] = "write" /\ pc' = [pc EXCEPT ![c] = "reply"]
        /\ Len(coming') = Len(coming) + 1
        /\ \A i \in 1..Len(coming) : coming'[i] = coming[i]
        /\ coming'[Len(coming) + 1] = position[c]
        /\ UNCHANGED <<visible, data, pending, poll, snap, what, position, sole>>
    BY <1>7 DEF Written, Goto
  <2>2. what[c] = "switch"
    BY <1>t, <2>1 DEF TypeOK, CallInv
  <2>3. Toggling' <=> Toggling
    BY <2>1
  <2>4. sole # "none" => \A i \in 1..Len(coming') : coming'[i] = sole
    BY <2>1, <2>2
  <2>5. sole # "none" => \A d \in Calls : Wanted(d)'
    BY <2>1, <2>2
  <2> HIDE DEF Toggling, Wanted
  <2> QED
    BY <2>1, <2>3, <2>4, <2>5
<1>8. ASSUME NEW c \in Calls, WriteFails(c) PROVE Optimistic'
  BY <1>8 DEF WriteFails
<1>9. ASSUME NEW c \in Calls, Applied(c) PROVE Optimistic'
  <2>1. /\ pc[c] = "reply" /\ pc' = [pc EXCEPT ![c] = "idle"]
        /\ what' = [what EXCEPT ![c] = "switch"] /\ position' = [position EXCEPT ![c] = "off"]
        /\ pending' = position[c]
        /\ UNCHANGED <<visible, coming, data, poll, snap, sole>>
    BY <1>9 DEF Applied, Done, Goto
  <2>2. what[c] = "switch"
    BY <1>t, <2>1 DEF CallInv
  <2>3. sole # "none" => position[c] = sole /\ \A d \in Calls : Wanted(d)'
    BY <2>1, <2>2
  <2> HIDE DEF Toggling, Wanted
  <2> QED
    BY <2>1, <2>3
<1>10. ASSUME NEW c \in Calls, NEW k \in Kinds, NEW l \in Levels, SetVolume(c, k, l)
       PROVE  Optimistic'
  BY <1>10 DEF SetVolume, Goto
<1>11. ASSUME NEW c \in Calls, VolumesRead(c) PROVE Optimistic'
  <2>1. /\ what[c] # "switch" /\ pc' = [pc EXCEPT ![c] = "put"]
        /\ UNCHANGED <<visible, coming, data, pending, poll, snap, what, position, sole>>
    BY <1>t, <1>11 DEF VolumesRead, Goto, CallInv, Kinds
  <2> QED
    BY <2>1
<1>12. ASSUME NEW c \in Calls, VolumesPut(c) PROVE Optimistic'
  <2>1. /\ what[c] # "switch" /\ pc' = [pc EXCEPT ![c] = "idle"]
        /\ what' = [what EXCEPT ![c] = "switch"]
        /\ UNCHANGED <<visible, coming, data, pending, poll, snap, position, sole>>
    BY <1>t, <1>12 DEF VolumesPut, Goto, CallInv
  <2>2. Toggling' <=> Toggling
    BY <2>1
  <2>3. sole # "none" /\ (\A d \in Calls : Wanted(d)) => \A d \in Calls : Wanted(d)'
    BY <2>1
  <2> HIDE DEF Toggling, Wanted
  <2> QED
    BY <2>1, <2>2, <2>3
<1>13. ASSUME NEW c \in Calls, VolumeFails(c) PROVE Optimistic'
  <2>1. /\ what[c] # "switch" /\ pc' = [pc EXCEPT ![c] = "idle"]
        /\ what' = [what EXCEPT ![c] = "switch"]
        /\ position' = [position EXCEPT ![c] = "off"]
        /\ UNCHANGED <<visible, coming, data, pending, poll, snap, sole>>
    BY <1>t, <1>13 DEF VolumeFails, Done, Goto, CallInv, Kinds, AudioOut
  <2>2. Toggling' <=> Toggling
    BY <2>1
  <2>3. sole # "none" /\ (\A d \in Calls : Wanted(d)) => \A d \in Calls : Wanted(d)'
    BY <2>1
  <2> HIDE DEF Toggling, Wanted
  <2> QED
    BY <2>1, <2>2, <2>3
<1>14. CASE UNCHANGED vars
  BY <1>14 DEF vars
<1> QED
  BY <1>1, <1>2, <1>3, <1>4, <1>5, <1>6, <1>7, <1>8, <1>9, <1>10, <1>11, <1>12, <1>13, <1>14
     DEF Next, PollGoesOn, CallGoesOn

(* For any number of calls and of polls that read early or late: a toggle  *)
(* that no other change interferes with is not shown undone.               *)
THEOREM TogglesStay == Spec => []NoBounce
<1>1. Init => Optimistic
  BY DEF Init, Optimistic
<1>2. Inv /\ Optimistic => NoBounce
  BY DEF Inv, TypeOK, Optimistic, NoBounce, Shown
<1>3. Inv /\ Optimistic /\ [Next]_vars => Optimistic'
  BY OptimisticStep
<1> QED
  BY <1>1, <1>2, <1>3, Invariance, PTL DEF Spec
=============================================================================
