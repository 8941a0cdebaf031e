--------------------------- MODULE DeviceSettings ---------------------------
(***************************************************************************)
(* The settings of one intercom: an optimistic switch (switch.py) and the  *)
(* three volumes (number.py, hikconnect_api.py), of which two share the    *)
(* AudioOut resource, with the status poll (__init__.py) that confirms the *)
(* switch.  A call is a service call of Home Assistant; calls overlap, the *)
(* poll does not overlap itself.                                           *)
(*                                                                         *)
(* The cloud and the device are external.  A switch write shows "a few     *)
(* seconds later", writes in the order they were accepted; a volume write  *)
(* shows at once.  The owner's phone may change the switch, too.           *)
(***************************************************************************)
EXTENDS Naturals, Sequences

CONSTANTS Calls,
          Levels,      \* the volumes asked for
          MaxChanges,  \* bound on calls and on changes by the phone
          MaxFaults    \* bound on requests that fail

ASSUME LevelsAssumption == Levels \subseteq 0..10
ASSUME MaxChangesAssumption == MaxChanges \in Nat
ASSUME MaxFaultsAssumption == MaxFaults \in Nat

Positions == {"on", "off"}
AudioOut == {"ringtone", "two_way"}
Kinds == AudioOut \cup {"microphone"}
Other(kind) == IF kind = "ringtone" THEN "two_way" ELSE "ringtone"
OrFive(level) == IF level = 0 THEN 5 ELSE level

VARIABLES
  visible,   \* the switch as the cloud reports it
  coming,    \* accepted writes that are not visible yet
  data,      \* the switch in coordinator.data
  pending,   \* _pending
  poll,      \* the status poll: at rest, under way, or with its reading
  snap,      \* the switch in that reading
  volume,    \* the volumes of the device
  pc,        \* pc[c]: where the call stands
  what,      \* what[c]: the setting it is about
  position,  \* position[c]: the switch position it wants
  level,     \* level[c]: the volume it wants
  keep,      \* keep[c]: the volume it writes to the other field
  changes, faults,
  sole,      \* history: the position wanted by the only change under way
  raced,     \* history: calls overtaken by another PUT since their GET
  unread     \* history: calls whose GET did not show the other field

cloud == <<visible, coming>>
switch == <<data, pending>>
polling == <<poll, snap>>
args == <<what, position, level>>
history == <<sole, raced, unread>>
vars == <<cloud, switch, polling, volume, pc, args, keep, changes, faults, history>>

TypeOK ==
  /\ visible \in Positions
  /\ coming \in Seq(Positions)
  /\ data \in Positions \cup {"unknown"}
  /\ pending \in Positions \cup {"none"}
  /\ poll \in {"idle", "asked", "read"}
  /\ snap \in Positions \cup {"unknown"}
  /\ volume \in [Kinds -> 0..10]
  /\ pc \in [Calls -> {"idle", "write", "reply", "get", "put"}]
  /\ what \in [Calls -> Kinds \cup {"switch"}]
  /\ position \in [Calls -> Positions]
  /\ level \in [Calls -> 0..10]
  /\ keep \in [Calls -> 0..10]
  /\ changes \in 0..MaxChanges
  /\ faults \in 0..MaxFaults
  /\ sole \in Positions \cup {"none"}
  /\ raced \in SUBSET Calls /\ unread \in SUBSET Calls

(* After the first refresh.                                                *)
Init ==
  /\ visible = "off" /\ coming = <<>>
  /\ data = "off" /\ pending = "none"
  /\ poll = "idle" /\ snap = "off"
  /\ volume \in {[k \in Kinds |-> l] : l \in Levels}
  /\ pc = [c \in Calls |-> "idle"]
  /\ what = [c \in Calls |-> "switch"]
  /\ position = [c \in Calls |-> "off"]
  /\ level = [c \in Calls |-> 0]
  /\ keep = [c \in Calls |-> 0]
  /\ changes = 0 /\ faults = 0
  /\ sole = "none" /\ raced = {} /\ unread = {}

Shown == IF pending # "none" THEN pending ELSE data

Goto(c, s) == pc' = [pc EXCEPT ![c] = s]
Change == changes < MaxChanges /\ changes' = changes + 1
Fault == faults < MaxFaults /\ faults' = faults + 1
Toggling == \E c \in Calls : what[c] = "switch" /\ pc[c] # "idle"

(* The arguments of a call that is over mean nothing.                      *)
Done(c) ==
  /\ Goto(c, "idle")
  /\ what' = [what EXCEPT ![c] = "switch"]
  /\ position' = [position EXCEPT ![c] = "off"]
  /\ level' = [level EXCEPT ![c] = 0]
  /\ keep' = [keep EXCEPT ![c] = 0]
  /\ raced' = raced \ {c} /\ unread' = unread \ {c}

(* Every change of the switch has reached coordinator.data.                *)
Seen == coming = <<>> /\ data = visible /\ (poll = "read" => snap = visible)

-----------------------------------------------------------------------------
(* The switch                                                              *)

(* async_turn_on, async_turn_off.  It is the sole change if no other is    *)
(* under way and the coordinator and its poll have seen the earlier ones.  *)
Toggle(c, p) ==
  /\ pc[c] = "idle" /\ Goto(c, "write")
  /\ Change
  /\ what' = [what EXCEPT ![c] = "switch"]
  /\ position' = [position EXCEPT ![c] = p]
  /\ sole' = IF ~Toggling /\ Seen THEN p ELSE "none"
  /\ UNCHANGED <<cloud, switch, polling, volume, level, keep, faults, raced, unread>>

(* _write: the cloud accepts it.                                           *)
Written(c) ==
  /\ pc[c] = "write" /\ Goto(c, "reply")
  /\ coming' = Append(coming, position[c])
  /\ UNCHANGED <<visible, switch, polling, volume, args, keep, changes, faults, history>>

(* It raises, and the call with it; the write may have been accepted.      *)
WriteFails(c) ==
  /\ pc[c] \in {"write", "reply"} /\ Done(c)
  /\ Fault
  /\ sole' = "none"
  /\ UNCHANGED <<cloud, switch, polling, volume, changes>>

(* The rest of _apply; the refresh it asks for is one of the polls below.  *)
Applied(c) ==
  /\ pc[c] = "reply" /\ Done(c)
  /\ pending' = position[c]
  /\ UNCHANGED <<cloud, data, polling, volume, changes, faults, sole>>

-----------------------------------------------------------------------------
(* The status poll                                                         *)

PollStarts ==
  /\ poll = "idle" /\ poll' = "asked"
  /\ UNCHANGED <<cloud, switch, snap, volume, pc, args, keep, changes, faults, history>>

(* The executor job reads the switch: get_device_status_map, get_dnd.      *)
PollReads ==
  /\ poll = "asked" /\ poll' = "read"
  /\ snap' = visible
  /\ UNCHANGED <<cloud, switch, volume, pc, args, keep, changes, faults, history>>

(* It cannot, and goes on without.                                         *)
PollSkips ==
  /\ poll = "asked" /\ poll' = "read"
  /\ snap' = "unknown"
  /\ Fault
  /\ UNCHANGED <<cloud, switch, volume, pc, args, keep, changes, history>>

(* Mutants: any poll ends the optimistic value; none does.                 *)
ConfirmAlways(reported) == pending' = "none"
ConfirmNever(reported) == pending' = pending

(* _handle_coordinator_update                                              *)
Confirm(reported) == pending' = IF reported = pending THEN "none" ELSE pending

PollEnds ==
  /\ poll = "read" /\ poll' = "idle"
  /\ data' = snap
  /\ Confirm(snap)
  /\ snap' = "off"
  /\ UNCHANGED <<cloud, volume, pc, args, keep, changes, faults, history>>

(* UpdateFailed: the first time in a row the listeners are called, with    *)
(* the data they had.                                                      *)
PollFails ==
  /\ poll # "idle" /\ poll' = "idle"
  /\ Fault
  /\ Confirm(data) \/ UNCHANGED pending
  /\ snap' = "off"
  /\ UNCHANGED <<cloud, data, volume, pc, args, keep, changes, history>>

(* The cloud makes the next accepted write visible.                        *)
Settle ==
  /\ coming # <<>>
  /\ visible' = Head(coming) /\ coming' = Tail(coming)
  /\ UNCHANGED <<switch, polling, volume, pc, args, keep, changes, faults, history>>

PhoneSets(p) ==
  /\ Change
  /\ coming' = Append(coming, p)
  /\ sole' = "none"
  /\ UNCHANGED <<visible, switch, polling, volume, pc, args, keep, faults, raced, unread>>

-----------------------------------------------------------------------------
(* set_audio_volume                                                        *)

SetVolume(c, kind, l) ==
  /\ pc[c] = "idle" /\ Goto(c, IF kind = "microphone" THEN "put" ELSE "get")
  /\ Change
  /\ what' = [what EXCEPT ![c] = kind]
  /\ level' = [level EXCEPT ![c] = l]
  /\ UNCHANGED <<cloud, switch, polling, volume, position, keep, faults, history>>

(* get_audio_volumes; a field that cannot be read counts as None, which is *)
(* written as 5 like a 0.                                                  *)
VolumesRead(c) ==
  /\ pc[c] = "get" /\ Goto(c, "put")
  /\ \/ /\ keep' = [keep EXCEPT ![c] = OrFive(volume[Other(what[c])])]
        /\ UNCHANGED <<faults, unread>>
     \/ /\ keep' = [keep EXCEPT ![c] = 5]
        /\ Fault
        /\ unread' = unread \cup {c}
  /\ UNCHANGED <<cloud, switch, polling, volume, args, changes, sole, raced>>

(* Mutant: the two fields are swapped.                                     *)
PutSwapped(c) ==
  /\ pc[c] = "put" /\ Done(c)
  /\ volume' = [volume EXCEPT ![Other(what[c])] = level[c], ![what[c]] = keep[c]]
  /\ UNCHANGED <<cloud, switch, polling, changes, faults, sole>>

(* The PUT replaces both fields of AudioOut, or the microphone's volume.   *)
VolumesPut(c) ==
  /\ pc[c] = "put" /\ Goto(c, "idle")
  /\ IF what[c] \in AudioOut
       THEN /\ volume' = [volume EXCEPT ![what[c]] = level[c], ![Other(what[c])] = keep[c]]
            /\ raced' = {d \in Calls \ {c} : pc[d] = "put"}
       ELSE /\ volume' = [volume EXCEPT ![what[c]] = level[c]]
            /\ raced' = raced \ {c}
  /\ unread' = unread \ {c}
  /\ what' = [what EXCEPT ![c] = "switch"]
  /\ level' = [level EXCEPT ![c] = 0]
  /\ keep' = [keep EXCEPT ![c] = 0]
  /\ UNCHANGED <<cloud, switch, polling, position, changes, faults, sole>>

VolumeFails(c) ==
  /\ pc[c] \in {"get", "put"} /\ Done(c)
  /\ Fault
  /\ UNCHANGED <<cloud, switch, polling, volume, changes, sole>>

-----------------------------------------------------------------------------
CallGoesOn(c) == Written(c) \/ Applied(c) \/ VolumesRead(c) \/ VolumesPut(c)

PollGoesOn == PollStarts \/ PollReads \/ PollEnds

Next ==
  \/ PollGoesOn \/ PollSkips \/ PollFails \/ Settle
  \/ \E p \in Positions : PhoneSets(p)
  \/ \E c \in Calls : \/ CallGoesOn(c) \/ WriteFails(c) \/ VolumeFails(c)
                      \/ \E p \in Positions : Toggle(c, p)
                      \/ \E k \in Kinds, l \in Levels : SetVolume(c, k, l)

(* The coordinator polls on, requests have timeouts, and the cloud shows   *)
(* what it accepted in the end.                                            *)
Fairness == WF_vars(PollGoesOn) /\ WF_vars(Settle) /\ \A c \in Calls : WF_vars(CallGoesOn(c))

Spec == Init /\ [][Next]_vars /\ Fairness

-----------------------------------------------------------------------------
(* Properties                                                              *)

(* The optimistic value does its work: after a toggle that no other change *)
(* of the switch interferes with, the old state is never shown again,      *)
(* whatever the polls under way have read ("would ... bounce the toggle"). *)
NoBounce == sole # "none" /\ ~Toggling => Shown \in {sole, "unknown"}

(* And it is given up for the reported one in the end.                     *)
Confirmed == sole # "none" /\ ~Toggling ~> sole = "none" \/ Toggling \/ pending = "none"

(* "ISAPI PUT replaces the resource, so preserve the other field": a PUT   *)
(* of one volume leaves the other ones alone.  The exceptions are those of *)
(* the code, and of AudioOut's other field only: another call's PUT came   *)
(* between this call's GET and its PUT, or 5 is written because the field  *)
(* is 0 or because the GET did not show it.                                *)
OtherVolumeKept ==
  [][\A c \in Calls : VolumesPut(c) =>
       \A o \in Kinds \ {what[c]} :
         \/ volume'[o] = volume[o]
         \/ /\ {o, what[c]} = AudioOut
            /\ c \in raced \/ (volume'[o] = 5 /\ (volume[o] = 0 \/ c \in unread))]_vars
=============================================================================
