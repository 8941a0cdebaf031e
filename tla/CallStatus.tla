----------------------------- MODULE CallStatus -----------------------------
(***************************************************************************)
(* The calls of the door stations as Home Assistant sees them: the poll    *)
(* of their status (__init__.py), the push that is to hasten it (push.py), *)
(* the sensor (sensor.py) and the buttons that act on a call (button.py,   *)
(* hikconnect_api.py).                                                     *)
(*                                                                         *)
(* The stations, the cloud and the MQTT broker are external: a station     *)
(* rings, is answered and hangs up by itself, too, and does what a button  *)
(* asks if its call admits it.                                             *)
(***************************************************************************)
EXTENDS Naturals, Sequences

CONSTANTS Devices,     \* the list of stations of the account
          Presses,     \* presses of buttons
          MaxChanges,  \* bound on what visitors and residents do to the calls
          MaxFaults    \* bound on requests that fail

Stations == {Devices[i] : i \in DOMAIN Devices}

ASSUME DevicesAssumption == Devices \in Seq(Stations)
ASSUME MaxChangesAssumption == MaxChanges \in Nat
ASSUME MaxFaultsAssumption == MaxFaults \in Nat

CallStates == {"idle", "ringing", "call in progress"}

(* What each button asks of a station, and the call it takes.              *)
Buttons == {"answer", "hangup", "cancel"}
Takes == [b \in Buttons |-> IF b = "hangup" THEN "call in progress" ELSE "ringing"]
Makes == [b \in Buttons |-> IF b = "answer" THEN "call in progress" ELSE "idle"]

(* What the reply to a call operation holds: the cloud's meta code, and    *)
(* the device's rc, which is "none" where data is missing or unreadable.   *)
Replies == [meta : {"200", "other"}, rc : {"1", "other", "none"}]
NoReply == [meta |-> "none", rc |-> "none"]

(* A station that obeyed has no rc but 1, one that did not has any other,  *)
(* and either reply may come without an rc that can be read.               *)
Acceptances == {r \in Replies : r.meta = "200" /\ r.rc \in {"1", "none"}}
Refusals == {r \in Replies : r.rc # "1"}

(* A refusal that nothing in the reply tells from an acceptance.           *)
Mute(r) == r \in Refusals \cap Acceptances

VARIABLES
  call,       \* call[d]: the state of the station's call
  published,  \* stations with a push message on its way
  todo,       \* the devices that the poll under way has still to ask
  polling,    \* a poll is under way
  out,        \* its readings
  data,       \* coordinator.data
  success,    \* coordinator.last_update_success
  at,         \* at[p]: where the press stands
  button,     \* button[p]: the button pressed
  of,         \* of[p]: its station
  reply,      \* reply[p]: what the cloud answered
  changes, faults,
  seen,       \* history: seen[d]: the states the call had during this poll
  owed,       \* history: events delivered since the last poll began
  acted,      \* history: presses that a station carried out
  muted       \* history: presses refused without a meta code or rc that says so

world == <<call, published, changes>>
poll == <<todo, polling, out, data, success>>
press == <<at, button, of, reply, acted, muted>>
vars == <<world, poll, press, faults, seen, owed>>

TypeOK ==
  /\ call \in [Stations -> CallStates]
  /\ published \in SUBSET Stations
  /\ todo \in Seq(Stations)
  /\ polling \in BOOLEAN
  /\ out \in [Stations -> CallStates \cup {"unknown"}]
  /\ data \in [Stations -> CallStates \cup {"unknown"}]
  /\ success \in BOOLEAN
  /\ at \in [Presses -> {"before", "asked", "answered", "returned", "raised"}]
  /\ button \in [Presses -> Buttons \cup {"none"}]
  /\ of \in [Presses -> Stations \cup {"none"}]
  /\ reply \in [Presses -> Replies \cup {NoReply}]
  /\ changes \in 0..MaxChanges
  /\ faults \in 0..MaxFaults
  /\ seen \in [Stations -> SUBSET CallStates]
  /\ owed \in SUBSET Stations
  /\ acted \in SUBSET Presses /\ muted \in SUBSET Presses

NoReadings == [d \in Stations |-> "unknown"]

(* After the first refresh.                                                *)
Init ==
  /\ call = [d \in Stations |-> "idle"]
  /\ published = {} /\ owed = {}
  /\ polling = FALSE /\ todo = <<>>
  /\ out = NoReadings
  /\ data = call /\ success = TRUE
  /\ at = [p \in Presses |-> "before"]
  /\ button = [p \in Presses |-> "none"] /\ of = [p \in Presses |-> "none"]
  /\ reply = [p \in Presses |-> NoReply]
  /\ changes = 0 /\ faults = 0
  /\ seen = [d \in Stations |-> {}]
  /\ acted = {} /\ muted = {}

Fault == faults < MaxFaults /\ faults' = faults + 1

(* The station's call is in state s from now on, which it publishes.       *)
Becomes(d, s) ==
  /\ call' = [call EXCEPT ![d] = s]
  /\ published' = published \cup {d}
  /\ seen' = IF polling THEN [seen EXCEPT ![d] = @ \cup {s}] ELSE seen

(* Somebody rings, picks up or hangs up at the station.                    *)
Happens(d, s) ==
  /\ changes < MaxChanges /\ changes' = changes + 1
  /\ s # call[d]
  /\ Becomes(d, s)
  /\ UNCHANGED <<poll, press, faults, owed>>

-----------------------------------------------------------------------------
(* The push                                                                *)

(* The message is lost, or there is no listener: it failed to start.       *)
MessageLost(d) ==
  /\ d \in published
  /\ published' = published \ {d}
  /\ UNCHANGED <<call, changes, poll, press, faults, seen, owed>>

(* _on_message, in the MQTT client's thread, has the dispatcher run the    *)
(* lambda of async_setup_entry.  It is no @callback, so that Home          *)
(* Assistant runs it in an executor thread, where hass.async_create_task   *)
(* raises: no refresh comes of it.                                         *)
OnMessage(d) ==
  /\ d \in published
  /\ published' = published \ {d}
  /\ owed' = owed \cup {d}
  /\ UNCHANGED <<call, changes, poll, press, faults, seen>>

-----------------------------------------------------------------------------
(* The poll                                                                *)

(* The coordinator's interval has passed.                                  *)
PollStarts ==
  /\ ~polling /\ polling' = TRUE
  /\ todo' = Devices
  /\ out' = NoReadings
  /\ seen' = [d \in Stations |-> {call[d]}]
  /\ owed' = {}
  /\ UNCHANGED <<world, data, success, press, faults>>

Record(status) ==
  /\ todo # <<>> /\ todo' = Tail(todo)
  /\ out' = [out EXCEPT ![Head(todo)] = status]

(* get_call_status of the next device.                                     *)
Reads ==
  /\ todo # <<>> /\ Record(call[Head(todo)])
  /\ UNCHANGED <<world, polling, data, success, press, faults, seen, owed>>

(* Mutant: a device that cannot be read keeps the status it had.           *)
ReadsLast ==
  /\ todo # <<>> /\ Record(data[Head(todo)])
  /\ Fault
  /\ UNCHANGED <<world, polling, data, success, press, seen, owed>>

(* A meta code other than 200, a reserved state, any exception that is no  *)
(* HikConnectError.                                                        *)
ReadsNothing ==
  /\ todo # <<>> /\ Record("unknown")
  /\ Fault
  /\ UNCHANGED <<world, polling, data, success, press, seen, owed>>

Rests ==
  /\ polling' = FALSE /\ todo' = <<>>
  /\ out' = NoReadings
  /\ seen' = [d \in Stations |-> {}]

(* A HikConnectError of one device is an UpdateFailed of the whole poll.   *)
PollFails ==
  /\ todo # <<>> /\ Rests
  /\ Fault
  /\ success' = FALSE
  /\ UNCHANGED <<world, data, press, owed>>

(* Mutant: a status that says nothing new is taken for none.               *)
PollEndsOr ==
  /\ polling /\ todo = <<>> /\ Rests
  /\ data' = [d \in Stations |-> IF out[d] = "idle" THEN data[d] ELSE out[d]]
  /\ success' = TRUE
  /\ UNCHANGED <<world, press, faults, owed>>

PollEnds ==
  /\ polling /\ todo = <<>> /\ Rests
  /\ data' = out
  /\ success' = TRUE
  /\ UNCHANGED <<world, press, faults, owed>>

(* The sensor: native_value and available.                                 *)
Shown(d) ==
  IF ~success THEN "unavailable" ELSE IF data[d] \in CallStates THEN data[d] ELSE "none"

-----------------------------------------------------------------------------
(* The buttons                                                             *)

Goto(p, s) == at' = [at EXCEPT ![p] = s]

(* The arguments of a press that is over mean nothing.                     *)
Done(p) ==
  /\ button' = [button EXCEPT ![p] = "none"]
  /\ of' = [of EXCEPT ![p] = "none"]
  /\ reply' = [reply EXCEPT ![p] = NoReply]

Press(p, b, d) ==
  /\ at[p] = "before" /\ Goto(p, "asked")
  /\ button' = [button EXCEPT ![p] = b]
  /\ of' = [of EXCEPT ![p] = d]
  /\ UNCHANGED <<world, poll, reply, acted, muted, faults, seen, owed>>

(* The request reaches the station.                                        *)
Obeys(p) ==
  /\ at[p] = "asked" /\ Goto(p, "answered")
  /\ call[of[p]] = Takes[button[p]]
  /\ Becomes(of[p], Makes[button[p]])
  /\ acted' = acted \cup {p}
  /\ \E r \in Acceptances : reply' = [reply EXCEPT ![p] = r]
  /\ UNCHANGED <<changes, poll, button, of, muted, faults, owed>>

(* The cloud or the station does not do what it is asked.                  *)
Refuses(p) ==
  /\ at[p] = "asked" /\ Goto(p, "answered")
  /\ call[of[p]] # Takes[button[p]]
  /\ \E r \in Refusals :
       /\ reply' = [reply EXCEPT ![p] = r]
       /\ muted' = IF Mute(r) THEN muted \cup {p} ELSE muted
  /\ UNCHANGED <<world, poll, button, of, acted, faults, seen, owed>>

(* Mutant: only the meta code is looked at.                                *)
MetaRejected(r) == r.meta # "200"

(* _call_operation: meta and rc, which counts only where there is one.     *)
Rejected(r) == r.meta # "200" \/ (r.rc # "none" /\ r.rc # "1")

Answered(p) ==
  /\ at[p] = "answered"
  /\ Goto(p, IF Rejected(reply[p]) THEN "raised" ELSE "returned")
  /\ Done(p)
  /\ UNCHANGED <<world, poll, acted, muted, faults, seen, owed>>

(* The request or its reply is lost.                                       *)
PressFails(p) ==
  /\ at[p] \in {"asked", "answered"} /\ Goto(p, "raised")
  /\ Fault /\ Done(p)
  /\ UNCHANGED <<world, poll, acted, muted, seen, owed>>

-----------------------------------------------------------------------------
PollGoesOn == PollStarts \/ Reads \/ PollEnds

Next ==
  \/ PollGoesOn \/ ReadsNothing \/ PollFails
  \/ \E d \in Stations : \/ OnMessage(d) \/ MessageLost(d)
                         \/ \E s \in CallStates : Happens(d, s)
  \/ \E p \in Presses : \/ Obeys(p) \/ Refuses(p) \/ Answered(p) \/ PressFails(p)
                        \/ \E b \in Buttons, d \in Stations : Press(p, b, d)

(* The coordinator polls on as long as there are listeners, and every      *)
(* request has a timeout.                                                  *)
Fairness == WF_vars(PollGoesOn)

Spec == Init /\ [][Next]_vars /\ Fairness

-----------------------------------------------------------------------------
(* Properties                                                              *)

(* A status that a poll puts out is one that this station's call was in    *)
(* while the poll ran, whatever the other stations' requests did.          *)
ReadingsAreFresh ==
  [][PollEnds => \A d \in Stations : data'[d] \in seen[d] \cup {"unknown"}]_vars

(* When calls stop changing and requests stop failing, the sensors show    *)
(* the calls as they are, after failed polls and lost pushes, too.         *)
StatusFollows == \A d \in Stations : <>[](Shown(d) = call[d])

(* A button that raises no error has had its effect ("Without this the     *)
(* button silently no-ops on a rejection"), but for the one rejection that *)
(* the code cannot tell: meta code 200 and no rc that can be read.         *)
NoSilentNoOp == \A p \in Presses : at[p] = "returned" => p \in acted \cup muted

(* "a realtime MQTT push event triggers an immediate re-poll": the         *)
(* interval does not pass after an event that nothing came of.             *)
PushTriggersPoll == [][PollStarts => owed = {}]_vars
=============================================================================
