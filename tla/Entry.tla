------------------------------- MODULE Entry -------------------------------
(***************************************************************************)
(* The life of a config entry: __init__.py (setup and unload), push.py     *)
(* (start and stop of the MQTT client), config_flow.py (the two forms) and *)
(* the door entities of DoorLocks, which come and go with the platforms.   *)
(*                                                                         *)
(* Home Assistant is external: it runs setup, unload and reload of an      *)
(* entry one at a time, retries a setup that is not ready, and unloads an  *)
(* entry only if it is loaded.  Reloads that are due at the same time      *)
(* count as one.  The cloud takes one set of credentials at a time.        *)
(***************************************************************************)
EXTENDS Naturals, FiniteSets

CONSTANTS Credentials,  \* what the forms can yield: account, password, server
          MaxChanges,   \* bound on what people do
          MaxFaults,    \* bound on requests that fail
          NumDoors, Calls  \* DoorLocks's

NoData == "none"
ASSUME NoDataAssumption == NoData \notin Credentials
ASSUME BoundsAssumption == MaxChanges \in Nat /\ MaxFaults \in Nat /\ NumDoors \in Nat

VARIABLES
  data,       \* entry.data
  accepted,   \* the credentials the cloud accepts
  entry,      \* the ConfigEntryState
  step,       \* the await at which setup or unload stands
  client,     \* the credentials of the HikConnectClient of the last setup
  push,       \* those of its HikConnectPush, none if push is None
  running,    \* MQTT clients that run
  targets,    \* sets of dispatcher connections that exist
  reload,     \* a setup or reload is due
  form,       \* the credentials a form is trying, if one is
  changes, faults,
  rebuffed,   \* history: the last setup was refused its login
  abandoned,  \* history: setups that failed after their connections were made
  present, shown, timers, pc, target, mine   \* DoorLocks's

Doors == INSTANCE DoorLocks

config == <<data, form>>
setup == <<entry, step, client>>
kept == <<push, running, targets>>
counts == <<changes, faults, rebuffed, abandoned>>
entities == <<present, shown, timers, pc, target, mine>>
vars == <<config, accepted, setup, kept, reload, counts, entities>>

States == {"none", "not_loaded", "setup", "loaded", "retry", "error", "unload", "failed_unload"}
Steps == {"none", "login", "calls", "status", "push", "platforms", "stop"}

TypeOK ==
  /\ data \in Credentials \cup {NoData}
  /\ accepted \in Credentials
  /\ entry \in States
  /\ step \in Steps
  /\ client \in Credentials \cup {NoData}
  /\ push \in Credentials \cup {NoData}
  /\ running \in Nat
  /\ targets \in Nat
  /\ reload \in BOOLEAN
  /\ form \in Credentials \cup {NoData}
  /\ changes \in 0..MaxChanges
  /\ faults \in 0..MaxFaults
  /\ rebuffed \in BOOLEAN
  /\ abandoned \in Nat
  /\ Doors!TypeOK

Init ==
  /\ data = NoData /\ form = NoData
  /\ accepted \in Credentials
  /\ entry = "none" /\ step = "none" /\ client = NoData
  /\ push = NoData /\ running = 0 /\ targets = 0
  /\ reload = FALSE
  /\ changes = 0 /\ faults = 0 /\ rebuffed = FALSE /\ abandoned = 0
  /\ Doors!Init

Change == changes < MaxChanges /\ changes' = changes + 1
Fault == faults < MaxFaults /\ faults' = faults + 1

-----------------------------------------------------------------------------
(* The forms, async_step_user and async_step_reconfigure                   *)

(* The form is submitted; with a blank password a reconfiguration takes    *)
(* the entry's own, so data is one of the credentials it may try.          *)
Submit(credentials) ==
  /\ form = NoData
  /\ form' = credentials
  /\ Change
  /\ UNCHANGED <<data, accepted, setup, kept, reload, faults, rebuffed, abandoned, entities>>

(* The login is refused or fails, or the account is not the entry's, or    *)
(* has an entry already.                                                   *)
FormEnds ==
  /\ form # NoData /\ form' = NoData
  /\ UNCHANGED <<data, accepted, setup, kept, reload, counts, entities>>

(* Mutant: only a loaded entry is reloaded.                                *)
FormSavesIdle ==
  /\ form = accepted
  /\ data' = form /\ form' = NoData
  /\ entry' = IF entry = "none" THEN "not_loaded" ELSE entry
  /\ reload' = (reload \/ entry \in {"none", "loaded"})
  /\ UNCHANGED <<accepted, step, client, kept, counts, entities>>

(* async_create_entry, or async_update_reload_and_abort.                   *)
FormSaves ==
  /\ form = accepted
  /\ data' = form /\ form' = NoData
  /\ entry' = IF entry = "none" THEN "not_loaded" ELSE entry
  /\ reload' = TRUE
  /\ UNCHANGED <<accepted, step, client, kept, counts, entities>>

(* The owner changes the password in the app.                              *)
Owner ==
  /\ Change
  /\ accepted' \in Credentials \ {accepted}
  /\ UNCHANGED <<config, setup, kept, reload, faults, rebuffed, abandoned, entities>>

-----------------------------------------------------------------------------
(* async_setup_entry                                                       *)

AtSetup(s) == entry = "setup" /\ step = s
Goto(s) == step' = s /\ UNCHANGED entry
Become(state) == entry' = state /\ step' = "none"

SetupStarts ==
  /\ entry = "retry" \/ (reload /\ entry \in {"not_loaded", "error"})
  /\ entry' = "setup" /\ step' = "login"
  /\ client' = data
  /\ reload' = FALSE
  /\ rebuffed' = FALSE
  /\ UNCHANGED <<config, accepted, kept, changes, faults, abandoned, entities>>

LoggedIn ==
  /\ AtSetup("login") /\ client = accepted
  /\ Goto("calls")
  /\ UNCHANGED <<config, accepted, client, kept, reload, counts, entities>>

(* ConfigEntryAuthFailed: the credentials are wrong, or the cloud wants a  *)
(* CAPTCHA or answers with any other code.                                 *)
Refused ==
  /\ AtSetup("login")
  /\ \/ client # accepted /\ UNCHANGED faults
     \/ Fault
  /\ Become("error")
  /\ rebuffed' = TRUE
  /\ UNCHANGED <<config, accepted, client, kept, reload, changes, abandoned, entities>>

(* Mutant: ConfigEntryNotReady is not raised, the entry fails for good.    *)
NotReadyFails ==
  /\ \E s \in {"login", "calls", "status"} : AtSetup(s)
  /\ Fault
  /\ Become("error")
  /\ UNCHANGED <<config, accepted, client, kept, reload, changes, rebuffed, abandoned, entities>>

(* ConfigEntryNotReady, of the enumeration or of a first refresh.          *)
NotReady ==
  /\ \E s \in {"login", "calls", "status"} : AtSetup(s)
  /\ Fault
  /\ Become("retry")
  /\ UNCHANGED <<config, accepted, client, kept, reload, changes, rebuffed, abandoned, entities>>

CallsPolled ==
  /\ AtSetup("calls") /\ Goto("status")
  /\ UNCHANGED <<config, accepted, client, kept, reload, counts, entities>>

(* Then the signals are connected, and the push client is made.            *)
StatusPolled ==
  /\ AtSetup("status") /\ Goto("push")
  /\ targets' = targets + 1
  /\ push' = data
  /\ UNCHANGED <<config, accepted, client, running, reload, counts, entities>>

(* push.async_start: its own login, address, registration, MQTT client.    *)
PushStarts ==
  /\ AtSetup("push") /\ Goto("platforms")
  /\ push = accepted
  /\ running' = running + 1
  /\ UNCHANGED <<config, accepted, client, push, targets, reload, counts, entities>>

PushFails ==
  /\ AtSetup("push") /\ Goto("platforms")
  /\ \/ push # accepted /\ UNCHANGED faults
     \/ Fault
  /\ push' = NoData
  /\ UNCHANGED <<config, accepted, client, running, targets, reload, changes, rebuffed, abandoned, entities>>

SetUp ==
  /\ AtSetup("platforms") /\ Become("loaded")
  /\ Doors!Added
  /\ UNCHANGED <<config, accepted, client, kept, reload, counts>>

(* async_forward_entry_setups raises: nothing is undone.                   *)
PlatformsFail ==
  /\ AtSetup("platforms") /\ Become("error")
  /\ Fault
  /\ abandoned' = abandoned + 1
  /\ UNCHANGED <<config, accepted, client, kept, reload, changes, rebuffed, entities>>

-----------------------------------------------------------------------------
(* async_unload_entry                                                      *)

UnloadStarts ==
  /\ entry = "loaded"
  /\ entry' = "unload" /\ step' = "platforms"
  /\ UNCHANGED <<config, accepted, client, kept, entities>>

(* A reload, or the user disables the entry.                               *)
Reloads == reload /\ UnloadStarts /\ UNCHANGED <<reload, counts>>
Disable == ~reload /\ UnloadStarts /\ Change /\ UNCHANGED <<reload, faults, rebuffed, abandoned>>

UserReloads ==
  /\ entry # "none" /\ ~reload
  /\ reload' = TRUE
  /\ Change
  /\ UNCHANGED <<config, accepted, setup, kept, faults, rebuffed, abandoned, entities>>

(* An entry that failed to unload is not unloaded or set up again.         *)
ReloadRejected ==
  /\ reload /\ entry = "failed_unload"
  /\ reload' = FALSE
  /\ UNCHANGED <<config, accepted, setup, kept, counts, entities>>

UnloadFails ==
  /\ entry = "unload" /\ step = "platforms" /\ Become("failed_unload")
  /\ Fault
  /\ Doors!Removed \/ UNCHANGED entities
  /\ UNCHANGED <<config, accepted, client, kept, reload, changes, rebuffed, abandoned>>

(* Mutant: the listener is not stopped.                                    *)
UnloadedPushRuns ==
  /\ entry = "unload" /\ step = "platforms"
  /\ Doors!Removed
  /\ targets' = targets - 1
  /\ Become("not_loaded")
  /\ push' = NoData
  /\ UNCHANGED <<config, accepted, client, running, reload, counts>>

(* The platforms are unloaded, the data popped, the signals disconnected.  *)
Unloaded ==
  /\ entry = "unload" /\ step = "platforms"
  /\ Doors!Removed
  /\ targets' = targets - 1
  /\ IF push = NoData THEN Become("not_loaded") ELSE Goto("stop")
  /\ UNCHANGED <<config, accepted, client, push, running, reload, counts>>

(* push.async_stop                                                         *)
PushStopped ==
  /\ step = "stop" /\ Become("not_loaded")
  /\ running' = running - 1
  /\ push' = NoData
  /\ UNCHANGED <<config, accepted, client, targets, reload, counts, entities>>

-----------------------------------------------------------------------------
UseDoors ==
  /\ \/ \E c \in Calls, d \in Doors!Doors : Doors!Unlock(c, d)
     \/ \E c \in Calls : Doors!UnlockAll(c)
     \/ \E d \in Doors!Doors : Doors!Lock(d)
  /\ Change
  /\ UNCHANGED <<config, accepted, setup, kept, reload, faults, rebuffed, abandoned>>

DoorsGo ==
  /\ \/ \E c \in Calls : Doors!Unlocked(c) \/ Doors!NextDoor(c) \/ Doors!AllUnlocked(c)
     \/ \E d \in Doors!Doors : Doors!Relock(d)
  /\ UNCHANGED <<config, accepted, setup, kept, reload, counts>>

DoorsFail ==
  /\ \E c \in Calls : Doors!Raises(c)
  /\ Fault
  /\ UNCHANGED <<config, accepted, setup, kept, reload, changes, rebuffed, abandoned>>

Proceeds ==
  \/ SetupStarts \/ LoggedIn \/ Refused \/ CallsPolled \/ StatusPolled
  \/ PushStarts \/ PushFails \/ SetUp
  \/ Reloads \/ ReloadRejected \/ Unloaded \/ PushStopped

Next ==
  \/ Proceeds \/ NotReady \/ PlatformsFail \/ UnloadFails
  \/ \E c \in Credentials : Submit(c)
  \/ FormEnds \/ FormSaves \/ Owner
  \/ Disable \/ UserReloads
  \/ UseDoors \/ DoorsGo \/ DoorsFail

(* Home Assistant carries out what is due and retries; requests end.       *)
Fairness == WF_vars(Proceeds)

Spec == Init /\ [][Next]_vars /\ Fairness

-----------------------------------------------------------------------------
(* Properties                                                              *)

(* What the setup that is in force has connected.                          *)
Connected ==
  \/ entry \in {"loaded", "failed_unload"}
  \/ entry = "setup" /\ step \in {"push", "platforms"}
  \/ entry = "unload" /\ step = "platforms"
Listening ==
  /\ push # NoData
  /\ \/ entry \in {"loaded", "failed_unload", "unload"}
     \/ entry = "setup" /\ step = "platforms"

Count(condition) == IF condition THEN 1 ELSE 0

(* Reloads, failed setups and retries never stack up listeners: there is   *)
(* one MQTT client and one set of connections for the setup in force, none *)
(* otherwise, and more only as failures of async_forward_entry_setups left *)
(* them behind.                                                            *)
NothingElseLeft ==
  /\ targets = Count(Connected) + abandoned
  /\ running \in Count(Listening)..(Count(Listening) + abandoned)

(* A loaded entry works with the credentials it stores, although a form    *)
(* may store others while a setup is under way, between its two readings   *)
(* of entry.data.                                                          *)
LoadedMatchesData ==
  entry = "loaded" /\ ~reload => client = data /\ push \in {data, NoData}

(* An entry that is to be set up, or waits for a retry, ends up loaded     *)
(* unless a login is refused or the platforms fail.                        *)
ReturnsToService ==
  reload \/ entry \in {"setup", "retry"} ~>
    entry \in {"loaded", "failed_unload"} \/ rebuffed \/ abandoned > 0

(* The doors of an entry that comes and goes: a door shown open has a      *)
(* timer of the same entity pending, so it never stays shown open.         *)
DoorsRelock == Doors!RelockPending
=============================================================================
