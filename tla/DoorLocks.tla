----------------------------- MODULE DoorLocks -----------------------------
(***************************************************************************)
(* lock.py and the unlock-all button of button.py: the lock entities of    *)
(* one station.  There is no feedback from the latch, so an entity assumes *)
(* the door open once the cloud has answered, and locked again when the    *)
(* timer of that unlock fires.  Which timer fires first does not matter    *)
(* here: a timer that is pending fires.                                    *)
(*                                                                         *)
(* The cloud and the station are external: a request is carried out,       *)
(* refused by the station with an answer that looks the same, or fails.    *)
(***************************************************************************)
EXTENDS Naturals, FiniteSets

CONSTANTS NumDoors,  \* the latches of dev.locks
          Calls      \* service calls and presses: executor jobs under way

Doors == 1..NumDoors  \* in the order in which the button unlocks them

VARIABLES
  present,  \* the platforms are set up: the entities exist
  shown,    \* shown[d]: _attr_is_locked, as a word
  timers,   \* timers[d]: pending timers of the present entity's unlocks
  pc,       \* pc[c]: what the call does
  target,   \* target[c]: the door of its request
  mine      \* mine[c]: the entity of the call is still present

doors == <<present, shown, timers, pc, target, mine>>

(* "unlock": async_unlock waits for its request; "all": work() of the      *)
(* unlock-all button waits for the request of its present door.            *)
TypeOK ==
  /\ present \in BOOLEAN
  /\ shown \in [Doors -> {"locked", "unlocked"}]
  /\ timers \in [Doors -> Nat]
  /\ pc \in [Calls -> {"idle", "unlock", "all"}]
  /\ target \in [Calls -> Doors \cup {0}]
  /\ mine \in [Calls -> BOOLEAN]

Init ==
  /\ present = FALSE
  /\ shown = [d \in Doors |-> "locked"]
  /\ timers = [d \in Doors |-> 0]
  /\ pc = [c \in Calls |-> "idle"]
  /\ target = [c \in Calls |-> 0]
  /\ mine = [c \in Calls |-> FALSE]

-----------------------------------------------------------------------------
(* New entities start locked; timers and calls of removed ones run on, and *)
(* what they write is not shown.                                           *)
Added ==
  /\ present' = TRUE
  /\ shown' = [d \in Doors |-> "locked"]
  /\ UNCHANGED <<timers, pc, target, mine>>

Removed ==
  /\ present' = FALSE
  /\ timers' = [d \in Doors |-> 0]
  /\ mine' = [c \in Calls |-> FALSE]
  /\ UNCHANGED <<shown, pc, target>>

-----------------------------------------------------------------------------
Starts(c, work, d) ==
  /\ present /\ pc[c] = "idle"
  /\ pc' = [pc EXCEPT ![c] = work]
  /\ target' = [target EXCEPT ![c] = d]
  /\ mine' = [mine EXCEPT ![c] = TRUE]

Ends(c) ==
  /\ pc' = [pc EXCEPT ![c] = "idle"]
  /\ target' = [target EXCEPT ![c] = 0]
  /\ mine' = [mine EXCEPT ![c] = FALSE]

Unlock(c, d) == Starts(c, "unlock", d) /\ UNCHANGED <<present, shown, timers>>

(* Mutant: the state is kept by unique id, where the answer to a removed   *)
(* entity's request shows the door of the new one open; the timer still    *)
(* locks the entity that armed it.                                         *)
UnlockedByUniqueId(c) ==
  /\ pc[c] = "unlock" /\ Ends(c)
  /\ shown' = [shown EXCEPT ![target[c]] = "unlocked"]
  /\ timers' = [timers EXCEPT ![target[c]] = IF mine[c] THEN @ + 1 ELSE @]
  /\ UNCHANGED present

(* The request returned: the entity shows the door open, whether or not    *)
(* the station obeyed, and arms a timer of its own.                        *)
Unlocked(c) ==
  /\ pc[c] = "unlock" /\ Ends(c)
  /\ IF mine[c] THEN /\ shown' = [shown EXCEPT ![target[c]] = "unlocked"]
                     /\ timers' = [timers EXCEPT ![target[c]] = @ + 1]
                ELSE UNCHANGED <<shown, timers>>
  /\ UNCHANGED present

(* _call raised: the service call or the press raises, the rest of its     *)
(* doors is left.                                                          *)
Raises(c) == pc[c] # "idle" /\ Ends(c) /\ UNCHANGED <<present, shown, timers>>

(* async_lock, by a service call or by a timer.                            *)
Lock(d) ==
  /\ present
  /\ shown' = [shown EXCEPT ![d] = "locked"]
  /\ UNCHANGED <<present, timers, pc, target, mine>>

Relock(d) ==
  /\ timers[d] > 0
  /\ timers' = [timers EXCEPT ![d] = @ - 1]
  /\ shown' = [shown EXCEPT ![d] = "locked"]
  /\ UNCHANGED <<present, pc, target, mine>>

-----------------------------------------------------------------------------
(* The button touches no lock entity.                                      *)
UnlockAll(c) ==
  /\ NumDoors > 0
  /\ Starts(c, "all", 1)
  /\ UNCHANGED <<present, shown, timers>>

NextDoor(c) ==
  /\ pc[c] = "all" /\ target[c] + 1 \in Doors
  /\ target' = [target EXCEPT ![c] = @ + 1]
  /\ UNCHANGED <<present, shown, timers, pc, mine>>

(* The request for the last door returned.                                 *)
AllUnlocked(c) ==
  /\ pc[c] = "all" /\ target[c] + 1 \notin Doors
  /\ Ends(c)
  /\ UNCHANGED <<present, shown, timers>>

-----------------------------------------------------------------------------
(* A door is never shown open for good: an entity that shows it open has a *)
(* timer of its own pending, however calls, timers, locking by hand and    *)
(* reloads interleave ("it auto-relocks after a few seconds").             *)
RelockPending ==
  \A d \in Doors : present /\ shown[d] = "unlocked" => timers[d] > 0
=============================================================================
