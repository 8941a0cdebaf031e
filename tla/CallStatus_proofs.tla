-------------------------- MODULE CallStatus_proofs --------------------------
(***************************************************************************)
(* Theorems of CallStatus, for any list of stations and any number of      *)
(* presses of buttons that overlap with each other, with polls and with    *)
(* what happens to the calls meanwhile.                                    *)
(***************************************************************************)
EXTENDS CallStatus, TLAPS

(* A press that has been answered has acted, or was refused in a reply     *)
(* that is rejected unless nothing in it says so.                          *)
PressInv ==
  /\ at \in [Presses -> {"before", "asked", "answered", "returned", "raised"}]
  /\ reply \in [Presses -> Replies \cup {NoReply}]
  /\ \A p \in Presses : at[p] = "answered" => Rejected(reply[p]) \/ p \in acted \cup muted
  /\ NoSilentNoOp

LEMMA PressStep == PressInv /\ [Next]_vars => PressInv'
<1>. SUFFICES ASSUME PressInv, [Next]_vars PROVE PressInv'
  OBVIOUS
<1>. USE DEF PressInv, NoSilentNoOp, Goto
<1>1. ASSUME UNCHANGED press PROVE PressInv'
  BY <1>1 DEF press
<1>2. ASSUME NEW p \in Presses, NEW b \in Buttons, NEW d \in Stations, Press(p, b, d)
      PROVE  PressInv'
  BY <1>2 DEF Press
<1>3. ASSUME NEW p \in Presses, Obeys(p) PROVE PressInv'
  <2>1. PICK r \in Acceptances : reply' = [reply EXCEPT ![p] = r]
    BY <1>3 DEF Obeys
  <2>2. r \in Replies
    BY DEF Acceptances
  <2>3. \A q \in Presses \ {p} : reply'[q] = reply[q] /\ at'[q] = at[q]
    BY <2>1, <1>3 DEF Obeys
  <2>4. acted' = acted \cup {p} /\ muted' = muted /\ at'[p] = "answered"
    BY <1>3 DEF Obeys
  <2>5. \A q \in Presses : at'[q] = "answered" => Rejected(reply[q])' \/ q \in acted' \cup muted'
    BY <2>3, <2>4 DEF Rejected
  <2>6. NoSilentNoOp'
    BY <2>3, <2>4
  <2>7. /\ at' \in [Presses -> {"before", "asked", "answered", "returned", "raised"}]
        /\ reply' \in [Presses -> Replies \cup {NoReply}]
    BY <2>1, <2>2, <1>3 DEF Obeys
  <2>. QED
    BY <2>5, <2>6, <2>7
<1>4. ASSUME NEW p \in Presses, Refuses(p) PROVE PressInv'
  <2>1. PICK r \in Refusals :
          /\ reply' = [reply EXCEPT ![p] = r]
          /\ muted' = IF Mute(r) THEN muted \cup {p} ELSE muted
    BY <1>4 DEF Refuses
  <2>2. r \in Replies /\ (Rejected(r) \/ Mute(r))
    BY DEF Refusals, Acceptances, Replies, Mute, Rejected
  <2>3. reply'[p] = r /\ (Rejected(r) \/ p \in muted')
    BY <2>1, <2>2
  <2>4. Rejected(reply'[p]) \/ p \in muted'
    BY <2>3 DEF Rejected
  <2>5. \A q \in Presses \ {p} : reply'[q] = reply[q] /\ at'[q] = at[q]
    BY <2>1, <1>4 DEF Refuses
  <2>6. acted' = acted /\ muted \subseteq muted' /\ at[p] = "asked"
    BY <2>1, <1>4 DEF Refuses
  <2>7. \A q \in Presses : at'[q] = "answered" => Rejected(reply[q])' \/ q \in acted' \cup muted'
    BY <2>4, <2>5, <2>6 DEF Rejected
  <2>8. NoSilentNoOp'
    BY <2>6, <1>4 DEF Refuses
  <2>9. /\ at' \in [Presses -> {"before", "asked", "answered", "returned", "raised"}]
        /\ reply' \in [Presses -> Replies \cup {NoReply}]
    BY <2>1, <2>2, <1>4 DEF Refuses
  <2>. QED
    BY <2>7, <2>8, <2>9
<1>5. ASSUME NEW p \in Presses, Answered(p) PROVE PressInv'
  BY <1>5 DEF Answered, Rejected, Done
<1>6. ASSUME NEW p \in Presses, PressFails(p) PROVE PressInv'
  BY <1>6 DEF PressFails, Done
<1>7. (\E d \in Stations : OnMessage(d) \/ MessageLost(d) \/ \E s \in CallStates : Happens(d, s))
        => UNCHANGED press
  BY DEF OnMessage, MessageLost, Happens
<1>8. PollGoesOn \/ ReadsNothing \/ PollFails \/ UNCHANGED vars => UNCHANGED press
  BY DEF PollGoesOn, PollStarts, Reads, PollEnds, ReadsNothing, PollFails, vars
<1>. QED
  BY <1>1, <1>2, <1>3, <1>4, <1>5, <1>6, <1>7, <1>8 DEF Next

-----------------------------------------------------------------------------
(* Type correctness, part by part.                                         *)

WorldOK ==
  /\ call \in [Stations -> CallStates]
  /\ published \in SUBSET Stations /\ owed \in SUBSET Stations
  /\ seen \in [Stations -> SUBSET CallStates]
  /\ changes \in 0..MaxChanges /\ faults \in 0..MaxFaults

PollOK ==
  /\ todo \in Seq(Stations)
  /\ polling \in BOOLEAN /\ success \in BOOLEAN
  /\ out \in [Stations -> CallStates \cup {"unknown"}]
  /\ data \in [Stations -> CallStates \cup {"unknown"}]

PressOK ==
  /\ at \in [Presses -> {"before", "asked", "answered", "returned", "raised"}]
  /\ button \in [Presses -> Buttons \cup {"none"}]
  /\ of \in [Presses -> Stations \cup {"none"}]
  /\ reply \in [Presses -> Replies \cup {NoReply}]
  /\ acted \in SUBSET Presses /\ muted \in SUBSET Presses
  /\ \A p \in Presses : at[p] = "asked" => button[p] \in Buttons /\ of[p] \in Stations

LEMMA PressTyped ==
  ASSUME PressOK, [Next]_vars
  PROVE  PressOK'
<1>. USE DEF PressOK, Goto, Done
<1>0. Acceptances \subseteq Replies /\ Refusals \subseteq Replies
  BY DEF Acceptances, Refusals
<1>1. CASE UNCHANGED press
  BY <1>1 DEF press
<1>2. ASSUME NEW p \in Presses, NEW b \in Buttons, NEW d \in Stations, Press(p, b, d)
      PROVE  PressOK'
  BY <1>2 DEF Press
<1>3. ASSUME NEW p \in Presses, Obeys(p) PROVE PressOK'
  BY <1>0, <1>3 DEF Obeys
<1>4. ASSUME NEW p \in Presses, Refuses(p) PROVE PressOK'
  BY <1>0, <1>4 DEF Refuses
<1>5. ASSUME NEW p \in Presses, Answered(p) PROVE PressOK'
  BY <1>5 DEF Answered
<1>6. ASSUME NEW p \in Presses, PressFails(p) PROVE PressOK'
  BY <1>6 DEF PressFails
<1>7. (\E d \in Stations : OnMessage(d) \/ MessageLost(d) \/ \E s \in CallStates : Happens(d, s))
        => UNCHANGED press
  BY DEF OnMessage, MessageLost, Happens
<1>8. PollGoesOn \/ ReadsNothing \/ PollFails \/ UNCHANGED vars => UNCHANGED press
  BY DEF PollGoesOn, PollStarts, Reads, PollEnds, ReadsNothing, PollFails, vars
<1>. QED
  BY <1>1, <1>2, <1>3, <1>4, <1>5, <1>6, <1>7, <1>8 DEF Next

LEMMA PollTyped ==
  ASSUME PollOK, WorldOK, [Next]_vars
  PROVE  PollOK'
<1>. USE DEF PollOK
<1>1. CASE UNCHANGED poll
  BY <1>1 DEF poll
<1>2. CASE PollStarts
  <2>1. polling' \in BOOLEAN /\ success' \in BOOLEAN
    BY <1>2, Zenon DEF PollStarts
  <2>. QED
    BY <1>2, <2>1, DevicesAssumption DEF PollStarts, NoReadings
<1>3. ASSUME NEW status \in CallStates \cup {"unknown"}, Record(status),
             UNCHANGED <<polling, data, success>>
      PROVE  PollOK'
  BY <1>3 DEF Record
<1>4. CASE Reads
  <2>1. call[Head(todo)] \in CallStates
    BY <1>4 DEF Reads, WorldOK
  <2>. QED
    BY <1>3, <1>4, <2>1 DEF Reads
<1>5. CASE ReadsNothing
  BY <1>3, <1>5 DEF ReadsNothing
<1>6. CASE Rests /\ success' \in BOOLEAN /\ data' \in {data, out}
  <2>1. polling' \in BOOLEAN
    BY <1>6, Zenon DEF Rests
  <2>2. todo' \in Seq(Stations)
    BY <1>6 DEF Rests
  <2>. QED
    BY <1>6, <2>1, <2>2 DEF Rests, NoReadings
<1>7. CASE PollFails
  <2>1. success' \in BOOLEAN
    BY <1>7, Zenon DEF PollFails
  <2>. QED
    BY <1>6, <1>7, <2>1 DEF PollFails
<1>8. CASE PollEnds
  <2>1. success' \in BOOLEAN
    BY <1>8, Zenon DEF PollEnds
  <2>. QED
    BY <1>6, <1>8, <2>1 DEF PollEnds
<1>9. (\E d \in Stations : OnMessage(d) \/ MessageLost(d) \/ \E s \in CallStates : Happens(d, s))
        => UNCHANGED poll
  BY DEF OnMessage, MessageLost, Happens
<1>10. ASSUME NEW p \in Presses,
              \/ Obeys(p) \/ Refuses(p) \/ Answered(p) \/ PressFails(p)
              \/ \E b \in Buttons, d \in Stations : Press(p, b, d)
       PROVE  UNCHANGED poll
  BY <1>10 DEF Obeys, Refuses, Answered, PressFails, Press
<1>. QED
  BY <1>1, <1>2, <1>4, <1>5, <1>7, <1>8, <1>9, <1>10 DEF Next, PollGoesOn, vars, poll

LEMMA WorldTyped ==
  ASSUME WorldOK, PressOK, [Next]_vars
  PROVE  WorldOK'
<1>. USE MaxChangesAssumption, MaxFaultsAssumption DEF WorldOK, Fault, world
<1>1. CASE UNCHANGED vars
  BY <1>1 DEF vars
<1>2. ASSUME NEW d \in Stations, NEW s \in CallStates, Becomes(d, s)
      PROVE  /\ call' \in [Stations -> CallStates] /\ published' \in SUBSET Stations
             /\ seen' \in [Stations -> SUBSET CallStates]
  BY <1>2 DEF Becomes
<1>3. ASSUME NEW d \in Stations, NEW s \in CallStates, Happens(d, s)
      PROVE  WorldOK'
  BY <1>2, <1>3 DEF Happens
<1>4. ASSUME NEW d \in Stations, OnMessage(d) \/ MessageLost(d)
      PROVE  WorldOK'
  BY <1>4 DEF OnMessage, MessageLost
<1>5. CASE PollStarts
  BY <1>5 DEF PollStarts
<1>6. CASE Reads \/ ReadsNothing
  BY <1>6 DEF Reads, ReadsNothing
<1>7. CASE PollFails \/ PollEnds
  BY <1>7 DEF PollFails, PollEnds, Rests
<1>8. ASSUME NEW p \in Presses, Obeys(p) PROVE WorldOK'
  <2>1. of[p] \in Stations /\ Makes[button[p]] \in CallStates
    BY <1>8 DEF Obeys, PressOK, Makes, CallStates
  <2>. QED
    BY <1>2, <1>8, <2>1 DEF Obeys
<1>9. ASSUME NEW p \in Presses,
             \/ Refuses(p) \/ Answered(p) \/ PressFails(p)
             \/ \E b \in Buttons, d \in Stations : Press(p, b, d)
      PROVE  WorldOK'
  BY <1>9 DEF Refuses, Answered, PressFails, Press
<1>. QED
  BY <1>1, <1>3, <1>4, <1>5, <1>6, <1>7, <1>8, <1>9 DEF Next, PollGoesOn

Typed == WorldOK /\ PollOK /\ PressOK

LEMMA TypedInvariant == Spec => []Typed
<1>1. Init => Typed
  <2>. SUFFICES ASSUME Init PROVE Typed
    OBVIOUS
  <2>1. WorldOK
    BY MaxChangesAssumption, MaxFaultsAssumption DEF Init, WorldOK, CallStates
  <2>2. polling \in BOOLEAN /\ success \in BOOLEAN
    BY Zenon DEF Init
  <2>3. PollOK
    BY <2>1, <2>2 DEF Init, PollOK, WorldOK, NoReadings
  <2>4. PressOK
    BY DEF Init, PressOK
  <2>. QED
    BY <2>1, <2>3, <2>4 DEF Typed
<1>2. Typed /\ [Next]_vars => Typed'
  BY WorldTyped, PollTyped, PressTyped DEF Typed
<1>. QED
  BY <1>1, <1>2, PTL DEF Spec

(* Every reachable state is well typed.                                    *)
THEOREM TypeCorrect == Spec => []TypeOK
<1>1. Typed => TypeOK
  BY DEF Typed, WorldOK, PollOK, PressOK, TypeOK
<1>. QED
  BY <1>1, TypedInvariant, PTL

-----------------------------------------------------------------------------
(* What a poll under way has seen: the call of each station as it is now,  *)
(* whether or not the poll has asked the station yet, and all its readings.*)
FreshInv ==
  /\ todo # <<>> => polling
  /\ polling => \A d \in Stations : /\ call[d] \in seen[d]
                                    /\ out[d] \in seen[d] \cup {"unknown"}

LEMMA FreshStep ==
  ASSUME Typed, FreshInv, [Next]_vars
  PROVE  FreshInv'
<1>. USE DEF FreshInv, world, poll
<1>0. /\ call \in [Stations -> CallStates] /\ seen \in [Stations -> SUBSET CallStates]
      /\ todo \in Seq(Stations)
      /\ out \in [Stations -> CallStates \cup {"unknown"}]
  BY DEF Typed, WorldOK, PollOK
<1>1. CASE UNCHANGED vars
  BY <1>1 DEF vars
<1>2. ASSUME NEW d \in Stations, NEW s \in CallStates, Becomes(d, s), UNCHANGED poll
      PROVE  FreshInv'
  BY <1>0, <1>2 DEF Becomes
<1>3. ASSUME NEW d \in Stations, NEW s \in CallStates, Happens(d, s)
      PROVE  FreshInv'
  BY <1>2, <1>3 DEF Happens
<1>4. ASSUME NEW d \in Stations, OnMessage(d) \/ MessageLost(d)
      PROVE  FreshInv'
  BY <1>4 DEF OnMessage, MessageLost
<1>5. CASE PollStarts
  BY <1>0, <1>5 DEF PollStarts, NoReadings
<1>6. ASSUME NEW status, Record(status), UNCHANGED <<call, seen, polling>>,
             status \in seen[Head(todo)] \cup {"unknown"}
      PROVE  FreshInv'
  <2>1. Head(todo) \in Stations /\ polling
    BY <1>0, <1>6 DEF Record
  <2>. QED
    BY <1>0, <1>6, <2>1 DEF Record
<1>7. CASE Reads
  <2>1. Head(todo) \in Stations /\ polling
    BY <1>0, <1>7 DEF Reads
  <2>. QED
    BY <1>6, <1>7, <2>1 DEF Reads
<1>8. CASE ReadsNothing
  BY <1>6, <1>8 DEF ReadsNothing
<1>9. CASE PollFails \/ PollEnds
  BY <1>9 DEF PollFails, PollEnds, Rests
<1>10. ASSUME NEW p \in Presses, Obeys(p) PROVE FreshInv'
  <2>1. of[p] \in Stations /\ Makes[button[p]] \in CallStates
    BY <1>10 DEF Obeys, Typed, PressOK, Makes, CallStates
  <2>. QED
    BY <1>2, <1>10, <2>1 DEF Obeys
<1>11. ASSUME NEW p \in Presses,
              \/ Refuses(p) \/ Answered(p) \/ PressFails(p)
              \/ \E b \in Buttons, d \in Stations : Press(p, b, d)
       PROVE  FreshInv'
  BY <1>11 DEF Refuses, Answered, PressFails, Press
<1>. QED
  BY <1>1, <1>3, <1>4, <1>5, <1>7, <1>8, <1>9, <1>10, <1>11 DEF Next, PollGoesOn

(* However long the list of stations is and however many requests of a     *)
(* poll fail, a reading that the poll puts out was true while it ran.      *)
THEOREM ReadingsFresh == Spec => ReadingsAreFresh
<1>1. Init => FreshInv
  BY DEF Init, FreshInv
<1>2. Typed /\ FreshInv /\ [Next]_vars => FreshInv'
  BY FreshStep
<1>3. FreshInv => [PollEnds => \A d \in Stations : data'[d] \in seen[d] \cup {"unknown"}]_vars
  BY DEF FreshInv, PollEnds
<1>. QED
  BY <1>1, <1>2, <1>3, TypedInvariant, PTL DEF Spec, ReadingsAreFresh

-----------------------------------------------------------------------------
(* A button whose press raises no error has had its effect on the call,    *)
(* whatever else happened to the call between the press and the reply,     *)
(* unless its refusal came with meta code 200 and no readable rc.          *)
THEOREM ButtonsAct == Spec => []NoSilentNoOp
<1>1. Init => PressInv
  BY DEF Init, PressInv, NoSilentNoOp
<1>2. PressInv => NoSilentNoOp
  BY DEF PressInv
<1>. QED
  BY <1>1, <1>2, PressStep, PTL DEF Spec
=============================================================================
