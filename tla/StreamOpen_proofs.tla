-------------------------- MODULE StreamOpen_proofs --------------------------
(***************************************************************************)
(* Proof that an attempt to open an upstream which nothing disturbs ends   *)
(* with one that delivers, for any number of channels, viewers, slots, key *)
(* changes and faults.                                                     *)
(***************************************************************************)
EXTENDS StreamOpen, TLAPS

(* Every step keeps the state well typed.                                  *)
LEMMA TypeStep == TypeOK /\ [Next]_vars => TypeOK'
<1>. SUFFICES ASSUME TypeOK, [Next]_vars PROVE TypeOK'
  OBVIOUS
<1>. USE DEF TypeOK, Shared!States
<1>1. CASE Rotate
  BY <1>1 DEF Rotate, shared
<1>2. CASE CasLearns
  BY <1>2 DEF CasLearns, shared, opening
<1>3. ASSUME NEW ch \in Channels, Begin(ch) PROVE TypeOK'
  <2>1. up' = [up EXCEPT ![ch] = "opening"] /\ UNCHANGED viewers
    BY <1>3 DEF Begin, Shared!Reserve, Shared!Move
  <2>2. UNCHANGED <<stationKey, casKey, key, delivers, faults>>
    BY <1>3 DEF Begin, station
  <2>3. refresh' \in [Channels -> BOOLEAN] /\ disturbed' \in SUBSET Channels
    BY <1>3 DEF Begin
  <2>4. /\ at' \in [Channels -> {"none", "key", "unmade", "init", "invite", "play"}]
        /\ sent' \in [Channels -> Keys \cup {NoKey}]
    BY <1>3 DEF Begin, NewClient, Goto
  <2>. QED
    BY <2>1, <2>2, <2>3, <2>4
<1>4. ASSUME NEW ch \in Channels, KeyFetched(ch) PROVE TypeOK'
  BY <1>4 DEF KeyFetched, NewClient, Goto, shared, station
<1>11. ASSUME NEW ch \in Channels, KeyMalformed(ch) PROVE TypeOK'
  BY <1>11, MaxFaultsAssumption DEF KeyMalformed, NewClient, Goto, shared, station
<1>12. ASSUME NEW ch \in Channels, ClientFails(ch) PROVE TypeOK'
  BY <1>12 DEF ClientFails, Fails, Goto, station, Shared!OpenFails, Shared!Move
<1>5. ASSUME NEW ch \in Channels, Accepted(ch) PROVE TypeOK'
  BY <1>5 DEF Accepted, Goto, shared, station
<1>6. ASSUME NEW ch \in Channels, Refused(ch) PROVE TypeOK'
  <2>1. faults' \in 0..MaxFaults /\ disturbed' \in SUBSET Channels
    BY <1>6, MaxFaultsAssumption DEF Refused, Refusal, Fault, Disturb
  <2>2. UNCHANGED <<stationKey, casKey, sent, delivers, viewers>>
    BY <1>6 DEF Refused, Fails, Shared!OpenFails, station, shared
  <2>3. /\ key' \in [Channels -> Keys \cup {NoKey, BadKey}]
        /\ at' \in [Channels -> {"none", "key", "unmade", "init", "invite", "play"}]
        /\ refresh' \in [Channels -> BOOLEAN]
    BY <1>6 DEF Refused, Fails, Goto
  <2>4. up' \in [Channels -> Shared!States]
    BY <1>6 DEF Refused, Fails, Shared!OpenFails, Shared!Move, shared
  <2>. QED
    BY <2>1, <2>2, <2>3, <2>4
<1>7. ASSUME NEW ch \in Channels, BreaksOff(ch) PROVE TypeOK'
  BY <1>7, MaxFaultsAssumption DEF BreaksOff, Fault, Disturb, Fails, Goto, station,
                                   Shared!OpenFails, Shared!Move
<1>8. ASSUME NEW ch \in Channels, NEW v \in Viewers, Played(ch, v) PROVE TypeOK'
  BY <1>8 DEF Played, Goto, station, Shared!Opened, Shared!Move, Shared!Attach
<1>9. ASSUME NEW ch \in Channels, Share(ch) PROVE TypeOK'
  <2>1. up' \in [Channels -> Shared!States] /\ viewers' \in [Channels -> SUBSET Viewers]
    BY <1>9 DEF Share, Shared!Dies, Shared!GiveUp, Shared!Closed, Shared!Join, Shared!Leave,
                Shared!Move, Shared!Attach
  <2>. QED
    BY <1>9, <2>1 DEF Share, station, opening
<1>10. CASE UNCHANGED vars
  BY <1>10 DEF vars, shared, station
<1>. QED
  BY <1>1, <1>2, <1>3, <1>4, <1>5, <1>6, <1>7, <1>8, <1>9, <1>10, <1>11, <1>12
     DEF Next, Attempt

(* What an attempt owes to the key: as long as nothing disturbed it, the   *)
(* CAS has the station's key; requests past INIT, and all requests of the  *)
(* second round, are made with it.                                         *)
KeyInv == \A ch \in Channels :
  /\ at[ch] # "none" => up[ch] = "opening"
  /\ at[ch] = "unmade" => key[ch] = BadKey
  /\ up[ch] = "opening" /\ ch \notin disturbed =>
       /\ casKey = stationKey
       /\ at[ch] \in {"invite", "play"} => sent[ch] = stationKey
       /\ refresh[ch] => at[ch] \in {"key", "unmade"} \/ sent[ch] = stationKey

AttemptInv == TypeOK /\ KeyInv

(* One step preserves it.                                                  *)
LEMMA KeyStep == AttemptInv /\ [Next]_vars => KeyInv'
<1>. SUFFICES ASSUME TypeOK, KeyInv, [Next]_vars PROVE KeyInv'
  BY DEF AttemptInv
<1>. USE DEF KeyInv, TypeOK
<1>1. CASE Rotate
  BY <1>1 DEF Rotate, shared
<1>2. CASE CasLearns
  BY <1>2 DEF CasLearns, shared, opening
<1>3. ASSUME NEW ch \in Channels, Begin(ch) PROVE KeyInv'
  <2>1. up' = [up EXCEPT ![ch] = "opening"]
    BY <1>3 DEF Begin, Shared!Reserve, Shared!Move
  <2>2. UNCHANGED <<stationKey, casKey>> /\ refresh' = [refresh EXCEPT ![ch] = FALSE]
    BY <1>3 DEF Begin, station
  <2>3. /\ casKey # stationKey => ch \in disturbed'
        /\ \A c \in Channels \ {ch} : c \in disturbed' <=> c \in disturbed
    BY <1>3 DEF Begin
  <2>4. /\ at'[ch] \in {"key", "init"} \/ (at'[ch] = "unmade" /\ key'[ch] = BadKey)
        /\ \A c \in Channels \ {ch} : at'[c] = at[c] /\ sent'[c] = sent[c]
    BY <1>3 DEF Begin, NewClient, Goto
  <2>5. UNCHANGED key
    BY <1>3 DEF Begin
  <2>. QED
    BY <2>1, <2>2, <2>3, <2>4, <2>5
<1>4. ASSUME NEW ch \in Channels, KeyFetched(ch) PROVE KeyInv'
  BY <1>4 DEF KeyFetched, NewClient, Goto, shared, station
<1>11. ASSUME NEW ch \in Channels, KeyMalformed(ch) PROVE KeyInv'
  BY <1>11 DEF KeyMalformed, NewClient, Goto, shared, station
<1>12. ASSUME NEW ch \in Channels, ClientFails(ch) PROVE KeyInv'
  BY <1>12 DEF ClientFails, Fails, Goto, station, Shared!OpenFails, Shared!Move
<1>5. ASSUME NEW ch \in Channels, Accepted(ch) PROVE KeyInv'
  BY <1>5 DEF Accepted, Goto, shared, station
<1>6. ASSUME NEW ch \in Channels, Refused(ch) PROVE KeyInv'
  <2>0. UNCHANGED <<stationKey, casKey, sent>> /\ disturbed \subseteq disturbed'
    BY <1>6 DEF Refused, Refusal, Disturb, station
  <2>1. CASE refresh[ch]
    BY <1>6, <2>0, <2>1 DEF Refused, Fails, Goto, Shared!OpenFails, Shared!Move
  <2>2. CASE ~refresh[ch]
    BY <1>6, <2>0, <2>2 DEF Refused, Refusal, Goto, shared
  <2>. QED
    BY <2>1, <2>2
<1>7. ASSUME NEW ch \in Channels, BreaksOff(ch) PROVE KeyInv'
  BY <1>7 DEF BreaksOff, Disturb, Fails, Goto, station, Shared!OpenFails, Shared!Move
<1>8. ASSUME NEW ch \in Channels, NEW v \in Viewers, Played(ch, v) PROVE KeyInv'
  BY <1>8 DEF Played, Goto, station, Shared!Opened, Shared!Move
<1>9. ASSUME NEW ch \in Channels, Share(ch) PROVE KeyInv'
  <2>1. \A c \in Channels : up[c] = "opening" <=> up'[c] = "opening"
    BY <1>9 DEF Share, Shared!Dies, Shared!GiveUp, Shared!Closed, Shared!Join, Shared!Leave,
                Shared!Move
  <2>. QED
    BY <1>9, <2>1 DEF Share, station, opening
<1>10. CASE UNCHANGED vars
  BY <1>10 DEF vars, shared, station
<1>. QED
  BY <1>1, <1>2, <1>3, <1>4, <1>5, <1>6, <1>7, <1>8, <1>9, <1>10, <1>11, <1>12
     DEF Next, Attempt

(* The step that ends an attempt nothing disturbed makes the upstream live *)
(* and the station deliver.                                                *)
Ending == \A ch \in Channels :
  up[ch] = "opening" /\ up'[ch] # "opening" /\ ch \notin disturbed' /\ key[ch] # BadKey =>
    up'[ch] = "live" /\ delivers'[ch]

LEMMA EndingStep == AttemptInv /\ [Next]_vars => [Ending]_vars
<1>. SUFFICES ASSUME AttemptInv, Next,
                     NEW c \in Channels, up[c] = "opening", up'[c] # "opening",
                     c \notin disturbed', key[c] # BadKey
              PROVE  up'[c] = "live" /\ delivers'[c]
  BY DEF Ending
<1>. USE DEF AttemptInv, KeyInv, TypeOK
<1>1. CASE Rotate \/ CasLearns
  BY <1>1 DEF Rotate, CasLearns, shared
<1>6. ASSUME NEW ch \in Channels, ClientFails(ch) PROVE FALSE
  BY <1>6 DEF ClientFails, Fails, Shared!OpenFails, Shared!Move
<1>2. ASSUME NEW ch \in Channels,
             Begin(ch) \/ KeyFetched(ch) \/ KeyMalformed(ch) \/ Accepted(ch) \/ Share(ch)
      PROVE  FALSE
  BY <1>2 DEF Begin, KeyFetched, KeyMalformed, Accepted, Share, shared, Shared!Reserve, Shared!Dies,
              Shared!GiveUp, Shared!Closed, Shared!Join, Shared!Leave, Shared!Move
<1>3. ASSUME NEW ch \in Channels, Refused(ch) PROVE FALSE
  BY <1>3 DEF Refused, Refusal, Disturb, Fails, shared, Shared!OpenFails, Shared!Move
<1>4. ASSUME NEW ch \in Channels, BreaksOff(ch) PROVE FALSE
  BY <1>4 DEF BreaksOff, Disturb, Fails, Shared!OpenFails, Shared!Move
<1>5. ASSUME NEW ch \in Channels, NEW v \in Viewers, Played(ch, v)
      PROVE  up'[c] = "live" /\ delivers'[c]
  BY <1>5 DEF Played, Shared!Opened, Shared!Move
<1>. QED
  BY <1>1, <1>2, <1>3, <1>4, <1>5, <1>6 DEF Next, Attempt

(* Initially there is no attempt.                                          *)
LEMMA AttemptInit == Init => AttemptInv
  BY MaxRotationsAssumption, MaxFaultsAssumption
     DEF Init, AttemptInv, KeyInv, TypeOK, Keys, Shared!Init, Shared!States

(* StreamOpen: every reachable state is well typed.                        *)
THEOREM TypeCorrect == Spec => []TypeOK
<1>. QED
  BY AttemptInit, TypeStep, PTL DEF Spec, AttemptInv

(* _open_lan: whatever key is cached, an attempt during which the station  *)
(* keeps its key, the CAS knows it and no request breaks off succeeds,     *)
(* unless what the channel has cached is no key.                           *)
THEOREM AttemptsSucceed == Spec => OpensUnlessDisturbed
<1>1. AttemptInv /\ [Next]_vars => AttemptInv'
  BY TypeStep, KeyStep DEF AttemptInv
<1>. QED
  BY <1>1, AttemptInit, EndingStep, PTL DEF Spec, OpensUnlessDisturbed, Ending
=============================================================================
