----------------------------- MODULE StreamOpen -----------------------------
(***************************************************************************)
(* camera.py (_open_lan) and lan_client.py: how the upstream of a channel  *)
(* is opened with the station's control key.  Who shares an upstream, and  *)
(* when it may be opened or given up, is SharedUpstream's; this module     *)
(* fills in the time between Reserve and Opened or OpenFails.              *)
(*                                                                         *)
(* The station is external: it has a control key, changes it now and then, *)
(* and refuses requests encrypted with another.  The CAS, external too,    *)
(* learns of the change a little later.  Keys are numbered in the order    *)
(* the station takes them.                                                 *)
(***************************************************************************)
EXTENDS Naturals, FiniteSets

CONSTANTS Channels, Viewers, MaxStreams,
          MaxRotations,   \* bound on the key changes of a behaviour
          MaxFaults       \* bound on the requests that fail for other reasons
                          \* and on replies with a malformed key

ASSUME MaxStreamsAssumption == MaxStreams \in Nat
ASSUME MaxRotationsAssumption == MaxRotations \in Nat
ASSUME MaxFaultsAssumption == MaxFaults \in Nat

Keys == 1..(MaxRotations + 1)
NoKey == 0
BadKey == MaxRotations + 2   \* a key that is not 16 ASCII characters

VARIABLES
  up, viewers,   \* SharedUpstream's
  stationKey,    \* the key the station decrypts with
  casKey,        \* the key the CAS hands out
  key,           \* key[ch]: _key, cached by the channel
  at,            \* at[ch]: the request of the attempt that is under way
  refresh,       \* refresh[ch]: its loop variable
  sent,          \* sent[ch]: the key of the channel's latest Cpd7LanClient
  delivers,      \* delivers[ch]: the station took the PLAY of the open upstream
  faults,        \* requests that failed for other reasons than the key
  disturbed      \* history: channels whose attempt met a fault or a new key

shared == <<up, viewers>>
station == <<stationKey, casKey>>
vars == <<shared, station, key, at, refresh, sent, delivers, faults, disturbed>>

Shared == INSTANCE SharedUpstream

TypeOK ==
  /\ up \in [Channels -> Shared!States]
  /\ viewers \in [Channels -> SUBSET Viewers]
  /\ stationKey \in Keys /\ casKey \in Keys
  /\ key \in [Channels -> Keys \cup {NoKey, BadKey}]
  /\ at \in [Channels -> {"none", "key", "unmade", "init", "invite", "play"}]
  /\ refresh \in [Channels -> BOOLEAN]
  /\ sent \in [Channels -> Keys \cup {NoKey}]
  /\ delivers \in [Channels -> BOOLEAN]
  /\ faults \in 0..MaxFaults
  /\ disturbed \in SUBSET Channels

Init ==
  /\ Shared!Init
  /\ stationKey = 1 /\ casKey = 1
  /\ key = [ch \in Channels |-> NoKey]
  /\ at = [ch \in Channels |-> "none"]
  /\ refresh = [ch \in Channels |-> FALSE]
  /\ sent = [ch \in Channels |-> NoKey]
  /\ delivers = [ch \in Channels |-> FALSE]
  /\ faults = 0
  /\ disturbed = {}

Goto(ch, request) == at' = [at EXCEPT ![ch] = request]

-----------------------------------------------------------------------------
(* The attempt                                                             *)

(* A Cpd7LanClient is made with key k; its start runs in an executor       *)
(* thread.  A malformed key is a ValueError.                               *)
NewClient(ch, k) ==
  IF k = BadKey
    THEN Goto(ch, "unmade") /\ UNCHANGED sent
    ELSE Goto(ch, "init") /\ sent' = [sent EXCEPT ![ch] = k]

Begin(ch) ==
  /\ Shared!Reserve(ch)
  /\ refresh' = [refresh EXCEPT ![ch] = FALSE]
  /\ disturbed' = IF casKey = stationKey THEN disturbed \ {ch} ELSE disturbed \cup {ch}
  /\ IF key[ch] = NoKey THEN Goto(ch, "key") /\ UNCHANGED sent
                        ELSE NewClient(ch, key[ch])
  /\ UNCHANGED <<station, key, delivers, faults>>

(* get_control_key returned.                                               *)
KeyFetched(ch) ==
  /\ at[ch] = "key"
  /\ key' = [key EXCEPT ![ch] = casKey]
  /\ NewClient(ch, casKey)
  /\ UNCHANGED <<shared, station, refresh, delivers, faults, disturbed>>

(* It returned what is no key: nothing looks at it before it is cached.    *)
KeyMalformed(ch) ==
  /\ at[ch] = "key"
  /\ faults < MaxFaults /\ faults' = faults + 1
  /\ key' = [key EXCEPT ![ch] = BadKey]
  /\ NewClient(ch, BadKey)
  /\ UNCHANGED <<shared, station, refresh, delivers, disturbed>>

(* Mutant: the reply to PLAY is taken for one more step of the handshake.  *)
AcceptedPlay(ch) ==
  /\ sent[ch] = stationKey
  /\ \/ at[ch] = "init" /\ Goto(ch, "invite")
     \/ at[ch] = "invite" /\ Goto(ch, "play")
     \/ at[ch] = "play" /\ Goto(ch, "live")
  /\ UNCHANGED <<shared, station, key, refresh, sent, delivers, faults, disturbed>>

(* INIT or INVITE is answered.                                             *)
Accepted(ch) ==
  /\ sent[ch] = stationKey
  /\ \/ at[ch] = "init" /\ Goto(ch, "invite")
     \/ at[ch] = "invite" /\ Goto(ch, "play")
  /\ UNCHANGED <<shared, station, key, refresh, sent, delivers, faults, disturbed>>

(* _open_lan returns None.                                                 *)
Fails(ch) == Shared!OpenFails(ch) /\ Goto(ch, "none")

Fault == faults < MaxFaults /\ faults' = faults + 1
Disturb(ch) == disturbed' = disturbed \cup {ch}

(* INIT or INVITE is answered with a Result: ControlKeyError.  The station *)
(* does not know the key, or refuses for a reason of its own.  One such    *)
(* refusal is made good by the retry.                                      *)
Refusal(ch) ==
  /\ at[ch] \in {"init", "invite"}
  /\ \/ sent[ch] # stationKey /\ UNCHANGED <<faults, disturbed>>
     \/ Fault /\ IF refresh[ch] THEN Disturb(ch) ELSE UNCHANGED disturbed

(* Mutant: the stale key is not dropped and not refetched.                 *)
RefusedKeepsKey(ch) ==
  /\ Refusal(ch)
  /\ IF refresh[ch] THEN Fails(ch) /\ UNCHANGED <<refresh, sent>>
                    ELSE /\ NewClient(ch, key[ch])
                         /\ refresh' = [refresh EXCEPT ![ch] = TRUE]
                         /\ UNCHANGED shared
  /\ UNCHANGED <<station, key, delivers>>

Refused(ch) ==
  /\ Refusal(ch)
  /\ key' = [key EXCEPT ![ch] = NoKey]
  /\ IF refresh[ch] THEN Fails(ch) /\ UNCHANGED refresh
                    ELSE /\ Goto(ch, "key")
                         /\ refresh' = [refresh EXCEPT ![ch] = TRUE]
                         /\ UNCHANGED shared
  /\ UNCHANGED <<station, sent, delivers>>

(* No client, and no attempt; the cached key stays, for every later one.   *)
ClientFails(ch) ==
  /\ at[ch] = "unmade"
  /\ Fails(ch)
  /\ UNCHANGED <<station, key, refresh, sent, delivers, faults, disturbed>>

(* Any other exception: the CAS has no answer, a socket fails or times     *)
(* out, a reply cannot be read.  The cached key stays.                     *)
BreaksOff(ch) ==
  /\ at[ch] \notin {"none", "unmade"}
  /\ Fault /\ Disturb(ch)
  /\ Fails(ch)
  /\ UNCHANGED <<station, key, refresh, sent, delivers>>

(* PLAY is answered; its Result is not looked at.                          *)
Played(ch, v) ==
  /\ at[ch] = "play"
  /\ Shared!Opened(ch, v)
  /\ Goto(ch, "none")
  /\ delivers' = [delivers EXCEPT ![ch] = sent[ch] = stationKey]
  /\ UNCHANGED <<station, key, refresh, sent, faults, disturbed>>

-----------------------------------------------------------------------------
opening == <<key, at, refresh, sent, delivers, faults, disturbed>>

(* The upstream is joined, left, ends, and is closed as SharedUpstream     *)
(* says.                                                                   *)
Share(ch) ==
  /\ \/ Shared!Dies(ch) \/ Shared!GiveUp(ch) \/ Shared!Closed(ch)
     \/ \E v \in Viewers : Shared!Join(ch, v) \/ Shared!Leave(ch, v)
  /\ UNCHANGED <<station, opening>>

(* The next viewer of a dead upstream has it closed.                       *)
Replace(ch) ==
  /\ \/ up[ch] = "dead" /\ Shared!GiveUp(ch)
     \/ Shared!Closed(ch)
  /\ UNCHANGED <<station, opening>>

(* Reads of an upstream whose PLAY was refused give nothing.               *)
Starves(ch) ==
  /\ ~delivers[ch] /\ Shared!Dies(ch)
  /\ UNCHANGED <<station, opening>>

(* Firmware or security changes give the station a new key.                *)
Rotate ==
  /\ stationKey + 1 \in Keys
  /\ stationKey' = stationKey + 1
  /\ disturbed' = Channels
  /\ UNCHANGED <<shared, casKey, key, at, refresh, sent, delivers, faults>>

CasLearns ==
  /\ casKey # stationKey
  /\ casKey' = stationKey
  /\ UNCHANGED <<shared, stationKey, opening>>

Attempt(ch) == \/ KeyFetched(ch) \/ Accepted(ch) \/ Refused(ch) \/ ClientFails(ch)
               \/ \E v \in Viewers : Played(ch, v)

Next ==
  \/ Rotate \/ CasLearns
  \/ \E ch \in Channels : \/ Begin(ch) \/ Attempt(ch) \/ BreaksOff(ch) \/ KeyMalformed(ch)
                          \/ Share(ch)

(* Requests have timeouts; the CAS learns a new key; viewers keep trying.  *)
Fairness ==
  /\ WF_vars(CasLearns)
  /\ \A ch \in Channels : /\ WF_vars(Begin(ch)) /\ WF_vars(Attempt(ch))
                          /\ WF_vars(Starves(ch)) /\ WF_vars(Replace(ch))

Spec == Init /\ [][Next]_vars /\ Fairness

-----------------------------------------------------------------------------
(* Properties                                                              *)

(* An attempt during which the station keeps its key, the CAS knows it and *)
(* no request breaks off ends with an upstream that delivers, however old  *)
(* the cached key is and although one good request is refused.  The        *)
(* exception is a channel that has cached a malformed key.                 *)
OpensUnlessDisturbed ==
  [][\A ch \in Channels :
       up[ch] = "opening" /\ up'[ch] # "opening" /\ ch \notin disturbed' /\ key[ch] # BadKey =>
         up'[ch] = "live" /\ delivers'[ch]]_vars

(* "the feed self-heals without a reload": once keys stop changing, a      *)
(* channel that is tried again and again delivers again and again, PLAYs   *)
(* refused unnoticed included.  The exception is a malformed key from the  *)
(* CAS: it is cached, no client can be made with it, and only a refusal    *)
(* would drop it.                                                          *)
SelfHeals ==
  \A ch \in Channels : []<>(up[ch] = "live" /\ delivers[ch]) \/ <>[](key[ch] = BadKey)
=============================================================================
