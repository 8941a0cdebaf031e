--------------------------- MODULE SharedUpstream ---------------------------
(***************************************************************************)
(* What camera.py promises about the station connections of one device:    *)
(* each channel has at most one upstream, at most MaxStreams channels hold *)
(* one at a time, a viewer is attached only to an upstream that delivers,  *)
(* and an upstream is given up only when it is dead or nobody watches it.  *)
(* The locks, timers, tasks and the semaphore that keep the promise are in *)
(* ChannelStream, which implements this specification.                     *)
(***************************************************************************)
EXTENDS Naturals, FiniteSets

CONSTANTS Channels,    \* the channels (cameras) of one device
          Viewers,     \* the consumers: live views and snapshots
          MaxStreams   \* upstreams the device serves at a time

VARIABLES up,          \* up[ch]: the state of the channel's upstream
          viewers      \* viewers[ch]: the consumers attached to it

vars == <<up, viewers>>

States == {"closed", "opening", "live", "dead", "closing"}

InUse == {ch \in Channels : up[ch] # "closed"}

Init == /\ up = [ch \in Channels |-> "closed"]
        /\ viewers = [ch \in Channels |-> {}]

Move(ch, from, to) == up[ch] = from /\ up' = [up EXCEPT ![ch] = to]

Attach(ch, v) == viewers' = [viewers EXCEPT ![ch] = @ \cup {v}]

(* A slot of the device is taken for a channel that has no upstream.       *)
Reserve(ch) == /\ Cardinality(InUse) < MaxStreams
               /\ Move(ch, "closed", "opening")
               /\ UNCHANGED viewers

OpenFails(ch) == Move(ch, "opening", "closed") /\ UNCHANGED viewers

Opened(ch, v) == Move(ch, "opening", "live") /\ Attach(ch, v)

Join(ch, v) == up[ch] = "live" /\ Attach(ch, v) /\ UNCHANGED up

Leave(ch, v) == /\ v \in viewers[ch]
                /\ viewers' = [viewers EXCEPT ![ch] = @ \ {v}]
                /\ UNCHANGED up

(* The station ends the stream.                                            *)
Dies(ch) == Move(ch, "live", "dead") /\ UNCHANGED viewers

GiveUp(ch) == /\ \/ Move(ch, "dead", "closing")
                 \/ viewers[ch] = {} /\ Move(ch, "live", "closing")
              /\ UNCHANGED viewers

Closed(ch) == Move(ch, "closing", "closed") /\ UNCHANGED viewers

Next == \E ch \in Channels :
          \/ Reserve(ch) \/ OpenFails(ch) \/ Dies(ch) \/ GiveUp(ch) \/ Closed(ch)
          \/ \E v \in Viewers : Opened(ch, v) \/ Join(ch, v) \/ Leave(ch, v)

Spec == Init /\ [][Next]_vars
=============================================================================
