------------------------------ MODULE Heartbeat ------------------------------
(***************************************************************************)
(* Heartbeats and manual pings of one node to one peer (node.rs): the      *)
(* reader pings a silent peer and gives up after the third silence, a      *)
(* caller of ping_peer waits for the next pong, whichever ping it answers. *)
(* missed_pongs and pending_manual_pings are kept per peer and outlive the *)
(* connection.  The peer answers pings in order, late or never.            *)
(*                                                                         *)
(* A caller names the peer by the id of its channel, or by another id that *)
(* the peer table has for the same address.                                *)
(***************************************************************************)
EXTENDS Naturals, Sequences

CONSTANTS
  Caller,    \* calls of ping_peer, each made once
  NoCaller,
  MaxOut     \* bound: pings on their way; further ones are not represented

ASSUME HeartbeatAssumption == NoCaller \notin Caller /\ MaxOut \in Nat

VARIABLES
  linkUp,      \* the connection's reader runs
  missed,      \* missed_pongs, 0 when there is no entry
  manual,      \* pending_manual_pings: the caller under each id
  name,        \* the id each caller uses
  step,        \* how far each caller is
  result,      \* what it will be or was told
  cutOff,      \* callers whose connection ended since they took its channel
  pings,       \* pings on their way to the peer, by caller
  pongs,       \* pongs on their way back
  unanswered,  \* history: heartbeat pings of this connection since the last pong
  inherited,   \* history: missed when this connection began
  cut          \* history: unanswered and inherited of the last one given up

heartbeatVars == <<linkUp, missed, manual, name, step, result, cutOff, pings, pongs,
                   unanswered, inherited, cut>>

Id     == {"channel", "address"}
Step   == {"idle", "inserted", "waiting", "expired", "done"}
Result == {"none", "latency", "canceled", "refused", "failed", "timeout", "unconnected"}

HeartbeatTypeOK ==
  /\ linkUp \in BOOLEAN
  /\ missed \in 0..2
  /\ manual \in [Id -> Caller \cup {NoCaller}]
  /\ name   \in [Caller -> Id]
  /\ step   \in [Caller -> Step]
  /\ result \in [Caller -> Result]
  /\ cutOff \subseteq Caller
  /\ \A q \in {pings, pongs} : \A i \in DOMAIN q : q[i] \in Caller \cup {NoCaller}
  /\ unanswered \in 0..2 /\ inherited \in 0..2
  /\ cut \in [unanswered : 0..2, inherited : 0..2]

HeartbeatInit ==
  /\ linkUp = FALSE
  /\ missed = 0
  /\ manual = [i \in Id |-> NoCaller]
  /\ name   = [k \in Caller |-> "channel"]
  /\ step   = [k \in Caller |-> "idle"]
  /\ result = [k \in Caller |-> "none"]
  /\ cutOff = {}
  /\ pings  = <<>> /\ pongs = <<>>
  /\ unanswered = 0 /\ inherited = 0
  /\ cut = [unanswered |-> 2, inherited |-> 0]

callers == <<manual, name, step, result>>

-----------------------------------------------------------------------------
(* The connection.                                                         *)

LinkStarts ==
  /\ ~linkUp
  /\ linkUp'     = TRUE
  /\ unanswered' = 0
  /\ inherited'  = missed
  /\ UNCHANGED <<missed, callers, cutOff, pings, pongs, cut>>

Drop ==
  /\ linkUp' = FALSE
  /\ cutOff' = {k \in Caller : step[k] = "inserted"}
  /\ pings'  = <<>>
  /\ pongs'  = <<>>

\* The reader ends for a reason of its own: the counts stay.
LinkEnds ==
  /\ linkUp
  /\ Drop
  /\ UNCHANGED <<missed, callers, unanswered, inherited, cut>>

Sent(ping) == IF Len(pings) < MaxOut THEN Append(pings, ping) ELSE pings

\* Nothing arrived for 30 seconds: a ping, or the end of the connection.  While
\* a manual ping is pending the silence does not count.
SilenceCounts ==
  /\ linkUp /\ pongs = <<>>
  /\ manual["channel"] = NoCaller
  /\ IF missed < 2
     THEN /\ missed'     = missed + 1
          /\ unanswered' = unanswered + 1
          /\ pings'      = Sent(NoCaller)
          /\ UNCHANGED <<linkUp, cutOff, pongs, cut>>
     ELSE /\ missed' = 0
          /\ Drop
          /\ cut' = [unanswered |-> unanswered, inherited |-> inherited]
          /\ UNCHANGED unanswered
  /\ UNCHANGED <<callers, inherited>>

PeerAnswers ==
  /\ pings # <<>>
  /\ pings' = Tail(pings)
  /\ pongs' = Append(pongs, Head(pings))
  /\ UNCHANGED <<linkUp, missed, callers, cutOff, unanswered, inherited, cut>>

\* Deviation: the count is not reset.
KeptMissed == missed

\* missed_pongs.remove.
MissedAfterPong == 0

\* The Pong arm: the count is reset, the pending caller is told; one that has
\* timed out no longer listens.
HandlePong ==
  /\ pongs # <<>>
  /\ pongs'      = Tail(pongs)
  /\ missed'     = MissedAfterPong
  /\ unanswered' = 0
  /\ manual'     = [manual EXCEPT !["channel"] = NoCaller]
  /\ result'     = LET k == manual["channel"]
                   IN  IF k # NoCaller /\ step[k] # "expired"
                       THEN [result EXCEPT ![k] = "latency"] ELSE result
  /\ UNCHANGED <<linkUp, name, step, cutOff, pings, inherited, cut>>

-----------------------------------------------------------------------------
(* ping_peer.                                                              *)

\* resolve_sender_for_peer: the channel of the id, or of another id that has
\* the same address.
Resolves(i) == linkUp

\* A ping under the same id may be in progress.
InsertPing(k, i) ==
  /\ step[k] = "idle" /\ Resolves(i)
  /\ name' = [name EXCEPT ![k] = i]
  /\ IF manual[i] = NoCaller
     THEN /\ manual' = [manual EXCEPT ![i] = k]
          /\ step'   = [step EXCEPT ![k] = "inserted"]
          /\ UNCHANGED result
     ELSE /\ step'   = [step EXCEPT ![k] = "done"]
          /\ result' = [result EXCEPT ![k] = "refused"]
          /\ UNCHANGED manual
  /\ UNCHANGED <<linkUp, missed, cutOff, pings, pongs, unanswered, inherited, cut>>

\* No channel was found for five seconds; the peer table may not have the other
\* id any more.
NotConnected(k, i) ==
  /\ step[k] = "idle"
  /\ Resolves(i) => i = "address"
  /\ name'   = [name EXCEPT ![k] = i]
  /\ step'   = [step EXCEPT ![k] = "done"]
  /\ result' = [result EXCEPT ![k] = "unconnected"]
  /\ UNCHANGED <<linkUp, missed, manual, cutOff, pings, pongs, unanswered, inherited, cut>>

\* pending_manual_pings.remove: the caller whose entry it is learns it, if it
\* still listens and is not the one that removes it.
Canceled(k, reason) ==
  LET owner == manual[name[k]] IN
  [r \in Caller |-> IF r = k THEN reason
                    ELSE IF r = owner /\ step[r] # "expired" THEN "canceled" ELSE result[r]]

\* A ping that cannot be sent removes the entry, whoever's it is by now.
SendPing(k) ==
  /\ step[k] = "inserted"
  /\ IF k \in cutOff
     THEN /\ step'   = [step EXCEPT ![k] = "done"]
          /\ manual' = [manual EXCEPT ![name[k]] = NoCaller]
          /\ result' = Canceled(k, "failed")
          /\ UNCHANGED pings
     ELSE /\ step'   = [step EXCEPT ![k] = "waiting"]
          /\ pings'  = Sent(k)
          /\ UNCHANGED <<manual, result>>
  /\ UNCHANGED <<linkUp, missed, name, cutOff, pongs, unanswered, inherited, cut>>

FinishPing(k) ==
  /\ step[k] = "waiting" /\ result[k] # "none"
  /\ step' = [step EXCEPT ![k] = "done"]
  /\ UNCHANGED <<linkUp, missed, manual, name, result, cutOff, pings, pongs,
                 unanswered, inherited, cut>>

ExpirePing(k) ==
  /\ step[k] = "waiting" /\ result[k] = "none"
  /\ step' = [step EXCEPT ![k] = "expired"]
  /\ UNCHANGED <<linkUp, missed, manual, name, result, cutOff, pings, pongs,
                 unanswered, inherited, cut>>

\* Deviation: a timeout leaves the entry where it is.
LeavesEntry(k) == manual

\* The entries after the timeout of caller k: its own is removed, whoever put
\* it there.
EntryAfter(k) == [manual EXCEPT ![name[k]] = NoCaller]

RemoveExpired(k) ==
  /\ step[k] = "expired"
  /\ step'   = [step EXCEPT ![k] = "done"]
  /\ manual' = EntryAfter(k)
  /\ result' = Canceled(k, "timeout")
  /\ UNCHANGED <<linkUp, missed, name, cutOff, pings, pongs, unanswered, inherited, cut>>

HeartbeatNext ==
  \/ LinkStarts \/ LinkEnds \/ SilenceCounts \/ PeerAnswers \/ HandlePong
  \/ \E k \in Caller :
       \/ SendPing(k) \/ FinishPing(k) \/ ExpirePing(k) \/ RemoveExpired(k)
       \/ \E i \in Id : InsertPing(k, i) \/ NotConnected(k, i)

\* Timers fire and tasks run; the peer need not answer.
HeartbeatFairness ==
  /\ WF_heartbeatVars(SilenceCounts) /\ WF_heartbeatVars(HandlePong)
  /\ \A k \in Caller :
       /\ WF_heartbeatVars(SendPing(k)) /\ WF_heartbeatVars(FinishPing(k))
       /\ WF_heartbeatVars(ExpirePing(k)) /\ WF_heartbeatVars(RemoveExpired(k))

HeartbeatSpec == HeartbeatInit /\ [][HeartbeatNext]_heartbeatVars /\ HeartbeatFairness

-----------------------------------------------------------------------------

\* A connection is given up for silence only after two of its pings, counting
\* from the last pong, went unanswered, or fewer by as many as missed_pongs
\* still held when the connection began: an answer in time always saves it
\* (the read timeout and the Pong arm against the end of an earlier reader).
CutEarned == cut.unanswered + cut.inherited >= 2

\* pending_manual_pings holds the entry of every caller that still waits and of
\* no other, but for one whose timeout is about to remove it: no caller's entry
\* is left behind, where it would suppress the heartbeat for good.  A caller is
\* told "canceled" only because another one's timeout or failed send removed
\* its entry, never because the peer disconnected (ping_peer, the Pong arm).  A
\* ping under another id of the peer is never answered: the pong is looked up
\* under the id of the channel.
ManualEntryOwned ==
  \A k \in Caller :
     /\ (step[k] \in {"inserted", "waiting"} /\ result[k] = "none") => manual[name[k]] = k
     /\ \A i \in Id : manual[i] = k =>
          name[k] = i /\ step[k] \in {"inserted", "waiting", "expired"}
     /\ result[k] = "canceled" =>
          \E j \in Caller \ {k} : name[j] = name[k] /\ result[j] \in {"timeout", "failed"}
     /\ result[k] = "latency" => name[k] = "channel"

\* A peer that never answers again is given up, however callers interfere, as
\* long as the calls end: with no pong the count cannot stay above zero while
\* the connection lives.
SilentPeerCut == []<>(missed = 0 \/ ~linkUp)

=============================================================================
