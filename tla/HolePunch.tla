----------------------------- MODULE HolePunch -----------------------------
(***************************************************************************)
(* UDP hole punching (nat/hole_punch.rs): each of two sides sends its      *)
(* probes, then reads one datagram.  A NAT lets a datagram in only after   *)
(* its own side has sent one.  Datagrams may be lost, and overtake one     *)
(* another.  A second copy of a datagram changes nothing: only the first   *)
(* datagram that reaches the socket is read.                               *)
(***************************************************************************)
EXTENDS Naturals

CONSTANTS
  Side,       \* the two sides
  ProbeCount  \* HolePunchConfig::probe_count

ASSUME HolePunchAssumption ==
  /\ \E a, b \in Side : a # b /\ Side = {a, b}
  /\ ProbeCount \in Nat

VARIABLES
  probes,    \* probes each side has sent
  flying,    \* how many of each datagram are on their way to a side
  first,     \* the first datagram that reached the socket of a side
  outcome,   \* what each side read, "timeout", or "none" before that
  unheard,   \* history: probes lost before any datagram reached the socket
  overtaken  \* history: probes on their way when an acknowledgement was first

holePunchVars == <<probes, flying, first, outcome, unheard, overtaken>>

Peer(s) == CHOOSE p \in Side : p # s

FromPeer == {"PROBE", "ACK"}
Datagram == FromPeer \cup {"stray"}

HolePunchTypeOK ==
  /\ probes    \in [Side -> 0..ProbeCount]
  /\ flying    \in [Side -> [FromPeer -> Nat]]
  /\ first     \in [Side -> Datagram \cup {"none"}]
  /\ outcome   \in [Side -> Datagram \cup {"timeout", "none"}]
  /\ unheard   \in [Side -> 0..ProbeCount]
  /\ overtaken \in [Side -> 0..ProbeCount]

HolePunchInit ==
  /\ probes    = [s \in Side |-> 0]
  /\ flying    = [s \in Side |-> [d \in FromPeer |-> 0]]
  /\ first     = [s \in Side |-> "none"]
  /\ outcome   = [s \in Side |-> "none"]
  /\ unheard   = [s \in Side |-> 0]
  /\ overtaken = [s \in Side |-> 0]

-----------------------------------------------------------------------------

Probe(s) ==
  /\ probes[s] < ProbeCount
  /\ probes' = [probes EXCEPT ![s] = @ + 1]
  /\ flying' = [flying EXCEPT ![Peer(s)]["PROBE"] = @ + 1]
  /\ UNCHANGED <<first, outcome, unheard, overtaken>>

\* The side's socket is open and its NAT lets the peer in, and nothing has
\* reached it yet; what arrives later is not read.
Listening(s) == probes[s] > 0 /\ outcome[s] = "none" /\ first[s] = "none"

\* Any datagram on its way may be the first to arrive.
Arrive(s, d) ==
  /\ flying[s][d] > 0
  /\ Listening(s)
  /\ flying' = [flying EXCEPT ![s][d] = @ - 1]
  /\ first'  = [first EXCEPT ![s] = d]
  /\ overtaken' = IF d = "ACK" THEN [overtaken EXCEPT ![s] = flying[s]["PROBE"]]
                  ELSE overtaken
  /\ UNCHANGED <<probes, outcome, unheard>>

\* The network or the NAT drops a probe before anything reached the socket.
Lose(s) ==
  /\ flying[s]["PROBE"] > 0
  /\ first[s] = "none"
  /\ flying'  = [flying EXCEPT ![s]["PROBE"] = @ - 1]
  /\ unheard' = [unheard EXCEPT ![s] = @ + 1]
  /\ UNCHANGED <<probes, first, outcome, overtaken>>

\* A datagram from another address, which a full-cone NAT lets in.
Stray(s) ==
  /\ Listening(s)
  /\ first' = [first EXCEPT ![s] = "stray"]
  /\ UNCHANGED <<probes, flying, outcome, unheard, overtaken>>

\* Deviation: whatever comes from the peer counts as its probe.
AcceptsAny(d) == d # "stray"

\* from is the peer's address and the datagram starts with PROBE_MAGIC,
\* which the acknowledgement does not: PROBE_MAGIC ends with a zero byte.
Accepts(d) == d = "PROBE"

\* After its last probe a side reads one datagram, and acknowledges a probe.
Read(s) ==
  /\ probes[s] = ProbeCount /\ outcome[s] = "none" /\ first[s] # "none"
  /\ IF Accepts(first[s])
     THEN /\ outcome' = [outcome EXCEPT ![s] = "PROBE"]
          /\ flying'  = [flying EXCEPT ![Peer(s)]["ACK"] = @ + 1]
     ELSE /\ outcome' = [outcome EXCEPT ![s] = first[s]]
          /\ UNCHANGED flying
  /\ UNCHANGED <<probes, first, unheard, overtaken>>

TimeOut(s) ==
  /\ probes[s] = ProbeCount /\ outcome[s] = "none" /\ first[s] = "none"
  /\ outcome' = [outcome EXCEPT ![s] = "timeout"]
  /\ UNCHANGED <<probes, flying, first, unheard, overtaken>>

HolePunchNext ==
  \E s \in Side :
     \/ Probe(s) \/ Lose(s) \/ Stray(s) \/ Read(s) \/ TimeOut(s)
     \/ \E d \in FromPeer : Arrive(s, d)

HolePunchSpec == HolePunchInit /\ [][HolePunchNext]_holePunchVars

\* HolePunchResult::success.
Success(s) == outcome[s] = "PROBE"

-----------------------------------------------------------------------------

\* A side reports success only after a probe of its peer got through.  A side
\* that reads its peer's acknowledgement instead, and so reports failure while
\* its peer reports success, had no chance of a probe: all of them had been
\* sent, and each was lost or overtaken by the acknowledgement (punch_hole).
OneSidedExplained ==
  \A s \in Side :
     /\ Success(s) => unheard[s] < probes[Peer(s)]
     /\ outcome[s] = "ACK" =>
           Success(Peer(s)) /\ unheard[s] + overtaken[s] = ProbeCount

=============================================================================
