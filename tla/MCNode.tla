------------------------------- MODULE MCNode -------------------------------
(***************************************************************************)
(* The parts of a node that share no state with one another, for TLC: one  *)
(* run checks them side by side.  `part` is the one that moves, so that    *)
(* their state spaces are added and not multiplied.                        *)
(***************************************************************************)
EXTENDS SessionKeys, Heartbeat, FrameStream, Onion, NatRelay, HolePunch, Stun,
        Discovery, MCContent, NameRegistry, NodeFiles, Services, PeerLearning,
        ContactTrace, Messenger, TLC

VARIABLE part

\* Relay paths of two hops and of one, and one that cannot be built.
Paths == {<<a, b>>, <<a>>, <<>>}

\* Binding answers: good, then good after a bad one, and without an address.
StunAnswers == {<<"ipv4">>, <<"other", "bad">>, <<"other">>}

\* API ports of two nodes with adjacent ports, and those the client scans.
ApiPorts == (a :> 79) @@ (b :> 80)
ScannedPorts == 80..89

-----------------------------------------------------------------------------
links == <<sessionVars, heartbeatVars, frameVars, onionVars, natRelayVars>>
network == <<holePunchVars, stunVars, discoveryVars, contentVars>>
local == <<nameVars, fileVars, servicesVars, learningVars, traceVars, messengerVars>>
nodeVars == <<part, links, network, local>>

\* The parts that can begin in several ways begin in one while another moves.
NodeInit ==
  /\ part \in {"sessions", "heartbeat", "frames", "onion", "relay", "punching",
              "stun", "discovery", "content", "names", "files", "ports",
              "learning", "traces", "messenger"}
  /\ SessionInit /\ (part # "sessions" => \A x \in DOMAIN dialler : dialler[x] = a)
  /\ TraceInit /\ (part # "traces" => /\ msg = [src |-> 0, dst |-> 1, gen |-> 0]
                                     /\ contacts = <<[start |-> 0, end |-> 1, a |-> 0, b |-> 1]>>)
  /\ NameInit /\ (part # "names" => \A x \in Name : nameDisk[x] = NoRecord)
  /\ HeartbeatInit
  /\ FrameInit
  /\ OnionInit
  /\ NatRelayInit
  /\ HolePunchInit
  /\ StunInit
  /\ DiscoveryInit
  /\ ContentInit
  /\ NodeFilesInit
  /\ ServicesInit
  /\ LearningInit
  /\ MessengerInit

NodeNext ==
  \/ /\ part = "sessions" /\ SessionNext
     /\ UNCHANGED <<part, heartbeatVars, frameVars, onionVars, natRelayVars,
                    network, local>>
  \/ /\ part = "heartbeat" /\ HeartbeatNext
     /\ UNCHANGED <<part, sessionVars, frameVars, onionVars, natRelayVars,
                    network, local>>
  \/ /\ part = "frames" /\ FrameNext
     /\ UNCHANGED <<part, sessionVars, heartbeatVars, onionVars, natRelayVars,
                    network, local>>
  \/ /\ part = "onion" /\ OnionNext
     /\ UNCHANGED <<part, sessionVars, heartbeatVars, frameVars, natRelayVars,
                    network, local>>
  \/ /\ part = "relay" /\ NatRelayNext
     /\ UNCHANGED <<part, sessionVars, heartbeatVars, frameVars, onionVars,
                    network, local>>
  \/ /\ part = "punching" /\ HolePunchNext
     /\ UNCHANGED <<part, links, stunVars, discoveryVars, contentVars, local>>
  \/ /\ part = "stun" /\ StunNext
     /\ UNCHANGED <<part, links, holePunchVars, discoveryVars, contentVars,
                    local>>
  \/ /\ part = "discovery" /\ DiscoveryNext
     /\ UNCHANGED <<part, links, holePunchVars, stunVars, contentVars, local>>
  \/ /\ part = "content" /\ ContentNext
     /\ UNCHANGED <<part, links, holePunchVars, stunVars, discoveryVars, local>>
  \/ /\ part = "names" /\ NameNext
     /\ UNCHANGED <<part, links, network, fileVars, servicesVars,
                    learningVars, traceVars, messengerVars>>
  \/ /\ part = "files" /\ NodeFilesNext
     /\ UNCHANGED <<part, links, network, nameVars, servicesVars,
                    learningVars, traceVars, messengerVars>>
  \/ /\ part = "ports" /\ ServicesNext
     /\ UNCHANGED <<part, links, network, nameVars, fileVars, learningVars,
                    traceVars, messengerVars>>
  \/ /\ part = "learning" /\ LearningNext
     /\ UNCHANGED <<part, links, network, nameVars, fileVars, servicesVars,
                    traceVars, messengerVars>>
  \/ /\ part = "traces" /\ TraceNext
     /\ UNCHANGED <<part, links, network, nameVars, fileVars, servicesVars,
                    learningVars, messengerVars>>
  \/ /\ part = "messenger" /\ MessengerNext
     /\ UNCHANGED <<part, links, network, nameVars, fileVars, servicesVars,
                    learningVars, traceVars>>

NodeSpec == NodeInit /\ [][NodeNext]_nodeVars /\ HeartbeatFairness

-----------------------------------------------------------------------------

\* The types of the parts (each module's own invariant); the part that moves is
\* the only one that can leave its type.
NodeTypeOK ==
  /\ part = "sessions" => SessionTypeOK
  /\ part = "heartbeat" => HeartbeatTypeOK
  /\ part = "frames" => FrameTypeOK
  /\ part = "onion" => OnionTypeOK
  /\ part = "relay" => NatRelayTypeOK
  /\ part = "punching" => HolePunchTypeOK
  /\ part = "stun" => StunTypeOK
  /\ part = "discovery" => DiscoveryTypeOK
  /\ part = "content" => ContentTypeOK
  /\ part = "names" => NameTypeOK
  /\ part = "files" => NodeFilesTypeOK
  /\ part = "ports" => PortsTypeOK
  /\ part = "learning" => LearningTypeOK
  /\ part = "traces" => TraceTypeOK
  /\ part = "messenger" => MessengerTypeOK

=============================================================================
