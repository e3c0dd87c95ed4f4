------------------------------ MODULE Services ------------------------------
(***************************************************************************)
(* The local services of the nodes of one computer: each node's API, web   *)
(* gateway and messenger API, the ports they bind (node.rs, api.rs,        *)
(* web_gateway.rs, messenger_api.rs), and how the command line finds an    *)
(* API (cli_app.rs).  Ports other than theirs are not represented.         *)
(***************************************************************************)
EXTENDS Integers

CONSTANTS
  Runner,     \* nodes, each started with its own port and no flags
  Preferred,  \* the API port each prefers: 9000 + its port
  NoPort,
  Tries,      \* further ports an API tries: 20
  Default,    \* the port the command line tries first: 17080
  Scanned,    \* the ports it scans: 17080..17089
  MaxStarts   \* bound: starts of nodes

ASSUME ServicesAssumption ==
  /\ Preferred \in [Runner -> Nat] /\ NoPort \notin Nat \cup Runner
  /\ Tries \in Nat /\ Default \in Nat /\ Scanned \subseteq Nat /\ MaxStarts \in Nat
  /\ \A p \in Scanned : Default..p \subseteq Scanned

Service == {"api", "gateway", "messenger"}
Nobody  == [node |-> NoPort, service |-> NoPort]

\* The ports that can be bound.
Port == UNION {Preferred[n]..(Preferred[n] + Tries + 2) : n \in Runner}

VARIABLES
  holder,    \* who listens on each port
  task,      \* how far the task of each service is
  aimed,     \* the port each task binds next, or has bound
  apiAddr,   \* Node::api_addr, its port
  apiFile,   \* ~/.murmuration_api_port
  starts,    \* how often a node was started
  leftover,  \* history: the API that wrote apiFile has stopped
  early      \* history: nodes whose apiAddr was read before their API wrote it

servicesVars == <<holder, task, aimed, apiAddr, apiFile, starts, leftover, early>>

PortsTypeOK ==
  /\ holder  \in [Port -> [node : Runner, service : Service] \cup {Nobody}]
  /\ task    \in [Runner -> [Service -> {"off", "due", "listening", "bound", "aimed",
                                         "up", "failed"}]]
  /\ aimed   \in [Runner -> [Service -> Port]]
  /\ apiAddr \in [Runner -> Port]
  /\ apiFile \in Port \cup {NoPort}
  /\ starts  \in 0..MaxStarts
  /\ leftover \in BOOLEAN
  /\ early \subseteq Runner

ServicesInit ==
  /\ holder  = [p \in Port |-> Nobody]
  /\ task    = [n \in Runner |-> [s \in Service |-> "off"]]
  /\ aimed   = [n \in Runner |-> [s \in Service |-> Preferred[n]]]
  /\ apiAddr = Preferred
  /\ apiFile = NoPort
  /\ starts  = 0
  /\ leftover = FALSE
  /\ early = {}

-----------------------------------------------------------------------------

\* Node::new and start: every service is started by a task of its own.
StartServices(n) ==
  /\ starts < MaxStarts /\ \A s \in Service : task[n][s] = "off"
  /\ starts'  = starts + 1
  /\ task'    = [task EXCEPT ![n] = [s \in Service |-> "due"]]
  /\ apiAddr' = [apiAddr EXCEPT ![n] = Preferred[n]]
  /\ early'   = early \ {n}
  /\ UNCHANGED <<holder, aimed, apiFile, leftover>>

Free(p) == holder[p] = Nobody

Take(p, n, s) == holder' = [holder EXCEPT ![p] = [node |-> n, service |-> s]]

\* bind_tcp_with_fallback tries one port after the other.  Bound: its last
\* resort, a port the system chooses, is not reached.
TryApiPort(n) ==
  /\ task[n]["api"] = "due"
  /\ aimed[n]["api"] <= Preferred[n] + Tries
  /\ IF Free(aimed[n]["api"])
     THEN /\ Take(aimed[n]["api"], n, "api")
          /\ task' = [task EXCEPT ![n]["api"] = "listening"]
          /\ UNCHANGED aimed
     ELSE /\ aimed' = [aimed EXCEPT ![n]["api"] = @ + 1]
          /\ UNCHANGED <<holder, task>>
  /\ UNCHANGED <<apiAddr, apiFile, starts, leftover, early>>

WriteApiAddr(n) ==
  /\ task[n]["api"] = "listening"
  /\ apiAddr' = [apiAddr EXCEPT ![n] = aimed[n]["api"]]
  /\ task'    = [task EXCEPT ![n]["api"] = "bound"]
  /\ UNCHANGED <<holder, aimed, apiFile, starts, leftover, early>>

\* start_api_server_with_listener.
SaveApiPort(n) ==
  /\ task[n]["api"] = "bound"
  /\ apiFile'  = aimed[n]["api"]
  /\ leftover' = FALSE
  /\ task'     = [task EXCEPT ![n]["api"] = "up"]
  /\ UNCHANGED <<holder, aimed, apiAddr, starts, early>>

\* Deviation: beside the port the API was meant to have.
BesidePreferred(n, distance) == Preferred[n] + distance

Beside(n, distance) == apiAddr[n] + distance

\* Gateway and messenger read the API's port after a delay, whether or not the
\* API has written it by then.
AimBeside(n, s, distance) ==
  /\ task[n][s] = "due"
  /\ aimed' = [aimed EXCEPT ![n][s] = Beside(n, distance)]
  /\ task'  = [task EXCEPT ![n][s] = "aimed"]
  /\ early' = IF task[n]["api"] \in {"due", "listening"} THEN early \cup {n} ELSE early
  /\ UNCHANGED <<holder, apiAddr, apiFile, starts, leftover>>

\* start_web_gateway and start_messenger_api: a port that is taken is not
\* replaced by another.
BindBeside(n, s) ==
  /\ task[n][s] = "aimed"
  /\ IF Free(aimed[n][s])
     THEN Take(aimed[n][s], n, s) /\ task' = [task EXCEPT ![n][s] = "up"]
     ELSE task' = [task EXCEPT ![n][s] = "failed"] /\ UNCHANGED holder
  /\ UNCHANGED <<aimed, apiAddr, apiFile, starts, leftover, early>>

\* The tasks are aborted one after the other, and each ends when the runtime
\* gets to it; apiFile stays.  A process that is killed takes them all.
StopService(n, s) ==
  /\ task[n][s] # "off"
  /\ task'   = [task EXCEPT ![n][s] = "off"]
  /\ aimed'  = [aimed EXCEPT ![n][s] = Preferred[n]]
  /\ holder' = [p \in Port |-> IF holder[p] = [node |-> n, service |-> s]
                               THEN Nobody ELSE holder[p]]
  /\ leftover' = \/ leftover
                 \/ s = "api" /\ apiFile # NoPort /\ holder[apiFile] = [node |-> n, service |-> s]
  /\ UNCHANGED <<apiAddr, apiFile, starts, early>>

ServicesNext ==
  \E n \in Runner :
     \/ StartServices(n) \/ TryApiPort(n) \/ WriteApiAddr(n) \/ SaveApiPort(n)
     \/ AimBeside(n, "gateway", 1) \/ AimBeside(n, "messenger", 2)
     \/ \E s \in {"gateway", "messenger"} : BindBeside(n, s)
     \/ \E s \in Service : StopService(n, s)

ServicesSpec == ServicesInit /\ [][ServicesNext]_servicesVars

-----------------------------------------------------------------------------
(* The command line.                                                       *)

Answers(p) == p \in Port /\ ~Free(p)

\* get_api_port: the first of the saved port, the default and the scanned ports
\* that something listens on.
ApiFound ==
  CASE Answers(apiFile) -> apiFile
    [] ~Answers(apiFile) /\ Answers(Default) -> Default
    [] OTHER -> IF \E p \in Scanned : Answers(p)
                THEN CHOOSE p \in Scanned : Answers(p) /\ \A q \in Scanned : q < p => ~Answers(q)
                ELSE NoPort

-----------------------------------------------------------------------------

\* What the command line takes for an API is one, when no port changes hands
\* while it looks, but for these: the saved port is that of an API that has
\* stopped, and another service has taken it since; or the first port it meets
\* is that of a gateway or messenger whose own API lies below the ports it
\* tries, had not yet said which port it has when they asked, or is stopped
\* before them.
FindsApi ==
  LET p == ApiFound
      n == holder[p].node
  IN  (p # NoPort /\ holder[p].service # "api") =>
         \/ p = apiFile /\ leftover
         \/ p # apiFile /\ (apiAddr[n] < Default \/ n \in early \/ task[n]["api"] = "off")

=============================================================================
