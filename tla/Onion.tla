-------------------------------- MODULE Onion --------------------------------
(***************************************************************************)
(* Onion circuits (onion/circuit.rs, cell.rs, relay.rs): senders number    *)
(* and keep circuits, relays keep a table of legs by circuit id alone,     *)
(* peel one layer of a cell and forward the rest.                          *)
(*                                                                         *)
(* A key is the circuit and the hop it was derived for: secrets come from  *)
(* a key agreement per circuit and hop.  A layer opens with its key only.  *)
(* A wrapped payload is the sequence of its layers, outermost first.  Who  *)
(* carries cells and registers legs is the caller's part: cells may be     *)
(* lost and legs registered, replaced and destroyed at any time.           *)
(***************************************************************************)
EXTENDS Integers, Sequences, FiniteSets

CONSTANTS
  Sender,
  Path,        \* paths of relays a circuit may take
  Fresh,       \* circuit ids are 32 bits wide: they wrap at Fresh = 2^32
  MaxCircuits, \* bound: circuits built
  MaxCells,    \* bound: cells on their way at a time
  NoLeg

ASSUME OnionAssumption ==
  /\ \A p \in Path : p \in Seq({p[i] : i \in DOMAIN p} \ {NoLeg})
  /\ Fresh \in Nat /\ Fresh >= 2
  /\ MaxCircuits \in Nat /\ MaxCells \in Nat

VARIABLES
  nextId,    \* CircuitManager::next_id of each sender
  built,     \* number of circuits built, which dates them
  circuits,  \* CircuitManager::circuits of each sender, oldest first
  legs,      \* OnionRelay::circuits of each relay
  cells,     \* cells on their way, each with the relay it is going to
  delivered  \* what an exit relay last handed to a recipient

onionVars == <<nextId, built, circuits, legs, cells, delivered>>

Relay == UNION {{p[i] : i \in DOMAIN p} : p \in Path}
Ids   == 1..(Fresh - 1)

Circuit == [sender : Sender, id : Ids, birth : 1..MaxCircuits, path : Path]

\* A key, and the leg of a circuit that has it.
Layer == [circuit : Circuit, hop : Nat]

ASSUME NoLegAssumption == NoLeg \notin Layer

\* Paths have at least one hop, or building fails.
Buildable(path) == path # <<>>

OnionTypeOK ==
  /\ nextId    \in [Sender -> Ids]
  /\ built     \in 0..MaxCircuits
  /\ \A s \in Sender : \A i \in DOMAIN circuits[s] :
        circuits[s][i] \in Circuit /\ circuits[s][i].sender = s
  /\ \A r \in Relay, i \in Ids :
        legs[r][i] # NoLeg =>
           /\ legs[r][i].circuit \in Circuit
           /\ legs[r][i].hop \in DOMAIN legs[r][i].circuit.path
  /\ \A c \in cells : c.at \in Relay /\ c.id \in Ids
  /\ delivered # NoLeg => delivered.at \in Relay

OnionInit ==
  /\ nextId    = [s \in Sender |-> 1]
  /\ built     = 0
  /\ circuits  = [s \in Sender |-> <<>>]
  /\ legs      = [r \in Relay |-> [i \in Ids |-> NoLeg]]
  /\ cells     = {}
  /\ delivered = NoLeg

-----------------------------------------------------------------------------
(* Senders.                                                                *)

\* Deviation: the counter does not wrap.
AfterNoWrap(id) == id + 1

\* next_id.wrapping_add(1).max(1): zero is never given out.
After(id) == IF id + 1 = Fresh THEN 1 ELSE id + 1

\* next_circuit_id, build_from_shared_secrets and add.
BuildCircuit(s, path) ==
  /\ built < MaxCircuits
  /\ Buildable(path)
  /\ built'    = built + 1
  /\ nextId'   = [nextId EXCEPT ![s] = After(@)]
  /\ circuits' = [circuits EXCEPT ![s] = Append(@,
                    [sender |-> s, id |-> nextId[s], birth |-> built + 1,
                     path |-> path])]
  /\ UNCHANGED <<legs, cells, delivered>>

\* prune_expired: circuits expire in the order in which they were built.
PruneExpired(s) ==
  /\ \E n \in 1..Len(circuits[s]) :
        circuits' = [circuits EXCEPT ![s] = SubSeq(@, n + 1, Len(@))]
  /\ UNCHANGED <<nextId, built, legs, cells, delivered>>

\* get: the first circuit with this id.
Get(s, id) ==
  LET match == {i \in DOMAIN circuits[s] : circuits[s][i].id = id}
  IN  circuits[s][CHOOSE i \in match : \A j \in match : i <= j]

\* Deviation: the layer of the guard is applied first.
WrapReversed(c) ==
  [i \in 1..Len(c.path) |-> [circuit |-> c, hop |-> Len(c.path) + 1 - i]]

\* wrap, build_onion: the exit's layer is applied first, the guard's last.
Wrap(c) == [i \in 1..Len(c.path) |-> [circuit |-> c, hop |-> i]]

\* A payload is wrapped and handed to the first hop.
SendCell(s, id) ==
  /\ Cardinality(cells) < MaxCells
  /\ \E i \in DOMAIN circuits[s] : circuits[s][i].id = id
  /\ LET via == Get(s, id)
     IN  cells' = cells \cup {[at |-> via.path[1], id |-> id, layers |-> Wrap(via)]}
  /\ UNCHANGED <<nextId, built, circuits, legs, delivered>>

-----------------------------------------------------------------------------
(* Relays.                                                                 *)

\* register_circuit: an entry with the same id is replaced.
RegisterLeg(c, hop) ==
  /\ legs' = [legs EXCEPT ![c.path[hop]][c.id] = [circuit |-> c, hop |-> hop]]
  /\ UNCHANGED <<nextId, built, circuits, cells, delivered>>

DestroyLeg(r, id) ==
  /\ legs[r][id] # NoLeg
  /\ legs' = [legs EXCEPT ![r][id] = NoLeg]
  /\ UNCHANGED <<nextId, built, circuits, cells, delivered>>

\* Deviation: any key opens a layer.
OpensAny(layers, key) == layers # <<>>

\* peel_layer: authenticated encryption.
Opens(layers, key) == layers # <<>> /\ Head(layers) = key

NextHop(leg) == IF leg.hop = Len(leg.circuit.path) THEN NoLeg
                ELSE leg.circuit.path[leg.hop + 1]

\* process_cell, and its caller forwarding or delivering the result.
ProcessCell(cell) ==
  LET leg == legs[cell.at][cell.id] IN
  /\ leg # NoLeg
  /\ Opens(cell.layers, leg)
  /\ LET rest == Tail(cell.layers) IN
     IF NextHop(leg) = NoLeg
     THEN /\ cells'     = cells \ {cell}
          /\ delivered' = [at |-> cell.at, opened |-> leg, layers |-> rest]
     ELSE /\ cells'     = (cells \ {cell})
                            \cup {[at |-> NextHop(leg), id |-> cell.id, layers |-> rest]}
          /\ UNCHANGED delivered
  /\ UNCHANGED <<nextId, built, circuits, legs>>

\* process_cell returns an error: the circuit is unknown or the layer closed.
RefuseCell(cell) ==
  LET leg == legs[cell.at][cell.id] IN
  /\ leg = NoLeg \/ ~Opens(cell.layers, leg)
  /\ cells' = cells \ {cell}
  /\ UNCHANGED <<nextId, built, circuits, legs, delivered>>

OnionNext ==
  \/ \E s \in Sender, p \in Path : BuildCircuit(s, p)
  \/ \E s \in Sender : PruneExpired(s)
  \/ \E s \in Sender, id \in Ids : SendCell(s, id)
  \/ \E s \in Sender : \E i \in DOMAIN circuits[s] :
        \E hop \in DOMAIN circuits[s][i].path : RegisterLeg(circuits[s][i], hop)
  \/ \E r \in Relay, id \in Ids : DestroyLeg(r, id)
  \/ \E cell \in cells : ProcessCell(cell) \/ RefuseCell(cell)

OnionSpec == OnionInit /\ [][OnionNext]_onionVars

-----------------------------------------------------------------------------
(* Properties.                                                             *)

\* Whatever legs are replaced or destroyed while a cell is on its way, and
\* although relays find legs by an id that other circuits share, an exit
\* hands out only fully opened payloads of circuits that end at it.
ExitDelivers ==
  delivered # NoLeg =>
     /\ delivered.layers = <<>>
     /\ LET path == delivered.opened.circuit.path IN delivered.at = path[Len(path)]

\* A relay refuses a cell only when its table holds another circuit's leg, or
\* none, under the id: with every leg of a circuit in place, what its sender
\* wrapped opens at every hop (build_onion against process_cell).
RefusedWithoutLeg ==
  [][\A cell \in cells :
        RefuseCell(cell) => \A s \in Sender : \A i \in DOMAIN circuits[s] :
           LET way == circuits[s][i] IN
           \A hop \in DOMAIN way.path :
              (way.id = cell.id /\ way.path[hop] = cell.at /\ cell.layers # <<>>
                 /\ cell.layers[Len(cell.layers)].circuit = way
                 /\ Len(cell.layers) = Len(way.path) + 1 - hop)
                 => legs[cell.at][cell.id] # [circuit |-> way, hop |-> hop]
    ]_onionVars

=============================================================================
