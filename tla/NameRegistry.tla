---------------------------- MODULE NameRegistry ----------------------------
(***************************************************************************)
(* The name registry (naming.rs): a cache and a database, updated one      *)
(* after the other by requests that run side by side.  The database (sled) *)
(* keeps what was written in memory until it is flushed, by a request or   *)
(* by itself at any time; a crash loses the rest, and the cache, which is  *)
(* loaded from the database at the next start.                             *)
(***************************************************************************)
EXTENDS FiniteSets

CONSTANTS
  Name,
  NodeId,
  NameClient,  \* requests that may be under way at a time
  NoRecord

ASSUME NameRegistryAssumption == NoRecord \notin NodeId

VARIABLES
  nameCache,  \* NameRegistry::cache
  nameDb,     \* NameRegistry::db, as reads see it
  nameDisk,   \* what of it survives a crash
  request,    \* the request of each client and its next step
  tainted     \* history: names with two requests at a time, or a failed one

nameVars == <<nameCache, nameDb, nameDisk, request, tainted>>

Records == [Name -> NodeId \cup {NoRecord}]
Idle    == [step |-> "idle"]

NameTypeOK ==
  /\ nameCache \in Records
  /\ nameDb    \in Records
  /\ nameDisk  \in Records
  /\ request   \in [NameClient -> {Idle} \cup
       [step : {"insert", "flush", "remove"}, name : Name, record : NodeId \cup {NoRecord}]]
  /\ tainted   \subseteq Name

NameInit ==
  /\ nameDisk  \in Records
  /\ nameDb    = nameDisk
  /\ nameCache = nameDisk
  /\ request   = [c \in NameClient |-> Idle]
  /\ tainted   = {}

-----------------------------------------------------------------------------

Under(n) == {c \in NameClient : request[c] # Idle /\ request[c].name = n}

\* register and delete begin with the cache, under its lock.
Begin(c, n, record, step) ==
  /\ request[c] = Idle
  /\ nameCache' = [nameCache EXCEPT ![n] = record]
  /\ request'   = [request EXCEPT ![c] = [step |-> step, name |-> n, record |-> record]]
  /\ tainted'   = IF Under(n) = {} THEN tainted ELSE tainted \cup {n}
  /\ UNCHANGED <<nameDb, nameDisk>>

RegisterName(c, n, id) == Begin(c, n, id, "insert")
DeleteName(c, n)       == Begin(c, n, NoRecord, "remove")

InsertRecord(c) ==
  /\ request[c].step = "insert"
  /\ nameDb'  = [nameDb EXCEPT ![request[c].name] = request[c].record]
  /\ request' = [request EXCEPT ![c].step = "flush"]
  /\ UNCHANGED <<nameCache, nameDisk, tainted>>

\* Deviation: the database is not flushed.
Unflushed(c) == nameDisk

Flushed(c) == nameDb

FlushRecord(c) ==
  /\ request[c].step = "flush"
  /\ nameDisk' = Flushed(c)
  /\ request'  = [request EXCEPT ![c] = Idle]
  /\ UNCHANGED <<nameCache, nameDb, tainted>>

\* delete does not flush.
RemoveRecord(c) ==
  /\ request[c].step = "remove"
  /\ nameDb'  = [nameDb EXCEPT ![request[c].name] = NoRecord]
  /\ request' = [request EXCEPT ![c] = Idle]
  /\ UNCHANGED <<nameCache, nameDisk, tainted>>

\* The database reports an error, to the client only.
DatabaseFails(c) ==
  /\ request[c] # Idle
  /\ request' = [request EXCEPT ![c] = Idle]
  /\ tainted' = tainted \cup {request[c].name}
  /\ UNCHANGED <<nameCache, nameDb, nameDisk>>

BackgroundFlush ==
  /\ nameDisk' = nameDb
  /\ UNCHANGED <<nameCache, nameDb, request, tainted>>

\* The node stops and starts again: with_storage.
RestartRegistry ==
  /\ nameDb'    = nameDisk
  /\ nameCache' = nameDisk
  /\ request'   = [c \in NameClient |-> Idle]
  /\ tainted'   = {}
  /\ UNCHANGED nameDisk

NameNext ==
  \/ \E c \in NameClient :
       \/ \E n \in Name : DeleteName(c, n) \/ \E id \in NodeId : RegisterName(c, n, id)
       \/ InsertRecord(c) \/ FlushRecord(c) \/ RemoveRecord(c) \/ DatabaseFails(c)
  \/ BackgroundFlush
  \/ RestartRegistry

NameSpec == NameInit /\ [][NameNext]_nameVars

-----------------------------------------------------------------------------

\* A name whose requests came one at a time and did not fail resolves, once
\* they are answered, to what the database holds, and a registered one to what
\* a restart will find, whatever requests for other names do meanwhile; only
\* an unflushed deletion may come undone (register, delete, with_storage).
NamesSurvive ==
  \A n \in Name \ tainted :
     Under(n) = {} => /\ nameCache[n] = nameDb[n]
                      /\ nameCache[n] # NoRecord => nameDisk[n] = nameCache[n]

=============================================================================
