------------------------------ MODULE NodeFiles ------------------------------
(***************************************************************************)
(* The files a node keeps between runs: its identity (identity.rs) and the *)
(* cache of discovered peers (peer_store.rs).  Files are written in place: *)
(* a crash during a write leaves a torn file, which does not parse.  Both  *)
(* are used by one task at a time.  A node id is the hash of the key: the  *)
(* key stands for both, unless someone edited the file.                    *)
(***************************************************************************)
EXTENDS Naturals, Sequences

CONSTANTS
  IdKey,       \* private keys
  PeerAddr,    \* addresses of discovered peers
  ApiAddr,     \* those of them with a port from 17000 to 17999
  MaxPeers,    \* MAX_PEERS
  None

ASSUME NodeFilesAssumption ==
  /\ None \notin IdKey \cup PeerAddr
  /\ ApiAddr \subseteq PeerAddr
  /\ MaxPeers \in Nat \ {0}

VARIABLES
  running,    \* "down", "creating" an identity, or "up"
  key,        \* the key of the run
  identity,   \* identity.json: node_id and key, or its state
  peersFile,  \* peers.json: its state and addresses
  recording,  \* the address record_peer is writing
  candidates, \* addresses loaded into the peer table at the start of the run
  lastKey,    \* history: the key of the last run that was up
  edited,     \* history: identity.json was edited since
  lastPeer,   \* history: the last address recorded
  broken      \* history: the files a crash left torn

fileVars == <<running, key, identity, peersFile, recording, candidates,
              lastKey, edited, lastPeer, broken>>

FileState == {"absent", "torn", "whole"}

NodeFilesTypeOK ==
  /\ running    \in {"down", "creating", "up"}
  /\ key        \in IdKey \cup {None}
  /\ identity   \in [state : FileState, id : IdKey \cup {None}, key : IdKey \cup {None}]
  /\ peersFile.state \in FileState
  /\ \A i \in DOMAIN peersFile.peers : peersFile.peers[i] \in PeerAddr
  /\ recording  \in PeerAddr \cup {None}
  /\ candidates \subseteq PeerAddr \ ApiAddr
  /\ lastKey    \in IdKey \cup {None}
  /\ edited     \in BOOLEAN
  /\ lastPeer   \in PeerAddr \cup {None}
  /\ broken     \subseteq {"identity", "peers"}

Unwritten(state) == [state |-> state, id |-> None, key |-> None]

NodeFilesInit ==
  /\ running    = "down"
  /\ key        = None
  /\ identity   = Unwritten("absent")
  /\ peersFile  = [state |-> "absent", peers |-> <<>>]
  /\ recording  = None
  /\ candidates = {}
  /\ lastKey    = None
  /\ edited     = FALSE
  /\ lastPeer   = None
  /\ broken     = {}

-----------------------------------------------------------------------------
(* load_or_create.                                                         *)

\* A whole file whose node_id is the hash of its key.
Matches(file) == file.state = "whole" /\ file.id = file.key

\* load_cached_peers: an unreadable file counts as an empty one.
Loaded == IF peersFile.state = "whole"
          THEN {peersFile.peers[i] : i \in DOMAIN peersFile.peers} \ ApiAddr ELSE {}

ComeUp(k) ==
  /\ running'    = "up"
  /\ key'        = k
  /\ lastKey'    = k
  /\ edited'     = FALSE
  /\ candidates' = Loaded

LoadIdentity ==
  /\ running = "down"
  /\ Matches(identity)
  /\ ComeUp(identity.key)
  /\ UNCHANGED <<identity, peersFile, recording, lastPeer, broken>>

\* Deviation: a file that does not parse counts as one that does not match.
RecreatesTorn(file) == ~Matches(file)

\* There is no file, or one that does not match and is deleted; one that does
\* not parse is an error, and the node does not start.
Recreates(file) == file.state = "absent" \/ (file.state = "whole" /\ ~Matches(file))

\* A new key is generated and its file opened for writing.
CreateIdentity(k) ==
  /\ running = "down"
  /\ Recreates(identity)
  /\ running'  = "creating"
  /\ key'      = k
  /\ identity' = Unwritten("torn")
  /\ UNCHANGED <<peersFile, recording, candidates, lastKey, edited, lastPeer,
                 broken>>

WriteIdentity ==
  /\ running = "creating"
  /\ identity' = [state |-> "whole", id |-> key, key |-> key]
  /\ ComeUp(key)
  /\ UNCHANGED <<peersFile, recording, lastPeer, broken>>

\* Someone puts another node_id into the file.
EditIdentity(id) ==
  /\ running = "down" /\ identity.state = "whole" /\ id # identity.id
  /\ identity' = [identity EXCEPT !.id = id]
  /\ edited'   = TRUE
  /\ UNCHANGED <<running, key, peersFile, recording, candidates, lastKey,
                 lastPeer, broken>>

-----------------------------------------------------------------------------
(* record_peer.                                                            *)

\* Deviation: the oldest addresses are kept.
KeepsOldest(q) == SubSeq(q, 1, IF Len(q) < MaxPeers THEN Len(q) ELSE MaxPeers)

\* The last MAX_PEERS addresses.
Latest(q) == IF Len(q) <= MaxPeers THEN q ELSE SubSeq(q, Len(q) - MaxPeers + 1, Len(q))

WithPeer(q, a) == Latest(IF \E i \in DOMAIN q : q[i] = a THEN q ELSE Append(q, a))

\* A file that does not parse is an error, and is left as it is.
RecordPeer(a) ==
  /\ running = "up" /\ recording = None
  /\ peersFile.state # "torn"
  /\ recording' = a
  /\ peersFile' = [peersFile EXCEPT !.state = "torn", !.peers = WithPeer(@, a)]
  /\ UNCHANGED <<running, key, identity, candidates, lastKey, edited,
                 lastPeer, broken>>

WritePeers ==
  /\ recording # None
  /\ peersFile' = [peersFile EXCEPT !.state = "whole"]
  /\ lastPeer'  = recording
  /\ recording' = None
  /\ UNCHANGED <<running, key, identity, candidates, lastKey, edited, broken>>

-----------------------------------------------------------------------------

\* The process ends, by a crash or a stop, whatever it is writing.
StopNode ==
  /\ running # "down"
  /\ running'    = "down"
  /\ key'        = None
  /\ recording'  = None
  /\ candidates' = {}
  /\ broken'     = broken
                    \cup {f \in {"identity"} : running = "creating"}
                    \cup {f \in {"peers"} : recording # None}
  /\ UNCHANGED <<identity, peersFile, lastKey, edited, lastPeer>>

NodeFilesNext ==
  \/ LoadIdentity \/ WriteIdentity \/ WritePeers \/ StopNode
  \/ \E k \in IdKey : CreateIdentity(k) \/ EditIdentity(k)
  \/ \E a \in PeerAddr : RecordPeer(a)

NodeFilesSpec == NodeFilesInit /\ [][NodeFilesNext]_fileVars

-----------------------------------------------------------------------------

\* The node has the identity of its last run, unless its file was edited.
IdentityKept ==
  (lastKey # None /\ ~edited) =>
     /\ identity = [state |-> "whole", id |-> lastKey, key |-> lastKey]
     /\ running = "up" => key = lastKey

\* A readable cache holds the peer recorded last, none twice, none too many.
PeersKept ==
  LET q == peersFile.peers IN
  peersFile.state = "whole" =>
     /\ Len(q) <= MaxPeers
     /\ \A i, j \in DOMAIN q : q[i] = q[j] => i = j
     /\ \E i \in DOMAIN q : q[i] = lastPeer

\* A file torn by a crash is so for good.  Without a readable identity no later
\* run comes up, and none takes another; from a torn cache no later run has an
\* address, and none overwrites it.
TornForGood ==
  /\ "identity" \in broken => running = "down" /\ identity.state = "torn"
  /\ "peers" \in broken =>
        peersFile.state = "torn" /\ recording = None /\ candidates = {}

\* A node keeps the identity of its last run through stops and crashes at any
\* point, unless its file was edited to a node_id that is not its key's; after
\* a crash while the first identity was written it does not start again rather
\* than take another (load_or_create).  The cache of peers, when it can be read,
\* has the peer recorded last; one a crash has torn serves no later run and is
\* not replaced (load_cached_peers, record_peer).
FilesKept == IdentityKept /\ PeersKept /\ TornForGood

=============================================================================
