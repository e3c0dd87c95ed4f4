------------------------------- MODULE Content -------------------------------
(***************************************************************************)
(* Content: the store of each node, remote fetches and the requests and    *)
(* responses they are meant to exchange (node.rs, content_store.rs), and   *)
(* the web gateway in front of them (web_gateway.rs).                      *)
(*                                                                         *)
(* fetch_content sends its request inside a Data message, which no handler *)
(* unwraps.  Members of Foreign speak the wire protocol but are not this   *)
(* program: they send the request as such, so that the handlers get one.   *)
(***************************************************************************)
EXTENDS Naturals, Sequences, FiniteSets

CONSTANTS
  Member,     \* nodes
  Foreign,
  Linked,     \* which pairs have a channel
  Url,        \* urls, of which the owner matters
  FetchTtl,   \* hops a request may take: 8
  MaxFetches, \* bound: fetches
  MaxStored   \* bound: contents published

ASSUME ContentAssumption ==
  /\ Foreign \subseteq Member
  /\ \A p \in Linked : <<p[2], p[1]>> \in Linked /\ p[1] # p[2]
  /\ Linked \subseteq Member \X Member
  /\ \A url \in Url : url.owner \in Member
  /\ FetchTtl \in Nat /\ MaxFetches \in Nat /\ MaxStored \in Nat

VARIABLES
  stored,   \* ContentStore::db of each node
  fetches,  \* the fetches started so far
  carried,  \* messages on their way
  shown,    \* fetches whose request was put into an inbox as a chat message
  excused   \* history: fetches that lost a message or did not wait for one

contentVars == <<stored, fetches, carried, shown, excused>>

FetchState == {"waiting", "found", "missing", "canceled", "timeout"}

ContentTypeOK ==
  /\ stored \in [Member -> SUBSET Url]
  /\ Len(fetches) <= MaxFetches
  /\ \A i \in DOMAIN fetches :
        fetches[i] \in [node : Member, url : Url, there : BOOLEAN, state : FetchState]
  /\ \A m \in carried :
        /\ <<m.from, m.to>> \in Linked
        /\ m.id \in DOMAIN fetches
        /\ m.kind \in {"data", "request", "response"}
  /\ shown   \subseteq DOMAIN fetches
  /\ excused \subseteq DOMAIN fetches

ContentInit ==
  /\ stored  = [n \in Member |-> {}]
  /\ fetches = <<>>
  /\ carried = {}
  /\ shown   = {}
  /\ excused = {}

-----------------------------------------------------------------------------

\* publish_content: under mur://<node>/ unless the caller names a whole url.
\* Overwriting is not distinguished, and nothing is ever deleted.
PublishContent(n, url) ==
  /\ Cardinality(UNION {{<<m, u>> : u \in stored[m]} : m \in Member}) < MaxStored
  /\ stored' = [stored EXCEPT ![n] = @ \cup {url}]
  /\ UNCHANGED <<fetches, carried, shown, excused>>

Neighbours(n) == {m \in Member : <<n, m>> \in Linked}

ToAll(msg, n, ms) == {[msg EXCEPT !.from = n, !.to = m] : m \in ms}

\* fetch_content: a node's own content comes from its store at once; other
\* content is asked for on every channel.
StartFetch(n, url) ==
  /\ Len(fetches) < MaxFetches
  /\ LET id    == Len(fetches) + 1
         here  == url \in stored[n]
         state == IF url.owner # n THEN "waiting" ELSE IF here THEN "found" ELSE "missing"
         msg   == [kind |-> IF n \in Foreign THEN "request" ELSE "data", id |-> id,
                   url |-> url, ttl |-> FetchTtl, path |-> <<n>>, from |-> n, to |-> n]
     IN  /\ fetches' = Append(fetches, [node |-> n, url |-> url, state |-> state,
                                        there |-> url \in stored[url.owner]])
         /\ carried' = IF state = "waiting"
                       THEN carried \cup ToAll(msg, n, Neighbours(n)) ELSE carried
  /\ UNCHANGED <<stored, shown, excused>>

\* The Data arm: not a mesh message, so it is shown to the user.
ReceiveWrapped(m) ==
  /\ m.kind = "data"
  /\ shown'   = shown \cup {m.id}
  /\ carried' = carried \ {m}
  /\ UNCHANGED <<stored, fetches, excused>>

Forwards(m) == m.ttl > 0 /\ \A i \in DOMAIN m.path : m.path[i] # m.to

\* Deviation: the owner of a url has its content.
IsOwner(m) == m.url.owner = m.to

HasContent(m) == m.url \in stored[m.to]

\* What the ContentRequest arm sends: the owner's response to the peer that
\* handed the request on, or the request to every other peer.
Replies(m) ==
  CASE m.url.owner = m.to ->
         {[kind |-> "response", id |-> m.id, found |-> HasContent(m),
           from |-> m.to, to |-> m.from]}
    [] m.url.owner # m.to /\ Forwards(m) ->
         ToAll([m EXCEPT !.ttl = @ - 1, !.path = Append(@, m.to)],
               m.to, Neighbours(m.to) \ {m.from})
    [] OTHER -> {}

ReceiveRequest(m) ==
  /\ m.kind = "request"
  /\ carried' = (carried \ {m}) \cup Replies(m)
  /\ UNCHANGED <<stored, fetches, shown, excused>>

\* The ContentResponse arm: pending_content_requests holds the fetches of the
\* node itself, so that a response to a forwarded request ends here.
ReceiveResponse(m) ==
  /\ m.kind = "response"
  /\ fetches' = IF fetches[m.id].node = m.to /\ fetches[m.id].state = "waiting"
                THEN [fetches EXCEPT ![m.id].state =
                        IF m.found THEN "found" ELSE "canceled"]
                ELSE fetches
  /\ carried' = carried \ {m}
  /\ UNCHANGED <<stored, shown, excused>>

\* A connection ends with messages in its channel.
LoseMessage(m) ==
  /\ carried' = carried \ {m}
  /\ excused' = excused \cup {m.id}
  /\ UNCHANGED <<stored, fetches, shown>>

TimeOutFetch(id) ==
  /\ fetches[id].state = "waiting"
  /\ fetches' = [fetches EXCEPT ![id].state = "timeout"]
  /\ excused' = IF \E m \in carried : m.id = id THEN excused \cup {id} ELSE excused
  /\ UNCHANGED <<stored, carried, shown>>

ContentNext ==
  \/ \E n \in Member, url \in Url : PublishContent(n, url) \/ StartFetch(n, url)
  \/ \E m \in carried :
       ReceiveWrapped(m) \/ ReceiveRequest(m) \/ ReceiveResponse(m) \/ LoseMessage(m)
  \/ \E id \in DOMAIN fetches : TimeOutFetch(id)

ContentSpec == ContentInit /\ [][ContentNext]_contentVars

-----------------------------------------------------------------------------
(* The gateway.                                                            *)

\* handle_content_request: the status of the answer to a fetch.
Status(state) ==
  CASE state = "found"   -> 200
    [] state = "missing" -> 404
    [] state \in {"canceled", "timeout"} -> 500

-----------------------------------------------------------------------------

\* What a fetch ends with: found means that the owner has the content; only
\* the owner's own neighbour is ever answered, since responses are not handed
\* on; "canceled" means that it was missing when the fetch began.  So the
\* gateway answers 404 for missing content of its own node only (fetch_content,
\* the ContentRequest and ContentResponse arms, handle_content_request).
FetchExplained ==
  \A id \in DOMAIN fetches :
     LET f == fetches[id] IN
     /\ f.state = "found" => f.url \in stored[f.url.owner]
     /\ f.state = "canceled" => ~f.there
     /\ (f.state \in {"found", "canceled"} /\ f.url.owner # f.node)
          => f.node \in Foreign /\ <<f.node, f.url.owner>> \in Linked
     /\ (f.state # "waiting" /\ Status(f.state) = 404) => f.url.owner = f.node

\* A fetch of content that its owner had when the fetch began, and all of whose
\* messages arrived before it timed out, finds it ("Otherwise, send
\* ContentRequest to network and wait for response", fetch_content).
FetchFindsContent ==
  \A id \in DOMAIN fetches :
     (fetches[id].there /\ id \notin excused) => fetches[id].state \in {"waiting", "found"}

=============================================================================
