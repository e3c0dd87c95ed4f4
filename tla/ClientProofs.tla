---------------------------- MODULE ClientProofs ----------------------------
(***************************************************************************)
(* Proofs about what clients of a node are told: the outcome of a fetch    *)
(* (Content) and the view of a conversation (Messenger).                   *)
(***************************************************************************)
EXTENDS Content, Messenger, NaturalsInduction, WellFoundedInduction, TLAPS

-----------------------------------------------------------------------------
(* Content.                                                                *)

Fetch == [node : Member, url : Url, there : BOOLEAN, state : FetchState]

Request  == [kind : {"data", "request"}, id : Nat, url : Url, ttl : Nat,
             path : Seq(Member), from : Member, to : Member]
Response == [kind : {"response"}, id : Nat, found : BOOLEAN, from : Member, to : Member]

\* A request asks for what its fetch asks for; a response comes from the owner,
\* and says what was true when the fetch began or is true now.
MessageOK(m) ==
  /\ m \in Request \cup Response
  /\ m.id \in DOMAIN fetches /\ <<m.from, m.to>> \in Linked
  /\ LET f == fetches[m.id] IN
     /\ m.kind = "request" => m.url = f.url /\ f.node \in Foreign
     /\ m.kind = "response" =>
           /\ m.from = f.url.owner /\ f.node \in Foreign
           /\ IF m.found THEN f.url \in stored[f.url.owner] ELSE ~f.there

Explained(f) ==
  /\ f.state = "found" => f.url \in stored[f.url.owner]
  /\ f.state = "canceled" => ~f.there
  /\ (f.state \in {"found", "canceled"} /\ f.url.owner # f.node)
        => f.node \in Foreign /\ <<f.node, f.url.owner>> \in Linked
  /\ f.state = "missing" => f.url.owner = f.node

FetchInv ==
  /\ stored \in [Member -> SUBSET Url]
  /\ fetches \in Seq(Fetch)
  /\ \A m \in carried : MessageOK(m)
  /\ \A id \in DOMAIN fetches :
        /\ fetches[id].there => fetches[id].url \in stored[fetches[id].url.owner]
        /\ Explained(fetches[id])

LEMMA FetchInitially == ContentInit => FetchInv
<1> SUFFICES ASSUME ContentInit PROVE FetchInv
  OBVIOUS
<1>1. /\ stored = [n \in Member |-> {}] /\ fetches = <<>> /\ carried = {}
  BY DEF ContentInit
<1>2. stored \in [Member -> SUBSET Url] /\ fetches \in Seq(Fetch) /\ DOMAIN fetches = {}
  BY <1>1
<1> QED  BY <1>1, <1>2 DEF FetchInv

\* Contents are never deleted.
LEMMA PublishKeeps ==
  ASSUME FetchInv, NEW n \in Member, NEW url \in Url, PublishContent(n, url)
  PROVE  FetchInv'
<1>1. /\ stored' = [stored EXCEPT ![n] = @ \cup {url}]
      /\ UNCHANGED <<fetches, carried>>
  BY DEF PublishContent
<1>2. stored' \in [Member -> SUBSET Url] /\ \A m \in Member : stored[m] \subseteq stored'[m]
  BY <1>1 DEF FetchInv
<1>3. ASSUME NEW id \in DOMAIN fetches PROVE fetches[id].url.owner \in Member
  <2>1. fetches[id] \in Fetch
    BY DEF FetchInv
  <2> QED  BY <2>1, ContentAssumption DEF Fetch
<1>4. ASSUME NEW m \in carried PROVE MessageOK(m)'
  BY <1>1, <1>2, <1>3 DEF FetchInv, MessageOK
<1>5. ASSUME NEW id \in DOMAIN fetches
      PROVE  /\ fetches[id].there => fetches[id].url \in stored'[fetches[id].url.owner]
             /\ Explained(fetches[id])'
  BY <1>1, <1>2, <1>3 DEF FetchInv, Explained
<1> QED  BY <1>1, <1>2, <1>4, <1>5 DEF FetchInv

LEMMA StartKeeps ==
  ASSUME FetchInv, NEW n \in Member, NEW url \in Url, StartFetch(n, url)
  PROVE  FetchInv'
<1> DEFINE id  == Len(fetches) + 1
           msg == [kind |-> IF n \in Foreign THEN "request" ELSE "data", id |-> id,
                   url |-> url, ttl |-> FetchTtl, path |-> <<n>>, from |-> n, to |-> n]
<1>1. PICK f \in Fetch :
         /\ fetches' = Append(fetches, f) /\ UNCHANGED stored
         /\ f.node = n /\ f.url = url /\ (f.there <=> url \in stored[url.owner])
         /\ f.state = IF url.owner # n THEN "waiting"
                       ELSE IF url \in stored[n] THEN "found" ELSE "missing"
         /\ carried' \subseteq carried \cup ToAll(msg, n, Neighbours(n))
  <2> DEFINE state == IF url.owner # n THEN "waiting"
                      ELSE IF url \in stored[n] THEN "found" ELSE "missing"
             f     == [node |-> n, url |-> url, state |-> state,
                       there |-> url \in stored[url.owner]]
  <2>1. state \in FetchState
    BY DEF FetchState
  <2>2. f \in Fetch
    BY <2>1 DEF Fetch
  <2>3. /\ fetches' = Append(fetches, f) /\ UNCHANGED stored
        /\ carried' \subseteq carried \cup ToAll(msg, n, Neighbours(n))
    BY DEF StartFetch
  <2> QED  BY <2>2, <2>3
<1>3. /\ fetches' \in Seq(Fetch) /\ DOMAIN fetches' = 1..id /\ DOMAIN fetches = 1..Len(fetches)
      /\ Len(fetches) \in Nat /\ fetches'[id] = f
      /\ \A i \in DOMAIN fetches : i \in DOMAIN fetches' /\ fetches'[i] = fetches[i]
  BY <1>1 DEF FetchInv
<1>4. ASSUME NEW m \in carried PROVE MessageOK(m)'
  BY <1>1, <1>3 DEF FetchInv, MessageOK
<1>5. ASSUME NEW m \in ToAll(msg, n, Neighbours(n)) PROVE MessageOK(m)'
  <2>1. PICK to \in Neighbours(n) : m = [msg EXCEPT !.from = n, !.to = to]
    BY DEF ToAll
  <2>2. m = [kind |-> IF n \in Foreign THEN "request" ELSE "data", id |-> id,
             url |-> url, ttl |-> FetchTtl, path |-> <<n>>, from |-> n, to |-> to]
    BY <2>1
  <2>3. to \in Member /\ <<n, to>> \in Linked
    BY <2>1 DEF Neighbours
  <2>4. /\ m.id = id /\ m.from = n /\ m.to = to /\ m.url = url /\ m.ttl = FetchTtl
        /\ m.path = <<n>> /\ m.kind \in {"data", "request"}
        /\ (m.kind = "request" => n \in Foreign) /\ m.kind # "response"
    BY <2>2
  <2>5. m \in Request
    <3>1. id \in Nat /\ FetchTtl \in Nat /\ <<n>> \in Seq(Member)
      BY <1>3, ContentAssumption
    <3>2. (IF n \in Foreign THEN "request" ELSE "data") \in {"data", "request"}
      OBVIOUS
    <3> HIDE DEF id
    <3> QED  BY <2>2, <2>3, <3>1, <3>2 DEF Request
  <2>6. id \in DOMAIN fetches' /\ fetches'[m.id].url = url /\ fetches'[m.id].node = n
    BY <1>1, <1>3, <2>4
  <2> QED  BY <2>3, <2>4, <2>5, <2>6 DEF MessageOK
<1>6. f.there => f.url \in stored'[f.url.owner]
  BY <1>1
<1>7. Explained(f)'
  <2>1. /\ url.owner # n => f.state = "waiting"
        /\ (url.owner = n /\ url \in stored[n]) => f.state = "found"
        /\ (url.owner = n /\ url \notin stored[n]) => f.state = "missing"
    BY <1>1
  <2>2. CASE url.owner # n
    BY <2>1, <2>2 DEF Explained
  <2>3. CASE url.owner = n /\ url \in stored[n]
    BY <1>1, <2>1, <2>3 DEF Explained
  <2>4. CASE url.owner = n /\ url \notin stored[n]
    BY <1>1, <2>1, <2>4 DEF Explained
  <2> QED  BY <2>2, <2>3, <2>4
<1>8. ASSUME NEW i \in DOMAIN fetches'
      PROVE  /\ fetches'[i].there => fetches'[i].url \in stored'[fetches'[i].url.owner]
             /\ Explained(fetches[i])'
  <2>1. CASE i \in DOMAIN fetches
    BY <1>1, <1>3, <2>1 DEF FetchInv, Explained
  <2>2. CASE i = id
    BY <1>3, <1>6, <1>7, <2>2 DEF Explained
  <2> QED  BY <1>3, <2>1, <2>2
<1>9. \A m \in carried' : MessageOK(m)'
  BY <1>1, <1>4, <1>5
<1>10. stored' \in [Member -> SUBSET Url]
  BY <1>1 DEF FetchInv
<1> QED  BY <1>3, <1>8, <1>9, <1>10 DEF FetchInv

\* A request is answered by its owner, or handed on as it is.
LEMMA RequestKeeps ==
  ASSUME FetchInv, NEW m \in carried, ReceiveRequest(m)
  PROVE  FetchInv'
<1>1. /\ m.kind = "request" /\ carried' = (carried \ {m}) \cup Replies(m)
      /\ UNCHANGED <<stored, fetches>>
  BY DEF ReceiveRequest
<1>2. /\ m \in Request /\ m.id \in DOMAIN fetches /\ <<m.from, m.to>> \in Linked
      /\ m.url = fetches[m.id].url /\ fetches[m.id].node \in Foreign
  BY <1>1 DEF FetchInv, MessageOK, Response
<1>3. <<m.to, m.from>> \in Linked /\ m.from \in Member /\ m.to \in Member
  BY <1>2, ContentAssumption DEF Request
<1>4. ASSUME NEW r \in Replies(m) PROVE MessageOK(r)
  <2>1. CASE m.url.owner = m.to
    <3>1. r = [kind |-> "response", id |-> m.id, found |-> HasContent(m),
               from |-> m.to, to |-> m.from]
      BY <2>1 DEF Replies
    <3>2. r \in Response /\ r.id = m.id /\ r.from = m.to /\ r.to = m.from
          /\ r.kind = "response" /\ r.found = HasContent(m)
      BY <1>2, <1>3, <3>1 DEF Response, Request, HasContent
    <3>3. IF r.found THEN m.url \in stored[m.url.owner] ELSE ~fetches[m.id].there
      BY <1>2, <2>1, <3>2 DEF HasContent, FetchInv
    <3> QED  BY <1>2, <1>3, <2>1, <3>2, <3>3 DEF MessageOK
  <2>2. CASE m.url.owner # m.to /\ Forwards(m)
    <3>1. PICK to \in Neighbours(m.to) :
            r = [[m EXCEPT !.ttl = @ - 1, !.path = Append(@, m.to)]
                   EXCEPT !.from = m.to, !.to = to]
      BY <2>2 DEF Replies, ToAll
    <3>2. m.ttl - 1 \in Nat /\ Append(m.path, m.to) \in Seq(Member)
      BY <1>2, <1>3, <2>2 DEF Forwards, Request
    <3>3. to \in Member /\ <<m.to, to>> \in Linked
      BY <3>1 DEF Neighbours
    <3>4. r \in Request /\ r.id = m.id /\ r.from = m.to /\ r.to = to
          /\ r.kind = "request" /\ r.url = m.url
      BY <1>1, <1>2, <1>3, <3>1, <3>2, <3>3 DEF Request
    <3> QED  BY <1>2, <3>3, <3>4 DEF MessageOK
  <2>3. CASE m.url.owner # m.to /\ ~Forwards(m)
    BY <2>3 DEF Replies
  <2> QED  BY <2>1, <2>2, <2>3
<1>5. \A c \in carried' : MessageOK(c)'
  BY <1>1, <1>4 DEF FetchInv, MessageOK
<1> QED  BY <1>1, <1>5 DEF FetchInv, Explained

\* The outcome of a fetch is decided.
LEMMA FetchEnds ==
  ASSUME FetchInv, NEW id \in DOMAIN fetches, NEW s \in FetchState,
         fetches' = [fetches EXCEPT ![id].state = s],
         carried' \subseteq carried, UNCHANGED stored,
         Explained([fetches[id] EXCEPT !.state = s])
  PROVE  FetchInv'
<1>1. /\ fetches \in Seq(Fetch) /\ fetches[id] \in Fetch
      /\ DOMAIN fetches' = DOMAIN fetches
      /\ \A i \in DOMAIN fetches \ {id} : fetches'[i] = fetches[i]
      /\ fetches'[id] = [fetches[id] EXCEPT !.state = s]
  BY DEF FetchInv
<1>2. /\ fetches'[id] \in Fetch /\ fetches'[id].url = fetches[id].url
      /\ fetches'[id].node = fetches[id].node /\ fetches'[id].there = fetches[id].there
  BY <1>1 DEF Fetch
<1>3. fetches' \in Seq(Fetch)
  BY <1>1, <1>2
<1>4. \A i \in DOMAIN fetches :
         /\ fetches'[i].url = fetches[i].url /\ fetches'[i].node = fetches[i].node
         /\ fetches'[i].there = fetches[i].there
  BY <1>1, <1>2
<1>5. ASSUME NEW m \in carried PROVE MessageOK(m)'
  <2>1. MessageOK(m) /\ m.id \in DOMAIN fetches
    BY DEF FetchInv, MessageOK
  <2> QED  BY <1>1, <1>4, <2>1 DEF MessageOK
<1>6. ASSUME NEW i \in DOMAIN fetches
      PROVE  /\ fetches'[i].there => fetches'[i].url \in stored[fetches'[i].url.owner]
             /\ Explained(fetches[i])'
  <2>1. fetches'[i].there => fetches'[i].url \in stored[fetches'[i].url.owner]
    <3>1. fetches[i].there => fetches[i].url \in stored[fetches[i].url.owner]
      BY DEF FetchInv
    <3>2. fetches'[i].url = fetches[i].url /\ (fetches'[i].there <=> fetches[i].there)
      BY <1>4
    <3> QED  BY <3>1, <3>2
  <2>2. CASE i = id
    BY <1>1, <2>1, <2>2 DEF Explained
  <2>3. CASE i # id
    BY <1>1, <2>1, <2>3 DEF FetchInv, Explained
  <2> QED  BY <2>2, <2>3
<1> QED  BY <1>1, <1>3, <1>5, <1>6 DEF FetchInv

LEMMA ResponseKeeps ==
  ASSUME FetchInv, NEW m \in carried, ReceiveResponse(m)
  PROVE  FetchInv'
<1> DEFINE f == fetches[m.id]
           s == IF m.found THEN "found" ELSE "canceled"
<1>1. /\ m.kind = "response" /\ carried' = carried \ {m} /\ UNCHANGED stored
      /\ fetches' = IF f.node = m.to /\ f.state = "waiting"
                    THEN [fetches EXCEPT ![m.id].state = s] ELSE fetches
  BY DEF ReceiveResponse
<1>2. /\ m \in Response /\ m.id \in DOMAIN fetches /\ <<m.from, m.to>> \in Linked
      /\ m.from = f.url.owner /\ f.node \in Foreign
      /\ IF m.found THEN f.url \in stored[f.url.owner] ELSE ~f.there
  BY <1>1 DEF FetchInv, MessageOK, Request
<1>3. CASE f.node = m.to /\ f.state = "waiting"
  <2>1. f \in Fetch /\ <<f.node, f.url.owner>> \in Linked
    BY <1>2, <1>3, ContentAssumption DEF FetchInv
  <2>2. s \in FetchState /\ s # "missing"
    BY DEF FetchState
  <2>3. Explained([f EXCEPT !.state = s])
    BY <1>2, <2>1, <2>2 DEF Explained, Fetch
  <2> QED  BY <1>1, <1>2, <1>3, <2>2, <2>3, FetchEnds
<1>4. CASE ~(f.node = m.to /\ f.state = "waiting")
  BY <1>1, <1>4 DEF FetchInv, MessageOK, Explained
<1> QED  BY <1>3, <1>4

LEMMA FetchStep == FetchInv /\ [ContentNext]_contentVars => FetchInv'
<1> SUFFICES ASSUME FetchInv, [ContentNext]_contentVars PROVE FetchInv'
  OBVIOUS
<1>1. ASSUME NEW n \in Member, NEW url \in Url, PublishContent(n, url) PROVE FetchInv'
  BY <1>1, PublishKeeps
<1>2. ASSUME NEW n \in Member, NEW url \in Url, StartFetch(n, url) PROVE FetchInv'
  BY <1>2, StartKeeps
<1>3. ASSUME NEW m \in carried, ReceiveWrapped(m) \/ LoseMessage(m) PROVE FetchInv'
  <2>1. carried' \subseteq carried /\ UNCHANGED <<stored, fetches>>
    BY <1>3 DEF ReceiveWrapped, LoseMessage
  <2> QED  BY <2>1 DEF FetchInv, MessageOK, Explained
<1>4. ASSUME NEW m \in carried, ReceiveRequest(m) PROVE FetchInv'
  BY <1>4, RequestKeeps
<1>5. ASSUME NEW m \in carried, ReceiveResponse(m) PROVE FetchInv'
  BY <1>5, ResponseKeeps
<1>6. ASSUME NEW id \in DOMAIN fetches, TimeOutFetch(id) PROVE FetchInv'
  <2>1. /\ fetches' = [fetches EXCEPT ![id].state = "timeout"]
        /\ carried' \subseteq carried /\ UNCHANGED stored
    BY <1>6 DEF TimeOutFetch
  <2>2. fetches[id] \in Fetch /\ "timeout" \in FetchState
    BY DEF FetchInv, FetchState
  <2>3. Explained([fetches[id] EXCEPT !.state = "timeout"])
    BY <2>2 DEF Explained, Fetch
  <2> QED  BY <2>1, <2>2, <2>3, FetchEnds
<1>7. ASSUME UNCHANGED contentVars PROVE FetchInv'
  BY <1>7 DEF contentVars, FetchInv, MessageOK, Explained
<1> QED  BY <1>1, <1>2, <1>3, <1>4, <1>5, <1>6, <1>7 DEF ContentNext

\* What a fetch ends with is true: found content is at its owner, canceled
\* content was missing, only a neighbour of the owner is answered, and 404 is
\* said of the node's own content only (fetch_content and the content arms).
THEOREM FetchesAreExplained == ContentSpec => []FetchExplained
<1>1. FetchInv => FetchExplained
  <2> SUFFICES ASSUME FetchInv, NEW id \in DOMAIN fetches
               PROVE  LET f == fetches[id] IN
                      /\ f.state = "found" => f.url \in stored[f.url.owner]
                      /\ f.state = "canceled" => ~f.there
                      /\ (f.state \in {"found", "canceled"} /\ f.url.owner # f.node)
                           => f.node \in Foreign /\ <<f.node, f.url.owner>> \in Linked
                      /\ (f.state # "waiting" /\ Status(f.state) = 404) => f.url.owner = f.node
    BY DEF FetchExplained
  <2>1. Explained(fetches[id]) /\ fetches[id].state \in FetchState
    <3>1. fetches[id] \in Fetch /\ Explained(fetches[id])
      BY DEF FetchInv
    <3> QED  BY <3>1 DEF Fetch
  <2>2. (fetches[id].state # "waiting" /\ Status(fetches[id].state) = 404)
           => fetches[id].state = "missing"
    BY <2>1 DEF Status, FetchState
  <2> QED  BY <2>1, <2>2 DEF Explained
<1> QED  BY <1>1, FetchInitially, FetchStep, PTL DEF ContentSpec

-----------------------------------------------------------------------------
(* Messenger: entries and the tasks that hold them.                        *)

LogEntries == {log[i] : i \in DOMAIN log}

Holds(t) == push[t].at \in {"append", "publish"}

\* Every entry there is, in the inbox, with a task or in an event.
Entries == LogEntries \cup {push[t].entry : t \in {u \in Pusher : Holds(u)}}
             \cup {events[i].entry : i \in {j \in DOMAIN events : events[j].type = "new"}}

PushTypes ==
  /\ numbered \in 0..MaxNumber
  /\ log \in Seq(ChatEntry)
  /\ push \in [Pusher -> Pushing]
  /\ posted \subseteq Letter /\ mailed \subseteq posted
  /\ events \in Seq(Event)
  /\ late \subseteq Number

\* A number stands for one entry, and so does the id of a message to a peer.
EntriesAgree ==
  /\ \A x \in Entries : x.seq <= numbered /\ (x.id \in Letter => x.id \in posted)
  /\ \A x, y \in Entries : x.seq = y.seq => x.chat = y.chat /\ x.id = y.id
  /\ \A x, y \in Entries : x.id \in Letter /\ x.id = y.id => x.seq = y.seq

EntryInv == PushTypes /\ EntriesAgree

LEMMA PushingIs ==
  ASSUME PushTypes, NEW t \in Pusher
  PROVE  /\ push[t].at \in {"append", "publish", "announce", "idle"}
         /\ Holds(t) => push[t].entry \in ChatEntry
         /\ push[t].at = "announce" => push[t].id \in Letter
<1>1. push[t] \in Pushing
  BY DEF PushTypes
<1> QED  BY <1>1 DEF Pushing, Holds

LEMMA EventIs ==
  ASSUME PushTypes, NEW i \in DOMAIN events
  PROVE  /\ events[i].type = "new" => events[i].entry \in ChatEntry
         /\ events[i].type = "delivered" => events[i].id \in Letter
<1>1. events[i] \in Event
  BY DEF PushTypes
<1> QED  BY <1>1 DEF Event

LEMMA EntriesTyped ==
  ASSUME PushTypes
  PROVE  \A x \in Entries : x \in ChatEntry /\ x.seq \in Nat
<1>1. ASSUME NEW x \in Entries PROVE x \in ChatEntry
  <2>1. CASE x \in LogEntries
    BY <2>1 DEF LogEntries, PushTypes
  <2>2. CASE \E t \in Pusher : Holds(t) /\ x = push[t].entry
    BY <2>2, PushingIs
  <2>3. CASE \E i \in DOMAIN events : events[i].type = "new" /\ x = events[i].entry
    BY <2>3, EventIs
  <2> QED  BY <2>1, <2>2, <2>3 DEF Entries
<1>2. \A x \in ChatEntry : x.seq \in Nat
  BY MessengerAssumption DEF ChatEntry, Number
<1> QED  BY <1>1, <1>2

LEMMA EntriesInitially == MessengerInit => EntryInv
<1> SUFFICES ASSUME MessengerInit PROVE EntryInv
  OBVIOUS
<1>1. /\ numbered = 0 /\ log = <<>> /\ push = [t \in Pusher |-> [at |-> "idle"]]
      /\ posted = {} /\ mailed = {} /\ events = <<>> /\ late = {}
  BY DEF MessengerInit
<1>2. PushTypes
  BY <1>1, MessengerAssumption DEF PushTypes, Pushing
<1>3. Entries = {}
  <2>1. DOMAIN log = {} /\ DOMAIN events = {} /\ \A t \in Pusher : ~Holds(t)
    BY <1>1 DEF Holds
  <2> QED  BY <2>1 DEF Entries, LogEntries
<1> QED  BY <1>2, <1>3 DEF EntryInv, EntriesAgree

\* A step that makes no new entry.
LEMMA EntriesKept ==
  ASSUME EntryInv, PushTypes', numbered' = numbered, posted' = posted,
         \A x \in Entries' : \E y \in Entries : y.seq = x.seq /\ y.chat = x.chat /\ y.id = x.id
  PROVE  EntryInv'
<1>1. \A x \in Entries' : x.seq <= numbered /\ (x.id \in Letter => x.id \in posted)
  BY DEF EntryInv, EntriesAgree
<1>2. ASSUME NEW x \in Entries', NEW y \in Entries'
      PROVE  /\ x.seq = y.seq => x.chat = y.chat /\ x.id = y.id
             /\ x.id \in Letter /\ x.id = y.id => x.seq = y.seq
  <2>1. PICK a \in Entries : a.seq = x.seq /\ a.chat = x.chat /\ a.id = x.id
    OBVIOUS
  <2>2. PICK b \in Entries : b.seq = y.seq /\ b.chat = y.chat /\ b.id = y.id
    OBVIOUS
  <2> QED  BY <2>1, <2>2 DEF EntryInv, EntriesAgree
<1> QED  BY <1>1, <1>2 DEF EntryInv, EntriesAgree

LEMMA TakeNumberEffect ==
  ASSUME EntryInv, NEW t \in Pusher, NEW chat \in Chat,
         NEW m \in Letter \cup {NoLetter}, TakeNumber(t, chat, m),
         NEW e, e = [seq |-> numbered + 1, chat |-> chat, id |-> m, delivered |-> FALSE]
  PROVE  /\ PushTypes' /\ e \in ChatEntry
         /\ push' = [push EXCEPT ![t] = [at |-> "append", entry |-> e]]
         /\ push'[t] = [at |-> "append", entry |-> e]
         /\ \A u \in Pusher \ {t} : push'[u] = push[u]
         /\ numbered' = numbered + 1 /\ numbered \in Nat
         /\ posted' = posted \cup (Letter \cap {m})
         /\ push[t].at = "idle"
         /\ UNCHANGED <<log, mailed, events, late, viewVars>>
<1>1. /\ push[t].at = "idle" /\ numbered < MaxNumber /\ numbered' = numbered + 1
      /\ push' = [push EXCEPT ![t] = [at |-> "append", entry |-> e]]
      /\ posted' = posted \cup (Letter \cap {m})
      /\ UNCHANGED <<log, mailed, events, late, viewVars>>
  BY DEF TakeNumber
<1>2. numbered \in Nat /\ numbered + 1 \in Number /\ numbered' \in 0..MaxNumber
  BY <1>1, MessengerAssumption DEF EntryInv, PushTypes, Number
<1>3. e \in ChatEntry
  BY <1>2 DEF ChatEntry
<1>4. push' \in [Pusher -> Pushing]
  <2>1. [at |-> "append", entry |-> e] \in Pushing
    BY <1>3 DEF Pushing
  <2> QED  BY <1>1, <2>1 DEF EntryInv, PushTypes
<1> QED  BY <1>1, <1>2, <1>3, <1>4 DEF EntryInv, PushTypes

LEMMA TakeNumberEntries ==
  ASSUME EntryInv, NEW t \in Pusher, NEW chat \in Chat,
         NEW m \in Letter \cup {NoLetter}, m \notin posted, TakeNumber(t, chat, m)
  PROVE  EntryInv'
<1>1. PICK e : e = [seq |-> numbered + 1, chat |-> chat, id |-> m, delivered |-> FALSE]
  OBVIOUS
<1>2. /\ PushTypes' /\ push'[t] = [at |-> "append", entry |-> e]
      /\ \A u \in Pusher \ {t} : push'[u] = push[u]
      /\ numbered' = numbered + 1 /\ numbered \in Nat
      /\ posted' = posted \cup (Letter \cap {m})
      /\ UNCHANGED <<log, events>>
  BY <1>1, TakeNumberEffect
<1>3. Entries' \subseteq Entries \cup {e}
  <2>1. LogEntries' = LogEntries
    BY <1>2 DEF LogEntries
  <2>2. \A u \in Pusher : Holds(u)' => push'[u].entry = e \/ (Holds(u) /\ push'[u].entry = push[u].entry)
    BY <1>2 DEF Holds
  <2> QED  BY <1>2, <2>1, <2>2 DEF Entries
<1>4. e.seq = numbered + 1 /\ e.id = m
  BY <1>1
<1>5. \A x \in Entries : x.seq \in Nat /\ x.seq <= numbered /\ (x.id \in Letter => x.id \in posted)
  BY EntriesTyped DEF EntryInv, EntriesAgree
<1>6. \A x \in Entries' : x.seq <= numbered' /\ (x.id \in Letter => x.id \in posted')
  BY <1>2, <1>3, <1>4, <1>5
<1>7. \A x, y \in Entries' : x.seq = y.seq => x.chat = y.chat /\ x.id = y.id
  <2>1. \A x \in Entries : x.seq # e.seq
    BY <1>2, <1>4, <1>5
  <2> QED  BY <1>3, <2>1 DEF EntryInv, EntriesAgree
<1>8. \A x, y \in Entries' : x.id \in Letter /\ x.id = y.id => x.seq = y.seq
  <2>1. \A x \in Entries : x.id \in Letter => x.id # e.id
    BY <1>4, <1>5
  <2> QED  BY <1>3, <2>1 DEF EntryInv, EntriesAgree
<1> QED  BY <1>2, <1>6, <1>7, <1>8 DEF EntryInv, EntriesAgree

LEMMA AppendToLogEffect ==
  ASSUME EntryInv, NEW t \in Pusher, AppendToLog(t),
         NEW e, e = push[t].entry
  PROVE  /\ PushTypes' /\ e \in ChatEntry /\ push[t].at = "append"
         /\ push'[t].at = "publish" /\ push'[t].entry = e
         /\ \A u \in Pusher \ {t} : push'[u] = push[u]
         /\ \E d \in {0, 1} : \A i \in DOMAIN log' :
               i + d \in 1..Len(log) + 1 /\ i \in Nat
               /\ log'[i] = IF i + d = Len(log) + 1 THEN e ELSE log[i + d]
         /\ LogEntries' \subseteq LogEntries \cup {e}
         /\ late \subseteq late' /\ (e.seq \in late' \/ InOrder(e.seq))
         /\ UNCHANGED <<numbered, posted, mailed, events, viewVars>>
<1> DEFINE all == Append(log, e)
<1>1. /\ push[t].at = "append"
      /\ log' = IF Len(all) > InboxCap THEN Tail(all) ELSE all
      /\ late' = IF InOrder(e.seq) THEN late ELSE late \cup {e.seq}
      /\ push' = [push EXCEPT ![t].at = "publish"]
      /\ UNCHANGED <<numbered, posted, mailed, events, viewVars>>
  BY DEF AppendToLog
<1>2. /\ e \in ChatEntry /\ e.seq \in Number /\ push[t] \in Pushing
      /\ log \in Seq(ChatEntry) /\ Len(log) \in Nat /\ DOMAIN log = 1..Len(log)
  BY <1>1, PushingIs DEF EntryInv, PushTypes, Holds, ChatEntry
<1>3. push[t] = [at |-> "append", entry |-> e]
  BY <1>1, <1>2 DEF Pushing
<1>4. push'[t] = [at |-> "publish", entry |-> e] /\ push'[t] \in Pushing
  <2>1. push'[t] = [at |-> "publish", entry |-> e]
    BY <1>1, <1>3 DEF EntryInv, PushTypes
  <2> QED  BY <1>2, <2>1 DEF Pushing
<1>5. all \in Seq(ChatEntry) /\ Len(all) = Len(log) + 1
      /\ \A i \in 1..Len(log) + 1 : all[i] = IF i = Len(log) + 1 THEN e ELSE log[i]
  BY <1>2
<1>6. log' \in Seq(ChatEntry)
      /\ \E d \in {0, 1} : \A i \in DOMAIN log' :
            i + d \in 1..Len(log) + 1 /\ i \in Nat
            /\ log'[i] = IF i + d = Len(log) + 1 THEN e ELSE log[i + d]
  <2> HIDE DEF all
  <2>1. CASE Len(all) > InboxCap
    <3>1. log' = Tail(all) /\ all # <<>>
      BY <1>1, <1>2, <1>5, <2>1
    <3>2. /\ log' \in Seq(ChatEntry) /\ DOMAIN log' = 1..Len(log)
          /\ \A i \in 1..Len(log) : log'[i] = all[i + 1]
      BY <1>2, <1>5, <3>1
    <3>3. \A i \in 1..Len(log) : i + 1 \in 1..Len(log) + 1 /\ i \in Nat
      BY <1>2
    <3>4. \A i \in DOMAIN log' :
             i + 1 \in 1..Len(log) + 1 /\ i \in Nat
             /\ log'[i] = IF i + 1 = Len(log) + 1 THEN e ELSE log[i + 1]
      BY <1>5, <3>2, <3>3
    <3> QED  BY <3>2, <3>4
  <2>2. CASE ~(Len(all) > InboxCap)
    <3>1. log' = all /\ DOMAIN log' = 1..Len(log) + 1
      BY <1>1, <1>2, <1>5, <2>2
    <3>2. \A i \in DOMAIN log' :
             i + 0 = i /\ i \in Nat
             /\ log'[i] = IF i = Len(log) + 1 THEN e ELSE log[i]
      BY <1>2, <1>5, <3>1
    <3> QED  BY <1>5, <3>1, <3>2
  <2> QED  BY <2>1, <2>2
<1>7. LogEntries' \subseteq LogEntries \cup {e}
  <2>1. PICK d \in {0, 1} : \A i \in DOMAIN log' :
            i + d \in 1..Len(log) + 1 /\ i \in Nat
            /\ log'[i] = IF i + d = Len(log) + 1 THEN e ELSE log[i + d]
    BY <1>6
  <2>2. ASSUME NEW i \in DOMAIN log' PROVE log'[i] \in LogEntries \cup {e}
    <3>1. i + d = Len(log) + 1 \/ i + d \in DOMAIN log
      BY <1>2, <2>1
    <3> QED  BY <1>2, <2>1, <3>1 DEF LogEntries
  <2> QED  BY <2>2 DEF LogEntries
<1>8. PushTypes'
  <2>1. push' \in [Pusher -> Pushing]
    BY <1>1, <1>4 DEF EntryInv, PushTypes
  <2>2. late' \subseteq Number
    BY <1>1, <1>2 DEF EntryInv, PushTypes
  <2> QED  BY <1>1, <1>6, <2>1, <2>2 DEF EntryInv, PushTypes
<1>9. \A u \in Pusher \ {t} : push'[u] = push[u]
  BY <1>1 DEF EntryInv, PushTypes
<1> QED  BY <1>1, <1>2, <1>4, <1>6, <1>7, <1>8, <1>9

LEMMA PublishEffect ==
  ASSUME EntryInv, NEW t \in Pusher, PublishNew(t),
         NEW e, e = push[t].entry
  PROVE  /\ PushTypes' /\ push[t].at = "publish" /\ push'[t].at = "idle" /\ e \in ChatEntry
         /\ \A u \in Pusher \ {t} : push'[u] = push[u]
         /\ events' = Append(events, [type |-> "new", entry |-> e])
         /\ mailed' = mailed \cup (Letter \cap {e.id})
         /\ UNCHANGED <<numbered, log, posted, late, viewVars>>
<1>1. /\ push[t].at = "publish" /\ push' = [push EXCEPT ![t] = [at |-> "idle"]]
      /\ events' = Append(events, [type |-> "new", entry |-> e])
      /\ mailed' = mailed \cup (Letter \cap {e.id})
      /\ UNCHANGED <<numbered, log, posted, late, viewVars>>
  BY DEF PublishNew
<1>2. e \in ChatEntry /\ e \in Entries
  BY <1>1, PushingIs DEF EntryInv, Holds, Entries
<1>3. events' \in Seq(Event)
  <2>1. [type |-> "new", entry |-> e] \in Event
    BY <1>2 DEF Event
  <2> QED  BY <1>1, <2>1 DEF EntryInv, PushTypes
<1>4. push' \in [Pusher -> Pushing] /\ push'[t] = [at |-> "idle"]
  <2>1. [at |-> "idle"] \in Pushing
    BY DEF Pushing
  <2> QED  BY <1>1, <2>1 DEF EntryInv, PushTypes
<1>5. mailed' \subseteq posted
  BY <1>1, <1>2 DEF EntryInv, EntriesAgree, PushTypes
<1>6. \A u \in Pusher \ {t} : push'[u] = push[u]
  BY <1>1 DEF EntryInv, PushTypes
<1> QED  BY <1>1, <1>2, <1>3, <1>4, <1>5, <1>6 DEF EntryInv, PushTypes

LEMMA FlagEffect ==
  ASSUME EntryInv, NEW t \in Pusher, NEW m \in Letter, FlagDelivered(t, m)
  PROVE  /\ PushTypes' /\ push[t].at = "idle" /\ push'[t] = [at |-> "announce", id |-> m]
         /\ \A u \in Pusher \ {t} : push'[u] = push[u]
         /\ m \in mailed
         /\ DOMAIN log' = DOMAIN log
         /\ \A i \in DOMAIN log :
               /\ log'[i].seq = log[i].seq /\ log'[i].chat = log[i].chat /\ log'[i].id = log[i].id
               /\ log[i].id # m => log'[i] = log[i]
         /\ UNCHANGED <<numbered, posted, mailed, events, late, viewVars>>
<1>1. /\ push[t].at = "idle" /\ m \in mailed
      /\ log' = [i \in DOMAIN log |-> IF log[i].id = m
                                      THEN [log[i] EXCEPT !.delivered = TRUE] ELSE log[i]]
      /\ push' = [push EXCEPT ![t] = [at |-> "announce", id |-> m]]
      /\ UNCHANGED <<numbered, posted, mailed, events, late, viewVars>>
  BY DEF FlagDelivered
<1>2. log \in Seq(ChatEntry) /\ DOMAIN log' = DOMAIN log
  BY <1>1 DEF EntryInv, PushTypes
<1>3. ASSUME NEW i \in DOMAIN log
      PROVE  /\ log'[i] \in ChatEntry
             /\ log'[i].seq = log[i].seq /\ log'[i].chat = log[i].chat /\ log'[i].id = log[i].id
             /\ log[i].id # m => log'[i] = log[i]
  <2>1. log[i] \in ChatEntry
    BY <1>2
  <2>2. log'[i] = IF log[i].id = m THEN [log[i] EXCEPT !.delivered = TRUE] ELSE log[i]
    BY <1>1
  <2> QED  BY <2>1, <2>2 DEF ChatEntry
<1>4. log' \in Seq(ChatEntry)
  <2>1. Len(log) \in Nat /\ DOMAIN log = 1..Len(log)
    BY <1>2
  <2>2. log' \in [1..Len(log) -> ChatEntry]
    BY <1>1, <1>2, <1>3, <2>1
  <2> QED  BY <2>1, <2>2
<1>5. push' \in [Pusher -> Pushing] /\ push'[t] = [at |-> "announce", id |-> m]
  <2>1. [at |-> "announce", id |-> m] \in Pushing
    BY DEF Pushing
  <2> QED  BY <1>1, <2>1 DEF EntryInv, PushTypes
<1>6. \A u \in Pusher \ {t} : push'[u] = push[u]
  BY <1>1 DEF EntryInv, PushTypes
<1> QED  BY <1>1, <1>2, <1>3, <1>4, <1>5, <1>6 DEF EntryInv, PushTypes

LEMMA AnnounceEffect ==
  ASSUME EntryInv, NEW t \in Pusher, AnnounceDelivered(t), NEW m, m = push[t].id
  PROVE  /\ PushTypes' /\ push[t].at = "announce" /\ push'[t].at = "idle" /\ m \in Letter
         /\ \A u \in Pusher \ {t} : push'[u] = push[u]
         /\ events' = Append(events, [type |-> "delivered", id |-> m])
         /\ UNCHANGED <<numbered, log, posted, mailed, late, viewVars>>
<1>1. /\ push[t].at = "announce" /\ push' = [push EXCEPT ![t] = [at |-> "idle"]]
      /\ events' = Append(events, [type |-> "delivered", id |-> m])
      /\ UNCHANGED <<numbered, log, posted, mailed, late, viewVars>>
  BY DEF AnnounceDelivered
<1>2. m \in Letter
  BY <1>1, PushingIs DEF EntryInv
<1>3. events' \in Seq(Event)
  <2>1. [type |-> "delivered", id |-> m] \in Event
    BY <1>2 DEF Event
  <2> QED  BY <1>1, <2>1 DEF EntryInv, PushTypes
<1>4. push' \in [Pusher -> Pushing] /\ push'[t] = [at |-> "idle"]
  <2>1. [at |-> "idle"] \in Pushing
    BY DEF Pushing
  <2> QED  BY <1>1, <2>1 DEF EntryInv, PushTypes
<1>6. \A u \in Pusher \ {t} : push'[u] = push[u]
  BY <1>1 DEF EntryInv, PushTypes
<1> QED  BY <1>1, <1>2, <1>3, <1>4, <1>6 DEF EntryInv, PushTypes

LEMMA PeerEffect ==
  ASSUME EntryInv, AnnouncePeer
  PROVE  /\ PushTypes' /\ events' = Append(events, [type |-> "peer"])
         /\ UNCHANGED <<pushVars, viewVars>>
<1>1. events' = Append(events, [type |-> "peer"]) /\ UNCHANGED <<pushVars, viewVars>>
  BY DEF AnnouncePeer
<1>2. [type |-> "peer"] \in Event
  BY DEF Event
<1> QED  BY <1>1, <1>2 DEF EntryInv, PushTypes, pushVars

\* What an event at the end of the stream adds.
LEMMA EventAppended ==
  ASSUME events \in Seq(Event), NEW x \in Event, events' = Append(events, x)
  PROVE  /\ Len(events) \in Nat /\ Len(events') = Len(events) + 1
         /\ DOMAIN events = 1..Len(events) /\ DOMAIN events' = 1..(Len(events) + 1)
         /\ events'[Len(events) + 1] = x
         /\ \A i \in 1..Len(events) : events'[i] = events[i]
  OBVIOUS

Viewing(v) ==
  \/ \E chat \in Chat : OpenChat(v, chat)
  \/ ReadHistory(v) \/ Subscribe(v) \/ Unsubscribe(v) \/ ReceiveEvent(v)

LEMMA ViewingSparesEntries ==
  ASSUME NEW v \in Viewer, Viewing(v)
  PROVE  UNCHANGED <<numbered, log, push, posted, mailed, late, events>>
  BY DEF Viewing, OpenChat, ReadHistory, Subscribe, Unsubscribe, ReceiveEvent, pushVars

LEMMA EntriesUnchanged ==
  ASSUME EntryInv, UNCHANGED <<numbered, log, push, posted, mailed, late, events>>
  PROVE  EntryInv' /\ Entries' = Entries /\ LogEntries' = LogEntries
  BY DEF EntryInv, PushTypes, EntriesAgree, Entries, LogEntries, Holds

\* The steps of tasks.
Tasks ==
  \/ \E t \in Pusher :
       \/ \E chat \in Chat : TakeIn(t, chat) \/ \E m \in Letter : PostSend(t, chat, m)
       \/ AppendToLog(t) \/ PublishNew(t) \/ AnnounceDelivered(t)
       \/ \E m \in Letter : FlagDelivered(t, m)
  \/ AnnouncePeer

LEMMA TakeInNumber ==
  ASSUME PushTypes, NEW t \in Pusher, NEW chat \in Chat, TakeIn(t, chat)
  PROVE  NoLetter \notin posted /\ TakeNumber(t, chat, NoLetter)
  BY MessengerAssumption DEF TakeIn, PushTypes

LEMMA EntryStep ==
  ASSUME EntryInv, Tasks PROVE EntryInv'
<1>1. ASSUME NEW t \in Pusher, NEW chat \in Chat, TakeIn(t, chat) PROVE EntryInv'
  BY <1>1, TakeInNumber, TakeNumberEntries DEF EntryInv
<1>2. ASSUME NEW t \in Pusher, NEW chat \in Chat, NEW m \in Letter, PostSend(t, chat, m)
      PROVE  EntryInv'
  BY <1>2, TakeNumberEntries DEF PostSend
<1>3. ASSUME NEW t \in Pusher, AppendToLog(t) PROVE EntryInv'
  <2>1. PICK e : e = push[t].entry
    OBVIOUS
  <2>2. /\ PushTypes' /\ push[t].at = "append" /\ push'[t].entry = e
        /\ \A u \in Pusher \ {t} : push'[u] = push[u]
        /\ LogEntries' \subseteq LogEntries \cup {e}
        /\ UNCHANGED <<numbered, posted, events>>
    BY <1>3, <2>1, AppendToLogEffect
  <2>3. Entries' \subseteq Entries
    <3>1. Holds(t) /\ \A u \in Pusher : Holds(u)' =>
             (Holds(u) /\ push'[u].entry = push[u].entry)
      BY <2>1, <2>2 DEF Holds
    <3> QED  BY <2>1, <2>2, <3>1 DEF Entries
  <2> QED  BY <2>2, <2>3, EntriesKept
<1>4. ASSUME NEW t \in Pusher, PublishNew(t) PROVE EntryInv'
  <2>1. PICK e : e = push[t].entry
    OBVIOUS
  <2>2. /\ PushTypes' /\ push[t].at = "publish" /\ push'[t].at = "idle" /\ e \in ChatEntry
        /\ \A u \in Pusher \ {t} : push'[u] = push[u]
        /\ events' = Append(events, [type |-> "new", entry |-> e])
        /\ UNCHANGED <<numbered, log, posted>>
    BY <1>4, <2>1, PublishEffect
  <2>3. Entries' \subseteq Entries
    <3>1. Holds(t) /\ \A u \in Pusher : Holds(u)' =>
             (Holds(u) /\ push'[u].entry = push[u].entry)
      BY <2>1, <2>2 DEF Holds
    <3>2. [type |-> "new", entry |-> e] \in Event /\ events \in Seq(Event)
      BY <2>2 DEF Event, EntryInv, PushTypes
    <3>3. \A i \in DOMAIN events' : events'[i] = [type |-> "new", entry |-> e]
                                   \/ (i \in DOMAIN events /\ events'[i] = events[i])
      BY <2>2, <3>2, EventAppended
    <3>4. LogEntries' = LogEntries
      BY <2>2 DEF LogEntries
    <3>5. ASSUME NEW i \in DOMAIN events', events'[i].type = "new" PROVE events'[i].entry \in Entries
      <4>1. CASE events'[i] = [type |-> "new", entry |-> e]
        BY <2>1, <3>1, <4>1 DEF Entries
      <4>2. CASE i \in DOMAIN events /\ events'[i] = events[i]
        BY <3>5, <4>2 DEF Entries
      <4> QED  BY <3>3, <4>1, <4>2
    <3> QED  BY <3>1, <3>4, <3>5 DEF Entries
  <2> QED  BY <2>2, <2>3, EntriesKept
<1>5. ASSUME NEW t \in Pusher, AnnounceDelivered(t) PROVE EntryInv'
  <2>1. PICK m : m = push[t].id
    OBVIOUS
  <2>2. /\ PushTypes' /\ push[t].at = "announce" /\ push'[t].at = "idle" /\ m \in Letter
        /\ \A u \in Pusher \ {t} : push'[u] = push[u]
        /\ events' = Append(events, [type |-> "delivered", id |-> m])
        /\ UNCHANGED <<numbered, log, posted>>
    BY <1>5, <2>1, AnnounceEffect
  <2>3. Entries' \subseteq Entries
    <3>1. \A u \in Pusher : Holds(u)' => (Holds(u) /\ push'[u].entry = push[u].entry)
      BY <2>2 DEF Holds
    <3>2. [type |-> "delivered", id |-> m] \in Event /\ events \in Seq(Event)
      BY <2>2 DEF Event, EntryInv, PushTypes
    <3>3. \A i \in DOMAIN events' : events'[i].type = "delivered"
                                   \/ (i \in DOMAIN events /\ events'[i] = events[i])
      BY <2>2, <3>2, EventAppended
    <3>4. LogEntries' = LogEntries
      BY <2>2 DEF LogEntries
    <3>5. \A i \in DOMAIN events' : events'[i].type = "new" =>
             i \in DOMAIN events /\ events'[i] = events[i]
      BY <3>3
    <3> QED  BY <3>1, <3>4, <3>5 DEF Entries
  <2> QED  BY <2>2, <2>3, EntriesKept
<1>6. ASSUME NEW t \in Pusher, NEW m \in Letter, FlagDelivered(t, m) PROVE EntryInv'
  <2>1. /\ PushTypes' /\ push[t].at = "idle" /\ push'[t] = [at |-> "announce", id |-> m]
        /\ \A u \in Pusher \ {t} : push'[u] = push[u]
        /\ DOMAIN log' = DOMAIN log
        /\ \A i \in DOMAIN log :
               log'[i].seq = log[i].seq /\ log'[i].chat = log[i].chat /\ log'[i].id = log[i].id
        /\ UNCHANGED <<numbered, posted, events>>
    BY <1>6, FlagEffect
  <2>2. ASSUME NEW x \in Entries'
        PROVE  \E y \in Entries : y.seq = x.seq /\ y.chat = x.chat /\ y.id = x.id
    <3>1. CASE \E i \in DOMAIN log' : x = log'[i]
      BY <2>1, <3>1 DEF Entries, LogEntries
    <3>2. CASE ~\E i \in DOMAIN log' : x = log'[i]
      <4>1. \A u \in Pusher : Holds(u)' => (Holds(u) /\ push'[u].entry = push[u].entry)
        BY <2>1 DEF Holds
      <4>2. x \in Entries
        BY <2>1, <3>2, <4>1 DEF Entries, LogEntries
      <4> QED  BY <4>2
    <3> QED  BY <3>1, <3>2
  <2> QED  BY <2>1, <2>2, EntriesKept
<1>7. CASE AnnouncePeer
  <2>1. /\ PushTypes' /\ events' = Append(events, [type |-> "peer"])
        /\ UNCHANGED <<numbered, log, push, posted>>
    BY <1>7, PeerEffect DEF pushVars
  <2>2. [type |-> "peer"] \in Event /\ events \in Seq(Event)
    BY DEF Event, EntryInv, PushTypes
  <2>3. \A i \in DOMAIN events' : events'[i].type = "new" =>
             i \in DOMAIN events /\ events'[i] = events[i]
    <3>1. \A i \in DOMAIN events' : events'[i].type = "peer"
                                   \/ (i \in DOMAIN events /\ events'[i] = events[i])
      BY <2>1, <2>2, EventAppended
    <3> QED  BY <3>1
  <2>4. Entries' \subseteq Entries
    BY <2>1, <2>3 DEF Entries, LogEntries, Holds
  <2> QED  BY <2>1, <2>4, EntriesKept
<1> QED  BY <1>1, <1>2, <1>3, <1>4, <1>5, <1>6, <1>7 DEF Tasks

-----------------------------------------------------------------------------
(* Messenger: the order in which tasks append, send and take the            *)
(* acknowledgement of a message.                                           *)

Announcing(m) == \E t \in Pusher : push[t].at = "announce" /\ push[t].id = m

\* A number is in the hands of one task, and of none once it is appended.
NumbersHeld ==
  /\ \A t, u \in Pusher :
        Holds(t) /\ Holds(u) /\ push[t].entry.seq = push[u].entry.seq => t = u
  /\ \A t \in Pusher : push[t].at = "append" =>
        \A x \in LogEntries : x.seq # push[t].entry.seq
  /\ \A i, j \in DOMAIN log : log[i].seq = log[j].seq => i = j

\* A message is sent when its event was sent, and acknowledged after that.
DeliveredLater ==
  /\ \A t \in Pusher : Holds(t) =>
        ~push[t].entry.delivered /\ (push[t].entry.id \in Letter => push[t].entry.id \notin mailed)
  /\ \A x \in LogEntries : x.delivered => x.id \in mailed

\* So the event of its delivery comes behind it.
NewsFirst ==
  \A x \in LogEntries : x.delivered =>
     \A p \in DOMAIN events : (events[p].type = "new" /\ events[p].entry.id = x.id) =>
        \/ Announcing(x.id)
        \/ \E q \in DOMAIN events : q > p /\ events[q].type = "delivered" /\ events[q].id = x.id

TaskInv == NumbersHeld /\ DeliveredLater /\ NewsFirst

LEMMA TasksInitially == MessengerInit => TaskInv
<1> SUFFICES ASSUME MessengerInit PROVE TaskInv
  OBVIOUS
<1>1. log = <<>> /\ push = [t \in Pusher |-> [at |-> "idle"]]
  BY DEF MessengerInit
<1>2. DOMAIN log = {} /\ \A t \in Pusher : ~Holds(t) /\ push[t].at = "idle"
  BY <1>1 DEF Holds
<1> QED  BY <1>2 DEF TaskInv, NumbersHeld, DeliveredLater, NewsFirst, LogEntries

LEMMA TakeNumberTasks ==
  ASSUME EntryInv, TaskInv, NEW t \in Pusher, NEW chat \in Chat,
         NEW m \in Letter \cup {NoLetter}, m \notin posted, TakeNumber(t, chat, m)
  PROVE  TaskInv'
<1>1. PICK e : e = [seq |-> numbered + 1, chat |-> chat, id |-> m, delivered |-> FALSE]
  OBVIOUS
<1>2. /\ push'[t] = [at |-> "append", entry |-> e] /\ push[t].at = "idle"
      /\ \A u \in Pusher \ {t} : push'[u] = push[u]
      /\ numbered \in Nat
      /\ UNCHANGED <<log, mailed, events>>
  BY <1>1, TakeNumberEffect
<1>3. e.seq = numbered + 1 /\ e.id = m /\ ~e.delivered
  BY <1>1
<1>4. LogEntries' = LogEntries
  BY <1>2 DEF LogEntries
<1>5. \A x \in Entries : x.seq # e.seq
  <2>1. \A x \in Entries : x.seq \in Nat /\ x.seq <= numbered
    BY EntriesTyped DEF EntryInv, EntriesAgree
  <2> QED  BY <1>2, <1>3, <2>1
<1>6. /\ push'[t].at = "append" /\ push'[t].entry = e
      /\ \A u \in Pusher : Holds(u) => push[u].entry \in Entries
      /\ LogEntries \subseteq Entries
  BY <1>2 DEF Entries
<1>7. NumbersHeld'
  <2>1. ASSUME NEW u \in Pusher, NEW w \in Pusher, Holds(u)', Holds(w)',
               push'[u].entry.seq = push'[w].entry.seq
        PROVE  u = w
    <3>1. CASE u # t /\ w # t
      BY <1>2, <2>1, <3>1 DEF TaskInv, NumbersHeld, Holds
    <3>2. CASE u = t /\ w # t
      BY <1>2, <1>5, <1>6, <2>1, <3>2 DEF Holds
    <3>3. CASE u # t /\ w = t
      BY <1>2, <1>5, <1>6, <2>1, <3>3 DEF Holds
    <3> QED  BY <3>1, <3>2, <3>3
  <2>2. ASSUME NEW u \in Pusher, push'[u].at = "append", NEW x \in LogEntries
        PROVE  x.seq # push'[u].entry.seq
    BY <1>2, <1>5, <1>6, <2>2 DEF TaskInv, NumbersHeld
  <2> QED  BY <1>2, <1>4, <2>1, <2>2 DEF TaskInv, NumbersHeld
<1>8. DeliveredLater'
  <2>1. m \in Letter => m \notin mailed
    BY DEF EntryInv, PushTypes
  <2>2. ASSUME NEW u \in Pusher, Holds(u)'
        PROVE  ~push'[u].entry.delivered
               /\ (push'[u].entry.id \in Letter => push'[u].entry.id \notin mailed)
    BY <1>2, <1>3, <1>6, <2>1, <2>2 DEF TaskInv, DeliveredLater, Holds
  <2> QED  BY <1>2, <1>4, <2>2 DEF TaskInv, DeliveredLater
<1>9. NewsFirst'
  <2>1. \A a : Announcing(a) => Announcing(a)'
    BY <1>2 DEF Announcing
  <2> QED  BY <1>2, <1>4, <2>1 DEF TaskInv, NewsFirst
<1> QED  BY <1>7, <1>8, <1>9 DEF TaskInv

LEMMA AppendTasks ==
  ASSUME EntryInv, TaskInv, NEW t \in Pusher, AppendToLog(t)
  PROVE  TaskInv'
<1>1. PICK e : e = push[t].entry
  OBVIOUS
<1>2. /\ push[t].at = "append" /\ push'[t].at = "publish" /\ push'[t].entry = e
      /\ \A u \in Pusher \ {t} : push'[u] = push[u]
      /\ LogEntries' \subseteq LogEntries \cup {e}
      /\ UNCHANGED <<mailed, events>>
  BY <1>1, AppendToLogEffect
<1>3. \A u \in Pusher : /\ Holds(u)' <=> Holds(u)
                        /\ Holds(u) => push'[u].entry = push[u].entry
  BY <1>1, <1>2 DEF Holds
<1>4. ~e.delivered
  BY <1>1, <1>2 DEF Holds, TaskInv, DeliveredLater
<1>5. \A x \in LogEntries : x.seq # e.seq
  BY <1>1, <1>2 DEF TaskInv, NumbersHeld
<1>6. NumbersHeld'
  <2>1. \A u, w \in Pusher :
           Holds(u)' /\ Holds(w)' /\ push'[u].entry.seq = push'[w].entry.seq => u = w
    BY <1>3 DEF TaskInv, NumbersHeld
  <2>2. ASSUME NEW u \in Pusher, push'[u].at = "append", NEW x \in LogEntries'
        PROVE  x.seq # push'[u].entry.seq
    <3>1. u # t /\ push[u].at = "append" /\ push'[u] = push[u]
      BY <1>2, <2>2
    <3>2. e.seq # push[u].entry.seq
      BY <1>1, <1>2, <3>1 DEF TaskInv, NumbersHeld, Holds
    <3> QED  BY <1>2, <3>1, <3>2 DEF TaskInv, NumbersHeld
  <2>3. ASSUME NEW i \in DOMAIN log', NEW j \in DOMAIN log', log'[i].seq = log'[j].seq
        PROVE  i = j
    <3>1. PICK d \in {0, 1} : \A k \in DOMAIN log' :
             k + d \in 1..Len(log) + 1 /\ k \in Nat
             /\ log'[k] = IF k + d = Len(log) + 1 THEN e ELSE log[k + d]
      BY <1>1, AppendToLogEffect
    <3>2. Len(log) \in Nat /\ DOMAIN log = 1..Len(log)
      BY DEF EntryInv, PushTypes
    <3>3. \A k \in DOMAIN log' : k + d # Len(log) + 1 =>
             k + d \in DOMAIN log /\ log'[k] = log[k + d] /\ log'[k] \in LogEntries
      BY <3>1, <3>2 DEF LogEntries
    <3>4. CASE i + d = Len(log) + 1 /\ j + d = Len(log) + 1
      BY <3>1, <3>4
    <3>5. CASE i + d = Len(log) + 1 /\ j + d # Len(log) + 1
      BY <1>5, <2>3, <3>1, <3>3, <3>5
    <3>6. CASE i + d # Len(log) + 1 /\ j + d = Len(log) + 1
      BY <1>5, <2>3, <3>1, <3>3, <3>6
    <3>7. CASE i + d # Len(log) + 1 /\ j + d # Len(log) + 1
      <4>1. i + d = j + d
        BY <2>3, <3>3, <3>7 DEF TaskInv, NumbersHeld
      <4> QED  BY <3>1, <4>1
    <3> QED  BY <3>4, <3>5, <3>6, <3>7
  <2> QED  BY <2>1, <2>2, <2>3 DEF NumbersHeld
<1>7. DeliveredLater'
  BY <1>2, <1>3, <1>4 DEF TaskInv, DeliveredLater
<1>8. NewsFirst'
  <2>1. \A a : Announcing(a) => Announcing(a)'
    BY <1>2 DEF Announcing
  <2> QED  BY <1>2, <1>4, <2>1 DEF TaskInv, NewsFirst
<1> QED  BY <1>6, <1>7, <1>8 DEF TaskInv

LEMMA PublishTasks ==
  ASSUME EntryInv, TaskInv, NEW t \in Pusher, PublishNew(t)
  PROVE  TaskInv'
<1>1. PICK e : e = push[t].entry
  OBVIOUS
<1>2. /\ push[t].at = "publish" /\ push'[t].at = "idle" /\ e \in ChatEntry
      /\ \A u \in Pusher \ {t} : push'[u] = push[u]
      /\ events' = Append(events, [type |-> "new", entry |-> e])
      /\ mailed' = mailed \cup (Letter \cap {e.id})
      /\ UNCHANGED log
  BY <1>1, PublishEffect
<1>3. Holds(t) /\ e \in Entries /\ \A u \in Pusher : Holds(u)' =>
         u # t /\ Holds(u) /\ push'[u] = push[u] /\ push[u].entry \in Entries
  BY <1>1, <1>2 DEF Holds, Entries
<1>4. LogEntries' = LogEntries
  BY <1>2 DEF LogEntries
<1>5. NumbersHeld'
  <2>1. \A u \in Pusher : push'[u].at = "append" => push'[u] = push[u]
    BY <1>2
  <2> QED  BY <1>2, <1>3, <1>4, <2>1 DEF TaskInv, NumbersHeld
<1>6. DeliveredLater'
  <2>1. ASSUME NEW u \in Pusher, Holds(u)'
        PROVE  ~push'[u].entry.delivered
               /\ (push'[u].entry.id \in Letter => push'[u].entry.id \notin mailed')
    <3>1. push[u].entry.seq # e.seq
      BY <1>1, <1>3, <2>1 DEF TaskInv, NumbersHeld
    <3>2. push[u].entry.id \in Letter => push[u].entry.id # e.id
      BY <1>3, <2>1, <3>1 DEF EntryInv, EntriesAgree
    <3> QED  BY <1>2, <1>3, <2>1, <3>2 DEF TaskInv, DeliveredLater
  <2> QED  BY <1>2, <1>4, <2>1 DEF TaskInv, DeliveredLater
<1>7. NewsFirst'
  <2>1. /\ [type |-> "new", entry |-> e] \in Event /\ events \in Seq(Event)
    BY <1>2 DEF Event, EntryInv, PushTypes
  <2>2. /\ DOMAIN events \subseteq DOMAIN events'
        /\ \A i \in DOMAIN events : events'[i] = events[i]
        /\ \A i \in DOMAIN events' \ DOMAIN events : events'[i] = [type |-> "new", entry |-> e]
    BY <1>2, <2>1, EventAppended
  <2>3. \A a : Announcing(a) => Announcing(a)'
    BY <1>2 DEF Announcing
  <2>4. \A x \in LogEntries : x.delivered => x.id # e.id
    BY <1>1, <1>3 DEF TaskInv, DeliveredLater, EntryInv, PushTypes
  <2>5. ASSUME NEW x \in LogEntries, x.delivered, NEW p \in DOMAIN events',
               events'[p].type = "new", events'[p].entry.id = x.id
        PROVE  \/ Announcing(x.id)'
               \/ \E q \in DOMAIN events' : q > p /\ events'[q].type = "delivered" /\ events'[q].id = x.id
    <3>1. p \in DOMAIN events
      BY <2>2, <2>4, <2>5
    <3>2. \/ Announcing(x.id)
          \/ \E q \in DOMAIN events : q > p /\ events[q].type = "delivered" /\ events[q].id = x.id
      BY <2>2, <2>5, <3>1 DEF TaskInv, NewsFirst
    <3> QED  BY <2>2, <2>3, <3>2
  <2> QED  BY <1>4, <2>5 DEF NewsFirst
<1> QED  BY <1>5, <1>6, <1>7 DEF TaskInv

LEMMA FlagTasks ==
  ASSUME EntryInv, TaskInv, NEW t \in Pusher, NEW m \in Letter, FlagDelivered(t, m)
  PROVE  TaskInv'
<1>1. /\ push[t].at = "idle" /\ push'[t] = [at |-> "announce", id |-> m]
      /\ \A u \in Pusher \ {t} : push'[u] = push[u]
      /\ m \in mailed
      /\ DOMAIN log' = DOMAIN log
      /\ \A i \in DOMAIN log :
            /\ log'[i].seq = log[i].seq /\ log'[i].id = log[i].id
            /\ log[i].id # m => log'[i] = log[i]
      /\ UNCHANGED <<mailed, events>>
  BY FlagEffect
<1>2. /\ ~Holds(t)' /\ Announcing(m)'
      /\ \A u \in Pusher : Holds(u)' => Holds(u) /\ push'[u] = push[u]
      /\ \A u \in Pusher : push'[u].at = "append" => push'[u] = push[u]
      /\ \A a : Announcing(a) => Announcing(a)'
  BY <1>1 DEF Holds, Announcing
<1>3. NumbersHeld'
  BY <1>1, <1>2 DEF TaskInv, NumbersHeld, LogEntries
<1>4. DeliveredLater'
  <2>1. ASSUME NEW i \in DOMAIN log', log'[i].delivered PROVE log'[i].id \in mailed
    <3>1. CASE log[i].id = m
      BY <1>1, <3>1
    <3>2. CASE log[i].id # m
      BY <1>1, <2>1, <3>2 DEF TaskInv, DeliveredLater, LogEntries
    <3> QED  BY <3>1, <3>2
  <2> QED  BY <1>1, <1>2, <2>1 DEF TaskInv, DeliveredLater, LogEntries
<1>5. NewsFirst'
  <2>1. ASSUME NEW i \in DOMAIN log', log'[i].delivered
        PROVE  \A p \in DOMAIN events : (events[p].type = "new" /\ events[p].entry.id = log'[i].id) =>
                  \/ Announcing(log[i].id)'
                  \/ \E q \in DOMAIN events : q > p /\ events[q].type = "delivered"
                                              /\ events[q].id = log'[i].id
    <3>1. CASE log[i].id = m
      BY <1>1, <1>2, <3>1
    <3>2. CASE log[i].id # m
      <4>1. log'[i] = log[i] /\ log[i] \in LogEntries
        BY <1>1, <3>2 DEF LogEntries
      <4> QED  BY <1>2, <2>1, <4>1 DEF TaskInv, NewsFirst
    <3> QED  BY <3>1, <3>2
  <2> QED  BY <1>1, <2>1 DEF NewsFirst, LogEntries, Announcing
<1> QED  BY <1>3, <1>4, <1>5 DEF TaskInv

LEMMA AnnounceTasks ==
  ASSUME EntryInv, TaskInv, NEW t \in Pusher, AnnounceDelivered(t)
  PROVE  TaskInv'
<1>1. PICK m : m = push[t].id
  OBVIOUS
<1>2. /\ push[t].at = "announce" /\ push'[t].at = "idle" /\ m \in Letter
      /\ \A u \in Pusher \ {t} : push'[u] = push[u]
      /\ events' = Append(events, [type |-> "delivered", id |-> m])
      /\ UNCHANGED <<log, mailed>>
  BY <1>1, AnnounceEffect
<1>3. /\ \A u \in Pusher : Holds(u)' => Holds(u) /\ push'[u] = push[u]
      /\ \A u \in Pusher : push'[u].at = "append" => push'[u] = push[u]
      /\ \A a : Announcing(a) => a = m \/ Announcing(a)'
      /\ LogEntries' = LogEntries
  BY <1>1, <1>2 DEF Holds, Announcing, LogEntries
<1>4. NumbersHeld' /\ DeliveredLater'
  BY <1>2, <1>3 DEF TaskInv, NumbersHeld, DeliveredLater
<1>5. NewsFirst'
  <2>1. [type |-> "delivered", id |-> m] \in Event /\ events \in Seq(Event)
    BY <1>2 DEF Event, EntryInv, PushTypes
  <2>2. /\ Len(events) \in Nat /\ DOMAIN events = 1..Len(events)
        /\ DOMAIN events' = 1..(Len(events) + 1)
        /\ events'[Len(events) + 1] = [type |-> "delivered", id |-> m]
        /\ \A i \in DOMAIN events : events'[i] = events[i]
    BY <1>2, <2>1, EventAppended
  <2>3. ASSUME NEW x \in LogEntries, x.delivered, NEW p \in DOMAIN events',
               events'[p].type = "new", events'[p].entry.id = x.id
        PROVE  \/ Announcing(x.id)'
               \/ \E q \in DOMAIN events' : q > p /\ events'[q].type = "delivered" /\ events'[q].id = x.id
    <3>1. p # Len(events) + 1
      BY <2>2, <2>3
    <3>2. p \in DOMAIN events /\ p < Len(events) + 1
      BY <2>2, <3>1
    <3>3. \/ Announcing(x.id)
          \/ \E q \in DOMAIN events : q > p /\ events[q].type = "delivered" /\ events[q].id = x.id
      BY <2>2, <2>3, <3>2 DEF TaskInv, NewsFirst
    <3>4. CASE x.id = m
      BY <2>2, <3>2, <3>4
    <3>5. CASE x.id # m /\ Announcing(x.id)
      BY <1>3, <3>5
    <3>6. CASE \E q \in DOMAIN events : q > p /\ events[q].type = "delivered" /\ events[q].id = x.id
      BY <2>2, <3>6
    <3> QED  BY <3>3, <3>4, <3>5, <3>6
  <2> QED  BY <1>3, <2>3 DEF NewsFirst
<1> QED  BY <1>4, <1>5 DEF TaskInv

LEMMA PeerTasks ==
  ASSUME EntryInv, TaskInv, AnnouncePeer
  PROVE  TaskInv'
<1>1. events' = Append(events, [type |-> "peer"]) /\ UNCHANGED <<log, push, mailed>>
  BY PeerEffect DEF pushVars
<1>2. [type |-> "peer"] \in Event /\ events \in Seq(Event)
  BY DEF Event, EntryInv, PushTypes
<1>3. /\ DOMAIN events \subseteq DOMAIN events'
      /\ \A i \in DOMAIN events : events'[i] = events[i]
      /\ \A i \in DOMAIN events' : events'[i].type = "new" => i \in DOMAIN events
  <2>1. \A i \in DOMAIN events' \ DOMAIN events : events'[i].type = "peer"
    BY <1>1, <1>2, EventAppended
  <2> QED  BY <1>1, <1>2, <2>1, EventAppended
<1>4. NewsFirst'
  <2>1. ASSUME NEW x \in LogEntries, x.delivered, NEW p \in DOMAIN events',
               events'[p].type = "new", events'[p].entry.id = x.id
        PROVE  \/ Announcing(x.id)
               \/ \E q \in DOMAIN events' : q > p /\ events'[q].type = "delivered" /\ events'[q].id = x.id
    <3>1. \/ Announcing(x.id)
          \/ \E q \in DOMAIN events : q > p /\ events[q].type = "delivered" /\ events[q].id = x.id
      BY <1>3, <2>1 DEF TaskInv, NewsFirst
    <3> QED  BY <1>3, <3>1
  <2> QED  BY <1>1, <2>1 DEF NewsFirst, LogEntries, Announcing
<1> QED  BY <1>1, <1>4 DEF TaskInv, NumbersHeld, DeliveredLater, Holds, LogEntries

LEMMA TaskStep ==
  ASSUME EntryInv, TaskInv, Tasks PROVE TaskInv'
<1>1. ASSUME NEW t \in Pusher, NEW chat \in Chat, TakeIn(t, chat) PROVE TaskInv'
  BY <1>1, TakeInNumber, TakeNumberTasks DEF EntryInv
<1>2. ASSUME NEW t \in Pusher, NEW chat \in Chat, NEW m \in Letter, PostSend(t, chat, m)
      PROVE  TaskInv'
  BY <1>2, TakeNumberTasks DEF PostSend
<1> QED  BY <1>1, <1>2, AppendTasks, PublishTasks, AnnounceTasks, FlagTasks, PeerTasks DEF Tasks

LEMMA TasksUnchanged ==
  ASSUME TaskInv, UNCHANGED <<log, push, mailed, events>>
  PROVE  TaskInv'
  BY DEF TaskInv, NumbersHeld, DeliveredLater, NewsFirst, Holds, LogEntries, Announcing

-----------------------------------------------------------------------------
(* Messenger: what clients show.                                           *)

ViewTypes ==
  /\ opened \in [Viewer -> Chat \cup {NoChat}]
  /\ since \in [Viewer -> 0..MaxNumber]
  /\ view \in [Viewer -> SUBSET Number] /\ omitted \in [Viewer -> SUBSET Number]
  /\ skippedNew \in [Viewer -> SUBSET Number]
  /\ ticked \in [Viewer -> SUBSET Letter] /\ skippedTick \in [Viewer -> SUBSET Letter]
  /\ live \subseteq Viewer /\ synced \subseteq live
  /\ readAt \in [Viewer -> Nat] /\ \A v \in Viewer : readAt[v] \in 1..(Len(events) + 1)

\* The cursor is a number that was appended; what is not above it was told, left
\* out, or appended too late.
CursorOK(v) ==
  /\ opened[v] = NoChat => since[v] = 0 /\ v \notin synced
  /\ since[v] <= numbered
  /\ \A t \in Pusher : push[t].at = "append" => push[t].entry.seq # since[v]

HistoryOK(v, x) ==
  x.chat = opened[v] =>
     /\ x.seq <= since[v] => x.seq \in view[v] \cup omitted[v] \cup late
     /\ v \in synced => NoneBetween(v, x)

ViewInv ==
  /\ ViewTypes
  /\ \A v \in Viewer : CursorOK(v) /\ \A x \in LogEntries : HistoryOK(v, x) /\ TickStays(v, x)

LEMMA ViewsInitially == MessengerInit => ViewInv
<1> SUFFICES ASSUME MessengerInit PROVE ViewInv
  OBVIOUS
<1>1. /\ numbered = 0 /\ log = <<>> /\ push = [t \in Pusher |-> [at |-> "idle"]]
      /\ events = <<>> /\ Len(events) = 0
      /\ opened = [v \in Viewer |-> NoChat] /\ since = [v \in Viewer |-> 0]
      /\ view = [v \in Viewer |-> {}] /\ ticked = [v \in Viewer |-> {}]
      /\ live = {} /\ synced = {} /\ readAt = [v \in Viewer |-> 1]
      /\ omitted = [v \in Viewer |-> {}]
      /\ skippedNew = [v \in Viewer |-> {}] /\ skippedTick = [v \in Viewer |-> {}]
  BY DEF MessengerInit
<1>2. 0 \in 0..MaxNumber /\ 1 \in 1..(0 + 1)
  BY MessengerAssumption
<1>3. ViewTypes
  BY <1>1, <1>2 DEF ViewTypes
<1>4. LogEntries = {}
  BY <1>1 DEF LogEntries
<1>5. \A v \in Viewer : CursorOK(v)
  BY <1>1 DEF CursorOK
<1> QED  BY <1>3, <1>4, <1>5 DEF ViewInv

\* Steps of tasks: an entry is behind no cursor, unless late; entries move from
\* a task to the stream; flags are set by a task that goes on to announce.
LEMMA ViewsKept ==
  ASSUME EntryInv, ViewInv, UNCHANGED viewVars,
         Len(events) \in Nat, Len(events') \in Nat, Len(events') >= Len(events),
         \A i \in 1..Len(events) : events'[i] = events[i],
         numbered \in Nat, numbered' \in Nat, numbered' >= numbered, late \subseteq late',
         \A t \in Pusher : push'[t].at = "append" =>
            \/ push[t].at = "append" /\ push'[t].entry.seq = push[t].entry.seq
            \/ push'[t].entry.seq = numbered + 1,
         \A t \in Pusher : push[t].at = "publish" =>
            \/ push'[t].at = "publish" /\ push'[t].entry.seq = push[t].entry.seq
            \/ /\ Len(events') = Len(events) + 1 /\ events'[Len(events')].type = "new"
               /\ events'[Len(events')].entry.seq = push[t].entry.seq,
         \A t \in Pusher : push[t].at = "announce" =>
            \/ push'[t].at = "announce" /\ push'[t].id = push[t].id
            \/ /\ Len(events') = Len(events) + 1 /\ events'[Len(events')].type = "delivered"
               /\ events'[Len(events')].id = push[t].id,
         \A x \in LogEntries' :
            \/ \E y \in LogEntries :
                  /\ y.seq = x.seq /\ y.chat = x.chat /\ y.id = x.id
                  /\ x.delivered => y.delivered \/ Announcing(x.id)'
            \/ /\ ~x.delivered
               /\ \E t \in Pusher : push'[t].at = "publish" /\ push'[t].entry.seq = x.seq
               /\ \A v \in Viewer : x.seq <= since[v] => x.seq \in late'
  PROVE  ViewInv'
<1>1. UNCHANGED <<opened, since, view, ticked, live, readAt, synced, omitted,
                  skippedNew, skippedTick>>
  BY DEF viewVars
<1>2. ViewTypes'
  <2>1. \A v \in Viewer : readAt[v] \in 1..(Len(events') + 1)
    BY DEF ViewInv, ViewTypes
  <2> QED  BY <1>1, <2>1 DEF ViewInv, ViewTypes
<1>3. ASSUME NEW v \in Viewer PROVE CursorOK(v)'
  <2>1. /\ since[v] \in Nat /\ since[v] <= numbered
        /\ \A t \in Pusher : push[t].at = "append" => push[t].entry.seq # since[v]
        /\ opened[v] = NoChat => since[v] = 0 /\ v \notin synced
    BY MessengerAssumption DEF ViewInv, CursorOK, ViewTypes
  <2>2. since[v] <= numbered' /\ since[v] # numbered + 1
    BY <2>1
  <2> QED  BY <1>1, <2>1, <2>2 DEF CursorOK
<1>4. ASSUME NEW v \in Viewer
      PROVE  /\ readAt[v] \in Nat /\ \A i \in Ahead(v) : i \in Ahead(v)' /\ events'[i] = events[i]
             /\ Len(events') = Len(events) + 1 => Len(events') \in Ahead(v)'
  <2>1. readAt[v] \in Nat /\ readAt[v] >= 1 /\ readAt[v] <= Len(events) + 1
    BY DEF ViewInv, ViewTypes
  <2> QED  BY <1>1, <2>1 DEF Ahead
<1>5. ASSUME NEW v \in Viewer, NEW s, s \in NewAmong(Ahead(v)) PROVE s \in NewAmong(Ahead(v))'
  BY <1>4, <1>5 DEF NewAmong
<1>6. ASSUME NEW v \in Viewer, NEW m, m \in TickAmong(Ahead(v)) PROVE m \in TickAmong(Ahead(v))'
  BY <1>4, <1>6 DEF TickAmong
<1>7. ASSUME NEW v \in Viewer, NEW x \in LogEntries', NEW y \in LogEntries,
             y.seq = x.seq, y.chat = x.chat, y.id = x.id,
             x.delivered => y.delivered \/ Announcing(x.id)'
      PROVE  HistoryOK(v, x)' /\ TickStays(v, x)'
  <2>1. HistoryOK(v, y) /\ TickStays(v, y)
    BY DEF ViewInv
  <2>2. NoneBetween(v, y) => NoneBetween(v, x)'
    <3>1. CASE y.seq \in view[v] \cup omitted[v] \cup late \cup skippedNew[v]
      BY <1>1, <1>7, <3>1 DEF NoneBetween
    <3>2. CASE \E t \in Pusher : push[t].at = "publish" /\ push[t].entry.seq = y.seq
      <4>1. PICK t \in Pusher : push[t].at = "publish" /\ push[t].entry.seq = y.seq
        BY <3>2
      <4>2. CASE push'[t].at = "publish" /\ push'[t].entry.seq = push[t].entry.seq
        BY <1>7, <4>1, <4>2 DEF NoneBetween
      <4>3. CASE /\ Len(events') = Len(events) + 1 /\ events'[Len(events')].type = "new"
                 /\ events'[Len(events')].entry.seq = push[t].entry.seq
        <5>1. y.seq \in NewAmong(Ahead(v))'
          BY <1>4, <4>1, <4>3 DEF NewAmong
        <5> QED  BY <1>7, <5>1 DEF NoneBetween
      <4> QED  BY <4>1, <4>2, <4>3
    <3>3. CASE y.seq \in NewAmong(Ahead(v))
      BY <1>5, <1>7, <3>3 DEF NoneBetween
    <3> QED  BY <3>1, <3>2, <3>3 DEF NoneBetween
  <2>3. ASSUME x.seq \in view[v], x.delivered
        PROVE  \/ x.id \in ticked[v] \cup skippedTick[v]
               \/ Announcing(x.id)'
               \/ x.id \in TickAmong(Ahead(v))'
    <3>1. CASE y.delivered
      <4>1. CASE x.id \in ticked[v] \cup skippedTick[v] \/ x.id \in TickAmong(Ahead(v))
        BY <1>6, <4>1
      <4>2. CASE \E t \in Pusher : push[t].at = "announce" /\ push[t].id = x.id
        <5>1. PICK t \in Pusher : push[t].at = "announce" /\ push[t].id = x.id
          BY <4>2
        <5>2. CASE push'[t].at = "announce" /\ push'[t].id = push[t].id
          BY <5>1, <5>2 DEF Announcing
        <5>3. CASE /\ Len(events') = Len(events) + 1 /\ events'[Len(events')].type = "delivered"
                   /\ events'[Len(events')].id = push[t].id
          BY <1>4, <5>1, <5>3 DEF TickAmong
        <5> QED  BY <5>1, <5>2, <5>3
      <4> QED  BY <1>7, <2>1, <2>3, <3>1, <4>1, <4>2 DEF TickStays
    <3>2. CASE Announcing(x.id)'
      BY <3>2
    <3> QED  BY <1>7, <2>3, <3>1, <3>2
  <2>4. HistoryOK(v, x)'
    BY <1>1, <1>7, <2>1, <2>2 DEF HistoryOK
  <2>5. TickStays(v, x)'
    BY <1>1, <2>3 DEF TickStays, Announcing
  <2> QED  BY <2>4, <2>5
<1>8. ASSUME NEW v \in Viewer, NEW x \in LogEntries', ~x.delivered,
             \E t \in Pusher : push'[t].at = "publish" /\ push'[t].entry.seq = x.seq,
             x.seq <= since[v] => x.seq \in late'
      PROVE  HistoryOK(v, x)' /\ TickStays(v, x)'
  BY <1>1, <1>8 DEF HistoryOK, NoneBetween, TickStays
<1> QED  BY <1>2, <1>3, <1>7, <1>8 DEF ViewInv

LEMMA TakeNumberViews ==
  ASSUME EntryInv, ViewInv, NEW t \in Pusher, NEW chat \in Chat,
         NEW m \in Letter \cup {NoLetter}, TakeNumber(t, chat, m)
  PROVE  ViewInv'
<1>1. PICK e : e = [seq |-> numbered + 1, chat |-> chat, id |-> m, delivered |-> FALSE]
  OBVIOUS
<1>2. /\ push'[t] = [at |-> "append", entry |-> e] /\ push[t].at = "idle"
      /\ \A u \in Pusher \ {t} : push'[u] = push[u]
      /\ numbered' = numbered + 1 /\ numbered \in Nat
      /\ UNCHANGED <<log, events, late, viewVars>>
  BY <1>1, TakeNumberEffect
<1>3. /\ push'[t].at = "append" /\ push'[t].entry.seq = numbered + 1
      /\ Len(events) \in Nat /\ LogEntries' = LogEntries
  BY <1>1, <1>2 DEF EntryInv, PushTypes, LogEntries
<1> QED  BY <1>2, <1>3, ViewsKept

LEMMA AppendViews ==
  ASSUME EntryInv, TaskInv, ViewInv, NEW t \in Pusher, AppendToLog(t)
  PROVE  ViewInv'
<1>1. PICK e : e = push[t].entry
  OBVIOUS
<1>2. /\ e \in ChatEntry /\ push[t].at = "append" /\ push'[t].at = "publish" /\ push'[t].entry = e
      /\ \A u \in Pusher \ {t} : push'[u] = push[u]
      /\ LogEntries' \subseteq LogEntries \cup {e}
      /\ late \subseteq late' /\ (e.seq \in late' \/ InOrder(e.seq))
      /\ UNCHANGED <<numbered, events, viewVars>>
  BY <1>1, AppendToLogEffect
<1>3. Len(events) \in Nat /\ numbered \in Nat /\ e.seq \in Nat /\ e.seq # 0
  BY <1>2, MessengerAssumption DEF EntryInv, PushTypes, ChatEntry, Number
<1>4. ~e.delivered
  BY <1>1, <1>2 DEF Holds, TaskInv, DeliveredLater
\* What is between the number and a cursor behind it would be held by a task.
<1>5. ASSUME NEW v \in Viewer, e.seq <= since[v] PROVE e.seq \in late'
  <2>1. /\ since[v] \in Nat /\ since[v] <= numbered
        /\ \A u \in Pusher : push[u].at = "append" => push[u].entry.seq # since[v]
    BY MessengerAssumption DEF ViewInv, ViewTypes, CursorOK
  <2>2. since[v] \in (e.seq + 1)..numbered
    BY <1>1, <1>2, <1>3, <1>5, <2>1
  <2>3. ~InOrder(e.seq)
    BY <2>1, <2>2 DEF InOrder
  <2> QED  BY <1>2, <2>3
<1>6. /\ \A u \in Pusher : push'[u].at = "append" => push[u].at = "append" /\ push'[u] = push[u]
      /\ \A u \in Pusher : push[u].at \in {"publish", "announce"} => push'[u] = push[u]
  BY <1>2
<1>7. \A x \in LogEntries' :
         \/ x \in LogEntries
         \/ /\ ~x.delivered
            /\ \E u \in Pusher : push'[u].at = "publish" /\ push'[u].entry.seq = x.seq
            /\ \A v \in Viewer : x.seq <= since[v] => x.seq \in late'
  BY <1>2, <1>4, <1>5
<1> QED  BY <1>2, <1>3, <1>6, <1>7, ViewsKept

LEMMA PublishViews ==
  ASSUME EntryInv, ViewInv, NEW t \in Pusher, PublishNew(t)
  PROVE  ViewInv'
<1>1. PICK e : e = push[t].entry
  OBVIOUS
<1>2. /\ push[t].at = "publish" /\ push'[t].at = "idle" /\ e \in ChatEntry
      /\ \A u \in Pusher \ {t} : push'[u] = push[u]
      /\ events' = Append(events, [type |-> "new", entry |-> e])
      /\ UNCHANGED <<numbered, log, late, viewVars>>
  BY <1>1, PublishEffect
<1>3. [type |-> "new", entry |-> e] \in Event /\ events \in Seq(Event) /\ numbered \in Nat
  BY <1>2, MessengerAssumption DEF Event, EntryInv, PushTypes
<1>4. /\ Len(events) \in Nat /\ Len(events') = Len(events) + 1
      /\ events'[Len(events')].type = "new" /\ events'[Len(events')].entry = e
      /\ \A i \in 1..Len(events) : events'[i] = events[i]
  BY <1>2, <1>3, EventAppended
<1>5. /\ \A u \in Pusher : push'[u].at = "append" => push[u].at = "append" /\ push'[u] = push[u]
      /\ \A u \in Pusher : push[u].at = "publish" => push'[u] = push[u] \/ push[u].entry = e
      /\ \A u \in Pusher : push[u].at = "announce" => push'[u] = push[u]
      /\ LogEntries' = LogEntries
  BY <1>1, <1>2 DEF LogEntries
<1> QED  BY <1>2, <1>3, <1>4, <1>5, ViewsKept

LEMMA FlagViews ==
  ASSUME EntryInv, ViewInv, NEW t \in Pusher, NEW m \in Letter, FlagDelivered(t, m)
  PROVE  ViewInv'
<1>1. /\ push[t].at = "idle" /\ push'[t] = [at |-> "announce", id |-> m]
      /\ \A u \in Pusher \ {t} : push'[u] = push[u]
      /\ DOMAIN log' = DOMAIN log
      /\ \A i \in DOMAIN log :
            /\ log'[i].seq = log[i].seq /\ log'[i].chat = log[i].chat /\ log'[i].id = log[i].id
            /\ log[i].id # m => log'[i] = log[i]
      /\ UNCHANGED <<numbered, events, late, viewVars>>
  BY FlagEffect
<1>2. /\ \A u \in Pusher : push'[u].at = "append" => push[u].at = "append" /\ push'[u] = push[u]
      /\ \A u \in Pusher : push[u].at \in {"publish", "announce"} => push'[u] = push[u]
      /\ Announcing(m)'
  BY <1>1 DEF Announcing
<1>3. \A x \in LogEntries' : \E y \in LogEntries :
         /\ y.seq = x.seq /\ y.chat = x.chat /\ y.id = x.id
         /\ x.delivered => y.delivered \/ Announcing(x.id)'
  BY <1>1, <1>2 DEF LogEntries
<1>4. Len(events) \in Nat /\ numbered \in Nat
  BY MessengerAssumption DEF EntryInv, PushTypes
<1> QED  BY <1>1, <1>2, <1>3, <1>4, ViewsKept

LEMMA AnnounceViews ==
  ASSUME EntryInv, ViewInv, NEW t \in Pusher, AnnounceDelivered(t)
  PROVE  ViewInv'
<1>1. PICK m : m = push[t].id
  OBVIOUS
<1>2. /\ push[t].at = "announce" /\ push'[t].at = "idle" /\ m \in Letter
      /\ \A u \in Pusher \ {t} : push'[u] = push[u]
      /\ events' = Append(events, [type |-> "delivered", id |-> m])
      /\ UNCHANGED <<numbered, log, late, viewVars>>
  BY <1>1, AnnounceEffect
<1>3. [type |-> "delivered", id |-> m] \in Event /\ events \in Seq(Event) /\ numbered \in Nat
  BY <1>2, MessengerAssumption DEF Event, EntryInv, PushTypes
<1>4. /\ Len(events) \in Nat /\ Len(events') = Len(events) + 1
      /\ events'[Len(events')].type = "delivered" /\ events'[Len(events')].id = m
      /\ \A i \in 1..Len(events) : events'[i] = events[i]
  BY <1>2, <1>3, EventAppended
<1>5. /\ \A u \in Pusher : push'[u].at = "append" => push[u].at = "append" /\ push'[u] = push[u]
      /\ \A u \in Pusher : push[u].at = "publish" => push'[u] = push[u]
      /\ \A u \in Pusher : push[u].at = "announce" => push'[u] = push[u] \/ push[u].id = m
      /\ LogEntries' = LogEntries
  BY <1>1, <1>2 DEF LogEntries
<1> QED  BY <1>2, <1>3, <1>4, <1>5, ViewsKept

LEMMA PeerViews ==
  ASSUME EntryInv, ViewInv, AnnouncePeer
  PROVE  ViewInv'
<1>1. /\ events' = Append(events, [type |-> "peer"])
      /\ UNCHANGED <<numbered, log, push, late, viewVars>>
  BY PeerEffect DEF pushVars
<1>2. [type |-> "peer"] \in Event /\ events \in Seq(Event) /\ numbered \in Nat
  BY MessengerAssumption DEF Event, EntryInv, PushTypes
<1>3. /\ Len(events) \in Nat /\ Len(events') = Len(events) + 1
      /\ \A i \in 1..Len(events) : events'[i] = events[i]
      /\ LogEntries' = LogEntries
  BY <1>1, <1>2, EventAppended DEF LogEntries
<1> QED  BY <1>1, <1>2, <1>3, ViewsKept

LEMMA TasksSpareViews ==
  ASSUME EntryInv, TaskInv, ViewInv, Tasks PROVE ViewInv'
<1>1. ASSUME NEW t \in Pusher, NEW chat \in Chat, TakeIn(t, chat) PROVE ViewInv'
  BY <1>1, TakeInNumber, TakeNumberViews DEF EntryInv
<1>2. ASSUME NEW t \in Pusher, NEW chat \in Chat, NEW m \in Letter, PostSend(t, chat, m)
      PROVE  ViewInv'
  BY <1>2, TakeNumberViews DEF PostSend
<1> QED  BY <1>1, <1>2, AppendViews, PublishViews, AnnounceViews, FlagViews, PeerViews DEF Tasks

\* What the invariant says of one client.
ViewerOK(v) == CursorOK(v) /\ \A x \in LogEntries : HistoryOK(v, x) /\ TickStays(v, x)

\* A step of a client concerns no other.
LEMMA OneViewer ==
  ASSUME ViewInv, UNCHANGED <<numbered, log, push, posted, mailed, late, events>>,
         NEW v \in Viewer, ViewTypes', ViewerOK(v)',
         \A u \in Viewer \ {v} :
            /\ opened'[u] = opened[u] /\ since'[u] = since[u] /\ view'[u] = view[u]
            /\ ticked'[u] = ticked[u] /\ readAt'[u] = readAt[u] /\ omitted'[u] = omitted[u]
            /\ skippedNew'[u] = skippedNew[u] /\ skippedTick'[u] = skippedTick[u]
            /\ u \in synced' => u \in synced
  PROVE  ViewInv'
<1>1. LogEntries' = LogEntries
  BY DEF LogEntries
<1>2. ASSUME NEW u \in Viewer \ {v} PROVE ViewerOK(u)'
  <2>1. CursorOK(u) /\ \A x \in LogEntries : HistoryOK(u, x) /\ TickStays(u, x)
    BY DEF ViewInv
  <2>2. Ahead(u)' = Ahead(u)
    BY DEF Ahead
  <2>3. /\ NewAmong(Ahead(u))' = NewAmong(Ahead(u))
        /\ TickAmong(Ahead(u))' = TickAmong(Ahead(u))
    BY <2>2 DEF NewAmong, TickAmong
  <2>4. CursorOK(u)'
    BY <2>1 DEF CursorOK
  <2>5. ASSUME NEW x \in LogEntries PROVE HistoryOK(u, x)' /\ TickStays(u, x)'
    <3>1. NoneBetween(u, x) => NoneBetween(u, x)'
      BY <2>3 DEF NoneBetween
    <3>2. HistoryOK(u, x)'
      BY <2>1, <3>1 DEF HistoryOK
    <3>3. TickStays(u, x)'
      BY <2>1, <2>3 DEF TickStays
    <3> QED  BY <3>2, <3>3
  <2> QED  BY <1>1, <2>4, <2>5 DEF ViewerOK
<1> QED  BY <1>2 DEF ViewInv, ViewerOK

LEMMA OpenChatViews ==
  ASSUME EntryInv, ViewInv, NEW v \in Viewer, NEW chat \in Chat, OpenChat(v, chat)
  PROVE  ViewInv'
<1>1. /\ opened[v] = NoChat /\ opened' = [opened EXCEPT ![v] = chat]
      /\ UNCHANGED <<numbered, log, push, posted, mailed, late, events>>
      /\ UNCHANGED <<since, view, ticked, live, readAt, synced, omitted, skippedNew, skippedTick>>
  BY DEF OpenChat, pushVars
<1>2. ViewTypes' /\ \A u \in Viewer \ {v} : opened'[u] = opened[u]
  BY <1>1 DEF ViewInv, ViewTypes
<1>3. CursorOK(v) /\ since[v] = 0 /\ v \notin synced /\ opened'[v] = chat
  BY <1>1 DEF ViewInv, ViewTypes, CursorOK
<1>4. CursorOK(v)'
  BY <1>1, <1>3, MessengerAssumption DEF CursorOK
<1>5. ASSUME NEW x \in LogEntries' PROVE HistoryOK(v, x)' /\ TickStays(v, x)'
  <2>1. x \in LogEntries /\ x \in ChatEntry
    BY <1>1, EntriesTyped DEF LogEntries, Entries, EntryInv
  <2>2. ~(x.seq <= 0)
    BY <2>1, MessengerAssumption DEF ChatEntry, Number
  <2>3. TickStays(v, x)'
    BY <1>1, <2>1 DEF ViewInv, TickStays, TickAmong, Ahead
  <2> QED  BY <1>1, <1>3, <2>2, <2>3 DEF HistoryOK
<1> QED  BY <1>1, <1>2, <1>4, <1>5, OneViewer DEF ViewerOK

LEMMA SubscribeViews ==
  ASSUME EntryInv, ViewInv, NEW v \in Viewer, Subscribe(v)
  PROVE  ViewInv'
<1>1. /\ v \notin live /\ live' = live \cup {v}
      /\ readAt' = [readAt EXCEPT ![v] = Len(events) + 1]
      /\ skippedTick' = [skippedTick EXCEPT ![v] = @ \cup TickAmong(readAt[v]..Len(events))]
      /\ UNCHANGED <<numbered, log, push, posted, mailed, late, events>>
      /\ UNCHANGED <<opened, since, view, ticked, synced, omitted, skippedNew>>
  BY DEF Subscribe, pushVars
<1>2. /\ readAt[v] \in Nat /\ readAt[v] >= 1 /\ Len(events) \in Nat /\ events \in Seq(Event)
      /\ DOMAIN events = 1..Len(events)
  BY DEF ViewInv, ViewTypes, EntryInv, PushTypes
<1>3. TickAmong(Ahead(v)) \subseteq Letter
  <2>1. Ahead(v) \subseteq DOMAIN events
    BY <1>2 DEF Ahead
  <2> QED  BY <2>1, EventIs DEF TickAmong, EntryInv
<1>4. skippedTick'[v] = skippedTick[v] \cup TickAmong(Ahead(v)) /\ skippedTick'[v] \subseteq Letter
  BY <1>1, <1>3 DEF ViewInv, ViewTypes, Ahead
<1>5. ViewTypes'
  <2>1. skippedTick' \in [Viewer -> SUBSET Letter]
    BY <1>1, <1>4 DEF ViewInv, ViewTypes
  <2>2. readAt' \in [Viewer -> Nat] /\ \A u \in Viewer : readAt'[u] \in 1..(Len(events') + 1)
    BY <1>1, <1>2 DEF ViewInv, ViewTypes
  <2> QED  BY <1>1, <2>1, <2>2 DEF ViewInv, ViewTypes
<1>6. v \notin synced /\ CursorOK(v)
  BY <1>1 DEF ViewInv, ViewTypes
<1>7. CursorOK(v)'
  BY <1>1, <1>6 DEF CursorOK
<1>8. ASSUME NEW x \in LogEntries' PROVE HistoryOK(v, x)' /\ TickStays(v, x)'
  <2>1. x \in LogEntries /\ HistoryOK(v, x) /\ TickStays(v, x)
    BY <1>1 DEF LogEntries, ViewInv
  <2>2. HistoryOK(v, x)'
    BY <1>1, <1>6, <2>1 DEF HistoryOK
  <2>3. TickStays(v, x)'
    BY <1>1, <1>4, <2>1 DEF TickStays
  <2> QED  BY <2>2, <2>3
<1>9. \A u \in Viewer \ {v} : readAt'[u] = readAt[u] /\ skippedTick'[u] = skippedTick[u]
  BY <1>1 DEF ViewInv, ViewTypes
<1> QED  BY <1>1, <1>5, <1>7, <1>8, <1>9, OneViewer DEF ViewerOK

LEMMA UnsubscribeViews ==
  ASSUME EntryInv, ViewInv, NEW v \in Viewer, Unsubscribe(v)
  PROVE  ViewInv'
<1>1. /\ live' = live \ {v} /\ synced' = synced \ {v}
      /\ UNCHANGED <<numbered, log, push, posted, mailed, late, events>>
      /\ UNCHANGED <<opened, since, view, ticked, readAt, omitted, skippedNew, skippedTick>>
  BY DEF Unsubscribe, pushVars
<1>2. ViewTypes'
  BY <1>1 DEF ViewInv, ViewTypes
<1>3. CursorOK(v)'
  BY <1>1 DEF ViewInv, CursorOK
<1>4. ASSUME NEW x \in LogEntries' PROVE HistoryOK(v, x)' /\ TickStays(v, x)'
  <2>1. x \in LogEntries /\ HistoryOK(v, x) /\ TickStays(v, x)
    BY <1>1 DEF LogEntries, ViewInv
  <2>2. HistoryOK(v, x)'
    BY <1>1, <2>1 DEF HistoryOK
  <2>3. TickStays(v, x)'
    BY <1>1, <2>1 DEF TickStays, TickAmong, Ahead
  <2> QED  BY <2>2, <2>3
<1> QED  BY <1>1, <1>2, <1>3, <1>4, OneViewer DEF ViewerOK

LEMMA GreatestIn ==
  ASSUME NEW n \in Nat, NEW S, S \subseteq 1..n, S # {}
  PROVE  (CHOOSE i \in S : \A j \in S : j <= i) \in S
<1> DEFINE below == {n - i : i \in S}
           R     == {ss \in Nat \X Nat : ss[1] < ss[2]}
<1>1. \A i \in S : i \in Nat /\ n - i \in Nat
  OBVIOUS
<1>2. below \subseteq Nat /\ below # {}
  BY <1>1
<1>3. IsWellFoundedOn(R, Nat)
  BY NatLessThanWellFounded DEF OpToRel
<1>4. PICK b \in below : \A k \in below : ~(<<k, b>> \in R)
  BY <1>2, <1>3, WFMin, Zenon
<1>5. PICK i \in S : b = n - i
  BY <1>4
<1>6. ASSUME NEW j \in S PROVE j <= i
  <2>1. n - j \in below /\ n - j \in Nat /\ b \in Nat /\ <<n - j, b>> \notin R
    BY <1>1, <1>2, <1>4
  <2>2. ~(n - j < b)
    BY <2>1
  <2> QED  BY <1>1, <1>5, <2>2
<1> QED  BY <1>6

LEMMA ReadHistoryViews ==
  ASSUME EntryInv, TaskInv, ViewInv, NEW v \in Viewer, ReadHistory(v)
  PROVE  ViewInv'
<1> DEFINE ids   == {log[i].id : i \in Page(v)}
           ticks == {log[i].id : i \in {j \in Page(v) : log[j].delivered}}
<1>1. /\ opened[v] # NoChat
      /\ since' = [since EXCEPT ![v] = NextCursor(v)]
      /\ view' = [view EXCEPT ![v] = @ \cup NumbersAt(Page(v))]
      /\ omitted' = [omitted EXCEPT ![v] = @ \cup (NumbersAt(Asked(v)) \ NumbersAt(Page(v)))]
      /\ ticked' = [ticked EXCEPT ![v] = (@ \ ids) \cup ticks]
      /\ synced' = synced \cup (live \cap {v})
      /\ skippedNew' = [skippedNew EXCEPT ![v] = {}]
      /\ UNCHANGED <<numbered, log, push, posted, mailed, late, events>>
      /\ UNCHANGED <<opened, live, readAt, skippedTick>>
  BY DEF ReadHistory, pushVars
<1>2. /\ Asked(v) \subseteq DOMAIN log /\ Page(v) \subseteq Asked(v)
      /\ log \in Seq(ChatEntry) /\ Len(log) \in Nat /\ DOMAIN log = 1..Len(log)
      /\ \A i \in DOMAIN log : log[i] \in ChatEntry /\ log[i] \in LogEntries /\ log[i].seq \in Number
  <2>1. Asked(v) \subseteq DOMAIN log /\ Page(v) \subseteq Asked(v)
    BY DEF Asked, Page
  <2>2. log \in Seq(ChatEntry) /\ Len(log) \in Nat /\ DOMAIN log = 1..Len(log)
    BY DEF EntryInv, PushTypes
  <2>3. \A i \in DOMAIN log : log[i] \in ChatEntry /\ log[i] \in LogEntries
    BY <2>2 DEF LogEntries
  <2> QED  BY <2>1, <2>2, <2>3 DEF ChatEntry
<1>3. NumbersAt(Page(v)) \subseteq Number /\ NumbersAt(Asked(v)) \subseteq Number
  BY <1>2 DEF NumbersAt
<1>4. \A x \in LogEntries : x.delivered => x.id \in Letter
  BY DEF TaskInv, DeliveredLater, EntryInv, PushTypes
<1>5. ticks \subseteq Letter
  BY <1>2, <1>4
<1>6. \/ NextCursor(v) = since[v]
      \/ \E i \in DOMAIN log : NextCursor(v) = log[i].seq
  <2>1. CASE Page(v) = {}
    BY <2>1 DEF NextCursor
  <2>2. CASE Page(v) # {}
    <3>1. (CHOOSE i \in Page(v) : \A j \in Page(v) : j <= i) \in Page(v)
      BY <1>2, <2>2, GreatestIn
    <3> QED  BY <1>2, <2>2, <3>1 DEF NextCursor
  <2> QED  BY <2>1, <2>2
<1>7. /\ NextCursor(v) \in 0..MaxNumber /\ NextCursor(v) <= numbered
      /\ \A t \in Pusher : push[t].at = "append" => push[t].entry.seq # NextCursor(v)
  <2>1. CASE NextCursor(v) = since[v]
    BY <2>1 DEF ViewInv, ViewTypes, CursorOK
  <2>2. CASE \E i \in DOMAIN log : NextCursor(v) = log[i].seq
    <3>1. PICK i \in DOMAIN log : NextCursor(v) = log[i].seq
      BY <2>2
    <3>2. log[i] \in LogEntries /\ log[i] \in Entries /\ log[i].seq \in 1..MaxNumber
      BY <1>2 DEF Entries, Number
    <3>3. log[i].seq <= numbered
      BY <3>2 DEF EntryInv, EntriesAgree
    <3>4. \A t \in Pusher : push[t].at = "append" => push[t].entry.seq # log[i].seq
      BY <3>2 DEF TaskInv, NumbersHeld
    <3>5. log[i].seq \in 0..MaxNumber
      BY <3>2, MessengerAssumption
    <3> QED  BY <3>1, <3>3, <3>4, <3>5
  <2> QED  BY <1>6, <2>1, <2>2
<1>8. ViewTypes'
  <2>1. since' \in [Viewer -> 0..MaxNumber]
    BY <1>1, <1>7 DEF ViewInv, ViewTypes
  <2>2. view' \in [Viewer -> SUBSET Number] /\ omitted' \in [Viewer -> SUBSET Number]
    BY <1>1, <1>3 DEF ViewInv, ViewTypes
  <2>3. ticked' \in [Viewer -> SUBSET Letter] /\ skippedNew' \in [Viewer -> SUBSET Number]
    BY <1>1, <1>5 DEF ViewInv, ViewTypes
  <2> QED  BY <1>1, <2>1, <2>2, <2>3 DEF ViewInv, ViewTypes
<1>9. /\ since'[v] = NextCursor(v) /\ view'[v] = view[v] \cup NumbersAt(Page(v))
      /\ omitted'[v] = omitted[v] \cup (NumbersAt(Asked(v)) \ NumbersAt(Page(v)))
      /\ ticked'[v] = (ticked[v] \ ids) \cup ticks
  BY <1>1 DEF ViewInv, ViewTypes
<1>10. CursorOK(v)'
  BY <1>1, <1>7, <1>9 DEF CursorOK
<1>11. ASSUME NEW x \in LogEntries PROVE HistoryOK(v, x)' /\ TickStays(v, x)'
  <2>1. PICK i \in DOMAIN log : x = log[i]
    BY DEF LogEntries
  <2>2. HistoryOK(v, x)'
    <3>1. ASSUME x.chat = opened[v]
          PROVE  x.seq \in view'[v] \cup omitted'[v] \cup late
      <4>1. CASE x.seq <= since[v]
        BY <1>9, <3>1, <4>1 DEF ViewInv, HistoryOK
      <4>2. CASE ~(x.seq <= since[v])
        <5>1. x.seq \in Nat /\ since[v] \in Nat
          BY <1>2, <2>1, MessengerAssumption DEF ViewInv, ViewTypes, Number
        <5>2. i \in Asked(v)
          BY <2>1, <3>1, <4>2, <5>1 DEF Asked
        <5>3. x.seq \in NumbersAt(Asked(v))
          BY <2>1, <5>2 DEF NumbersAt
        <5> QED  BY <1>9, <5>3
      <4> QED  BY <4>1, <4>2
    <3> QED  BY <1>1, <3>1 DEF HistoryOK, NoneBetween
  <2>3. ASSUME x.seq \in view'[v], x.delivered
        PROVE  \/ x.id \in ticked'[v] \cup skippedTick[v]
               \/ Announcing(x.id)
               \/ x.id \in TickAmong(Ahead(v))
    <3>1. CASE x.seq \in NumbersAt(Page(v))
      <4>1. PICK j \in Page(v) : log[j].seq = x.seq
        BY <3>1 DEF NumbersAt
      <4>2. j = i
        BY <1>2, <2>1, <4>1 DEF TaskInv, NumbersHeld
      <4> QED  BY <1>9, <2>1, <2>3, <4>1, <4>2
    <3>2. CASE x.seq \notin NumbersAt(Page(v))
      <4>1. x.seq \in view[v] /\ TickStays(v, x)
        BY <1>9, <2>3, <3>2 DEF ViewInv
      <4>2. x.id \notin ids
        <5>1. ASSUME NEW j \in Page(v), log[j].id = x.id PROVE FALSE
          <6>1. x.id \in Letter /\ x \in Entries /\ log[j] \in Entries
            BY <1>2, <1>4, <2>3 DEF Entries
          <6>2. log[j].seq = x.seq
            BY <5>1, <6>1 DEF EntryInv, EntriesAgree
          <6> QED  BY <3>2, <5>1, <6>2 DEF NumbersAt
        <5> QED  BY <5>1
      <4> QED  BY <1>9, <2>3, <4>1, <4>2 DEF TickStays, Announcing
    <3> QED  BY <3>1, <3>2
  <2>4. TickAmong(Ahead(v))' = TickAmong(Ahead(v))
    BY <1>1 DEF TickAmong, Ahead
  <2>5. TickStays(v, x)'
    BY <1>1, <2>3, <2>4 DEF TickStays, Announcing
  <2> QED  BY <2>2, <2>5
<1>12. ViewerOK(v)'
  BY <1>1, <1>10, <1>11 DEF ViewerOK, LogEntries
<1>13. \A u \in Viewer \ {v} :
          /\ since'[u] = since[u] /\ view'[u] = view[u] /\ omitted'[u] = omitted[u]
          /\ ticked'[u] = ticked[u] /\ skippedNew'[u] = skippedNew[u]
          /\ u \in synced' => u \in synced
  BY <1>1 DEF ViewInv, ViewTypes
<1> QED  BY <1>1, <1>8, <1>12, <1>13, OneViewer

\* Where a stream is, and what a receiver skips.
LEMMA StreamIs ==
  ASSUME EntryInv, ViewInv, NEW v \in Viewer, readAt[v] <= Len(events),
         NEW k, k = Resume(v), NEW gone, gone = readAt[v]..(Oldest - 1)
  PROVE  /\ k \in DOMAIN events /\ k + 1 \in 1..(Len(events) + 1)
         /\ gone \subseteq DOMAIN events
         /\ Ahead(v) \subseteq gone \cup {k} \cup ((k + 1)..Len(events))
         /\ \A q \in DOMAIN events : q > k => q \in (k + 1)..Len(events)
<1>1. /\ Len(events) \in Nat /\ DOMAIN events = 1..Len(events)
      /\ readAt[v] \in Nat /\ readAt[v] >= 1 /\ EventCap \in Nat /\ EventCap >= 1
  BY MessengerAssumption DEF EntryInv, PushTypes, ViewInv, ViewTypes
<1>2. Oldest \in Nat /\ Oldest >= 1 /\ Oldest <= Len(events)
  BY <1>1 DEF Oldest
<1>3. k = IF readAt[v] < Oldest THEN Oldest ELSE readAt[v]
  BY DEF Resume
<1> HIDE DEF Oldest
<1>4. k \in Nat /\ readAt[v] <= k /\ k <= Len(events)
  BY <1>1, <1>2, <1>3
<1>5. gone \subseteq DOMAIN events
  BY <1>1, <1>2
<1>6. Ahead(v) \subseteq gone \cup {k} \cup ((k + 1)..Len(events))
  BY <1>1, <1>2, <1>3 DEF Ahead
<1> QED  BY <1>1, <1>4, <1>5, <1>6

LEMMA ReceiveEventViews ==
  ASSUME EntryInv, TaskInv, ViewInv, NEW v \in Viewer, ReceiveEvent(v)
  PROVE  ViewInv'
<1>1. PICK k, gone : k = Resume(v) /\ gone = readAt[v]..(Oldest - 1)
  OBVIOUS
<1>2. PICK event : event = events[k]
  OBVIOUS
<1>3. /\ readAt[v] <= Len(events)
      /\ Show(v, event)
      /\ readAt' = [readAt EXCEPT ![v] = k + 1]
      /\ skippedNew' = [skippedNew EXCEPT ![v] = @ \cup NewAmong(gone)]
      /\ skippedTick' = [skippedTick EXCEPT ![v] = @ \cup TickAmong(gone)]
      /\ UNCHANGED <<numbered, log, push, posted, mailed, late, events>>
      /\ UNCHANGED <<opened, since, live, synced, omitted>>
  BY <1>1, <1>2 DEF ReceiveEvent, pushVars
<1>4. /\ k \in DOMAIN events /\ k + 1 \in 1..(Len(events) + 1)
      /\ gone \subseteq DOMAIN events
      /\ Ahead(v) \subseteq gone \cup {k} \cup ((k + 1)..Len(events))
      /\ \A q \in DOMAIN events : q > k => q \in (k + 1)..Len(events)
  BY <1>1, <1>3, StreamIs
<1>5. /\ event.type = "new" => event.entry \in Entries /\ event.entry \in ChatEntry
      /\ event.type = "delivered" => event.id \in Letter
  BY <1>2, <1>4, EventIs DEF EntryInv, Entries
<1>6. /\ readAt'[v] = k + 1
      /\ skippedNew'[v] = skippedNew[v] \cup NewAmong(gone)
      /\ skippedTick'[v] = skippedTick[v] \cup TickAmong(gone)
      /\ Ahead(v)' = (k + 1)..Len(events)
  BY <1>3 DEF ViewInv, ViewTypes, Ahead
<1>7. NewAmong(gone) \subseteq Number /\ TickAmong(gone) \subseteq Letter
  <2>1. \A i \in gone : events[i].type = "new" => events[i].entry \in ChatEntry
    BY <1>4, EventIs DEF EntryInv
  <2>2. \A i \in gone : events[i].type = "delivered" => events[i].id \in Letter
    BY <1>4, EventIs DEF EntryInv
  <2> QED  BY <2>1, <2>2 DEF NewAmong, TickAmong, ChatEntry
<1>8. /\ view \in [Viewer -> SUBSET Number] /\ ticked \in [Viewer -> SUBSET Letter]
  BY DEF ViewInv, ViewTypes
\* What the client shows now.
<1>9. /\ view' \in [Viewer -> SUBSET Number] /\ ticked' \in [Viewer -> SUBSET Letter]
      /\ \A u \in Viewer \ {v} : view'[u] = view[u] /\ ticked'[u] = ticked[u]
      /\ view[v] \subseteq view'[v]
      /\ \A m \in ticked[v] : m \in ticked'[v] \/ (event.type = "new" /\ event.entry.id = m)
      /\ \A n \in view'[v] : n \in view[v] \/ (event.type = "new" /\ event.entry.seq = n)
      /\ event.type = "new" /\ event.entry.chat = opened[v] => event.entry.seq \in view'[v]
      /\ event.type = "delivered" => event.id \in ticked'[v]
  <2>1. CASE event.type = "new" /\ event.entry.chat = opened[v]
    <3>1. /\ view' = [view EXCEPT ![v] = @ \cup {event.entry.seq}]
          /\ ticked' = [ticked EXCEPT ![v] = @ \ {event.entry.id}]
      BY <1>3, <2>1 DEF Show
    <3>2. event.entry.seq \in Number
      BY <1>5, <2>1 DEF ChatEntry
    <3> QED  BY <1>8, <2>1, <3>1, <3>2
  <2>2. CASE event.type = "delivered"
    <3>1. ticked' = [ticked EXCEPT ![v] = @ \cup {event.id}] /\ view' = view
      BY <1>3, <2>2 DEF Show
    <3> QED  BY <1>5, <1>8, <2>2, <3>1
  <2>3. CASE event.type # "delivered" /\ ~(event.type = "new" /\ event.entry.chat = opened[v])
    <3>1. view' = view /\ ticked' = ticked
      BY <1>3, <2>3 DEF Show
    <3> QED  BY <1>8, <2>3, <3>1
  <2> QED  BY <2>1, <2>2, <2>3
<1>10. ViewTypes'
  <2>1. skippedNew' \in [Viewer -> SUBSET Number] /\ skippedTick' \in [Viewer -> SUBSET Letter]
    BY <1>3, <1>7 DEF ViewInv, ViewTypes
  <2>2. readAt' \in [Viewer -> Nat] /\ \A u \in Viewer : readAt'[u] \in 1..(Len(events') + 1)
    <3>1. k + 1 \in Nat
      BY <1>4
    <3> QED  BY <1>3, <1>4, <3>1 DEF ViewInv, ViewTypes
  <2> QED  BY <1>3, <1>9, <2>1, <2>2 DEF ViewInv, ViewTypes
<1>11. CursorOK(v)'
  BY <1>3 DEF ViewInv, CursorOK
<1>12. ASSUME NEW x \in LogEntries PROVE HistoryOK(v, x)' /\ TickStays(v, x)'
  <2>1. /\ HistoryOK(v, x) /\ TickStays(v, x) /\ x \in Entries
    BY DEF ViewInv, Entries
  <2>2. event.type = "new" /\ event.entry.seq = x.seq =>
           event.entry.chat = x.chat /\ event.entry.id = x.id
    BY <1>5, <2>1 DEF EntryInv, EntriesAgree
  <2>3. HistoryOK(v, x)'
    <3>1. ASSUME x.chat = opened[v], NoneBetween(v, x) PROVE NoneBetween(v, x)'
      <4>1. CASE x.seq \in view[v] \cup omitted[v] \cup late \cup skippedNew[v]
        BY <1>3, <1>6, <1>9, <4>1 DEF NoneBetween
      <4>2. CASE \E t \in Pusher : push[t].at = "publish" /\ push[t].entry.seq = x.seq
        BY <1>3, <4>2 DEF NoneBetween
      <4>3. CASE x.seq \in NewAmong(Ahead(v))
        <5>1. PICK i \in Ahead(v) : events[i].type = "new" /\ events[i].entry.seq = x.seq
          BY <4>3 DEF NewAmong
        <5>2. CASE i \in gone
          <6>1. x.seq \in NewAmong(gone)
            BY <5>1, <5>2 DEF NewAmong
          <6> QED  BY <1>6, <6>1 DEF NoneBetween
        <5>3. CASE i = k
          BY <1>2, <1>9, <2>2, <3>1, <5>1, <5>3 DEF NoneBetween
        <5>4. CASE i \in (k + 1)..Len(events)
          <6>1. x.seq \in NewAmong(Ahead(v))'
            BY <1>3, <1>6, <5>1, <5>4 DEF NewAmong
          <6> QED  BY <6>1 DEF NoneBetween
        <5> QED  BY <1>4, <5>1, <5>2, <5>3, <5>4
      <4> QED  BY <3>1, <4>1, <4>2, <4>3 DEF NoneBetween
    <3> QED  BY <1>3, <1>9, <2>1, <3>1 DEF HistoryOK
  <2>4. ASSUME x.seq \in view'[v], x.delivered
        PROVE  \/ x.id \in ticked'[v] \cup skippedTick'[v]
               \/ Announcing(x.id)
               \/ x.id \in TickAmong((k + 1)..Len(events))
    \* The event tells of this message: that of its delivery is behind it.
    <3>1. CASE event.type = "new" /\ event.entry.id = x.id
      <4>1. \/ Announcing(x.id)
            \/ \E q \in DOMAIN events : q > k /\ events[q].type = "delivered" /\ events[q].id = x.id
        BY <1>2, <1>4, <2>4, <3>1 DEF TaskInv, NewsFirst
      <4>2. (\E q \in DOMAIN events : q > k /\ events[q].type = "delivered" /\ events[q].id = x.id)
               => x.id \in TickAmong((k + 1)..Len(events))
        BY <1>4 DEF TickAmong
      <4> QED  BY <4>1, <4>2
    <3>2. CASE ~(event.type = "new" /\ event.entry.id = x.id)
      <4>1. x.seq \in view[v]
        BY <1>9, <2>2, <2>4, <3>2
      <4>2. CASE x.id \in ticked[v] \cup skippedTick[v]
        BY <1>6, <1>9, <3>2, <4>2
      <4>3. CASE x.id \in TickAmong(Ahead(v))
        <5>1. PICK i \in Ahead(v) : events[i].type = "delivered" /\ events[i].id = x.id
          BY <4>3 DEF TickAmong
        <5>2. CASE i \in gone
          <6>1. x.id \in TickAmong(gone)
            BY <5>1, <5>2 DEF TickAmong
          <6> QED  BY <1>6, <6>1
        <5>3. CASE i = k
          BY <1>2, <1>9, <5>1, <5>3
        <5>4. CASE i \in (k + 1)..Len(events)
          BY <5>1, <5>4 DEF TickAmong
        <5> QED  BY <1>4, <5>1, <5>2, <5>3, <5>4
      <4> QED  BY <2>1, <2>4, <4>1, <4>2, <4>3 DEF TickStays, Announcing
    <3> QED  BY <3>1, <3>2
  <2>5. TickAmong(Ahead(v))' = TickAmong((k + 1)..Len(events))
    BY <1>3, <1>6 DEF TickAmong
  <2>6. TickStays(v, x)'
    BY <1>3, <2>4, <2>5 DEF TickStays, Announcing
  <2> QED  BY <2>3, <2>6
<1>13. ViewerOK(v)'
  BY <1>3, <1>11, <1>12 DEF ViewerOK, LogEntries
<1>14. \A u \in Viewer \ {v} :
          /\ readAt'[u] = readAt[u] /\ skippedNew'[u] = skippedNew[u]
          /\ skippedTick'[u] = skippedTick[u]
  BY <1>3 DEF ViewInv, ViewTypes
<1> QED  BY <1>3, <1>9, <1>10, <1>13, <1>14, OneViewer

MessengerInv == EntryInv /\ TaskInv /\ ViewInv

LEMMA MessengerInitially == MessengerInit => MessengerInv
  BY EntriesInitially, TasksInitially, ViewsInitially DEF MessengerInv

LEMMA ViewingStep ==
  ASSUME MessengerInv, NEW v \in Viewer, Viewing(v) PROVE MessengerInv'
<1>1. EntryInv' /\ TaskInv'
  BY ViewingSparesEntries, EntriesUnchanged, TasksUnchanged DEF MessengerInv
<1>2. ViewInv'
  BY OpenChatViews, ReadHistoryViews, SubscribeViews, UnsubscribeViews, ReceiveEventViews
     DEF MessengerInv, Viewing
<1> QED  BY <1>1, <1>2 DEF MessengerInv

LEMMA MessengerStep == MessengerInv /\ [MessengerNext]_messengerVars => MessengerInv'
<1> SUFFICES ASSUME MessengerInv, [MessengerNext]_messengerVars PROVE MessengerInv'
  OBVIOUS
<1>1. CASE Tasks
  BY <1>1, EntryStep, TaskStep, TasksSpareViews DEF MessengerInv
<1>2. ASSUME NEW v \in Viewer, Viewing(v) PROVE MessengerInv'
  BY <1>2, ViewingStep
<1>3. CASE UNCHANGED messengerVars
  <2>1. UNCHANGED <<numbered, log, push, posted, mailed, late, events>> /\ UNCHANGED viewVars
    BY <1>3 DEF messengerVars, pushVars
  <2>2. EntryInv' /\ TaskInv' /\ LogEntries' = LogEntries
    BY <2>1, EntriesUnchanged, TasksUnchanged DEF MessengerInv
  <2>3. ViewInv'
    BY <2>1, <2>2 DEF MessengerInv, viewVars, ViewInv, ViewTypes, CursorOK, HistoryOK, NoneBetween,
                      TickStays, NewAmong, TickAmong, Ahead
  <2> QED  BY <2>2, <2>3 DEF MessengerInv
<1> QED  BY <1>1, <1>2, <1>3 DEF MessengerNext, Tasks, Viewing

\* A client that asked for the history after its stream began misses a message
\* only by the limit of an answer, a late append or lag, and never shows one as
\* not delivered after the event that says it was, for any number of tasks and
\* clients (push_inbox, mark_message_delivered, sse_resp).
THEOREM ViewsAreExplained == MessengerSpec => []ViewExplained
<1>1. MessengerInv => ViewExplained
  <2> SUFFICES ASSUME MessengerInv, NEW v \in synced, NEW i \in DOMAIN log, log[i].chat = opened[v]
               PROVE  NoneBetween(v, log[i]) /\ TickStays(v, log[i])
    BY DEF ViewExplained
  <2>1. v \in Viewer /\ log[i] \in LogEntries
    BY DEF MessengerInv, ViewInv, ViewTypes, LogEntries
  <2> QED  BY <2>1 DEF MessengerInv, ViewInv, HistoryOK
<1> QED  BY <1>1, MessengerInitially, MessengerStep, PTL DEF MessengerSpec

=============================================================================
