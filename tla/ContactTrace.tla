---------------------------- MODULE ContactTrace ----------------------------
(***************************************************************************)
(* Delay-tolerant routing over a contact trace: the foremost journey that  *)
(* serves as oracle (trace.rs) and the strategies it is compared with      *)
(* (trace_bench.rs), for one message.  Each goes through the contacts once,*)
(* in the order of their starts; they are shown abreast, one contact a     *)
(* step.  Times are whole numbers.                                         *)
(***************************************************************************)
EXTENDS Integers, Sequences

CONSTANTS
  Point,        \* node indices
  Horizon,      \* bound: times of a trace
  MaxContacts,  \* bound: contacts of a trace
  Deadline

ASSUME TraceAssumption ==
  /\ Point \subseteq Int
  /\ Horizon \in Nat /\ MaxContacts \in Nat /\ Deadline \in Nat

Infinity == Horizon + 1
Time     == 0..Horizon

Contact == {c \in [start : Time, end : Time, a : Point, b : Point] :
              c.a < c.b /\ c.start < c.end}

\* load_csv and synthetic: contacts are sorted by their starts.
Trace == {tr \in UNION {[1..n -> Contact] : n \in 1..MaxContacts} :
            \A i \in 1..(Len(tr) - 1) : tr[i].start <= tr[i + 1].start}

VARIABLES
  contacts,   \* ContactTrace::contacts
  msg,        \* the message: src, dst, gen
  seen,       \* how many contacts were gone through
  arrival,    \* earliest_arrival
  copies,     \* nodes holding a copy, by strategy
  deliveredAt   \* when the destination got it, by strategy

traceVars == <<contacts, msg, seen, arrival, copies, deliveredAt>>

Strategy == {"epidemic", "direct", "prophet"}

TraceTypeOK ==
  /\ contacts \in Trace
  /\ msg \in [src : Point, dst : Point, gen : Time]
  /\ seen \in 0..Len(contacts)
  /\ arrival   \in [Point -> Time \cup {Infinity}]
  /\ copies    \in [Strategy -> SUBSET Point]
  /\ deliveredAt \in [Strategy -> Time \cup {Infinity}]

TraceInit ==
  /\ contacts \in Trace
  /\ msg \in {m \in [src : Point, dst : Point, gen : Time] : m.src # m.dst}
  /\ seen      = 0
  /\ arrival   = [x \in Point |-> IF x = msg.src THEN msg.gen ELSE Infinity]
  /\ copies    = [s \in Strategy |-> {msg.src}]
  /\ deliveredAt = [s \in Strategy |-> Infinity]

-----------------------------------------------------------------------------

Later(s, t)   == IF s < t THEN t ELSE s
Earlier(s, t) == IF s < t THEN s ELSE t

\* Deviation: what x holds is at y as soon as x has it.
WhenHeld(c, t) == t

\* What is held at t crosses when the contact has begun.
Crosses(c, t) == Later(c.start, t)

\* earliest_arrival: what one contact makes of the arrival at y, met by x.
Relaxed(arr, c, x, y) ==
  IF arr[x] <= c.end THEN Earlier(arr[y], Crosses(c, arr[x])) ELSE arr[y]

NextArrival(c) ==
  IF c.end < msg.gen THEN arrival
  ELSE [arrival EXCEPT ![c.a] = Relaxed(arrival, c, c.b, c.a),
                       ![c.b] = Relaxed(arrival, c, c.a, c.b)]

\* Begins within the life of the message, and just one of the two has a copy.
Hands(s, c, x, y) ==
  /\ msg.gen <= c.start /\ c.start - msg.gen <= Deadline
  /\ {x, y} = {c.a, c.b} /\ x \in copies[s] /\ y \notin copies[s]

\* run_replication, with and without relay_all, and run_prophet, which stops at
\* the delivery and whose learned predictabilities are left open here.
MayCopy(s, y) ==
  CASE s = "epidemic" -> {TRUE}
    [] s = "direct"   -> {y = msg.dst}
    [] s = "prophet"  -> IF y = msg.dst THEN {TRUE} ELSE BOOLEAN

\* What a strategy makes of a contact, as <<copies, deliveredAt>>.
Outcomes(s, c) ==
  LET same    == <<copies[s], deliveredAt[s]>>
      gets(y) == <<copies[s] \cup {y}, IF y = msg.dst THEN c.start ELSE deliveredAt[s]>>
      over    == s # "epidemic" /\ deliveredAt[s] # Infinity
      takers  == {y \in Point : ~over /\ \E x \in Point : Hands(s, c, x, y)}
  IN  IF takers = {} THEN {same}
      ELSE UNION {{IF copy THEN gets(y) ELSE same : copy \in MayCopy(s, y)} : y \in takers}

ProcessContact ==
  /\ seen < Len(contacts)
  /\ LET next == contacts[seen + 1] IN
     /\ arrival' = NextArrival(next)
     /\ \E e \in Outcomes("epidemic", next), d \in Outcomes("direct", next),
           p \in Outcomes("prophet", next) :
          LET out == [epidemic |-> e, direct |-> d, prophet |-> p]
          IN  /\ copies'    = [s \in Strategy |-> out[s][1]]
              /\ deliveredAt' = [s \in Strategy |-> out[s][2]]
  /\ seen' = seen + 1
  /\ UNCHANGED <<contacts, msg>>

TraceNext == ProcessContact

TraceSpec == TraceInit /\ [][TraceNext]_traceVars

-----------------------------------------------------------------------------
(* The reference.                                                          *)

JourneyEnd == [at : Point, when : Time]

\* Whether a contact [start, end) can be used at its end as well.
Kind == {"open", "closed"}

\* One contact more, in whatever order the trace has it.
Extended(kind, ends) ==
  ends \cup {e \in JourneyEnd : \E i \in DOMAIN contacts, f \in ends :
     /\ {f.at, e.at} = {contacts[i].a, contacts[i].b}
     /\ f.when < contacts[i].end \/ (kind = "closed" /\ f.when = contacts[i].end)
     /\ e.when = Later(contacts[i].start, f.when)}

\* Where journeys of at most k contacts end, and when.
Journeys[k \in Nat] ==
  [kind \in Kind |->
     IF k = 0 THEN {[at |-> msg.src, when |-> msg.gen]}
     ELSE Extended(kind, Journeys[k - 1][kind])]

\* A foremost journey uses no contact twice.
Ends(kind) == Journeys[Len(contacts)][kind]

NoJourneyIsSooner == \A e \in Ends("open") : arrival[e.at] <= e.when

Disjoint ==
  \A i, j \in DOMAIN contacts : i < j => contacts[i].end <= contacts[j].start

\* The oracle claims an arrival only where a journey has it, no strategy delivers
\* what the oracle does not, or sooner ("nothing can deliver more, or sooner",
\* trace_bench.rs; it holds of the strategies compared there), and with contacts
\* that do not overlap it is the optimum.
OracleBetween ==
  /\ \A x \in Point : arrival[x] # Infinity => [at |-> x, when |-> arrival[x]] \in Ends("closed")
  /\ \A s \in Strategy : deliveredAt[s] >= arrival[msg.dst]
  /\ Disjoint /\ seen = Len(contacts) => NoJourneyIsSooner

\* earliest_arrival is "the exact optimum any delay-tolerant routing could
\* achieve" (trace.rs): no journey arrives sooner.
OracleExact == seen = Len(contacts) => NoJourneyIsSooner

=============================================================================
