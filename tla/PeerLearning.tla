---------------------------- MODULE PeerLearning ----------------------------
(***************************************************************************)
(* What the router learns of its peers (router.rs): the outcomes counted   *)
(* per peer, the bandit, which is saved after every outcome by the task    *)
(* that recorded it, and the Q-estimates, which are not saved.  Tasks share*)
(* the router; each of its fields has a lock of its own.                   *)
(***************************************************************************)
EXTENDS Integers, FiniteSets

CONSTANTS
  Recorder,   \* tasks that record outcomes
  Candidate,  \* peers
  Target,     \* destinations
  Agnostic,   \* stands for the bandit of no destination
  Reward,     \* what an outcome is worth, in halves: 0 for a failure, 1 and 2 for
              \* a delivery that was slow or immediate
  MaxCount    \* bound: outcomes recorded of a peer and a destination

ASSUME LearningAssumption ==
  Agnostic \notin Target /\ Reward \subseteq 0..2 /\ MaxCount \in Nat

Scope == Target \cup {Agnostic}

\* Q-estimates in twentieths: Q_ALPHA is three of them.
Q_INIT == 20
Q_ALPHA == 3

VARIABLES
  tried,     \* route_history: outcomes counted per peer
  bandit,    \* ucb_state: selections and sum of rewards
  saved,     \* what the store was given last
  flushed,   \* what of it sled has on disk
  qs,        \* q_state
  at,        \* how far each recorder is
  recorded,   \* what it records
  copied,    \* the state it serialised
  lost       \* history: the store failed to take the last state it was given

learningVars == <<tried, bandit, saved, flushed, qs, at, recorded, copied, lost>>

NoOutcome == [scope |-> Agnostic]

Bandit == [Scope \X Candidate -> [n : 0..MaxCount, sum : 0..(2 * MaxCount)]]

LearningTypeOK ==
  /\ tried   \in [Candidate -> 0..MaxCount]
  /\ bandit  \in Bandit
  /\ {saved, flushed} \subseteq Bandit
  /\ qs      \in [Target \X Candidate -> 0..Q_INIT]
  /\ at      \in [Recorder -> {"idle", "reward", "persist", "save"}]
  /\ recorded \in [Recorder -> [scope : Scope, peer : Candidate, reward : Reward] \cup {NoOutcome}]
  /\ copied  \in [Recorder -> Bandit]
  /\ lost    \in BOOLEAN

NoCounts == [k \in Scope \X Candidate |-> [n |-> 0, sum |-> 0]]

LearningInit ==
  /\ tried  = [p \in Candidate |-> 0]
  /\ bandit = NoCounts
  /\ saved = NoCounts /\ flushed = NoCounts
  /\ qs     = [k \in Target \X Candidate |-> Q_INIT]
  /\ at     = [t \in Recorder |-> "idle"]
  /\ recorded = [t \in Recorder |-> NoOutcome]
  /\ copied = [t \in Recorder |-> NoCounts]
  /\ lost   = FALSE

-----------------------------------------------------------------------------

\* record_route_success, record_route_failure: count under the lock of
\* route_history; record_route_outcome_toward has no such step.
StartRecord(t, s, p, r) ==
  /\ at[t] = "idle"
  /\ tried[p] < MaxCount \/ s # Agnostic
  /\ tried'   = IF s = Agnostic THEN [tried EXCEPT ![p] = @ + 1] ELSE tried
  /\ recorded' = [recorded EXCEPT ![t] = [scope |-> s, peer |-> p, reward |-> r]]
  /\ at'      = [at EXCEPT ![t] = "reward"]
  /\ UNCHANGED <<bandit, saved, flushed, qs, copied, lost>>

\* Deviation: the state is cloned and its lock released before it is saved.
NeverHeld == TRUE

\* No task holds ucb_state for reading.
NotHeld == \A u \in Recorder : at[u] # "save"

\* UcbState::record_reward and DestBandit::record_reward, under the write lock;
\* the mean they keep is sum / n.
RecordReward(t) ==
  /\ at[t] = "reward" /\ NotHeld
  /\ LET k == <<recorded[t].scope, recorded[t].peer>> IN
     /\ bandit[k].n < MaxCount
     /\ bandit' = [bandit EXCEPT ![k] = [n |-> @.n + 1, sum |-> @.sum + recorded[t].reward]]
  /\ at'      = [at EXCEPT ![t] = "persist"]
  /\ recorded' = [recorded EXCEPT ![t] = NoOutcome]
  /\ UNCHANGED <<tried, saved, flushed, qs, copied, lost>>

\* persist_ucb_state: the read lock is held from here to the end of the save.
Serialise(t) ==
  /\ at[t] = "persist"
  /\ copied' = [copied EXCEPT ![t] = bandit]
  /\ at'     = [at EXCEPT ![t] = "save"]
  /\ UNCHANGED <<tried, bandit, saved, flushed, qs, recorded, lost>>

\* SledRouterStore::save is best-effort.
Save(t) ==
  /\ at[t] = "save"
  /\ \/ saved' = copied[t] /\ lost' = FALSE
     \/ saved' = saved /\ lost' = TRUE
  /\ at'     = [at EXCEPT ![t] = "idle"]
  /\ copied' = [copied EXCEPT ![t] = NoCounts]
  /\ UNCHANGED <<tried, bandit, flushed, qs, recorded>>

\* QRoutingState::update.
Moved(q, target) == ((20 - Q_ALPHA) * q + Q_ALPHA * target) \div 20

\* q_record: towards what the neighbour advertised, or towards 0.
QRecord(d, p, hop) ==
  /\ qs' = [qs EXCEPT ![<<d, p>>] = Moved(@, hop)]
  /\ UNCHANGED <<tried, bandit, saved, flushed, at, recorded, copied, lost>>

\* sled's background flush.
StoreFlushed ==
  /\ flushed' = saved
  /\ UNCHANGED <<tried, bandit, saved, qs, at, recorded, copied, lost>>

\* The process starts again (with_store): only the bandit comes back, and of it
\* what had been flushed when the process was killed.
RestartRouter ==
  /\ tried'  = [p \in Candidate |-> 0]
  /\ saved' \in {saved, flushed} /\ bandit' = saved' /\ flushed' = saved'
  /\ qs'     = [k \in Target \X Candidate |-> Q_INIT]
  /\ at'     = [t \in Recorder |-> "idle"]
  /\ recorded' = [t \in Recorder |-> NoOutcome]
  /\ copied' = [t \in Recorder |-> NoCounts]
  /\ lost'   = FALSE

LearningNext ==
  \/ \E t \in Recorder, s \in Scope, p \in Candidate, r \in Reward : StartRecord(t, s, p, r)
  \/ \E t \in Recorder : RecordReward(t) \/ Serialise(t) \/ Save(t)
  \/ \E d \in Target, p \in Candidate, hop \in {0, Q_INIT} : QRecord(d, p, hop)
  \/ StoreFlushed \/ RestartRouter

LearningSpec == LearningInit /\ [][LearningNext]_learningVars

-----------------------------------------------------------------------------

\* The store is never left behind: once every task that recorded an outcome has
\* saved, the store has the state in memory, though the tasks save one after
\* the other and a later save could hold an earlier state (persist_ucb_state
\* keeps the read lock until the store has the state).
StoreCaughtUp ==
  (\A t \in Recorder : at[t] \in {"idle", "reward"}) => lost \/ saved = bandit

=============================================================================
