------------------------------ MODULE MCInbox ------------------------------
(***************************************************************************)
(* Inbox for TLC, in two halves that one run checks side by side: tasks    *)
(* that append while a client watches, and messages that are sent,         *)
(* acknowledged, exported and imported while nobody watches.  Both at once *)
(* are too many states.                                                    *)
(***************************************************************************)
EXTENDS Inbox

VARIABLE half

HalfInit == Init /\ half \in {"watched", "sending"}

HalfNext ==
  /\ UNCHANGED half
  /\ \/ \E t \in Task : Push(t)
     \/ Restart
     \/ /\ half = "watched"
        /\ \/ \E t \in Task : Receive(t)
           \/ \E c \in Client : Watch(c) \/ GiveUp(c)
     \/ /\ half = "sending"
        /\ \/ \E t \in Task : ImportBundle(t) \/ \E m \in Msg : SendMessage(t, m) \/ TakeAck(t, m)
           \/ ExportBundle \/ BundleUnusable

\* Inbox's fairness: the half without a watching client has no fair behaviour,
\* and is there for the invariants.
HalfSpec == HalfInit /\ [][HalfNext]_<<vars, half>> /\ Fairness

=============================================================================
