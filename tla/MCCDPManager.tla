---------------------------- MODULE MCCDPManager ----------------------------
(* Small instances of CDPManager for TLC, with its public calls in any order. *)
EXTENDS CDPManager, FiniteSetsExt, TLC

\* Tabs and sessions are told apart by nothing but their identity.
TabSymmetry == Permutations(Target) \cup Permutations(Session)

\* Bound: commands and messages on their way, abandoned calls' among them.
CONSTANT MaxBacklog
Backlog == Len(cmds) + Cardinality(pending) + Len(wire) + Len(m_MessageQueue)
\* Bound: the second browser sends no events other than load events; with a browser the
\* time-out is set, which only adds to what a wait or a write can do.
SmallBacklog ==
  /\ Backlog <= MaxBacklog
  /\ launches > 0 => m_Timeout
  /\ launches = 2 => \A i \in DOMAIN wire : wire[i].method # "other"
=============================================================================
