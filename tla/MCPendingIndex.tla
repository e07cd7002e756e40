---------------------------- MODULE MCPendingIndex ----------------------------
(* Instances of PendingIndex for TLC: the sessions with a hook each, or s1 alone with *)
(* every hook that runs beside its first.                                      *)
EXTENDS PendingIndex

CONSTANTS s1, s2, p1

MCOf == [p \in Parallel |-> s1]

VARIABLE alone

PendingInit == Init /\ alone \in BOOLEAN

Rests(h) == IF alone THEN SessionOf(h) # s1 ELSE h \in Parallel

(* Bound: the sessions together see a manual index or a second turn, not both.      *)
Bounded == alone \/ index[Manual] = "none" \/ \A s \in Session : prompt[s] = 1

PendingNext ==
  /\ Next
  /\ UNCHANGED alone
  /\ \A h \in Hook : Rests(h) => pc'[h] = pc[h]
  /\ Bounded'

PendingSpec == PendingInit /\ [][PendingNext]_<<vars, alone>> /\ Fairness
=============================================================================
