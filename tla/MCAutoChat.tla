------------------------------- MODULE MCAutoChat ------------------------------
(* Model-checking definitions for AutoChat.                                *)
EXTENDS AutoChat, TLC

Symmetry == Permutations(Processes) \cup Permutations(Attempts)

(* One dimension at a time: several processes, tied times, overlapping     *)
(* pages, or a crash.                                                      *)
Fresh(p) ==
  pc[p] = "idle" /\ run[p] = IdleRun /\ job[p] = NoJob /\ ignored[p] = {} /\ mine[p] = {}

OneProcess == \E p \in Processes : \A q \in Processes \ {p} : Fresh(q)
OneChat ==
  \A p \in Processes : IF pc[p] = "listing" THEN Len(run[p].chats) = 1 ELSE run[p].chats = <<>>
NoTies == \A i \in DOMAIN history : history[i].time = i

Bounded ==
  \/ crashes = 0 /\ OneChat /\ NoTies
  \/ crashes = 0 /\ OneChat /\ OneProcess
  \/ crashes = 0 /\ NoTies /\ OneProcess
  \/ OneChat /\ NoTies /\ OneProcess

MCNext == Next /\ Bounded'
MCSpec == Init /\ [][MCNext]_vars
=============================================================================
