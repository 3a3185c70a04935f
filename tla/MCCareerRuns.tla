----------------------------- MODULE MCCareerRuns ------------------------------
(* A small instance of CareerRuns for TLC.                                 *)
EXTENDS CareerRuns

CONSTANTS s1, s2, k1

(* Either the two services share the store, or the first one and the       *)
(* command, started in the first hour.  A day is one of three: fine, with  *)
(* a failed item all the same; with errors that belong to no item, and a   *)
(* stage that fails; or failed twice.  A command is fine with a failed     *)
(* item or fails.  Every verdict remains possible, and a stage has no      *)
(* item, one or two.                                                       *)
Stage(outcome, list) == [outcome |-> outcome, items |-> list]
ModelDays == {
  <<Stage("ok", <<"FAILED">>), Stage("ok", <<>>)>>,
  <<Stage("errors", <<>>), Stage("failed", <<"FAILED">>)>>,
  <<Stage("failed", <<"fine", "FAILED">>), Stage("failed", <<"FAILED">>)>>}
ModelCommands == {Stage("ok", <<"FAILED">>), Stage("failed", <<>>)}

Bounded ==
  /\ pc[s2] # "idle" => pc[k1] = "idle"
  /\ job[k1].now = Epoch
  /\ job[k1].stages # <<>> => job[k1].stages[1] \in ModelCommands
  /\ \A s \in Services : \E day \in ModelDays : job[s].stages = SubSeq(day, 1, Len(job[s].stages))

(* Nothing else is kept from the first service, and it alone has to be     *)
(* fair.                                                                   *)
MCNext == Next /\ Bounded'
MCSpec == Init /\ [][MCNext]_vars
MCFairSpec == MCSpec /\ WF_vars(Tick) /\ Fairness(s1)
=============================================================================
