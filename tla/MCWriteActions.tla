----------------------------- MODULE MCWriteActions -----------------------------
(* Small instances of WriteActions for TLC.                                *)
EXTENDS WriteActions, TLC

Symmetry == Permutations(Actions) \cup Permutations(Drafts)

(* Two bounds, one or the other: one draft that may be edited, or drafts   *)
(* that compete and are not.                                               *)
Untouched(d, view) ==
  /\ view.drafts[d] = [status |-> "GENERATED", text |-> 0]
  /\ \A a \in Actions : view.actions[a].draft # d

OneDraft ==
  \E d \in Drafts : \A e \in Drafts \ {d} :
    Untouched(e, disk) /\ \A p \in Procs : Untouched(e, mem[p])

NoEdit ==
  \A d \in Drafts : disk.drafts[d].text = 0 /\ \A p \in Procs : mem[p].drafts[d].text = 0

MCNext == Next /\ (OneDraft' \/ NoEdit')
MCSpec == Init /\ [][MCNext]_vars
=============================================================================
