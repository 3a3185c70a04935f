----------------------- MODULE MCControlledApplications -----------------------
(* Instances of ControlledApplications for TLC. *)
EXTENDS ControlledApplications, TLC

CONSTANTS p1, p2, f1, f2, n1, n2, n3, v1, v2

(* Two artifacts of one vacancy, one of another. *)
MCVacancyOf == n1 :> v1 @@ n2 :> v1 @@ n3 :> v2

Symmetry == Permutations(Commands) \cup Permutations(Files)

(* Two bounds, one or the other: every artifact is exported once at most,  *)
(* or there are two, one of them exported twice, and nobody has crashed.   *)
ExportedOnce == \A n \in Nonces : exports[n] <= 1
OneArtifactTwice ==
  /\ crashes = 0 /\ Cardinality({n \in Nonces : exports[n] > 0}) <= 2
  /\ \E n \in Nonces : \A m \in Nonces \ {n} : exports[m] <= 1

Bounded == ExportedOnce \/ OneArtifactTwice

MCNext ==
  \/ \E f \in Files, n \in Nonces : Export(f, n) /\ Bounded'
  \/ \E p \in Commands : Command(p)
  \/ Provider

MCSpec == Init /\ [][MCNext]_vars
===============================================================================
