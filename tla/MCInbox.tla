-------------------------------- MODULE MCInbox --------------------------------
(* Instances of InboxDrafts for TLC. *)
EXTENDS InboxDrafts

CONSTANTS
  d1, d2, c1,
  MaxImports  \* conversations saved, and requests that may still save one

Busy == {c \in Callers : caller[c].step # "idle"}
MayImport ==
  {c \in Callers : caller[c].step \notin {"idle", "joined", "link", "release", "finish"}}

(* Three shapes, each with its own bounds: two requests that meet and no   *)
(* drafting, before a message those of the dashboard, with a message one   *)
(* of them and a command, the command not reading the inbox and the        *)
(* dashboard not all conversations; drafting beside one inbox request,     *)
(* every save succeeding and nobody dying; drafting alone, with failed     *)
(* saves and a crash.                                                      *)
NoDrafting ==
  /\ worker = NoWorker /\ knowledge = 0
  /\ \A x \in Copies : ~asking[x] /\ \A i \in Inputs : drafted[x][i] = 0
Meeting ==
  /\ NoDrafting /\ crashes + hh <= 1
  /\ Cardinality(Busy) <= 2 /\ (hh = 1 => ~(Dashboard \subseteq Busy))
  /\ \A c \in Cli : caller[c].target \notin (IF hh = 1 THEN {"inbox", "conversation"} ELSE {"inbox"})
  /\ \A c \in Dashboard : caller[c].target # "conversations"
OneRequest ==
  /\ crashes = 0 /\ hh + knowledge <= 2
  /\ drafted["mem"] = drafted["disk"] /\ asking["mem"] = asking["disk"]
  /\ Cardinality(Busy) <= 1 /\ \A c \in Busy : caller[c].target = "inbox"
DraftingAlone == Busy = {} /\ hh <= 1

Bounded ==
  /\ disk.reads + Cardinality(MayImport) <= MaxImports
  /\ Meeting \/ OneRequest \/ DraftingAlone

(* Requests of the dashboard are alike: a new one is the first that is     *)
(* free.                                                                   *)
FirstFree == d2 \in Busy' \ Busy => d1 \in Busy

MCNext == Next /\ Bounded' /\ FirstFree
MCSpec == Init /\ [][MCNext]_vars
MCFairSpec == MCSpec /\ Fairness
===============================================================================
