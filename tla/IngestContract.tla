-------------------------- MODULE IngestContract --------------------------
(***************************************************************************)
(* What the ingestion pipeline promises about the rows of the relational   *)
(* store, whatever the goroutines do in between: the life of a chunk       *)
(* follows the status diagram of docs/system_overview.md (section 9), is   *)
(* never taken back, and an input is announced as completed only when      *)
(* every one of its chunks is.                                             *)
(*                                                                         *)
(* The announcement may be withdrawn: the pipeline writes whole rows from  *)
(* copies, and a stale copy can put an input back to processing.  The      *)
(* diagram has no such edge; CognifyPipeline!CompletedIsFinal is about it. *)
(***************************************************************************)
CONSTANTS
  Input,   \* the inputs
  Part     \* Part[p] is the set of the chunks of input p

VARIABLES
  life,      \* processing_status of each chunk
  announced  \* the inputs whose row says completed

contractVars == <<life, announced>>

Parts == UNION {Part[p] : p \in Input}

ContractInit ==
  /\ life = [c \in Parts |-> "none"]
  /\ announced = {}

\* One chunk moves along one edge of the diagram.
Move(c, from, to) ==
  /\ life[c] \in from
  /\ life' = [life EXCEPT ![c] = to]
  /\ UNCHANGED announced

Register(c) == Move(c, {"none"}, "pending")
Begin(c)    == Move(c, {"pending"}, "processing")
Draft(c)    == Move(c, {"pending", "processing"}, "cognified")
Complete(c) == Move(c, {"cognified"}, "completed")
GiveUp(c)   == Move(c, {"pending", "processing", "cognified"}, "failed")

Announce(p) ==
  /\ Part[p] # {}
  /\ \A c \in Part[p] : life[c] = "completed"
  /\ announced' = announced \cup {p}
  /\ UNCHANGED life

Withdraw(p) ==
  /\ announced' = announced \ {p}
  /\ UNCHANGED life

ContractNext ==
  \/ \E c \in Parts : Register(c) \/ Begin(c) \/ Draft(c) \/ Complete(c) \/ GiveUp(c)
  \/ \E p \in Input : Announce(p) \/ Withdraw(p)

ContractSpec == ContractInit /\ [][ContractNext]_contractVars
=============================================================================
