---------------------------- MODULE OrderedScan -----------------------------
(***************************************************************************)
(* What a walk over a tree promises its caller: the items whose keys lie   *)
(* in Wanted(contents) are handed over one at a time, in ascending order,  *)
(* none skipped, none twice; the walk may stop with an error at any time,  *)
(* and says it is complete only when nothing is left.                      *)
(***************************************************************************)
EXTENDS Integers, Sequences

VARIABLES
  left,        \* the keys still to be handed over
  delivered,   \* the keys handed over so far, in order
  outcome      \* "running", "complete" or "failed"

scanVars == <<left, delivered, outcome>>

CONSTANT Contents   \* the key sets a walk may be asked to deliver

Init ==
  /\ left \in Contents
  /\ delivered = <<>>
  /\ outcome = "running"

(* The smallest key that is left is handed over.                           *)
Deliver ==
  /\ outcome = "running"
  /\ \E k \in left :
       /\ \A j \in left : k <= j
       /\ delivered' = Append(delivered, k)
       /\ left' = left \ {k}
  /\ UNCHANGED outcome

Complete ==
  /\ outcome = "running"
  /\ left = {}
  /\ outcome' = "complete"
  /\ UNCHANGED <<left, delivered>>

Fail ==
  /\ outcome = "running"
  /\ outcome' = "failed"
  /\ UNCHANGED <<left, delivered>>

Next == Deliver \/ Complete \/ Fail

Spec == Init /\ [][Next]_scanVars
=============================================================================
