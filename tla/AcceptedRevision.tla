-------------------------- MODULE AcceptedRevision --------------------------
(***************************************************************************)
(* What signed policy promises of a fleet's memory of the policy it runs:  *)
(* a register per acceptance file that only moves forward.  Once a         *)
(* revision above zero is on record the organization is settled, a lower   *)
(* revision is never recorded, and the same revision stands for the same   *)
(* document.                                                               *)
(***************************************************************************)
EXTENDS Naturals

CONSTANTS File, Org, Digest

VARIABLE accepted

Nothing == [org |-> "", revision |-> 0, digest |-> ""]

Entry == [org : Org, revision : Nat, digest : Digest] \cup {Nothing}

Advances(old, new) ==
  /\ new.revision >= old.revision
  /\ old.revision > 0 => new.org = old.org
  /\ old.revision > 0 /\ new.revision = old.revision => new.digest = old.digest

Init == accepted = [f \in File |-> Nothing]

Record(f) ==
  /\ accepted'[f] \in Entry \ {Nothing}
  /\ Advances(accepted[f], accepted'[f])
  /\ accepted' = [accepted EXCEPT ![f] = accepted'[f]]

Next == \E f \in File : Record(f)

Spec == Init /\ [][Next]_accepted
=============================================================================
