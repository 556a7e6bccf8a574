-------------------------- MODULE VersionedConfig --------------------------
(***************************************************************************)
(* What pushing numbered rulesets to a managed host promises, whatever the *)
(* transport loses and whoever else pushes: a host only installs a ruleset *)
(* that was sent to it, under the number it was sent with; it never goes   *)
(* back to an older number, and never swaps the ruleset of the number it   *)
(* has; what the control plane records as applied was installed.           *)
(***************************************************************************)
EXTENDS Naturals

CONSTANTS Rulesets,  \* the documents that can be pushed
          NONE       \* no document

VARIABLES issued,    \* the numbered rulesets that have been sent
          installed, \* those the host has installed, now or in the past
          current,   \* the one the host has on disk
          confirmed  \* the one recorded as applied

vcVars == <<issued, installed, current, confirmed>>

Nothing == [rev |-> 0, rules |-> NONE]

Init ==
  /\ issued = {} /\ installed = {}
  /\ current = Nothing /\ confirmed = Nothing

(* Numbered rulesets are sent. A control plane that lost count may use a   *)
(* number again, with another ruleset.                                     *)
Issue ==
  /\ issued \subseteq issued'
  /\ issued' \subseteq [rev : Nat \ {0}, rules : Rulesets]
  /\ UNCHANGED <<installed, current, confirmed>>

Install ==
  /\ current' \in issued
  /\ current'.rev > current.rev \/ current' = current
  /\ installed' = installed \union {current'}
  /\ UNCHANGED <<issued, confirmed>>

(* A record may be late, or an older one be put back; it is never of       *)
(* something that was not installed.                                       *)
Record ==
  /\ confirmed' \in installed \union {Nothing}
  /\ UNCHANGED <<issued, installed, current>>

Next == Issue \/ Install \/ Record

Spec == Init /\ [][Next]_vcVars
=============================================================================
