------------------------------- MODULE Supply -------------------------------
(***************************************************************************)
(* What the fee rules promise about the money in circulation, without      *)
(* saying who holds it: it comes into being with the admin, the admin may  *)
(* set balances while initialization is enabled, and apart from that every *)
(* operation burns one of a few fixed amounts and nothing is ever minted.  *)
(***************************************************************************)
EXTENDS Integers

CONSTANTS
  Launched,  \* what comes into being with the admin
  Burns      \* the amounts an operation may burn, naturals

VARIABLES phase, supply

Init == phase = "unset" /\ supply = 0

Launch == phase = "unset" /\ phase' = "enabled" /\ supply' = Launched

Initialize == phase = "enabled" /\ supply' \in Nat /\ UNCHANGED phase

Close == phase = "enabled" /\ phase' = "disabled" /\ UNCHANGED supply

Burn == /\ phase # "unset"
        /\ supply - supply' \in Burns
        /\ UNCHANGED phase

Next == Launch \/ Initialize \/ Close \/ Burn

Spec == Init /\ [][Next]_<<phase, supply>>
=============================================================================
