------------------------------ MODULE NatTable ------------------------------
(***************************************************************************)
(* What the connection table promises the data path, whatever the CPUs,    *)
(* the clock and the collector do: a map from connection tuples to         *)
(* translations.  A translation can be added for a tuple that has none and *)
(* it can be forgotten; while it is in the table it never changes.         *)
(***************************************************************************)

CONSTANT Bindings        \* the records [key, nat, direction] the table may hold

VARIABLE table           \* the bindings in force

Init == table = {}

(***************************************************************************)
(* A binding is only ever added for a tuple without one.                   *)
(***************************************************************************)
Establish(b) ==
  /\ \A other \in table : other.key # b.key
  /\ table' = table \cup {b}

Forget(b) ==
  /\ b \in table
  /\ table' = table \ {b}

Next == \E b \in Bindings : Establish(b) \/ Forget(b)

Spec == Init /\ [][Next]_table
=============================================================================
