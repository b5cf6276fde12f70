-------------------------------- MODULE Maps --------------------------------
(* Maps as the code's HashMaps: functions whose domain is the set of keys. *)
EXTENDS Functions

Empty == [x \in {} |-> x]

Put(f, k, v) == [x \in DOMAIN f \cup {k} |-> IF x = k THEN v ELSE f[x]]

Without(f, k) == Restrict(f, DOMAIN f \ {k})
=============================================================================
