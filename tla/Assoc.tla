--------------------------------- MODULE Assoc ---------------------------------
(* Lists of names with values, as partial functions from names to values.     *)

Put(f, k, v) == [x \in DOMAIN f \cup {k} |-> IF x = k THEN v ELSE f[x]]
Without(f, k) == [x \in DOMAIN f \ {k} |-> f[x]]
================================================================================
