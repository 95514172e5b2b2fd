-------------------------------- MODULE Maps --------------------------------
(***************************************************************************)
(* Maps as the code keeps them (std::map, unique_ptr members): partial     *)
(* functions whose domain is the set of keys that are present.             *)
(***************************************************************************)
EXTENDS Functions

EmptyMap == [x \in {} |-> {}]

Bind(f, x, v) == [y \in DOMAIN f \cup {x} |-> IF y = x THEN v ELSE f[y]]

Unbind(f, x) == Restrict(f, DOMAIN f \ {x})
=============================================================================
