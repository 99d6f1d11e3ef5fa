----------------------------- MODULE MCRepository -----------------------------
(* Two repositories of one package.                                        *)
EXTENDS Repository, TLC

CONSTANTS r1, r2, pkg

Alike == Permutations(Process)
Offers == {{<<pkg, 2>>}, {<<pkg, 1>>, <<pkg, 2>>}}
Three == {{<<pkg, 2>>, <<pkg, 3>>}}
Listings == {<<r1, r2, r1>>, <<r2>>, Missing}
AsNumbers == [v \in Version |-> v]
Backwards == [v \in Version |-> 10 - v]   \* "9" comes after "10"
==============================================================================
