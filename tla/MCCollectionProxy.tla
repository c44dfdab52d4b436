------------------------- MODULE MCCollectionProxy -------------------------
(* Small instances of CollectionProxy for TLC.                             *)
EXTENDS CollectionProxy, TLC

CONSTANTS q1, q2, q3, a, b

Proxies       == {q1, q2, q3}
Items         == {a, b}
ObjectVetoes  == {"object"}
AnyVetoes     == {"object", "proxy", "view"}
Symmetry      == Permutations(Proxy) \cup Permutations(Item)

=============================================================================
