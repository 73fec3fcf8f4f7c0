--------------------------- MODULE MCSubscription ---------------------------
(* Instances of Subscription for TLC. *)
EXTENDS Subscription

CONSTANTS a, b, x, y

(* x is a JID at another domain with the local part of a; y has the local part
   of no account. *)
LocalParts == [k \in Aliases |-> IF k = x THEN a ELSE NOBODY]

(* a and b address each other; a also addresses itself, b also the aliases *)
SomePairs == {<<a, b>>, <<b, a>>, <<a, a>>} \cup {<<b, k>> : k \in Aliases}
OtherPairs == {<<a, b>>, <<b, a>>}
AliasPairs == {<<a, b>>, <<b, a>>, <<b, x>>}
=============================================================================
