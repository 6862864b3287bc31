---------------------------- MODULE MCHashTable ----------------------------
(* Instances of HashTable: three keys, two of them in one bin, and the     *)
(* patterns of up to three elements.                                       *)
EXTENDS HashTable, TLC
CONSTANTS k1, k2, k3
ThreeKeys == {k1, k2, k3}
TwoBins == [k \in ThreeKeys |-> IF k = k3 THEN 1 ELSE 0]
a == 97
b == 98
Names == k1 :> <<b>> @@ k2 :> <<b, a>> @@ k3 :> <<a, b, b>>
Both == {a, b}
Elements ==
  {[of |-> {a}, many |-> FALSE, text |-> <<a>>],
   [of |-> {b}, many |-> FALSE, text |-> <<ESCAPE, b>>],
   [of |-> {b}, many |-> FALSE, text |-> <<OPEN, 33, a, CLOSE>>],
   [of |-> Both, many |-> FALSE, text |-> <<OPEN, b, DASH, a, CLOSE>>],
   [of |-> Both, many |-> FALSE, text |-> <<ANY>>],
   [of |-> Both, many |-> TRUE, text |-> <<STAR>>]}
(* Two stars at the end are not read as one would be, and are left out.    *)
TwoStars(g) == Len(g) > 1 /\ g[Len(g)].many /\ g[Len(g) - 1].many
ShortGlobs == {g \in BoundedSeq(Elements, 3) : ~TwoStars(g)}
=============================================================================
