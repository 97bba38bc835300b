------------------------------ MODULE MCStock ------------------------------
(* Instances of Stock for TLC. *)
EXTENDS Stock

CONSTANTS bag, shirt, red, blue

\* A plain product, and one with variants, of which one replaces the other.
Parents == [v \in {red, blue} |-> shirt]

\* Lines of both, in either order.
Carts == LET of(r, n) == [row |-> r, qty |-> n] IN
    {<<of(shirt, 1)>>, <<of(bag, 1), of(red, 1)>>, <<of(red, 1), of(bag, 2)>>}
=============================================================================
