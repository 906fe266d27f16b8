---------------------------- MODULE MCTransfers -----------------------------
(* Transfers between a container and a player of two slots each.           *)
EXTENDS Transfers

a(n) == [item |-> "a", count |-> n]
b(n) == [item |-> "b", count |-> n]

\* Two stacks to move and nothing in the way; a full stack of the item first and an
\* empty slot after it; nothing but the wrong item; the wrong item and a full stack.
MCLayouts == {<<Empty, Empty, a(1), a(3)>>, <<a(3), Empty, a(3), Empty>>,
              <<b(1), b(3), a(3), b(2)>>, <<b(3), a(3), a(2), Empty>>}

\* A hopper, and a player who puts back.
MCOthersMoves == {<<1, 3>>, <<3, 1>>}

MCVerbs == [kind : {"deposit", "withdraw"}, count : {0, 2}, slot : {1}]
           \cup [kind : {"put", "one"}, count : {0}, slot : {1}]
           \cup [kind : {"all"}, count : {0}, slot : {1}]
=============================================================================
