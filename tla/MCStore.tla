------------------------------ MODULE MCStore ------------------------------
(* An instance of ConfigStore: one slot of one or two fields over two pages, *)
(* saved and erased by two tasks.                                            *)
EXTENDS ConfigStore, TLC

MCBootOrder == <<"profile">>
MCSizes == {1, 2}
Symmetry == Permutations(Clients)
=============================================================================
