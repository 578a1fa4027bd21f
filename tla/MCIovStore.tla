----------------------------- MODULE MCIovStore -----------------------------
(***************************************************************************)
(* Instances of IovStore: a struct by time with open and bounded           *)
(* intervals, and a struct by run and seq.                                 *)
(***************************************************************************)
EXTENDS IovStore, TLC

At(b, e, r, s) == [bt |-> b, et |-> e, run |-> r, seq |-> s]

(* Open intervals from three begin times, and a bounded one over two.      *)
TimeCoords == {At(1, 0, 0, 0), At(2, 0, 0, 0), At(3, 0, 0, 0), At(2, 4, 0, 0)}
TimeAsks == {[evt |-> t, run |-> 0, seq |-> 0] : t \in 1..3}

RunCoords == {At(0, 0, 1, 0), At(0, 0, 1, 1)}
RunAsks == {[evt |-> 0, run |-> 1, seq |-> s] : s \in 0..1}

TwoFlavors == <<"sim", "ofl">>
OneFlavor == <<"ofl">>

Symmetry == Permutations(Ids) \union Permutations(Writers)
=============================================================================
