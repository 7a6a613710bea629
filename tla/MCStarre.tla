------------------------------ MODULE MCStarre ------------------------------
(* Small instances of Starre for TLC: the values of its constants. *)
EXTENDS Starre

CONSTANTS g, u  \* names of states

One == {<<g>>}
Two == {<<g>>, <<g, u>>, <<u, g>>}

(* PatchAll against the loop of the code: one difference after the other *)
ASSUME PatchAllIsFold ==
  \A t \in State, ds \in UNION {[1..k -> Patches] : k \in 0..3} :
    PatchAll(t, ds) = FoldLeft(Patch, t, ds)
=============================================================================
