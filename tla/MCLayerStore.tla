---------------------------- MODULE MCLayerStore ----------------------------
(* The registry offers two manifests that share a layer.                    *)
EXTENDS LayerStore, TLC

CONSTANTS d1, d2, d3

MCOffers == {[layers |-> {d1}, config |-> d2], [layers |-> {d1}, config |-> d3]}

Symmetry == Permutations(Clients) \cup Permutations(Names)
=============================================================================
