-------------------------- MODULE MCMediaDatagrams --------------------------
(* Instances of MediaDatagrams for TLC. *)
EXTENDS MediaDatagrams

Sizes == {0, 1, 3, 4, 5}
PayloadLimits == {2}
=============================================================================
