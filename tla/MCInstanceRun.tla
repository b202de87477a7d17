--------------------------- MODULE MCInstanceRun ---------------------------
(* Small instances of InstanceRun. *)
EXTENDS InstanceRun

(* Two calls of SCAN, the first of which looks at two keys. *)
TwoPages == <<{"k1", "k2"}, {"k3"}>>
=============================================================================
