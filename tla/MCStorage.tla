----------------------------- MODULE MCStorage -----------------------------
(* Instances of Storage small enough for TLC. *)
EXTENDS Storage

CONSTANTS w1, w2, first, influxdb, second, directory

(* Two CSV backends on one output_dir, as StorageManager warns about. *)
MCBackends == <<first, influxdb, second>>
MCFile == [c \in {first, second} |-> directory]
(* One thread calls twice, the other once. *)
MCRows == [w \in Writers |-> IF w = w1 THEN 2 ELSE 1]
=============================================================================
