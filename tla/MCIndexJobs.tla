----------------------------- MODULE MCIndexJobs -----------------------------
(* Small instances of IndexJobs for TLC.                                    *)
EXTENDS IndexJobs

CONSTANTS w1, w2

\* A rolling upgrade: w2 already runs with another vector_index_version and no
\* longer serves the last row, w1 still does.
RollingUpgrade == {<<w2, j>> : j \in {k \in Jobs : \A i \in Jobs : i <= k}}
=============================================================================
