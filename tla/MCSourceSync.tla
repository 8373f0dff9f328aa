---------------------------- MODULE MCSourceSync ----------------------------
(* Small instances of SourceSync for TLC.                                   *)
EXTENDS SourceSync, TLC

CONSTANT s1

\* All documents belong to the first sync; another one may overlap with it.
FirstSync == [j \in Jobs |-> s1]

\* The documents are interchangeable, and so are the finish requests.
Symmetry == Permutations(Jobs) \cup Permutations(Requests)

\* Bound: a second finish request comes only while the counts are small.
FewErrors ==
  (\A r \in Requests : finish[r].pc # "idle")
    => /\ \A s \in Syncs : sync[s].errors <= 1 /\ batch[s].errors <= 1
       /\ \A r \in Requests : finish[r].errors <= 1
=============================================================================
