--------------------------- MODULE MCAnalysisJobs ---------------------------
(* Small instances of AnalysisJobs for TLC.                                *)
EXTENDS AnalysisJobs, TLC

\* Interchangeable identities; sound only where no temporal property but
\* action properties is checked.
Symmetry ==
  Permutations(Requests) \cup Permutations(Projects) \cup Permutations(Workers)
    \cup Permutations(Cancellers)
=============================================================================
