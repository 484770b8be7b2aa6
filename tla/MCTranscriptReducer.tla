------------------------- MODULE MCTranscriptReducer -------------------------
(* TranscriptReducer for TLC; the bounds are in the configurations.          *)
EXTENDS TranscriptReducer, TLC

\* No two tool ids, tool names or requests are told apart.
Symmetry == Permutations(ToolIds) \cup Permutations(Names) \cup Permutations(Requests)

=============================================================================
