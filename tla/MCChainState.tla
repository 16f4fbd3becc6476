---------------------------- MODULE MCChainState ----------------------------
\* Model values and symmetry for the TLC runs of ChainState.
EXTENDS ChainState, TLC

NoteSymmetry == Permutations(Notes)
=============================================================================
