------------------------------- MODULE MCReorg ------------------------------
\* Model values for the TLC runs of Reorg.
EXTENDS Reorg, TLC
=============================================================================
