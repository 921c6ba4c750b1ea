----------------------------- MODULE MCRecordLog -----------------------------
EXTENDS RecordLog, TLC

\* Keys are symmetric: nothing in the log layout depends on which key.
MCSymmetry == Permutations(Keys)
=============================================================================
