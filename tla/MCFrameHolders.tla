---------------------------- MODULE MCFrameHolders ----------------------------
EXTENDS FrameHolders, TLC

CONSTANTS s1, s2, s3

MCHolders == {s1, s2, s3}

HolderSymmetry == Permutations(MCHolders)

=============================================================================
