---------------------------- MODULE MCModelSwitch ----------------------------
EXTENDS ModelSwitch, TLC

MCAsked == Kinds

MCSymmetry == Permutations(Workers) \cup Permutations(Models)
=============================================================================
