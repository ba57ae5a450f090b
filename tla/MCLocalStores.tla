---------------------------- MODULE MCLocalStores ----------------------------
EXTENDS LocalStores, TLC

Interchangeable == Permutations(Devices) \cup Permutations(Vals)
=============================================================================
