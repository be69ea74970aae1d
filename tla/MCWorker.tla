------------------------------ MODULE MCWorker ------------------------------
EXTENDS Worker, FiniteSets, TLC

CONSTANTS w1, w2, w3

MCSymmetry == Permutations(Workers)
=============================================================================
