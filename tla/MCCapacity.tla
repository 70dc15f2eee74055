---------------------------- MODULE MCCapacity ----------------------------
EXTENDS Capacity, TLC
CONSTANTS o1, o2, a1, a2, s1, s2, w1, w2
MCSymmetry == Permutations({o1, o2}) \cup Permutations({a1, a2})
              \cup Permutations({w1, w2})
===========================================================================
