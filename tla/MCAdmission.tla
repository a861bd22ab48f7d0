---- MODULE MCAdmission ----
EXTENDS Admission, TLC

Symmetry == Permutations(Request)
====
