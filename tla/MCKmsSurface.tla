----------------------------- MODULE MCKmsSurface -----------------------------
(* TLC instance of KmsSurface: three timer registrations, interchangeable.    *)
EXTENDS KmsSurface

Symmetry == Permutations(Tokens)
=============================================================================
