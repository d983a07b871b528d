-------------------------- MODULE MCIndexPromotion --------------------------
(* Instances of IndexPromotion for TLC.                                     *)
EXTENDS IndexPromotion, TLC

CONSTANTS r1, r2, r3, f1, f2

(* r1 and r2 share the configuration rows, r3 has its own.                  *)
MixedProfiles == [r \in Release |-> IF r = r3 THEN f2 ELSE f1]
(* Every release is built with the same normalization profile.              *)
OneProfile == [r \in Release |-> f1]

Interchangeable == Permutations(Request) \cup Permutations(Alias)
=============================================================================
