--------------------------- MODULE MCApiBoundary ---------------------------
(***************************************************************************)
(* Three processes: two of one revision, the second's clock half a second  *)
(* ahead, and one of a revision with another secret.                       *)
(***************************************************************************)
EXTENDS ApiBoundary

SecretValues == [p \in Processes |-> IF p = "new" THEN "secret2" ELSE "secret1"]

SkewValues == [p \in Processes |-> IF p = "old2" THEN 1 ELSE 0]
=============================================================================
