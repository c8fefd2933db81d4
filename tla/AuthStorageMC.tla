---------------------------- MODULE AuthStorageMC ----------------------------
(* Two instances of the program with a call of getApiKey each, and a token   *)
(* and a key in the file they share.                                         *)
EXTENDS AuthStorage

OwnInstance == [c \in {"c1", "c2"} |-> IF c = "c1" THEN "i1" ELSE "i2"]
TokenAndKey == [p \in {"oauth", "key"} |-> IF p = "oauth" THEN 1 ELSE 2]
=============================================================================
