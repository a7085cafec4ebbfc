--------------------------- MODULE MCVerifyRepair ---------------------------
(***************************************************************************)
(* Instances of VerifyRepair: contents with every kind of check and        *)
(* contents in which only a linter is found; failing runs whose output was *)
(* parsed into failures and failing runs whose output was not.             *)
(***************************************************************************)
EXTENDS VerifyRepair

CONSTANTS p1, p2, good, bare, unparsed, assertion

ChecksFound == [d \in Disks |-> IF d = good THEN Tiers ELSE {"Style"}]
Counts == [f \in Fingerprints |-> IF f = unparsed THEN 0 ELSE 2]
=============================================================================
