--------------------------- MODULE MCStringTable ---------------------------
(***************************************************************************)
(* Instances of StringTable: four strings in a table that grows from two   *)
(* slots to four and to eight, and pools that take two strings or one.     *)
(***************************************************************************)
EXTENDS StringTable

CONSTANTS s1, s2, s3, s4

FourStrings == {s1, s2, s3, s4}

\* 3 and 7 share a slot in a table of four, none does in one of eight.
ThreeHashes == {3, 4, 7}

\* s3 does not fit into a pool of 48 bytes.
Sizes == [s \in FourStrings |-> IF s = s3 THEN 50 ELSE IF s = s2 THEN 32 ELSE 17]
=============================================================================
