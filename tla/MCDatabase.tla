----------------------------- MODULE MCDatabase -----------------------------
(* The three layers of the database file, each driven through its whole    *)
(* interface.  A layer is checked against the abstraction that the one      *)
(* above it is built on, so a behaviour drives one layer and leaves the     *)
(* other two as they were constructed:                                      *)
(*   blocks   two pages over three blocks, two block contents, and a clock  *)
(*            that wraps after four requests;                               *)
(*   records  three blocks of 13 words for records of one and two words: a  *)
(*            block takes two records, or three if each has one word, so    *)
(*            that a slot is freed and filled again under another one, and  *)
(*            records are added after a block creation has failed;          *)
(*   tree     three names two levels deep over five addresses, so that      *)
(*            records are freed and used again.                             *)
EXTENDS BlockFile, BlockRecordFile, HierDatabase, TLC

VARIABLE part

ASSUME DatabaseAssumption == RecordFileAssumption

Parts == {"blocks", "records", "tree"}

DatabaseInit ==
  /\ part \in Parts
  /\ Init /\ RecordFileInit /\ TreeInit
  /\ part # "blocks" => disk = <<>>

DatabaseNext ==
  /\ UNCHANGED part
  /\ \/ part = "blocks"  /\ Next   /\ UNCHANGED <<recordVars, treeVars>>
     \/ part = "records" /\ RecordFileNext /\ UNCHANGED <<vars, treeVars>>
     \/ part = "tree"    /\ TreeNext /\ UNCHANGED <<vars, recordVars>>

DatabaseSpec == DatabaseInit /\ [][DatabaseNext]_<<part, vars, recordVars, treeVars>>

Symmetry == Permutations(Addr \ {Root})
ThreeNames == {1, 2, 3}
ShortAndLong == {<<"a">>, <<"b", "c">>}
=============================================================================
