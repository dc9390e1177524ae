---------------------------- MODULE MCReplication ----------------------------
(* Replication with the files that its runs of one question use. *)
EXTENDS Replication

MCOneFile == <<"a">>
MCTwoFiles == <<"a", "b">>
MCNoIndex == [f \in Files |-> NoFile]
MCAllOnOne == [f \in Files |-> {1}]
=============================================================================
