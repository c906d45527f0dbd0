----------------------------- MODULE MCLibrary -----------------------------
(***************************************************************************)
(* The parts that share no state with the network and the game states, nor *)
(* with one another, side by side: a behaviour chooses one of them at the  *)
(* start and is a behaviour of it.                                         *)
(***************************************************************************)
EXTENDS DataStore, PacketDb, PacketReader, GrfArchive, GlobPattern, DataInfo, TLC

VARIABLE part

\* Two archives of one file name, from two folders.
MCBaseName == [g \in Grf |-> "data.grf"]

MCSymmetry == Permutations(Conn) \union Permutations(Grf) \union Permutations(Name)

MCInit ==
  /\ part \in {"store", "db", "reader", "grf", "glob", "info"}
  /\ StoreInit /\ DbInit /\ ReaderInit /\ GrfInit /\ GlobInit /\ InfoInit
  /\ part # "grf" => \A g \in Grf, n \in Name : disk[g][n] = 0
  /\ part # "glob" => pattern = <<>> /\ subject = <<>>

MCNext ==
  \/ part = "store" /\ StoreNext
     /\ UNCHANGED <<part, dbVars, readerVars, grfVars, globVars, infoVars>>
  \/ part = "db" /\ DbNext
     /\ UNCHANGED <<part, storeVars, readerVars, grfVars, globVars, infoVars>>
  \/ part = "reader" /\ ReaderNext
     /\ UNCHANGED <<part, storeVars, dbVars, grfVars, globVars, infoVars>>
  \/ part = "grf" /\ GrfNext
     /\ UNCHANGED <<part, storeVars, dbVars, readerVars, globVars, infoVars>>
  \/ part = "glob" /\ GlobNext
     /\ UNCHANGED <<part, storeVars, dbVars, readerVars, grfVars, infoVars>>
  \/ part = "info" /\ InfoNext
     /\ UNCHANGED <<part, storeVars, dbVars, readerVars, grfVars, globVars>>

MCSpec == MCInit /\ [][MCNext]_<<part, storeVars, dbVars, readerVars, grfVars, globVars, infoVars>>

\* The types of every part, with at most one id for each GRF.
LibraryTypeOK == StoreTypeOK /\ DbTypeOK /\ ReaderTypeOK /\ GrfTypeOK
=============================================================================
