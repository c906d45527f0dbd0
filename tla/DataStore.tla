----------------------------- MODULE DataStore -----------------------------
(***************************************************************************)
(* RoDataStore over SQLite, in a file that outlives the process.  A put    *)
(* writes twice, and each statement is committed by itself: first the      *)
(* value table of the key (KeyStore), then the value.  The process may end *)
(* between the two.                                                        *)
(*                                                                         *)
(* Values are put by type and kept by table, and two types may share one.  *)
(* The second half of a put looks for the value in the table it has just   *)
(* written to the key, so it never finds the value a put of another type   *)
(* left, and the UPDATE it makes of a value it does find names no key.     *)
(***************************************************************************)
EXTENDS Integers

CONSTANTS
  Key, Value,
  DataType,    (* the RoDataTypes that are put                             *)
  NoValue

ASSUME StoreAssumption ==
  /\ NoValue \notin Value
  /\ DataType \subseteq {"None", "Bool", "Byte", "Int", "UInt", "Float", "String", "Blob"}

VARIABLES
  keyTable,    (* KeyStore: the value table of each key there              *)
  rows,        (* the value of each key in each value table                *)
  putting,     (* the put between its writes, or NoPut                     *)
  told,        (* history: what the last put of each key put               *)
  torn,        (* history: keys given a new table by a put cut before it   *)
               (* wrote the value, and not put since                       *)
  clobbered    (* history: keys whose value a put of another overwrote     *)

storeVars == <<keyTable, rows, putting, told, torn, clobbered>>

ValueTableForType ==
  [t \in {"Bool", "Byte", "Int", "UInt", "Float", "String", "Blob"} |->
     CASE t \in {"Bool", "Byte"} -> "NumStore"
       [] t \in {"Int", "UInt"} -> "IntStore"
       [] t = "Float" -> "RealStore"
       [] t = "String" -> "TextStore"
       [] t = "Blob" -> "BlobStore"]

Table == {"NumStore", "IntStore", "RealStore", "TextStore", "BlobStore"}

NoPut == [key |-> NoValue]
Put == [key : Key, value : Value, moved : BOOLEAN]

StoreInit ==
  /\ keyTable = [k \in Key |-> "absent"]
  /\ rows = [t \in Table |-> [k \in Key |-> NoValue]]
  /\ putting = NoPut
  /\ told = [k \in Key |-> NoValue] /\ torn = {} /\ clobbered = {}

\* What getValue finds; NoValue is a result it never assigned.
Stored(k) == IF keyTable[k] = "absent" THEN NoValue ELSE rows[keyTable[k]][k]

-----------------------------------------------------------------------------

\* Mutant: the type None is not refused.
PutKey_AnyType(k, v, t) ==
  /\ putting = NoPut
  /\ keyTable' = [keyTable EXCEPT ![k] = IF t = "None" THEN "" ELSE ValueTableForType[t]]
  /\ putting' = [key |-> k, value |-> v, moved |-> keyTable[k] # keyTable'[k]]
  /\ UNCHANGED <<rows, told, torn, clobbered>>

\* addKey, or updateKey where the table is another.
PutKey(k, v, t) ==
  /\ putting = NoPut
  /\ t # "None"
  /\ keyTable' = [keyTable EXCEPT ![k] = ValueTableForType[t]]
  /\ putting' = [key |-> k, value |-> v, moved |-> keyTable[k] # keyTable'[k]]
  /\ UNCHANGED <<rows, told, torn, clobbered>>

PutDone(k, v) ==
  /\ putting' = NoPut
  /\ told' = [told EXCEPT ![k] = v]
  /\ torn' = torn \ {k}

InsertValue ==
  LET k == putting.key
      t == keyTable[k]
  IN  /\ putting # NoPut
      /\ rows[t][k] = NoValue
      /\ rows' = [rows EXCEPT ![t][k] = putting.value]
      /\ PutDone(k, putting.value)
      /\ clobbered' = clobbered \ {k}
      /\ UNCHANGED keyTable

\* Mutant: removeValue is reached, and nothing inserts the value.
UpdateValue_Removes ==
  LET k == putting.key
      t == keyTable[k]
  IN  /\ putting # NoPut
      /\ rows[t][k] # NoValue
      /\ rows' = [rows EXCEPT ![t][k] = NoValue]
      /\ PutDone(k, putting.value)
      /\ clobbered' = clobbered \ {k}
      /\ UNCHANGED keyTable

\* Mutant: a value that is there already stays.
UpdateValue_KeepsValue ==
  LET k == putting.key
      t == keyTable[k]
  IN  /\ putting # NoPut
      /\ rows[t][k] # NoValue
      /\ PutDone(k, putting.value)
      /\ clobbered' = clobbered \ {k}
      /\ UNCHANGED <<keyTable, rows>>

\* Every row of the table is updated.
UpdateValue ==
  LET k == putting.key
      t == keyTable[k]
  IN  /\ putting # NoPut
      /\ rows[t][k] # NoValue
      /\ rows' = [rows EXCEPT ![t] =
                    [j \in Key |-> IF @[j] = NoValue THEN NoValue ELSE putting.value]]
      /\ PutDone(k, putting.value)
      /\ clobbered' = (clobbered \union {j \in Key : keyTable[j] = t}) \ {k}
      /\ UNCHANGED keyTable

\* The process ends between the writes, and another opens the file.
StoreCrash ==
  /\ putting # NoPut
  /\ putting' = NoPut
  /\ torn' = IF putting.moved THEN torn \union {putting.key} ELSE torn
  /\ UNCHANGED <<keyTable, rows, told, clobbered>>

StoreNext ==
  \/ \E k \in Key, v \in Value, t \in DataType : PutKey(k, v, t)
  \/ InsertValue \/ UpdateValue \/ StoreCrash

StoreSpec == StoreInit /\ [][StoreNext]_storeVars

-----------------------------------------------------------------------------

\* The types of the tables, of the put under way and of the histories.
StoreTypeOK ==
  /\ keyTable \in [Key -> Table \union {"absent"}]
  /\ rows \in [Table -> [Key -> Value \union {NoValue}]]
  /\ putting \in Put \union {NoPut}
  /\ told \in [Key -> Value \union {NoValue}]
  /\ torn \in SUBSET Key /\ clobbered \in SUBSET Key

\* The put of k is between its writes, and has changed the table of k.
Moving(k) == putting # NoPut /\ putting.key = k /\ putting.moved

(***************************************************************************)
(* A key in KeyStore has a value in the table it names, whatever tables it *)
(* was in before, unless a put that changed the table is, or was cut,      *)
(* between its writes: only then does getValue hand out a result it never  *)
(* assigned.                                                               *)
(***************************************************************************)
KnownKeyHasValue ==
  \A k \in Key :
    keyTable[k] # "absent" /\ Stored(k) = NoValue => Moving(k) \/ k \in torn

(***************************************************************************)
(* getValue gives what the last put of the key put, through any change of  *)
(* type and back, and any crash in the put of another key.  The exceptions *)
(* are the key whose table a put changed before it was cut, and the keys   *)
(* whose table an UPDATE made for another key overwrote.                   *)
(***************************************************************************)
ReadsWhatWasPut ==
  \A k \in Key :
    ~Moving(k) /\ k \notin torn \union clobbered => Stored(k) = told[k]
=============================================================================
