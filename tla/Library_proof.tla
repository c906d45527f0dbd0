--------------------------- MODULE Library_proof ---------------------------
(***************************************************************************)
(* The parts that share no state with the network: the data store for any  *)
(* keys, values and types, any set of archives loaded in any order by any  *)
(* number of processes, patterns and names of any length, tables of texts  *)
(* of any size, and all the parts of MCLibrary side by side.               *)
(***************************************************************************)
EXTENDS MCLibrary, Packets_proof, FiniteSetTheorems

-----------------------------------------------------------------------------
(* The data store.                                                         *)


(***************************************************************************)
(* Inductive once the key of a put between its writes is known to have a   *)
(* table: the second write goes to a table that exists.                    *)
(***************************************************************************)
PutHasTable == putting # NoPut => keyTable[putting.key] # "absent"

StoreInv == StoreTypeOK /\ PutHasTable /\ KnownKeyHasValue /\ ReadsWhatWasPut

LEMMA StoreInitially == StoreInit => StoreInv
<1> SUFFICES ASSUME StoreInit PROVE StoreInv
  OBVIOUS
<1>1. StoreTypeOK
  BY DEF StoreInit, StoreTypeOK, Put, NoPut
<1>2. PutHasTable /\ KnownKeyHasValue /\ ReadsWhatWasPut
  BY DEF StoreInit, PutHasTable, KnownKeyHasValue, ReadsWhatWasPut, Stored, Moving, NoPut
<1> QED
  BY <1>1, <1>2 DEF StoreInv

LEMMA TablesAreTables == \A t \in DataType : t # "None" => ValueTableForType[t] \in Table
  BY StoreAssumption DEF ValueTableForType, Table

LEMMA NoTableIsAbsent == "absent" \notin Table
  BY DEF Table

LEMMA PutKeyKeeps ==
  ASSUME StoreInv, NEW k \in Key, NEW v \in Value, NEW t \in DataType, PutKey(k, v, t)
  PROVE  StoreInv'
<1> DEFINE T == ValueTableForType[t]
<1>1. T \in Table
  BY TablesAreTables DEF PutKey
<1>2. /\ putting' = [key |-> k, value |-> v, moved |-> keyTable[k] # keyTable'[k]]
      /\ putting'.key = k /\ putting'.moved = (keyTable[k] # keyTable'[k])
      /\ putting' # NoPut
  BY DEF PutKey, NoPut
<1>3. StoreTypeOK'
  BY <1>1, <1>2 DEF PutKey, StoreInv, StoreTypeOK, Put
<1>4. \A j \in Key : keyTable'[j] # keyTable[j] => Moving(j)'
  BY <1>2 DEF PutKey, StoreInv, StoreTypeOK, Moving
<1>5. \A j \in Key : ~Moving(j)
  BY DEF PutKey, Moving
<1>6. \A j \in Key : ~Moving(j)' => Stored(j)' = Stored(j) /\ keyTable'[j] = keyTable[j]
  BY <1>4 DEF PutKey, Stored
<1>7. UNCHANGED <<told, torn, clobbered>>
  BY DEF PutKey
<1>8. KnownKeyHasValue'
  BY <1>5, <1>6, <1>7 DEF StoreInv, KnownKeyHasValue
<1>9. ReadsWhatWasPut'
  BY <1>5, <1>6, <1>7 DEF StoreInv, ReadsWhatWasPut
<1>10. PutHasTable'
  BY <1>1, <1>2 DEF PutKey, StoreInv, StoreTypeOK, PutHasTable, Table
<1> QED
  BY <1>3, <1>8, <1>9, <1>10 DEF StoreInv

LEMMA InsertValueKeeps ==
  ASSUME StoreInv, InsertValue
  PROVE  StoreInv'
<1>0. putting.key \in Key /\ putting.value \in Value /\ keyTable[putting.key] \in Table
  BY DEF StoreInv, StoreTypeOK, PutHasTable, InsertValue, Put
<1> PICK k \in Key, v \in Value, t \in Table :
      k = putting.key /\ v = putting.value /\ t = keyTable[k]
  BY <1>0
<1>1. v # NoValue /\ keyTable[k] = t
  BY StoreAssumption
<1>2. /\ putting' = NoPut /\ keyTable' = keyTable /\ torn' = torn \ {k}
      /\ told' = [told EXCEPT ![k] = v] /\ clobbered' = clobbered \ {k}
      /\ rows' = [rows EXCEPT ![t][k] = v] /\ rows[t][k] = NoValue
      /\ \A u \in Table, j \in Key :
           rows'[u][j] = IF u = t /\ j = k THEN v ELSE rows[u][j]
  <2>1. /\ putting' = NoPut /\ keyTable' = keyTable /\ torn' = torn \ {k}
        /\ told' = [told EXCEPT ![k] = v] /\ clobbered' = clobbered \ {k}
        /\ rows' = [rows EXCEPT ![t][k] = v] /\ rows[t][k] = NoValue
    BY DEF InsertValue, PutDone
  <2> QED
    BY <2>1, <1>1 DEF StoreInv, StoreTypeOK
<1>3. StoreTypeOK' /\ PutHasTable'
  BY <1>1, <1>2 DEF StoreInv, StoreTypeOK, PutHasTable
<1>4. Stored(k)' = v /\ told'[k] = v
  BY <1>1, <1>2, NoTableIsAbsent DEF StoreInv, StoreTypeOK, Stored
<1>5. \A j \in Key \ {k} : Stored(j)' = Stored(j) /\ told'[j] = told[j]
  BY <1>1, <1>2, NoTableIsAbsent DEF StoreInv, StoreTypeOK, Stored
<1>6. \A j \in Key \ {k} : ~Moving(j)
  BY DEF Moving
<1>7. KnownKeyHasValue'
  BY <1>1, <1>2, <1>4, <1>5, <1>6 DEF StoreInv, KnownKeyHasValue
<1>8. ReadsWhatWasPut'
  BY <1>1, <1>2, <1>4, <1>5, <1>6 DEF StoreInv, ReadsWhatWasPut
<1> QED
  BY <1>3, <1>7, <1>8 DEF StoreInv

LEMMA UpdateValueKeeps ==
  ASSUME StoreInv, UpdateValue
  PROVE  StoreInv'
<1>0. putting.key \in Key /\ putting.value \in Value /\ keyTable[putting.key] \in Table
  BY DEF StoreInv, StoreTypeOK, PutHasTable, UpdateValue, Put
<1> PICK k \in Key, v \in Value, t \in Table :
      k = putting.key /\ v = putting.value /\ t = keyTable[k]
  BY <1>0
<1> DEFINE others == {j \in Key : keyTable[j] = t}
<1>1. v # NoValue /\ keyTable[k] = t
  BY StoreAssumption
<1>2. /\ putting' = NoPut /\ keyTable' = keyTable /\ torn' = torn \ {k}
      /\ told' = [told EXCEPT ![k] = v] /\ clobbered' = (clobbered \union others) \ {k}
      /\ rows' = [rows EXCEPT ![t] = [j \in Key |-> IF @[j] = NoValue THEN NoValue ELSE v]]
      /\ rows[t][k] # NoValue
      /\ \A u \in Table, j \in Key :
           rows'[u][j] = IF u = t /\ rows[u][j] # NoValue THEN v ELSE rows[u][j]
  <2>1. /\ putting' = NoPut /\ keyTable' = keyTable /\ torn' = torn \ {k}
        /\ told' = [told EXCEPT ![k] = v] /\ clobbered' = (clobbered \union others) \ {k}
        /\ rows' = [rows EXCEPT ![t] = [j \in Key |-> IF @[j] = NoValue THEN NoValue ELSE v]]
        /\ rows[t][k] # NoValue
    BY DEF UpdateValue, PutDone
  <2> QED
    BY <2>1, <1>1 DEF StoreInv, StoreTypeOK
<1>3. StoreTypeOK' /\ PutHasTable'
  BY <1>1, <1>2 DEF StoreInv, StoreTypeOK, PutHasTable
<1>4. Stored(k)' = v /\ told'[k] = v
  BY <1>1, <1>2, NoTableIsAbsent DEF StoreInv, StoreTypeOK, Stored
<1>5. \A j \in Key \ {k} : told'[j] = told[j] /\ (keyTable[j] # t => Stored(j)' = Stored(j))
  BY <1>1, <1>2, NoTableIsAbsent DEF StoreInv, StoreTypeOK, Stored
<1>6. \A j \in Key \ {k} : Stored(j)' = NoValue <=> Stored(j) = NoValue
  BY <1>1, <1>2, NoTableIsAbsent DEF StoreInv, StoreTypeOK, Stored
<1>7. \A j \in Key \ {k} : ~Moving(j)
  BY DEF Moving
<1>8. KnownKeyHasValue'
  BY <1>1, <1>2, <1>4, <1>6, <1>7 DEF StoreInv, KnownKeyHasValue
<1>9. ReadsWhatWasPut'
  BY <1>1, <1>2, <1>4, <1>5, <1>7 DEF StoreInv, ReadsWhatWasPut
<1> QED
  BY <1>3, <1>8, <1>9 DEF StoreInv

LEMMA StoreCrashKeeps ==
  ASSUME StoreInv, StoreCrash
  PROVE  StoreInv'
<1>1. \A j \in Key : Stored(j)' = Stored(j) /\ keyTable'[j] = keyTable[j] /\ told'[j] = told[j]
  BY DEF StoreCrash, Stored
<1>2. /\ putting' = NoPut /\ clobbered' = clobbered
      /\ putting \in Put /\ torn \subseteq torn'
      /\ putting.moved => putting.key \in torn'
  BY DEF StoreCrash, StoreInv, StoreTypeOK
<1>3. StoreTypeOK' /\ PutHasTable'
  BY DEF StoreCrash, StoreInv, StoreTypeOK, PutHasTable, Put
<1>4. \A j \in Key : Moving(j) => j \in torn'
  BY <1>2 DEF Moving
<1>5. KnownKeyHasValue'
  BY <1>1, <1>2, <1>4 DEF StoreInv, KnownKeyHasValue
<1>6. ReadsWhatWasPut'
  BY <1>1, <1>2, <1>4 DEF StoreInv, ReadsWhatWasPut
<1> QED
  BY <1>3, <1>5, <1>6 DEF StoreInv

LEMMA StoreInductive == StoreInv /\ [StoreNext]_storeVars => StoreInv'
<1> SUFFICES ASSUME StoreInv, [StoreNext]_storeVars PROVE StoreInv'
  OBVIOUS
<1>1. CASE \E k \in Key, v \in Value, t \in DataType : PutKey(k, v, t)
  BY <1>1, PutKeyKeeps
<1>2. CASE InsertValue
  BY <1>2, InsertValueKeeps
<1>3. CASE UpdateValue
  BY <1>3, UpdateValueKeeps
<1>4. CASE StoreCrash
  BY <1>4, StoreCrashKeeps
<1>5. CASE UNCHANGED storeVars
  BY <1>5 DEF storeVars, StoreInv, StoreTypeOK, PutHasTable, KnownKeyHasValue, ReadsWhatWasPut,
              Stored, Moving
<1> QED
  BY <1>1, <1>2, <1>3, <1>4, <1>5 DEF StoreNext

LEMMA StoreAlways == StoreSpec => []StoreInv
  BY StoreInitially, StoreInductive, PTL DEF StoreSpec

(***************************************************************************)
(* The types of the store.                                                 *)
(***************************************************************************)
THEOREM StoreTypeCorrect == StoreSpec => []StoreTypeOK
  BY StoreAlways, PTL DEF StoreInv

(***************************************************************************)
(* A known key has a value in its table, unless a put moved it and was or  *)
(* is cut before the value: RoDataStore.cpp writes the key first.          *)
(***************************************************************************)
THEOREM KnownKeysHaveValues == StoreSpec => []KnownKeyHasValue
  BY StoreAlways, PTL DEF StoreInv

(***************************************************************************)
(* getValue gives what was put last, but for a put cut after it moved its  *)
(* key and for the UPDATE of another key of the same table.                *)
(***************************************************************************)
THEOREM StoreReadsWhatWasPut == StoreSpec => []ReadsWhatWasPut
  BY StoreAlways, PTL DEF StoreInv
-----------------------------------------------------------------------------
(* The archives.                                                           *)

\* A name in one of the listings has a first listing, whose info is returned.
LEMMA FirstListing ==
  ASSUME mGrfs \in Seq(Listing), NEW n \in Name, NEW id \in DOMAIN mGrfs, HasFile(id, n)
  PROVE  /\ FirstWith(n) \in DOMAIN mGrfs /\ HasFile(FirstWith(n), n)
         /\ FileInfo(n) \in Info
         /\ (\A j \in 1 .. id - 1 : ~HasFile(j, n)) => FirstWith(n) = id
<1> DEFINE T == {i \in DOMAIN mGrfs : HasFile(i, n)}
<1>1. DOMAIN mGrfs = 1 .. Len(mGrfs) /\ Len(mGrfs) \in Nat
  OBVIOUS
<1>2. PICK x \in T : \A y \in T : x <= y
  <2>1. T \in SUBSET Nat /\ T # {}
    BY <1>1
  <2>. QED BY <2>1, LeastNumber
<1>3. x \in DOMAIN mGrfs /\ HasFile(x, n) /\ \A j \in 1 .. x - 1 : ~HasFile(j, n)
  BY <1>1, <1>2
<1>4. /\ FirstWith(n) \in DOMAIN mGrfs
      /\ HasFile(FirstWith(n), n)
      /\ \A j \in 1 .. FirstWith(n) - 1 : ~HasFile(j, n)
  BY <1>3 DEF FirstWith
<1>5. FileInfo(n) \in Info
  <2>1. mGrfs[FirstWith(n)] \in Listing
    BY <1>4
  <2>2. mGrfs[FirstWith(n)].files \in [Name -> Info]
    BY <2>1 DEF Listing
  <2>. QED BY <2>2 DEF FileInfo
<1>6. ASSUME \A j \in 1 .. id - 1 : ~HasFile(j, n) PROVE FirstWith(n) = id
  <2>1. ~(FirstWith(n) < id) /\ ~(id < FirstWith(n))
    BY <1>1, <1>4, <1>6
  <2>. QED BY <1>1, <1>4, <2>1
<1>. QED BY <1>4, <1>5, <1>6

\* The place of the next GRF's cache.
LEMMA NextCache ==
  ASSUME GrfTypeOK, NEW g \in Grf, Loads(g)
  PROVE  CacheOf(g, Len(mGrfs)) \in CacheFile /\ Cached(g) = cache[CacheOf(g, Len(mGrfs))]
BY GrfAssumption DEF GrfTypeOK, Loads, CacheOf, CacheFile, Cached

\* The list of a GRF is a listing, of the places the GRF has the files at.
LEMMA ReadListing ==
  ASSUME GrfTypeOK, NEW g \in Grf
  PROVE  /\ ReadList(g) \in Listing /\ ReadList(g).grf = g /\ ReadList(g).taken = {}
         /\ \A n \in Name : ReadList(g).files[n] # NoInfo =>
              ReadList(g).files[n] = [of |-> g, place |-> ReadList(g).read[n]]
<1>1. disk[g] \in Place
  BY DEF GrfTypeOK
<1>2. \A n \in Name : disk[g][n] # 0 => disk[g][n] \in 1 .. MaxPlace
  BY <1>1, GrfAssumption DEF Place
<1>. QED
  BY <1>1, <1>2 DEF ReadList, Listing, Info, Place

\* Listings, and what marks a cache that is none.
LEMMA MarksAreNoListings == NoCache \notin Listing /\ NoCache \notin Torn /\ \A t \in Torn : t \notin Listing
<1>1. \A t \in Torn : \E h : t = [grf |-> "torn", header |-> h]
  BY Zenon DEF Torn, TornCache
<1>2. \A h : [grf |-> "torn", header |-> h] # [grf |-> "none"] /\ [grf |-> "torn", header |-> h] \notin Listing
  <2> SUFFICES ASSUME NEW h
               PROVE  /\ [grf |-> "torn", header |-> h] # [grf |-> "none"]
                      /\ [grf |-> "torn", header |-> h] \notin Listing
    OBVIOUS
  <2>1. [grf |-> "torn", header |-> h].grf # [grf |-> "none"].grf
    OBVIOUS
  <2>2. [grf |-> "torn", header |-> h] \notin Listing
    BY DEF Listing
  <2>. QED BY <2>1, <2>2
<1>3. NoCache \notin Listing
  BY DEF NoCache, Listing
<1>. QED BY <1>1, <1>2, <1>3, Zenon DEF NoCache

LEMMA TornMarks == TornCache("none") \in Torn /\ \A g \in Grf : TornCache(g) \in Torn
BY DEF Torn

\* What has become of a list over which its cache was read.
LEMMA ReadAgain ==
  ASSUME NEW l \in Listing, NEW c \in Listing, NEW r,
         r = [grf |-> l.grf,
              files |-> [n \in Name |-> IF c.files[n] # NoInfo THEN c.files[n] ELSE l.files[n]],
              read |-> [n \in Name |-> IF c.files[n] # NoInfo THEN c.read[n] ELSE l.read[n]],
              taken |-> {n \in Name : n \in IF c.files[n] # NoInfo THEN c.taken ELSE l.taken}]
  PROVE  r \in Listing /\ r.grf = l.grf
<1>1. [n \in Name |-> IF c.files[n] # NoInfo THEN c.files[n] ELSE l.files[n]] \in [Name -> Info]
  BY DEF Listing
<1>2. [n \in Name |-> IF c.files[n] # NoInfo THEN c.read[n] ELSE l.read[n]] \in Place
  BY DEF Listing, Place
<1>. QED BY <1>1, <1>2 DEF Listing

IdsFit == Len(mGrfs) <= MaxId + 1

\* The GRF that is loaded again, its list and its cache.
LEMMA AgainForm ==
  ASSUME GrfTypeOK, IdsFit, NEW g \in Grf, LoadAgain(g)
  PROVE  \E id \in DOMAIN mGrfs, c \in Listing, r \in Listing :
           /\ mGrfs[id] \in Listing /\ mGrfs[id].grf = g /\ c.grf = g
           /\ CacheOf(g, id - 1) \in CacheFile /\ c = cache[CacheOf(g, id - 1)]
           /\ r = [grf |-> g,
                   files |-> [n \in Name |-> IF c.files[n] # NoInfo THEN c.files[n] ELSE mGrfs[id].files[n]],
                   read |-> [n \in Name |-> IF c.files[n] # NoInfo THEN c.read[n] ELSE mGrfs[id].read[n]],
                   taken |-> {n \in Name : n \in IF c.files[n] # NoInfo THEN c.taken ELSE mGrfs[id].taken}]
           /\ r.grf = g
           /\ mGrfs' = [mGrfs EXCEPT ![id] = r]
           /\ ~saving /\ UNCHANGED <<disk, cache, saving, crashes>>
<1>1. PICK id \in DOMAIN mGrfs, c \in Listing :
           /\ c = cache[CacheOf(g, id - 1)]
           /\ ~saving /\ mGrfs[id].grf = g /\ c.grf = g
           /\ mGrfs' = [mGrfs EXCEPT ![id] =
                [grf |-> g,
                 files |-> [n \in Name |-> IF c.files[n] # NoInfo THEN c.files[n] ELSE mGrfs[id].files[n]],
                 read |-> [n \in Name |-> IF c.files[n] # NoInfo THEN c.read[n] ELSE mGrfs[id].read[n]],
                 taken |-> {n \in Name : n \in IF c.files[n] # NoInfo THEN c.taken ELSE mGrfs[id].taken}]]
           /\ UNCHANGED <<disk, cache, saving, crashes>>
  BY Zenon DEF LoadAgain
<1>2. mGrfs[id] \in Listing /\ id - 1 \in 0 .. MaxId
  BY <1>1, GrfAssumption DEF GrfTypeOK, IdsFit
<1>3. CacheOf(g, id - 1) \in CacheFile
  BY <1>2 DEF CacheOf, CacheFile
<1>4. PICK r : r = [grf |-> g,
                    files |-> [n \in Name |-> IF c.files[n] # NoInfo THEN c.files[n] ELSE mGrfs[id].files[n]],
                    read |-> [n \in Name |-> IF c.files[n] # NoInfo THEN c.read[n] ELSE mGrfs[id].read[n]],
                    taken |-> {n \in Name : n \in IF c.files[n] # NoInfo THEN c.taken ELSE mGrfs[id].taken}]
  OBVIOUS
<1>5. r \in Listing /\ r.grf = g
  BY <1>1, <1>2, <1>4, ReadAgain
<1>6. mGrfs' = [mGrfs EXCEPT ![id] = r]
  BY <1>1, <1>4, Zenon
<1>. QED BY <1>1, <1>2, <1>3, <1>4, <1>5, <1>6

-----------------------------------------------------------------------------

\* A GRF that is appended with the next id, and was not loaded before.
LEMMA AppendKeepsType ==
  ASSUME GrfTypeOK, NEW g \in Grf, Loads(g), NEW l \in Listing, l.grf = g, mGrfs' = Append(mGrfs, l)
  PROVE  /\ mGrfs' \in Seq(Listing) /\ mGrfs' # <<>>
         /\ \A i, j \in DOMAIN mGrfs' : mGrfs'[i].grf = mGrfs'[j].grf => i = j
         /\ Len(mGrfs') = Len(mGrfs) + 1 /\ mGrfs'[Len(mGrfs) + 1] = l
         /\ DOMAIN mGrfs = 1 .. Len(mGrfs) /\ DOMAIN mGrfs' = 1 .. Len(mGrfs) + 1 /\ Len(mGrfs) \in Nat
         /\ \A i \in DOMAIN mGrfs : mGrfs'[i] = mGrfs[i]
<1>1. mGrfs \in Seq(Listing) /\ \A i, j \in DOMAIN mGrfs : mGrfs[i].grf = mGrfs[j].grf => i = j
  BY DEF GrfTypeOK
<1>2. \A i \in DOMAIN mGrfs : mGrfs[i].grf # g
  BY DEF Loads
<1>3. /\ mGrfs' \in Seq(Listing) /\ mGrfs' # <<>>
      /\ Len(mGrfs') = Len(mGrfs) + 1 /\ mGrfs'[Len(mGrfs) + 1] = l
      /\ DOMAIN mGrfs = 1 .. Len(mGrfs) /\ DOMAIN mGrfs' = 1 .. Len(mGrfs) + 1 /\ Len(mGrfs) \in Nat
      /\ \A i \in DOMAIN mGrfs : mGrfs'[i] = mGrfs[i]
  BY <1>1
<1>4. ASSUME NEW i \in DOMAIN mGrfs', NEW j \in DOMAIN mGrfs', mGrfs'[i].grf = mGrfs'[j].grf PROVE i = j
  BY <1>1, <1>2, <1>3, <1>4
<1>. QED BY <1>3, <1>4

\* What is written to a cache is a listing.
LEMMA SavedListing ==
  ASSUME GrfTypeOK, NEW id \in DOMAIN mGrfs,
         NEW s, s = [mGrfs[id] EXCEPT
                       !.files = [n \in Name |-> IF HasFile(id, n) THEN FileInfo(n) ELSE NoInfo],
                       !.taken = {n \in Name : HasFile(id, n) /\ FirstWith(n) # id}]
  PROVE  s \in Listing
<1>1. mGrfs \in Seq(Listing) /\ mGrfs[id] \in Listing
  BY DEF GrfTypeOK
<1>2. [n \in Name |-> IF HasFile(id, n) THEN FileInfo(n) ELSE NoInfo] \in [Name -> Info]
  BY <1>1, FirstListing DEF Info
<1>. QED
  BY <1>1, <1>2 DEF Listing

\* The cache of the GRF that is being saved.
LEMMA SavedCache ==
  ASSUME GrfTypeOK, mGrfs # <<>>, Len(mGrfs) <= MaxId + 1
  PROVE  CacheOf(mGrfs[Len(mGrfs)].grf, Len(mGrfs) - 1) \in CacheFile /\ Len(mGrfs) \in DOMAIN mGrfs
<1>1. Len(mGrfs) \in DOMAIN mGrfs /\ Len(mGrfs) - 1 \in 0 .. MaxId /\ mGrfs[Len(mGrfs)] \in Listing
  BY GrfAssumption DEF GrfTypeOK
<1>2. mGrfs[Len(mGrfs)].grf \in Grf
  BY <1>1 DEF Listing
<1>. QED
  BY <1>1, <1>2 DEF CacheOf, CacheFile

LEMMA GrfTypeInit == GrfInit => GrfTypeOK /\ IdsFit
<1> SUFFICES ASSUME GrfInit PROVE GrfTypeOK /\ IdsFit
  OBVIOUS
<1>1. disk \in [Grf -> Place]
  BY GrfAssumption DEF GrfInit, Place
<1>2. <<>> \in Seq(Listing) /\ Len(<<>>) = 0 /\ DOMAIN <<>> = {}
  OBVIOUS
<1>3. Len(mGrfs) <= MaxId + 1
  BY <1>2, GrfAssumption DEF GrfInit
<1>. QED BY <1>1, <1>2, <1>3 DEF GrfInit, GrfTypeOK, IdsFit

\* A restart tears the cache that is being written, and no other.
LEMMA RestartTears ==
  ASSUME GrfTypeOK, IdsFit, GrfRestart
  PROVE  \/ UNCHANGED <<cache, crashes>>
         \/ \E f \in CacheFile, t \in Torn :
               crashes' = crashes \union {f} /\ cache' = [cache EXCEPT ![f] = t]
<1>1. CASE ~saving
  BY <1>1 DEF GrfRestart
<1>2. CASE saving
  <2>1. PICK f \in CacheFile, g \in Grf :
          f = CacheOf(mGrfs[Len(mGrfs)].grf, Len(mGrfs) - 1) /\ g = mGrfs[Len(mGrfs)].grf
    <3>1. mGrfs[Len(mGrfs)] \in Listing
      BY SavedCache DEF GrfRestart, GrfTypeOK, IdsFit
    <3>. QED BY <3>1, SavedCache DEF GrfRestart, IdsFit, Listing
  <2>2. PICK h \in {"none", g} :
          crashes' = crashes \union {f} /\ cache' = [cache EXCEPT ![f] = TornCache(h)]
    BY <1>2, <2>1 DEF GrfRestart
  <2>. QED BY <2>2, TornMarks
<1>. QED BY <1>1, <1>2

LEMMA GrfTypeStep == ASSUME GrfTypeOK, IdsFit, [GrfNext]_grfVars PROVE GrfTypeOK' /\ IdsFit'
<1>1. ASSUME NEW g \in Grf, LoadFromCache(g) PROVE GrfTypeOK' /\ IdsFit'
  <2>1. Loads(g) /\ Cached(g) \in Listing /\ Cached(g).grf = g
    BY <1>1, NextCache DEF LoadFromCache, GrfTypeOK
  <2>. QED
    BY <1>1, <2>1, AppendKeepsType, GrfAssumption DEF LoadFromCache, GrfTypeOK, Loads, IdsFit
<1>2. ASSUME NEW g \in Grf, LoadFromGrf(g) PROVE GrfTypeOK' /\ IdsFit'
  <2>1. Loads(g) /\ ReadList(g) \in Listing /\ ReadList(g).grf = g
    BY <1>2, ReadListing DEF LoadFromGrf
  <2>2. cache' \in [CacheFile -> Listing \union {NoCache} \union Torn] /\ saving' \in BOOLEAN
    BY <1>2, <2>1, NextCache, TornMarks DEF LoadFromGrf, GrfTypeOK
  <2>. QED
    BY <1>2, <2>1, <2>2, AppendKeepsType, GrfAssumption DEF LoadFromGrf, GrfTypeOK, Loads, IdsFit
<1>3. ASSUME NEW g \in Grf, LoadThrows(g) PROVE GrfTypeOK' /\ IdsFit'
  <2> DEFINE l == [grf |-> g, read |-> [n \in Name |-> 0], taken |-> {}, files |-> [n \in Name |-> NoInfo]]
  <2>1. l \in Listing
    BY GrfAssumption DEF Listing, Place, Info
  <2>2. Loads(g) /\ mGrfs' = Append(mGrfs, l) /\ l.grf = g
    BY <1>3 DEF LoadThrows
  <2> HIDE DEF l
  <2>. QED
    BY <1>3, <2>1, <2>2, AppendKeepsType, GrfAssumption DEF LoadThrows, GrfTypeOK, Loads, IdsFit
<1>4. CASE SaveFileListToCache
  <2>1. mGrfs # <<>> /\ saving
    BY <1>4 DEF SaveFileListToCache, GrfTypeOK
  <2>2. PICK s : /\ s \in Listing
                 /\ cache' = [cache EXCEPT ![CacheOf(mGrfs[Len(mGrfs)].grf, Len(mGrfs) - 1)] = s]
    BY <1>4, <2>1, SavedListing, SavedCache DEF SaveFileListToCache, IdsFit
  <2>3. cache' \in [CacheFile -> Listing \union {NoCache} \union Torn]
    BY <2>2 DEF GrfTypeOK
  <2>. QED BY <1>4, <2>3 DEF SaveFileListToCache, GrfTypeOK, IdsFit
<1>5. CASE GrfRestart
  <2>1. crashes' \in SUBSET CacheFile
    BY <1>5, SavedCache DEF GrfRestart, GrfTypeOK, IdsFit
  <2>2. <<>> \in Seq(Listing) /\ Len(<<>>) = 0 /\ DOMAIN <<>> = {}
    OBVIOUS
  <2>3. mGrfs' = <<>> /\ ~saving' /\ saving' \in BOOLEAN /\ UNCHANGED disk
    BY <1>5 DEF GrfRestart
  <2>4. cache' \in [CacheFile -> Listing \union {NoCache} \union Torn]
    BY <1>5, RestartTears DEF GrfTypeOK
  <2>5. IdsFit'
    BY <2>2, <2>3, GrfAssumption DEF IdsFit
  <2>. QED BY <2>1, <2>2, <2>3, <2>4, <2>5 DEF GrfTypeOK
<1>6. ASSUME NEW g \in Grf, NEW n \in Name, NEW p \in 0 .. MaxPlace, PatchGrf(g, n, p) PROVE GrfTypeOK' /\ IdsFit'
  BY <1>6 DEF PatchGrf, GrfTypeOK, IdsFit, Place
<1>7. CASE UNCHANGED grfVars
  BY <1>7 DEF grfVars, GrfTypeOK, IdsFit
<1>8. ASSUME NEW g \in Grf, LoadAgain(g) PROVE GrfTypeOK' /\ IdsFit'
  <2>1. PICK id \in DOMAIN mGrfs, r \in Listing :
           /\ mGrfs[id].grf = g /\ r.grf = g
           /\ mGrfs' = [mGrfs EXCEPT ![id] = r] /\ UNCHANGED <<disk, cache, saving, crashes>>
    BY <1>8, AgainForm
  <2>2. mGrfs \in Seq(Listing) /\ mGrfs' \in Seq(Listing) /\ Len(mGrfs') = Len(mGrfs)
        /\ DOMAIN mGrfs' = DOMAIN mGrfs /\ \A i \in DOMAIN mGrfs : mGrfs'[i].grf = mGrfs[i].grf
    BY <2>1 DEF GrfTypeOK
  <2>3. mGrfs # <<>> => mGrfs' # <<>>
    BY <2>2
  <2>. QED BY <2>1, <2>2, <2>3 DEF GrfTypeOK, IdsFit
<1>. QED
  BY <1>1, <1>2, <1>3, <1>4, <1>5, <1>6, <1>7, <1>8 DEF GrfNext

(***************************************************************************)
(* The disk, the caches and the backend keep their types, and no GRF that  *)
(* is loaded gets a second id.                                             *)
(***************************************************************************)
THEOREM ArchiveTypeCorrect == GrfSpec => []GrfTypeOK
BY GrfTypeInit, GrfTypeStep, PTL DEF GrfSpec

-----------------------------------------------------------------------------

\* What a listing says of a name it did not take from another GRF was so when
\* the list was read.
Honest(l) ==
  \A n \in Name : l.files[n] # NoInfo /\ n \notin l.taken => l.files[n] = [of |-> l.grf, place |-> l.read[n]]

GrfInv ==
  /\ GrfTypeOK /\ IdsFit /\ OnlyACrashTearsACache
  /\ \A id \in DOMAIN mGrfs : Honest(mGrfs[id])
  /\ \A f \in CacheFile : cache[f] \in Listing => Honest(cache[f])
  /\ saving => mGrfs[Len(mGrfs)].taken = {}

LEMMA GrfInvInit == GrfInit => GrfInv
BY GrfTypeInit, MarksAreNoListings DEF GrfInit, GrfInv, OnlyACrashTearsACache

LEMMA SavedIsHonest ==
  ASSUME GrfInv, saving
  PROVE  Honest([mGrfs[Len(mGrfs)] EXCEPT
                   !.files = [n \in Name |-> IF HasFile(Len(mGrfs), n) THEN FileInfo(n) ELSE NoInfo],
                   !.taken = {n \in Name : HasFile(Len(mGrfs), n) /\ FirstWith(n) # Len(mGrfs)}])
<1>1. PICK id \in DOMAIN mGrfs : id = Len(mGrfs)
  BY SavedCache DEF GrfInv, GrfTypeOK
<1>2. mGrfs \in Seq(Listing) /\ mGrfs[id] \in Listing /\ Honest(mGrfs[id]) /\ mGrfs[id].taken = {}
  BY <1>1 DEF GrfInv, GrfTypeOK
<1>3. PICK s : s = [mGrfs[id] EXCEPT
                   !.files = [n \in Name |-> IF HasFile(id, n) THEN FileInfo(n) ELSE NoInfo],
                   !.taken = {n \in Name : HasFile(id, n) /\ FirstWith(n) # id}]
  OBVIOUS
<1>4. /\ s.grf = mGrfs[id].grf /\ s.read = mGrfs[id].read
      /\ s.files = [n \in Name |-> IF HasFile(id, n) THEN FileInfo(n) ELSE NoInfo]
      /\ s.taken = {n \in Name : HasFile(id, n) /\ FirstWith(n) # id}
  BY <1>2, <1>3 DEF Listing
<1>5. ASSUME NEW n \in Name, s.files[n] # NoInfo, n \notin s.taken
      PROVE  s.files[n] = [of |-> s.grf, place |-> s.read[n]]
  <2>1. HasFile(id, n) /\ FirstWith(n) = id /\ s.files[n] = FileInfo(n)
    BY <1>4, <1>5
  <2>2. FileInfo(n) = mGrfs[id].files[n] /\ mGrfs[id].files[n] # NoInfo
    BY <2>1 DEF FileInfo, HasFile
  <2>. QED BY <1>2, <1>4, <2>1, <2>2 DEF Honest
<1>. QED BY <1>1, <1>3, <1>5 DEF Honest

LEMMA GrfInvStep == ASSUME GrfInv, [GrfNext]_grfVars PROVE GrfInv'
<1>1. GrfTypeOK /\ GrfTypeOK' /\ IdsFit /\ IdsFit'
  BY GrfTypeStep DEF GrfInv
<1>2. ASSUME NEW g \in Grf, LoadFromCache(g) PROVE GrfInv'
  <2>1. Loads(g) /\ Cached(g) \in Listing /\ Cached(g).grf = g /\ Honest(Cached(g)) /\ ~saving
    BY <1>1, <1>2, NextCache DEF LoadFromCache, GrfTypeOK, GrfInv, Loads
  <2>2. \A id \in DOMAIN mGrfs' : Honest(mGrfs'[id])
    BY <1>1, <1>2, <2>1, AppendKeepsType DEF LoadFromCache, GrfInv
  <2>. QED BY <1>1, <1>2, <2>1, <2>2 DEF LoadFromCache, GrfInv, OnlyACrashTearsACache, Honest
<1>3. ASSUME NEW g \in Grf, LoadFromGrf(g) PROVE GrfInv'
  <2>1. Loads(g) /\ ReadList(g) \in Listing /\ ReadList(g).grf = g /\ Honest(ReadList(g)) /\ ~saving
        /\ ReadList(g).taken = {}
    BY <1>1, <1>3, ReadListing DEF LoadFromGrf, Loads, Honest
  <2>2. /\ Len(mGrfs) \in Nat /\ Len(mGrfs') = Len(mGrfs) + 1 /\ mGrfs'[Len(mGrfs) + 1] = ReadList(g)
        /\ \A id \in DOMAIN mGrfs' : Honest(mGrfs'[id])
    BY <1>1, <1>3, <2>1, AppendKeepsType DEF LoadFromGrf, GrfInv
  <2>3. \A f \in CacheFile :
         \/ cache'[f] = cache[f]
         \/ saving' /\ f = CacheOf(g, Len(mGrfs)) /\ cache'[f] \in Torn
    BY <1>1, <1>3, TornMarks DEF LoadFromGrf, GrfTypeOK
  <2>4. OnlyACrashTearsACache'
    <3>1. CacheOf(g, Len(mGrfs)) = CacheOf(mGrfs'[Len(mGrfs')].grf, Len(mGrfs') - 1)
      BY <2>1, <2>2
    <3>. QED BY <1>3, <2>1, <2>3, <3>1 DEF LoadFromGrf, GrfInv, OnlyACrashTearsACache, CacheOf
  <2>5. \A f \in CacheFile : cache'[f] \in Listing => Honest(cache'[f])
    BY <2>3, MarksAreNoListings DEF GrfInv
  <2>6. mGrfs'[Len(mGrfs')].taken = {}
    BY <2>1, <2>2
  <2>. QED BY <1>1, <2>2, <2>4, <2>5, <2>6 DEF GrfInv, Honest
<1>4. ASSUME NEW g \in Grf, LoadThrows(g) PROVE GrfInv'
  <2> DEFINE l == [grf |-> g, read |-> [n \in Name |-> 0], taken |-> {}, files |-> [n \in Name |-> NoInfo]]
  <2>1. l \in Listing /\ Honest(l) /\ l.grf = g
    BY GrfAssumption DEF Listing, Place, Info, Honest
  <2>2. Loads(g) /\ mGrfs' = Append(mGrfs, l) /\ ~saving
    BY <1>4 DEF LoadThrows, Loads
  <2>3. \A id \in DOMAIN mGrfs' : Honest(mGrfs'[id])
    <3> HIDE DEF l
    <3>. QED BY <1>1, <2>1, <2>2, AppendKeepsType DEF GrfInv
  <2>. QED BY <1>1, <1>4, <2>2, <2>3 DEF LoadThrows, GrfInv, OnlyACrashTearsACache, Honest
<1>5. CASE SaveFileListToCache
  <2>1. mGrfs # <<>> /\ saving
    BY <1>1, <1>5 DEF SaveFileListToCache, GrfTypeOK
  <2>2. PICK s : /\ s \in Listing /\ Honest(s)
                 /\ cache' = [cache EXCEPT ![CacheOf(mGrfs[Len(mGrfs)].grf, Len(mGrfs) - 1)] = s]
    BY <1>1, <1>5, <2>1, SavedListing, SavedCache, SavedIsHonest DEF SaveFileListToCache, IdsFit
  <2>3. \A f \in CacheFile : IF f = CacheOf(mGrfs[Len(mGrfs)].grf, Len(mGrfs) - 1)
                             THEN cache'[f] = s ELSE cache'[f] = cache[f]
    BY <1>1, <2>2 DEF GrfTypeOK
  <2>4. OnlyACrashTearsACache'
    BY <1>5, <2>2, <2>3, MarksAreNoListings DEF SaveFileListToCache, GrfInv, OnlyACrashTearsACache
  <2>5. \A f \in CacheFile : cache'[f] \in Listing => Honest(cache'[f])
    BY <2>2, <2>3 DEF GrfInv
  <2>. QED BY <1>1, <1>5, <2>4, <2>5 DEF SaveFileListToCache, GrfInv, Honest
<1>6. CASE GrfRestart
  <2>1. mGrfs' = <<>> /\ ~saving' /\ DOMAIN mGrfs' = {}
    BY <1>6 DEF GrfRestart
  <2>2. PICK T \in SUBSET CacheFile :
          /\ crashes' = crashes \union T
          /\ \A f \in CacheFile : IF f \in T THEN cache'[f] \in Torn ELSE cache'[f] = cache[f]
    <3>1. CASE UNCHANGED <<cache, crashes>>
      <4>1. {} \in SUBSET CacheFile /\ crashes' = crashes \union {} /\ \A f \in CacheFile : cache'[f] = cache[f]
        BY <3>1
      <4>. QED BY <4>1
    <3>2. CASE \E f \in CacheFile, t \in Torn :
                 crashes' = crashes \union {f} /\ cache' = [cache EXCEPT ![f] = t]
      <4>1. PICK f \in CacheFile, t \in Torn :
                 crashes' = crashes \union {f} /\ cache' = [cache EXCEPT ![f] = t]
        BY <3>2
      <4>2. {f} \in SUBSET CacheFile /\ \A e \in CacheFile : IF e \in {f} THEN cache'[e] \in Torn ELSE cache'[e] = cache[e]
        BY <1>1, <4>1 DEF GrfTypeOK
      <4>. QED BY <4>1, <4>2
    <3>. QED BY <1>1, <1>6, <3>1, <3>2, RestartTears
  <2>3. \A f \in CacheFile : cache'[f] \in Torn => f \in crashes'
    <3>1. \A f \in CacheFile : cache[f] \in Torn => f \in crashes'
      BY <1>6 DEF GrfRestart, GrfInv, OnlyACrashTearsACache
    <3>. QED BY <2>2, <3>1
  <2>4. \A f \in CacheFile : cache'[f] \in Listing => Honest(cache'[f])
    BY <2>2, MarksAreNoListings DEF GrfInv
  <2>. QED BY <1>1, <2>1, <2>3, <2>4 DEF GrfInv, OnlyACrashTearsACache
<1>7. ASSUME NEW g \in Grf, NEW n \in Name, NEW p \in 0 .. MaxPlace, PatchGrf(g, n, p) PROVE GrfInv'
  BY <1>1, <1>7 DEF PatchGrf, GrfInv, OnlyACrashTearsACache, Honest
<1>8. CASE UNCHANGED grfVars
  BY <1>1, <1>8 DEF grfVars, GrfInv, OnlyACrashTearsACache, Honest
<1>9. ASSUME NEW g \in Grf, LoadAgain(g) PROVE GrfInv'
  <2>1. PICK id \in DOMAIN mGrfs, c \in Listing, l \in Listing :
           /\ mGrfs[id].grf = g /\ c.grf = g /\ CacheOf(g, id - 1) \in CacheFile /\ c = cache[CacheOf(g, id - 1)]
           /\ l = [grf |-> g,
                   files |-> [n \in Name |-> IF c.files[n] # NoInfo THEN c.files[n] ELSE mGrfs[id].files[n]],
                   read |-> [n \in Name |-> IF c.files[n] # NoInfo THEN c.read[n] ELSE mGrfs[id].read[n]],
                   taken |-> {n \in Name : n \in IF c.files[n] # NoInfo THEN c.taken ELSE mGrfs[id].taken}]
           /\ mGrfs' = [mGrfs EXCEPT ![id] = l]
           /\ ~saving /\ UNCHANGED <<disk, cache, saving, crashes>>
    BY <1>1, <1>9, AgainForm
  <2>2. Honest(c) /\ Honest(mGrfs[id])
    BY <2>1 DEF GrfInv
  <2>3. /\ l.grf = g
        /\ \A n \in Name : /\ l.files[n] = IF c.files[n] # NoInfo THEN c.files[n] ELSE mGrfs[id].files[n]
                           /\ l.read[n] = IF c.files[n] # NoInfo THEN c.read[n] ELSE mGrfs[id].read[n]
                           /\ n \in l.taken <=> n \in IF c.files[n] # NoInfo THEN c.taken ELSE mGrfs[id].taken
    BY <2>1
  <2>4. Honest(l)
    BY <2>1, <2>2, <2>3 DEF Honest
  <2>5. \A i \in DOMAIN mGrfs' : Honest(mGrfs'[i])
    BY <1>1, <2>1, <2>4 DEF GrfInv, GrfTypeOK
  <2>. QED BY <1>1, <2>1, <2>5 DEF GrfInv, OnlyACrashTearsACache, Honest
<1>. QED
  BY <1>2, <1>3, <1>4, <1>5, <1>6, <1>7, <1>8, <1>9 DEF GrfNext

LEMMA ArchiveInvariant == GrfSpec => []GrfInv
BY GrfInvInit, GrfInvStep, PTL DEF GrfSpec

(***************************************************************************)
(* A file no other GRF has a claim to, and nobody patched, is read from    *)
(* its place.                                                              *)
(***************************************************************************)
THEOREM FilesAreFound == GrfSpec => []ReadsItsContents
<1>1. GrfInv => ReadsItsContents
  <2> SUFFICES ASSUME GrfInv, NEW id \in DOMAIN mGrfs, NEW n \in Name,
                      HasFile(id, n), disk[mGrfs[id].grf][n] = mGrfs[id].read[n],
                      n \notin mGrfs[id].taken, \A j \in 1 .. id - 1 : ~HasFile(j, n)
               PROVE  FileInfo(n) = [of |-> mGrfs[id].grf, place |-> disk[mGrfs[id].grf][n]]
    BY DEF ReadsItsContents
  <2>1. FirstWith(n) = id
    BY FirstListing DEF GrfInv, GrfTypeOK
  <2>2. Honest(mGrfs[id]) /\ mGrfs[id].files[n] # NoInfo
    BY DEF GrfInv, HasFile
  <2>. QED BY <2>1, <2>2 DEF FileInfo, Honest
<1>. QED
  BY <1>1, ArchiveInvariant, PTL

(***************************************************************************)
(* Every cache that throws was being written when a process died, or is    *)
(* being written now.                                                      *)
(***************************************************************************)
THEOREM TornByACrash == GrfSpec => []OnlyACrashTearsACache
<1>1. GrfInv => OnlyACrashTearsACache
  BY DEF GrfInv
<1>. QED
  BY <1>1, ArchiveInvariant, PTL
-----------------------------------------------------------------------------
(* The search patterns.                                                    *)

\* What is searched for and in.
GlobTexts == pattern \in Seq(Letter \union {"*"}) /\ subject \in Seq(Letter)

\* The recursion of Means is a function that obeys its equation.
MeansLengths(f) ==
  /\ f \in [0 .. Len(pattern) -> SUBSET (0 .. Len(subject))]
  /\ f[0] = {0}
  /\ \A n \in 1 .. Len(pattern) : f[n] = Longer(n, f[n - 1])
  /\ Means <=> Len(subject) \in f[Len(pattern)]

LEMMA MeansRecurs == ASSUME GlobTexts PROVE \E f : MeansLengths(f)
<1> DEFINE U == SUBSET (0 .. Len(subject))
           n == Len(pattern)
           a == {0}
           Add(i, s) == Longer(i, s)
           D == [i \in 1 .. n |-> [s \in U |-> Add(i, s)]]
           IsLengths(f) == f = [i \in 0 .. n |-> IF i = 0 THEN a ELSE Add(i, f[i - 1])]
           lengths == CHOOSE f : IsLengths(f)
<1>1. n \in Nat /\ a \in U
  BY DEF GlobTexts
<1>2. \A i \in 1 .. n, s \in U : Add(i, s) \in U
  <2>1. Len(subject) \in Nat
    BY DEF GlobTexts
  <2>. QED BY <2>1 DEF Longer
<1>3. Means <=> Len(subject) \in lengths[n]
  BY DEF Means
<1> HIDE DEF U, n, a, Add
<1>4. D \in [1 .. n -> [U -> U]]
  BY <1>2
<1>5. PICK g : Iterates(g, a, D, n, U)
  <2> HIDE DEF D
  <2>. QED BY <1>1, <1>4, IterationExists
<1>6. \A i \in 1 .. n : g[i - 1] \in U /\ g[i] = Add(i, g[i - 1])
  <2>1. \A i \in 1 .. n : i - 1 \in 0 .. n /\ g[i - 1] \in U
    BY <1>1, <1>5 DEF Iterates
  <2>. QED BY <1>5, <2>1 DEF Iterates
<1>7. IsLengths(g)
  BY <1>1, <1>5, <1>6 DEF Iterates
<1>8. IsLengths(lengths)
  BY <1>7
<1> HIDE DEF lengths
<1>9. lengths[0] = a /\ \A i \in 1 .. n : lengths[i] = Add(i, lengths[i - 1])
  BY <1>1, <1>8
<1>10. \A i \in 0 .. n : lengths[i] \in U
  <2> DEFINE T == {i \in 0 .. n : lengths[i] \in U}
  <2>1. 0 \in T
    BY <1>1, <1>9
  <2>2. ASSUME NEW i \in 1 .. n, i - 1 \in T PROVE i \in T
    <3>1. lengths[i] = Add(i, lengths[i - 1]) /\ lengths[i - 1] \in U /\ i \in 0 .. n
      BY <1>1, <1>9, <2>2
    <3>. QED BY <1>2, <3>1
  <2> HIDE DEF T
  <2>3. \A i \in 0 .. n : i \in T
    BY <1>1, <2>1, <2>2, CountsUp
  <2>. QED BY <2>3 DEF T
<1>11. lengths \in [0 .. n -> U]
  BY <1>8, <1>10
<1>12. MeansLengths(lengths)
  BY <1>3, <1>9, <1>11 DEF Add, U, n, a, MeansLengths
<1>. QED BY <1>12

\* c[n] is the length of what the first n characters of the pattern stand for
\* at the beginning of the subject, for n up to m.
StandsFor(c, m) ==
  /\ c \in [0 .. m -> 0 .. Len(subject)]
  /\ c[0] = 0
  /\ \A n \in 1 .. m :
       IF pattern[n] = "*" THEN c[n - 1] <= c[n]
                           ELSE c[n] = c[n - 1] + 1 /\ subject[c[n]] = pattern[n]

Meant(c) == StandsFor(c, Len(pattern)) /\ c[Len(pattern)] = Len(subject)

\* A length that the equation of Means gives is that of such a part.
LEMMA LengthsStand ==
  ASSUME GlobTexts, NEW f, MeansLengths(f)
  PROVE  \A n \in 0 .. Len(pattern) : \A j \in f[n] : \E c : StandsFor(c, n) /\ c[n] = j
<1> DEFINE P == Len(pattern)
           T == {n \in 0 .. P : \A j \in f[n] : \E c : StandsFor(c, n) /\ c[n] = j}
<1>0. P \in Nat /\ Len(subject) \in Nat
  BY DEF GlobTexts
<1>1. 0 \in T
  <2> DEFINE c == [k \in 0 .. 0 |-> 0]
  <2>1. StandsFor(c, 0) /\ c[0] = 0
    BY <1>0 DEF StandsFor
  <2> HIDE DEF c
  <2>. QED BY <1>0, <2>1 DEF MeansLengths
<1>2. ASSUME NEW n \in 1 .. P, n - 1 \in T PROVE n \in T
  <2> SUFFICES ASSUME NEW j \in f[n] PROVE \E c : StandsFor(c, n) /\ c[n] = j
    BY <1>0
  <2>1. f[n] = Longer(n, f[n - 1]) /\ f[n - 1] \in SUBSET (0 .. Len(subject)) /\ n - 1 \in 0 .. P
    BY <1>0 DEF MeansLengths
  <2>2. PICK i \in f[n - 1] : IF pattern[n] = "*" THEN i <= j ELSE j = i + 1 /\ subject[j] = pattern[n]
    <3>1. CASE pattern[n] = "*"
      BY <2>1, <3>1 DEF Longer
    <3>2. CASE pattern[n] # "*"
      <4>1. j \in 1 .. Len(subject) /\ j - 1 \in f[n - 1] /\ subject[j] = pattern[n] /\ j = (j - 1) + 1
        BY <2>1, <3>2 DEF Longer
      <4>. QED BY <3>2, <4>1
    <3>. QED BY <3>1, <3>2
  <2>3. j \in 0 .. Len(subject)
    BY <1>0, <2>1 DEF Longer
  <2>4. PICK c : StandsFor(c, n - 1) /\ c[n - 1] = i
    BY <1>2, <2>2
  <2> DEFINE d == [k \in 0 .. n |-> IF k = n THEN j ELSE c[k]]
  <2>5. d \in [0 .. n -> 0 .. Len(subject)] /\ d[0] = 0 /\ d[n] = j /\ \A k \in 0 .. n - 1 : d[k] = c[k]
    BY <2>3, <2>4 DEF StandsFor
  <2> HIDE DEF d
  <2>6. ASSUME NEW k \in 1 .. n
        PROVE  IF pattern[k] = "*" THEN d[k - 1] <= d[k] ELSE d[k] = d[k - 1] + 1 /\ subject[d[k]] = pattern[k]
    <3>1. CASE k = n
      BY <2>2, <2>4, <2>5, <3>1
    <3>2. CASE k \in 1 .. n - 1
      BY <2>4, <2>5, <3>2 DEF StandsFor
    <3>. QED BY <3>1, <3>2
  <2>. QED BY <2>5, <2>6 DEF StandsFor
<1> HIDE DEF T
<1>3. \A n \in 0 .. P : n \in T
  BY <1>0, <1>1, <1>2, CountsUp
<1>. QED BY <1>3 DEF T

\* A subject is meant when it can be cut into what the characters stand for.
LEMMA MeansIsMeant == ASSUME GlobTexts PROVE Means <=> \E c : Meant(c)
<1>1. PICK f : MeansLengths(f)
  BY MeansRecurs
<1>0. Len(pattern) \in Nat /\ Len(subject) \in Nat
  BY DEF GlobTexts
<1>2. ASSUME Means PROVE \E c : Meant(c)
  BY <1>0, <1>1, <1>2, LengthsStand DEF MeansLengths, Meant
<1>3. ASSUME NEW c, Meant(c) PROVE Means
  <2> DEFINE T == {n \in 0 .. Len(pattern) : c[n] \in f[n]}
  <2>1. 0 \in T
    BY <1>0, <1>1, <1>3 DEF MeansLengths, Meant, StandsFor
  <2>2. ASSUME NEW n \in 1 .. Len(pattern), n - 1 \in T PROVE n \in T
    <3>1. f[n] = Longer(n, f[n - 1]) /\ n - 1 \in 0 .. Len(pattern) /\ c[n - 1] \in f[n - 1]
      BY <1>0, <1>1, <2>2 DEF MeansLengths
    <3>2. c[n] \in 0 .. Len(subject) /\ c[n - 1] \in 0 .. Len(subject)
      BY <1>0, <1>3, <3>1 DEF Meant, StandsFor
    <3>3. IF pattern[n] = "*" THEN c[n - 1] <= c[n] ELSE c[n] = c[n - 1] + 1 /\ subject[c[n]] = pattern[n]
      BY <1>3 DEF Meant, StandsFor
    <3>4. CASE pattern[n] = "*"
      BY <3>1, <3>2, <3>3, <3>4 DEF Longer
    <3>5. CASE pattern[n] # "*"
      <4>1. c[n] \in 1 .. Len(subject) /\ c[n] - 1 = c[n - 1] /\ subject[c[n]] = pattern[n]
        BY <1>0, <3>2, <3>3, <3>5
      <4>. QED BY <3>1, <3>5, <4>1 DEF Longer
    <3>. QED BY <3>4, <3>5
  <2> HIDE DEF T
  <2>3. \A n \in 0 .. Len(pattern) : n \in T
    BY <1>0, <2>1, <2>2, CountsUp
  <2>. QED BY <1>0, <1>1, <1>3, <2>3 DEF T, Meant, MeansLengths
<1>. QED BY <1>2, <1>3

\* The text of the pattern between two of its places.
LEMMA PieceForm ==
  ASSUME GlobTexts, NEW a \in 0 .. Len(pattern), NEW b \in a .. Len(pattern)
  PROVE  /\ SubSeq(pattern, a + 1, b) \in Seq(Letter \union {"*"})
         /\ Len(SubSeq(pattern, a + 1, b)) = b - a
         /\ \A k \in 1 .. b - a : SubSeq(pattern, a + 1, b)[k] = pattern[a + k]
<1> DEFINE S == Letter \union {"*"}
           q == pattern
<1>1. q \in Seq(S) /\ a \in 0 .. Len(q) /\ b \in a .. Len(q)
  BY DEF GlobTexts
<1> HIDE DEF q, S
<1>2. Len(q) \in Nat /\ a + 1 \in Int /\ b \in Int /\ (a + 1 <= b <=> a < b) /\ b - (a + 1) + 1 = b - a
  BY <1>1
<1>3. \A i \in a + 1 .. b : q[i] \in S
  BY <1>1, <1>2
<1>4. /\ SubSeq(q, a + 1, b) \in Seq(S)
      /\ Len(SubSeq(q, a + 1, b)) = IF a + 1 <= b THEN b - (a + 1) + 1 ELSE 0
      /\ \A k \in 1 .. b - (a + 1) + 1 : SubSeq(q, a + 1, b)[k] = q[(a + 1) + k - 1]
  BY <1>2, <1>3, SubSeqProperties
<1>5. \A k \in 1 .. b - a : (a + 1) + k - 1 = a + k
  BY <1>2
<1> DEFINE t == SubSeq(q, a + 1, b)
<1> HIDE DEF t
<1>6. t \in Seq(S) /\ Len(t) = b - a /\ \A k \in 1 .. b - a : t[k] = q[a + k]
  BY <1>1, <1>2, <1>4, <1>5 DEF t
<1>. QED BY <1>6 DEF t, q, S

\* A text is at a place of the subject when its characters are.
LEMMA AtPlace ==
  ASSUME GlobTexts, NEW t \in Seq(Letter \union {"*"}), NEW i \in Nat \ {0}
  PROVE  IsAt(t, i, subject) <=> /\ i + Len(t) - 1 <= Len(subject)
                                 /\ \A k \in 1 .. Len(t) : subject[i + k - 1] = t[k]
<1> DEFINE S == Letter \union {"*"}
           q == subject
           n == i + Len(t) - 1
           u == SubSeq(q, i, n)
<1>1. q \in Seq(S)
  BY SeqMonotonic DEF GlobTexts
<1>0. t \in Seq(S)
  OBVIOUS
<1> HIDE DEF q, S
<1>2. Len(t) \in Nat /\ Len(q) \in Nat /\ n \in Int /\ n - i + 1 = Len(t) /\ (i <= n <=> 0 < Len(t))
  BY <1>0, <1>1
<1>3. ASSUME n <= Len(q)
      PROVE  u = t <=> \A k \in 1 .. Len(t) : q[i + k - 1] = t[k]
  <2>1. \A j \in i .. n : q[j] \in S
    BY <1>1, <1>2, <1>3
  <2>2. /\ u \in Seq(S)
        /\ Len(u) = IF i <= n THEN n - i + 1 ELSE 0
        /\ \A k \in 1 .. n - i + 1 : u[k] = q[i + k - 1]
    BY <1>2, <2>1, SubSeqProperties
  <2> HIDE DEF u, n
  <2>3. Len(u) = Len(t) /\ \A k \in 1 .. Len(t) : u[k] = q[i + k - 1]
    BY <1>2, <2>2
  <2>4. ASSUME \A k \in 1 .. Len(t) : q[i + k - 1] = t[k] PROVE u = t
    <3>1. \A k \in 1 .. Len(u) : u[k] = t[k]
      BY <2>3, <2>4
    <3>. QED BY <1>0, <2>2, <2>3, <3>1, SeqEqual
  <2>. QED BY <2>3, <2>4
<1>. QED BY <1>3 DEF IsAt, q

\* Between stars, every character stands for itself.
LEMMA LettersStand ==
  ASSUME GlobTexts, NEW c, StandsFor(c, Len(pattern)), NEW a \in 0 .. Len(pattern), NEW b \in a .. Len(pattern),
         \A k \in a + 1 .. b : pattern[k] # "*"
  PROVE  /\ c[a] \in Nat /\ c[b] = c[a] + (b - a) /\ c[b] <= Len(subject)
         /\ IsAt(SubSeq(pattern, a + 1, b), c[a] + 1, subject)
<1>0. Len(pattern) \in Nat /\ Len(subject) \in Nat /\ a \in Nat /\ b \in Nat /\ a <= b /\ b <= Len(pattern)
  BY DEF GlobTexts
<1>1. \A n \in 0 .. Len(pattern) : c[n] \in 0 .. Len(subject)
  BY DEF StandsFor
<1>2. \A k \in a + 1 .. b : c[k] = c[k - 1] + 1 /\ subject[c[k]] = pattern[k]
  BY <1>0 DEF StandsFor
<1>3. \A n \in 0 .. b - a : c[a + n] = c[a] + n
  <2> DEFINE T == {n \in 0 .. b - a : c[a + n] = c[a] + n}
  <2>1. 0 \in T
    BY <1>0, <1>1
  <2>2. ASSUME NEW n \in 1 .. b - a, n - 1 \in T PROVE n \in T
    <3>1. a + n \in a + 1 .. b /\ (a + n) - 1 = a + (n - 1) /\ c[a] \in Nat
      BY <1>0, <1>1
    <3>2. c[a + n] = c[(a + n) - 1] + 1
      BY <1>2, <3>1
    <3>. QED BY <2>2, <3>1, <3>2
  <2>3. b - a \in Nat
    BY <1>0
  <2> HIDE DEF T
  <2>4. \A n \in 0 .. b - a : n \in T
    BY <2>1, <2>2, <2>3, CountsUp
  <2>. QED BY <2>4 DEF T
<1>4. c[b] = c[a] + (b - a) /\ c[a] \in Nat /\ c[b] <= Len(subject)
  <2>1. b - a \in 0 .. b - a /\ a + (b - a) = b /\ c[b] \in 0 .. Len(subject)
    BY <1>0, <1>1
  <2>2. c[b] = c[a] + (b - a)
    BY <1>3, <2>1
  <2>. QED BY <1>0, <1>1, <2>1, <2>2
<1> DEFINE t == SubSeq(pattern, a + 1, b)
<1>5. t \in Seq(Letter \union {"*"}) /\ Len(t) = b - a /\ \A k \in 1 .. b - a : t[k] = pattern[a + k]
  BY PieceForm
<1> HIDE DEF t
<1>6. \A k \in 1 .. b - a : subject[(c[a] + 1) + k - 1] = t[k]
  <2> TAKE k \in 1 .. b - a
  <2>1. a + k \in a + 1 .. b /\ k \in 0 .. b - a /\ (c[a] + 1) + k - 1 = c[a] + k
    BY <1>0, <1>4
  <2>2. subject[c[a + k]] = pattern[a + k] /\ c[a + k] = c[a] + k
    BY <1>2, <1>3, <2>1
  <2>. QED BY <1>5, <2>1, <2>2
<1>7. (c[a] + 1) + Len(t) - 1 <= Len(subject) /\ c[a] + 1 \in Nat \ {0}
  BY <1>0, <1>4, <1>5
<1> DEFINE i == c[a] + 1
<1>8. i \in Nat \ {0} /\ i + Len(t) - 1 <= Len(subject) /\ \A k \in 1 .. Len(t) : subject[i + k - 1] = t[k]
  BY <1>5, <1>6, <1>7
<1> HIDE DEF i
<1>9. IsAt(t, i, subject)
  BY <1>5, <1>8, AtPlace
<1>. QED BY <1>4, <1>9 DEF t, i

-----------------------------------------------------------------------------

\* The characters between a and b are a piece of the pattern: stars or the
\* ends of the pattern are around it, and none is in it.
Piece(a, b) ==
  /\ a \in 0 .. Len(pattern) /\ b \in a + 2 .. Len(pattern) + 1
  /\ a # 0 => pattern[a] = "*"
  /\ b # Len(pattern) + 1 => pattern[b] = "*"
  /\ \A k \in a + 1 .. b - 1 : pattern[k] # "*"

\* An end of a single character, for which there is no matcher.
LastLetter(a, b) == a # 0 /\ b = Len(pattern) + 1 /\ b = a + 2

Kind(a, b) ==
  IF a = 0 THEN IF b = Len(pattern) + 1 THEN "equals" ELSE "starts"
           ELSE IF b = Len(pattern) + 1 THEN "ends" ELSE "has"

MatcherOf(m, a, b) == m.is = Kind(a, b) /\ m.text = SubSeq(pattern, a + 1, b - 1)

\* A meant subject is accepted by the matcher of a piece that may be as early
\* as what is before it allows.
LEMMA PieceIsAccepted ==
  ASSUME GlobTexts, NEW a, NEW b, Piece(a, b), NEW m, MatcherOf(m, a, b), m.from \in Nat,
         \A c : StandsFor(c, Len(pattern)) => m.from <= c[a] + 1, Means
  PROVE  Accepts(m)
<1>1. PICK c : Meant(c)
  BY MeansIsMeant
<1> DEFINE P == Len(pattern)
           e == b - 1
           t == SubSeq(pattern, a + 1, e)
<1>0. /\ P \in Nat /\ Len(subject) \in Nat /\ a \in 0 .. P /\ e \in a .. P /\ a < e
      /\ (b = P + 1 <=> e = P) /\ b \in Int
      /\ \A k \in a + 1 .. e : pattern[k] # "*"
  BY DEF GlobTexts, Piece
<1>2. StandsFor(c, P) /\ c[P] = Len(subject) /\ c[0] = 0
  BY <1>1 DEF Meant, StandsFor
<1>3. /\ c[a] \in Nat /\ c[e] = c[a] + (e - a) /\ c[e] <= Len(subject)
      /\ IsAt(t, c[a] + 1, subject)
  BY <1>0, <1>2, LettersStand
<1>4. t \in Seq(Letter \union {"*"}) /\ Len(t) = e - a
  BY <1>0, PieceForm
<1>5. m.text = t /\ m.is = Kind(a, b)
  BY DEF MatcherOf
<1> HIDE DEF t, e
<1>6. CASE m.is = "equals"
  <2>1. a = 0 /\ e = P
    BY <1>0, <1>5, <1>6 DEF Kind
  <2>2. Len(t) = Len(subject) /\ IsAt(t, 1, subject)
    BY <1>0, <1>2, <1>3, <1>4, <2>1
  <2>3. SubSeq(subject, 1, Len(subject)) = t
    BY <1>0, <2>2 DEF IsAt
  <2>4. SubSeq(subject, 1, Len(subject)) = subject
    BY SubSeqFull DEF GlobTexts
  <2>. QED BY <1>5, <1>6, <2>3, <2>4 DEF Accepts
<1>7. CASE m.is = "starts"
  <2>1. a = 0
    BY <1>5, <1>7 DEF Kind
  <2>2. IsAt(t, 1, subject)
    BY <1>2, <1>3, <2>1
  <2>. QED BY <1>5, <1>7, <2>2 DEF Accepts
<1>8. CASE m.is = "ends"
  <2>1. e = P
    BY <1>0, <1>5, <1>8 DEF Kind
  <2>2. Len(t) <= Len(subject) /\ Len(subject) - Len(t) + 1 = c[a] + 1
    BY <1>0, <1>2, <1>3, <1>4, <2>1
  <2>. QED BY <1>3, <1>5, <1>8, <2>2 DEF Accepts
<1>9. CASE m.is = "has"
  <2>1. m.from <= c[a] + 1
    BY <1>2
  <2>2. c[a] + 1 \in m.from .. Len(subject)
    BY <1>0, <1>3, <2>1
  <2>. QED BY <1>3, <1>5, <1>9, <2>2 DEF Accepts
<1>. QED BY <1>5, <1>6, <1>7, <1>8, <1>9 DEF Kind

\* The next star, if there is one.
LEMMA NextStar ==
  ASSUME GlobTexts, NEW i \in 1 .. Len(pattern) + 1
  PROVE  \/ NextGlob(i) = NPos /\ \A k \in i .. Len(pattern) : pattern[k] # "*"
         \/ /\ NextGlob(i) \in i .. Len(pattern) /\ pattern[NextGlob(i)] = "*" /\ NextGlob(i) # NPos
            /\ \A k \in i .. NextGlob(i) - 1 : pattern[k] # "*"
<1>0. Len(pattern) \in Nat
  BY DEF GlobTexts
<1>1. CASE \A k \in i .. Len(pattern) : pattern[k] # "*"
  BY <1>1 DEF NextGlob
<1>2. CASE \E k \in i .. Len(pattern) : pattern[k] = "*"
  <2> DEFINE T == {j \in i .. Len(pattern) : pattern[j] = "*"}
  <2>1. PICK j \in T : \A y \in T : j <= y
    <3>1. T \in SUBSET Nat /\ T # {}
      BY <1>0, <1>2
    <3> HIDE DEF T
    <3>. QED BY <3>1, LeastNumber
  <2>2. j \in i .. Len(pattern) /\ pattern[j] = "*" /\ \A k \in i .. j - 1 : pattern[k] # "*"
    BY <1>0, <2>1
  <2>3. /\ NextGlob(i) \in i .. Len(pattern) /\ pattern[NextGlob(i)] = "*"
        /\ \A k \in i .. NextGlob(i) - 1 : pattern[k] # "*"
    BY <1>2, <2>2 DEF NextGlob
  <2>. QED BY <1>0, <2>3 DEF NPos
<1>. QED BY <1>1, <1>2

\* Where the piece that starts at globIndex ends.
NextEnd == IF NextGlob(globIndex) = NPos THEN Len(pattern) + 1 ELSE NextGlob(globIndex)

AMatcher == [is : {"equals", "starts", "ends", "has"}, text : Seq(Letter \union {"*"}), from : Nat \ {0}]

\* The piece between a and b is compared with the subject.
Compared(a, b) == \E i \in DOMAIN matchers : MatcherOf(matchers[i], a, b)

(***************************************************************************)
(* What New knows between two turns: every star before globIndex is        *)
(* counted, so that a piece is looked for no later than it can be, and     *)
(* every piece before globIndex is compared.                               *)
(***************************************************************************)
GlobInv ==
  /\ GlobTexts
  /\ glob \in {"new", "built", "yes", "no"}
  /\ globIndex \in 1 .. Len(pattern) + 1 /\ globCount \in Nat
  /\ globIndex > 1 => pattern[globIndex - 1] = "*"
  /\ glob = "new" => /\ globCount < globIndex
                     /\ \A c : StandsFor(c, Len(pattern)) => globIndex - globCount <= c[globIndex - 1] + 1
  /\ matchers \in Seq(AMatcher)
  /\ glob # "no" => \A i \in DOMAIN matchers : Means => Accepts(matchers[i])
  /\ \A a, b \in 0 .. Len(pattern) + 1 :
       Piece(a, b) /\ ~LastLetter(a, b) /\ (a + 1 < globIndex \/ glob # "new") => Compared(a, b)
  /\ glob = "yes" => \A i \in DOMAIN matchers : Accepts(matchers[i])
  /\ glob = "no" => ~Means

\* A turn adds the matcher of the piece at globIndex, if it is one.
LEMMA FoundIs ==
  ASSUME GlobInv, glob = "new", pattern # <<>>
  PROVE  LET a == globIndex - 1
             b == NextEnd
         IN  /\ b \in globIndex .. Len(pattern) + 1 /\ (Piece(a, b) <=> b > globIndex)
             /\ \A d : Piece(a, d) => d = b
             /\ IF Piece(a, b) /\ ~LastLetter(a, b)
                  THEN \E m \in AMatcher : Found = <<m>> /\ MatcherOf(m, a, b) /\ m.from = globIndex - globCount
                  ELSE Found = <<>>
<1> DEFINE P == Len(pattern)
           g == globIndex
           next == NextGlob(g)
           a == g - 1
           b == NextEnd
<1>0. P \in Nat \ {0} /\ g \in 1 .. P + 1 /\ globCount \in Nat /\ globCount < g /\ a \in 0 .. P
  BY DEF GlobInv, GlobTexts
<1>1. \/ next = NPos /\ b = P + 1 /\ \A k \in g .. P : pattern[k] # "*"
      \/ /\ next \in g .. P /\ b = next /\ pattern[next] = "*" /\ next # NPos
         /\ \A k \in g .. next - 1 : pattern[k] # "*"
  BY NextStar DEF GlobInv, NextEnd
<1>2. g > 1 => pattern[a] = "*"
  BY DEF GlobInv
<1> HIDE DEF next, b
<1>3. b \in g .. P + 1 /\ (next = NPos <=> b = P + 1) /\ \A k \in g .. b - 1 : pattern[k] # "*"
  BY <1>0, <1>1
<1>4. Piece(a, b) <=> b > g
  <2>1. b # P + 1 => pattern[b] = "*"
    BY <1>1
  <2>2. a + 1 = g /\ (b \in a + 2 .. P + 1 <=> b > g) /\ (a # 0 => g > 1)
    BY <1>0, <1>3
  <2>. QED BY <1>0, <1>2, <1>3, <2>1, <2>2 DEF Piece
<1>5. ASSUME NEW d, Piece(a, d) PROVE d = b
  <2>1. d \in a + 2 .. P + 1 /\ (d # P + 1 => pattern[d] = "*") /\ \A k \in a + 1 .. d - 1 : pattern[k] # "*"
    BY <1>5 DEF Piece
  <2>2. d \in g + 1 .. P + 1 /\ \A k \in g .. d - 1 : pattern[k] # "*"
    BY <1>0, <2>1
  <2>3. ~(d < b)
    BY <1>0, <1>3, <2>1, <2>2
  <2>4. ~(b < d)
    <3> SUFFICES ASSUME b < d PROVE FALSE
      OBVIOUS
    <3>1. b \in g .. d - 1 /\ b # P + 1
      BY <1>0, <1>3, <2>2
    <3>. QED BY <1>1, <2>2, <3>1
  <2>. QED BY <1>0, <1>3, <2>2, <2>3, <2>4
<1>6. Piece(a, b) /\ ~LastLetter(a, b) <=> b > g /\ ~(g > 1 /\ next = NPos /\ g >= P)
  BY <1>0, <1>3, <1>4 DEF LastLetter
<1>7. ASSUME b > g, ~(g > 1 /\ next = NPos /\ g >= P)
      PROVE  Found = Matcher(Kind(a, b), g, b - 1)
  <2>1. CASE g = 1 /\ next = NPos
    <3>1. Kind(a, b) = "equals" /\ b - 1 = P /\ next = 0 /\ g = 1
      BY <1>0, <1>3, <2>1 DEF Kind, NPos
    <3>2. Found = Matcher("equals", 1, P)
      BY <3>1 DEF Found, next, NPos
    <3>. QED BY <2>1, <3>1, <3>2
  <2>2. CASE g = 1 /\ next # NPos
    <3>1. next > 1 /\ Kind(a, b) = "starts" /\ b = next
      BY <1>0, <1>1, <1>3, <1>7, <2>2 DEF Kind
    <3>2. Found = Matcher("starts", 1, next - 1)
      BY <2>2, <3>1 DEF Found, next
    <3>. QED BY <2>2, <3>1, <3>2
  <2>3. CASE g > 1 /\ next = NPos
    <3>1. g < P /\ Kind(a, b) = "ends" /\ b - 1 = P /\ g # 1 /\ ~(next > 1) /\ ~(next > g)
      BY <1>0, <1>3, <1>7, <2>3 DEF Kind, NPos
    <3>2. Found = Matcher("ends", g, P)
      BY <2>3, <3>1 DEF Found, next
    <3>. QED BY <3>1, <3>2
  <2>4. CASE g > 1 /\ next # NPos
    <3>1. next > g /\ Kind(a, b) = "has" /\ b = next /\ g # 1
      BY <1>0, <1>1, <1>3, <1>7, <2>4 DEF Kind
    <3>2. Found = Matcher("has", g, next - 1)
      BY <2>4, <3>1 DEF Found, next
    <3>. QED BY <3>1, <3>2
  <2>. QED BY <1>0, <2>1, <2>2, <2>3, <2>4
<1>8. ASSUME ~(b > g /\ ~(g > 1 /\ next = NPos /\ g >= P)) PROVE Found = <<>>
  <2>1. CASE b = g
    <3>1. ~(g = 1 /\ next = NPos) /\ ~(g = 1 /\ next > 1) /\ ~(g > 1 /\ next > g)
      BY <1>0, <1>1, <2>1 DEF NPos
    <3>2. ~(g > 1 /\ next = NPos /\ g < P)
      BY <1>0, <1>3, <2>1
    <3>. QED BY <3>1, <3>2 DEF Found, next
  <2>2. CASE g > 1 /\ next = NPos /\ g >= P
    <3>1. g # 1 /\ ~(g < P) /\ ~(next > g)
      BY <1>0, <2>2 DEF NPos
    <3>. QED BY <3>1 DEF Found, next
  <2>. QED BY <1>0, <1>3, <1>8, <2>1, <2>2
<1>9. ASSUME Piece(a, b), ~LastLetter(a, b)
      PROVE  \E m \in AMatcher : Found = <<m>> /\ MatcherOf(m, a, b) /\ m.from = g - globCount
  <2> DEFINE t == SubSeq(pattern, g, b - 1)
             m == [is |-> Kind(a, b), text |-> t, from |-> g - globCount]
  <2>1. Found = <<m>>
    BY <1>6, <1>7, <1>9 DEF Matcher
  <2>2. t \in Seq(Letter \union {"*"}) /\ t = SubSeq(pattern, a + 1, b - 1)
    <3>1. a + 1 = g /\ b - 1 \in a .. P
      BY <1>0, <1>3
    <3>2. SubSeq(pattern, a + 1, b - 1) \in Seq(Letter \union {"*"})
      BY <1>0, <3>1, PieceForm DEF GlobInv
    <3>. QED BY <3>1, <3>2
  <2>3. g - globCount \in Nat \ {0}
    BY <1>0
  <2> HIDE DEF t
  <2>4. m \in AMatcher /\ MatcherOf(m, a, b) /\ m.from = g - globCount
    BY <2>2, <2>3 DEF AMatcher, MatcherOf, Kind
  <2>. QED BY <2>1, <2>4
<1>10. ASSUME ~(Piece(a, b) /\ ~LastLetter(a, b)) PROVE Found = <<>>
  BY <1>6, <1>8, <1>10
<1>. QED BY <1>3, <1>4, <1>5, <1>9, <1>10 DEF b

\* The texts stay as they are, and what is said of them.
LEMMA TextsStay ==
  ASSUME pattern' = pattern, subject' = subject
  PROVE  /\ GlobTexts' <=> GlobTexts
         /\ Means' <=> Means
         /\ \A m : Accepts(m)' <=> Accepts(m)
         /\ \A c, n : StandsFor(c, n)' <=> StandsFor(c, n)
         /\ \A a, b : (Piece(a, b)' <=> Piece(a, b)) /\ (LastLetter(a, b)' <=> LastLetter(a, b))
         /\ \A m, a, b : MatcherOf(m, a, b)' <=> MatcherOf(m, a, b)
<1>1. GlobTexts' <=> GlobTexts
  BY DEF GlobTexts
<1>2. Means' <=> Means
  BY DEF Means, Longer
<1>3. \A m : Accepts(m)' <=> Accepts(m)
  BY DEF Accepts, IsAt
<1>4. \A c, n : StandsFor(c, n)' <=> StandsFor(c, n)
  BY DEF StandsFor
<1>5. \A a, b : (Piece(a, b)' <=> Piece(a, b)) /\ (LastLetter(a, b)' <=> LastLetter(a, b))
  BY DEF Piece, LastLetter
<1>6. \A m, a, b : MatcherOf(m, a, b)' <=> MatcherOf(m, a, b)
  BY DEF MatcherOf, Kind
<1>. QED BY <1>1, <1>2, <1>3, <1>4, <1>5, <1>6

LEMMA GlobInvInit == GlobInit => GlobInv
<1> SUFFICES ASSUME GlobInit PROVE GlobInv
  OBVIOUS
<1>1. GlobTexts
  <2>1. ASSUME NEW S, NEW n \in Nat, NEW t \in Texts(S, n) PROVE t \in Seq(S)
    BY <2>1 DEF Texts
  <2>. QED BY <2>1, GlobAssumption DEF GlobInit, GlobTexts
<1>2. Len(pattern) \in Nat
  BY <1>1 DEF GlobTexts
<1>3. \A c : StandsFor(c, Len(pattern)) => 1 - 0 <= c[1 - 1] + 1
  BY DEF StandsFor
<1>4. matchers = <<>> /\ globIndex = 1 /\ globCount = 0 /\ glob = "new"
  BY DEF GlobInit
<1>5. \A a, b \in 0 .. Len(pattern) + 1 : ~(a + 1 < 1)
  OBVIOUS
<1>. QED BY <1>1, <1>2, <1>3, <1>4, <1>5 DEF GlobInv

LEMMA NewForAllKeeps == ASSUME GlobInv, NewForAll PROVE GlobInv'
<1>1. \A a, b \in 0 .. Len(pattern) + 1 : ~Piece(a, b)
  <2>1. CASE pattern = <<>>
    BY <2>1 DEF Piece
  <2>2. CASE pattern = <<"*">>
    <3>1. Len(pattern) = 1 /\ pattern[1] = "*"
      BY <2>2
    <3>2. ASSUME NEW a \in 0 .. 2, NEW b \in 0 .. 2, Piece(a, b) PROVE FALSE
      <4>1. a \in 0 .. 1 /\ b \in a + 2 .. 2 /\ \A k \in a + 1 .. b - 1 : pattern[k] # "*"
        BY <3>1, <3>2 DEF Piece
      <4>2. 1 \in a + 1 .. b - 1
        BY <4>1
      <4>. QED BY <3>1, <4>1, <4>2
    <3>. QED BY <3>1, <3>2
  <2>. QED BY <2>1, <2>2 DEF NewForAll
<1>2. /\ pattern' = pattern /\ subject' = subject /\ matchers' = matchers /\ globIndex' = globIndex
      /\ globCount' = globCount /\ glob' = "built" /\ glob = "new"
  BY DEF NewForAll
<1>3. \A a, b \in 0 .. Len(pattern') + 1 : ~Piece(a, b)'
  BY <1>1, <1>2, TextsStay
<1>4. \A i \in DOMAIN matchers' : Means' => Accepts(matchers[i])'
  BY <1>2, TextsStay DEF GlobInv, Accepts, IsAt
<1>. QED BY <1>2, <1>3, <1>4, TextsStay DEF GlobInv

LEMMA MatchSubjectKeeps == ASSUME GlobInv, MatchSubject PROVE GlobInv'
<1>1. /\ pattern' = pattern /\ subject' = subject /\ matchers' = matchers /\ globIndex' = globIndex
      /\ globCount' = globCount /\ glob = "built" /\ glob' \in {"yes", "no"}
  BY DEF MatchSubject
<1>2. glob' = "yes" => \A i \in DOMAIN matchers' : Accepts(matchers[i])'
  BY <1>1, TextsStay DEF MatchSubject, Accepts, IsAt
<1>3. glob' = "no" => ~Means'
  BY <1>1, TextsStay DEF MatchSubject, GlobInv
<1>4. \A a, b \in 0 .. Len(pattern') + 1 :
        Piece(a, b)' /\ ~LastLetter(a, b)' => Compared(a, b)'
  BY <1>1, TextsStay DEF GlobInv, Compared, MatcherOf, Kind
<1>. QED BY <1>1, <1>2, <1>3, <1>4, TextsStay DEF GlobInv

\* The matchers after a turn: those before, and that of the piece there.
LEMMA MatchersAfter ==
  ASSUME GlobInv, glob = "new", pattern # <<>>, matchers' = matchers \o Found, pattern' = pattern, subject' = subject
  PROVE  /\ matchers' \in Seq(AMatcher)
         /\ \A i \in DOMAIN matchers' : Means => Accepts(matchers'[i])
         /\ \A a, b : Compared(a, b) => Compared(a, b)'
         /\ \A x, y : x = globIndex - 1 /\ Piece(x, y) /\ ~LastLetter(x, y) => Compared(x, y)'
<1>. PICK a, b : a = globIndex - 1 /\ b = NextEnd
  OBVIOUS
<1>0. /\ GlobTexts /\ matchers \in Seq(AMatcher) /\ \A i \in DOMAIN matchers : Means => Accepts(matchers[i])
      /\ \A c : StandsFor(c, Len(pattern)) => globIndex - globCount <= c[a] + 1
  BY DEF GlobInv
<1>1. /\ \A d : Piece(a, d) => d = b
      /\ IF Piece(a, b) /\ ~LastLetter(a, b)
           THEN \E m \in AMatcher : Found = <<m>> /\ MatcherOf(m, a, b) /\ m.from = globIndex - globCount
           ELSE Found = <<>>
  BY FoundIs
<1>2. CASE Piece(a, b) /\ ~LastLetter(a, b)
  <2>1. PICK m \in AMatcher : Found = <<m>> /\ MatcherOf(m, a, b) /\ m.from = globIndex - globCount
    BY <1>1, <1>2
  <2>2. Means => Accepts(m)
    <3>1. m.from \in Nat
      BY DEF AMatcher
    <3>. QED BY <1>0, <1>2, <2>1, <3>1, PieceIsAccepted
  <2>3. matchers' = Append(matchers, m)
    BY <1>0, <2>1, AppendIsConcat
  <2>4. /\ matchers' \in Seq(AMatcher) /\ DOMAIN matchers' = 1 .. Len(matchers) + 1 /\ Len(matchers) \in Nat
        /\ DOMAIN matchers = 1 .. Len(matchers)
        /\ matchers'[Len(matchers) + 1] = m /\ \A i \in 1 .. Len(matchers) : matchers'[i] = matchers[i]
    BY <1>0, <2>3, AppendProperties
  <2>5. \A i \in DOMAIN matchers' : Means => Accepts(matchers'[i])
    BY <1>0, <2>2, <2>4
  <2>6. ASSUME NEW x, NEW y, Compared(x, y) PROVE Compared(x, y)'
    <3>1. PICK i \in DOMAIN matchers : MatcherOf(matchers[i], x, y)
      BY <2>6 DEF Compared
    <3>2. i \in DOMAIN matchers' /\ MatcherOf(matchers'[i], x, y)
      BY <2>4, <3>1
    <3>. QED BY <3>2, TextsStay DEF Compared, MatcherOf, Kind
  <2>7. Compared(a, b)'
    <3>1. Len(matchers) + 1 \in DOMAIN matchers' /\ MatcherOf(matchers'[Len(matchers) + 1], a, b)
      BY <2>1, <2>4
    <3>. QED BY <3>1, TextsStay DEF Compared, MatcherOf, Kind
  <2>. QED BY <1>1, <2>4, <2>5, <2>6, <2>7
<1>3. CASE ~(Piece(a, b) /\ ~LastLetter(a, b))
  <2>1. Found = <<>>
    BY <1>1, <1>3
  <2>2. matchers' = matchers
    BY <1>0, <2>1, ConcatEmptySeq
  <2>3. ASSUME NEW x, NEW y, Compared(x, y) PROVE Compared(x, y)'
    BY <2>2, <2>3, TextsStay DEF Compared, MatcherOf, Kind
  <2>. QED BY <1>0, <1>1, <1>3, <2>2, <2>3
<1>. QED BY <1>2, <1>3

LEMMA NewTurnKeeps == ASSUME GlobInv, NewTurn PROVE GlobInv'
<1> DEFINE P == Len(pattern)
           g == globIndex
           next == NextGlob(g)
           a == g - 1
<1>0. /\ P \in Nat \ {0} /\ g \in 1 .. P + 1 /\ globCount \in Nat /\ globCount < g /\ a \in 0 .. P
      /\ pattern # <<>> /\ glob = "new" /\ GlobTexts /\ (g > 1 => pattern[a] = "*")
      /\ \A c : StandsFor(c, P) => g - globCount <= c[a] + 1
  BY DEF GlobInv, GlobTexts, NewTurn
<1>1. \/ next = NPos /\ \A k \in g .. P : pattern[k] # "*"
      \/ /\ next \in g .. P /\ pattern[next] = "*" /\ next # NPos
         /\ \A k \in g .. next - 1 : pattern[k] # "*"
  BY <1>0, NextStar
<1>2. /\ pattern' = pattern /\ subject' = subject /\ globCount' = globCount + 1 /\ matchers' = matchers \o Found
      /\ \/ (next = NPos \/ P <= g) /\ glob' = "built" /\ globIndex' = g
         \/ ~(next = NPos \/ P <= g) /\ glob' = "new" /\ globIndex' = next + 1
  BY <1>0 DEF NewTurn
<1>3. /\ matchers' \in Seq(AMatcher)
      /\ \A i \in DOMAIN matchers' : Means => Accepts(matchers'[i])
      /\ \A x, y : Compared(x, y) => Compared(x, y)'
      /\ \A x, y : x = a /\ Piece(x, y) /\ ~LastLetter(x, y) => Compared(x, y)'
  BY <1>0, <1>2, MatchersAfter
<1> HIDE DEF next
<1>4. ASSUME NEW x \in 0 .. P + 1, NEW y \in 0 .. P + 1, Piece(x, y), ~LastLetter(x, y),
             x + 1 < globIndex' \/ glob' # "new"
      PROVE  Compared(x, y)'
  <2>0. x \in 0 .. P /\ y \in x + 2 .. P + 1 /\ (x # 0 => pattern[x] = "*")
    BY <1>4 DEF Piece
  <2>1. CASE x + 1 < g
    BY <1>0, <1>3, <1>4, <2>1 DEF GlobInv
  <2>2. CASE x = a
    BY <1>3, <1>4, <2>2
  <2>3. CASE x > a
    <3>1. x \in g .. P /\ pattern[x] = "*"
      BY <1>0, <2>0, <2>3
    <3>2. next # NPos /\ x >= next
      BY <1>0, <1>1, <3>1
    <3>3. P <= g
      BY <1>0, <1>1, <1>2, <1>4, <3>1, <3>2
    <3>. QED BY <1>0, <2>0, <3>1, <3>3
  <2>. QED BY <1>0, <2>0, <2>1, <2>2, <2>3
<1>5. ASSUME glob' = "new"
      PROVE  /\ globIndex' \in 1 .. P + 1 /\ (globIndex' > 1 => pattern[globIndex' - 1] = "*") /\ globCount' < globIndex'
             /\ \A c : StandsFor(c, P) => globIndex' - globCount' <= c[globIndex' - 1] + 1
  <2>1. globIndex' = next + 1 /\ next \in g .. P /\ pattern[next] = "*" /\ \A k \in g .. next - 1 : pattern[k] # "*"
    BY <1>1, <1>2, <1>5
  <2>2. ASSUME NEW c, StandsFor(c, P) PROVE globIndex' - globCount' <= c[next] + 1
    <3>1. /\ a \in 0 .. P /\ next - 1 \in a .. P /\ a + 1 = g /\ next \in 1 .. P
          /\ next - 1 \in 0 .. P /\ next \in 0 .. P
      BY <1>0, <2>1
    <3>2. c[a] \in Nat /\ c[next - 1] = c[a] + ((next - 1) - a)
      BY <1>0, <2>1, <2>2, <3>1, LettersStand
    <3>3. c[next - 1] <= c[next] /\ c[next] \in 0 .. Len(subject) /\ Len(subject) \in Nat
      BY <1>0, <2>1, <2>2, <3>1 DEF StandsFor, GlobTexts
    <3>4. g - globCount <= c[a] + 1
      BY <1>0, <2>2
    <3>. QED BY <1>0, <1>2, <2>1, <3>1, <3>2, <3>3, <3>4
  <2>. QED BY <1>0, <1>2, <2>1, <2>2
<1>6. globIndex' \in 1 .. P + 1 /\ (globIndex' > 1 => pattern[globIndex' - 1] = "*") /\ globCount' \in Nat
  BY <1>0, <1>2, <1>5
<1>7. \A x, y \in 0 .. Len(pattern') + 1 :
        Piece(x, y)' /\ ~LastLetter(x, y)' /\ (x + 1 < globIndex' \/ glob' # "new") => Compared(x, y)'
  BY <1>2, <1>4, TextsStay
<1>8. \A i \in DOMAIN matchers' : Means' => Accepts(matchers[i])'
  BY <1>2, <1>3, TextsStay DEF Accepts, IsAt
<1>9. glob' = "new" => \A c : StandsFor(c, Len(pattern))' => globIndex' - globCount' <= c[globIndex' - 1] + 1
  BY <1>2, <1>5, TextsStay
<1>. QED BY <1>0, <1>2, <1>3, <1>5, <1>6, <1>7, <1>8, <1>9, TextsStay DEF GlobInv

LEMMA GlobInvStep == ASSUME GlobInv, [GlobNext]_globVars PROVE GlobInv'
<1>1. CASE UNCHANGED globVars
  <2>1. /\ pattern' = pattern /\ subject' = subject /\ matchers' = matchers /\ globIndex' = globIndex
        /\ globCount' = globCount /\ glob' = glob
    BY <1>1 DEF globVars
  <2>2. \A a, b : Compared(a, b)' <=> Compared(a, b)
    BY <2>1, TextsStay DEF Compared, MatcherOf, Kind
  <2>. QED BY <2>1, <2>2, TextsStay DEF GlobInv
<1>. QED BY <1>1, NewForAllKeeps, NewTurnKeeps, MatchSubjectKeeps DEF GlobNext

(***************************************************************************)
(* A search misses no name its pattern means, for patterns and names of    *)
(* any length: a meant name can be cut into what the characters stand for, *)
(* and each matcher finds its piece in that cut.                           *)
(***************************************************************************)
THEOREM MeantIsFound == GlobSpec => []NoNameIsMissed
<1>1. GlobInv => NoNameIsMissed
  BY DEF GlobInv, NoNameIsMissed
<1>. QED BY <1>1, GlobInvInit, GlobInvStep, PTL DEF GlobSpec

\* A piece is found where its kind allows.
LEMMA PieceIsFound ==
  ASSUME GlobInv, glob = "yes", NEW a, NEW b, Piece(a, b), ~LastLetter(a, b)
  PROVE  \E i \in Nat \ {0} : /\ \A k \in a + 1 .. b - 1 : subject[i + (k - a) - 1] = pattern[k]
                              /\ i + (b - 1 - a) - 1 <= Len(subject)
                              /\ a = 0 => i = 1
                              /\ b = Len(pattern) + 1 => i + (b - 1 - a) - 1 = Len(subject)
<1> DEFINE P == Len(pattern)
           e == b - 1
           t == SubSeq(pattern, a + 1, e)
<1>0. /\ GlobTexts /\ P \in Nat /\ Len(subject) \in Nat /\ a \in 0 .. P /\ b \in 0 .. P + 1 /\ e \in a .. P /\ a < e
      /\ (b = P + 1 <=> e = P) /\ b \in Int
  BY DEF GlobInv, GlobTexts, Piece
<1>1. t \in Seq(Letter \union {"*"}) /\ Len(t) = e - a /\ \A k \in 1 .. e - a : t[k] = pattern[a + k]
  BY <1>0, PieceForm
<1>2. PICK i \in DOMAIN matchers : MatcherOf(matchers[i], a, b) /\ Accepts(matchers[i])
  BY <1>0 DEF GlobInv, Compared
<1> DEFINE m == matchers[i]
<1>3. m \in AMatcher /\ m.is = Kind(a, b) /\ m.text = t /\ Accepts(m)
  BY <1>2 DEF GlobInv, MatcherOf
<1> HIDE DEF m, t, e
<1>4. \E j \in Nat \ {0} : IsAt(t, j, subject) /\ (a = 0 => j = 1) /\ (e = P => j + Len(t) - 1 = Len(subject))
  <2>1. CASE a = 0 /\ e = P
    <3>1. subject = t
      BY <1>0, <1>3, <2>1 DEF Kind, Accepts
    <3>2. SubSeq(t, 1, Len(t)) = t
      BY <1>1, SubSeqFull
    <3>3. IsAt(t, 1, subject) /\ 1 + Len(t) - 1 = Len(subject)
      BY <1>0, <3>1, <3>2 DEF IsAt
    <3>. QED BY <3>3
  <2>2. CASE a = 0 /\ e # P
    <3>1. IsAt(t, 1, subject)
      BY <1>0, <1>3, <2>2 DEF Kind, Accepts
    <3>. QED BY <2>2, <3>1
  <2>3. CASE a # 0 /\ e = P
    <3>1. Len(t) <= Len(subject) /\ IsAt(t, Len(subject) - Len(t) + 1, subject)
      BY <1>0, <1>3, <2>3 DEF Kind, Accepts
    <3>2. Len(subject) - Len(t) + 1 \in Nat \ {0} /\ (Len(subject) - Len(t) + 1) + Len(t) - 1 = Len(subject)
      BY <1>0, <1>1, <3>1
    <3>. QED BY <2>3, <3>1, <3>2
  <2>4. CASE a # 0 /\ e # P
    <3>1. PICK j \in m.from .. Len(subject) : IsAt(t, j, subject)
      BY <1>0, <1>3, <2>4 DEF Kind, Accepts
    <3>2. m.from \in Nat \ {0}
      BY <1>3 DEF AMatcher
    <3>. QED BY <2>4, <3>1, <3>2
  <2>. QED BY <2>1, <2>2, <2>3, <2>4
<1>5. PICK j \in Nat \ {0} : IsAt(t, j, subject) /\ (a = 0 => j = 1) /\ (e = P => j + Len(t) - 1 = Len(subject))
  BY <1>4
<1>6. j + Len(t) - 1 <= Len(subject) /\ \A k \in 1 .. Len(t) : subject[j + k - 1] = t[k]
  BY <1>0, <1>1, <1>5, AtPlace
<1>7. \A k \in a + 1 .. e : subject[j + (k - a) - 1] = pattern[k]
  <2> TAKE k \in a + 1 .. e
  <2>1. k - a \in 1 .. e - a /\ a + (k - a) = k
    BY <1>0
  <2>. QED BY <1>1, <1>6, <2>1
<1>. QED BY <1>0, <1>1, <1>5, <1>6, <1>7 DEF e

\* A pattern without stars.
LEMMA WholeIsMeant == ASSUME GlobInv, glob = "yes", Stars = {}, pattern # <<>> PROVE Means
<1> DEFINE P == Len(pattern)
<1>0. GlobTexts /\ P \in Nat \ {0} /\ Len(subject) \in Nat
  BY DEF GlobInv, GlobTexts
<1>1. \A k \in 1 .. P : pattern[k] # "*"
  BY <1>0 DEF Stars, GlobTexts
<1>2. Piece(0, P + 1) /\ ~LastLetter(0, P + 1)
  BY <1>0, <1>1 DEF Piece, LastLetter
<1>3. PICK a, b : a = 0 /\ b = P + 1
  OBVIOUS
<1>4. PICK i \in Nat \ {0} : /\ \A k \in a + 1 .. b - 1 : subject[i + (k - a) - 1] = pattern[k]
                             /\ a = 0 => i = 1
                             /\ b = P + 1 => i + (b - 1 - a) - 1 = Len(subject)
  BY <1>2, <1>3, PieceIsFound
<1>5. i = 1 /\ P = Len(subject)
  BY <1>0, <1>3, <1>4
<1>6. ASSUME NEW k \in 1 .. P PROVE subject[k] = pattern[k]
  <2>1. k \in a + 1 .. b - 1 /\ i + (k - a) - 1 = k
    BY <1>0, <1>3, <1>5
  <2>. QED BY <1>4, <2>1
<1> DEFINE c == [n \in 0 .. P |-> n]
<1>7. Meant(c)
  BY <1>0, <1>1, <1>5, <1>6 DEF Meant, StandsFor
<1>. QED BY <1>0, <1>7, MeansIsMeant

\* A piece between a star at the beginning and one at the end.
LEMMA InsideIsMeant == ASSUME GlobInv, glob = "yes", Stars = {1, Len(pattern)} PROVE Means
<1> DEFINE P == Len(pattern)
           L == Len(subject)
<1>0. GlobTexts /\ P \in Nat /\ L \in Nat
  BY DEF GlobInv, GlobTexts
<1>1. P \in Nat \ {0} /\ pattern[1] = "*" /\ pattern[P] = "*" /\ \A k \in 2 .. P - 1 : pattern[k] # "*"
  BY <1>0 DEF Stars, GlobTexts
<1>2. \E i \in 1 .. L + 1 : /\ \A k \in 2 .. P - 1 : subject[i + k - 2] = pattern[k]
                            /\ P >= 2 => i + P - 3 <= L
  <2>1. CASE P >= 3
    <3>1. Piece(1, P) /\ ~LastLetter(1, P)
      BY <1>0, <1>1, <2>1 DEF Piece, LastLetter
    <3>2. PICK i \in Nat \ {0} : /\ \A k \in 1 + 1 .. P - 1 : subject[i + (k - 1) - 1] = pattern[k]
                                 /\ i + (P - 1 - 1) - 1 <= L
      BY <3>1, PieceIsFound
    <3>3. i \in 1 .. L + 1 /\ i + P - 3 <= L
      <4>1. i + (P - 1 - 1) - 1 <= L /\ i \in Nat \ {0}
        BY <3>2
      <4> HIDE DEF P, L
      <4>. QED BY <1>0, <2>1, <4>1
    <3>4. \A k \in 2 .. P - 1 : subject[i + k - 2] = pattern[k]
      <4> TAKE k \in 2 .. P - 1
      <4>1. k \in 1 + 1 .. P - 1 /\ i + (k - 1) - 1 = i + k - 2
        BY <1>0
      <4>. QED BY <3>2, <4>1
    <3>. QED BY <3>3, <3>4
  <2>2. CASE P < 3
    <3>1. L + 1 \in 1 .. L + 1 /\ (L + 1) + P - 3 <= L
      BY <1>0, <2>2
    <3>. QED BY <1>0, <2>2, <3>1
  <2>. QED BY <1>0, <2>1, <2>2
<1>3. PICK i \in 1 .. L + 1 : /\ \A k \in 2 .. P - 1 : subject[i + k - 2] = pattern[k]
                              /\ P >= 2 => i + P - 3 <= L
  BY <1>2
<1> DEFINE c == [n \in 0 .. P |-> IF n = 0 THEN 0 ELSE IF n = P THEN L ELSE i + n - 2]
<1>4. \A n \in 1 .. P - 1 : i + n - 2 \in 0 .. L
  BY <1>0, <1>3
<1>5. c \in [0 .. P -> 0 .. L] /\ c[0] = 0 /\ c[P] = L /\ \A n \in 1 .. P - 1 : c[n] = i + n - 2
  <2>1. P \in Nat \ {0} /\ L \in Nat
    BY <1>0, <1>1
  <2> HIDE DEF P, L
  <2>2. ASSUME NEW n \in 0 .. P PROVE c[n] \in 0 .. L
    BY <1>4, <2>1
  <2>3. c \in [0 .. P -> 0 .. L]
    BY <2>2
  <2>. QED BY <2>1, <2>3
<1> HIDE DEF c
<1>6. ASSUME NEW n \in 1 .. P
      PROVE  IF pattern[n] = "*" THEN c[n - 1] <= c[n] ELSE c[n] = c[n - 1] + 1 /\ subject[c[n]] = pattern[n]
  <2>1. CASE n = P
    <3>1. c[n] = L /\ c[n - 1] \in 0 .. L
      BY <1>0, <1>5, <2>1
    <3>. QED BY <1>0, <1>1, <2>1, <3>1
  <2>2. CASE n = 1 /\ n # P
    BY <1>0, <1>1, <1>5, <2>2
  <2>3. CASE n \in 2 .. P - 1
    <3>1. c[n] = i + n - 2 /\ c[n - 1] = i + (n - 1) - 2
      BY <1>0, <1>5, <2>3
    <3>. QED BY <1>0, <1>1, <1>3, <2>3, <3>1
  <2>. QED BY <1>0, <2>1, <2>2, <2>3
<1>7. Meant(c)
  BY <1>5, <1>6 DEF Meant, StandsFor
<1>. QED BY <1>0, <1>7, MeansIsMeant

\* A beginning and an end that leave the star its part.
LEMMA EndsAreMeant ==
  ASSUME GlobInv, glob = "yes", NEW i \in Stars, Stars = {i}, i # Len(pattern) - 1, Len(subject) >= Len(pattern) - 1
  PROVE  Means
<1> DEFINE P == Len(pattern)
           L == Len(subject)
<1>0. GlobTexts /\ P \in Nat /\ L \in Nat /\ L >= P - 1 /\ i # P - 1
  BY DEF GlobInv, GlobTexts
<1>1. i \in 1 .. P /\ pattern[i] = "*" /\ \A k \in 1 .. P : k # i => pattern[k] # "*"
  BY <1>0 DEF Stars, GlobTexts
<1>2. \A k \in 1 .. i - 1 : subject[k] = pattern[k]
  <2>1. CASE i = 1
    BY <2>1
  <2>2. CASE i # 1
    <3>1. Piece(0, i) /\ ~LastLetter(0, i)
      BY <1>0, <1>1, <2>2 DEF Piece, LastLetter
    <3>2. \A k \in 0 + 1 .. i - 1 : subject[1 + (k - 0) - 1] = pattern[k]
      BY <3>1, PieceIsFound
    <3>3. ASSUME NEW k \in 1 .. i - 1 PROVE subject[k] = pattern[k]
      <4>1. k \in 0 + 1 .. i - 1 /\ 1 + (k - 0) - 1 = k
        BY <1>1
      <4>. QED BY <3>2, <4>1
    <3>. QED BY <3>3
  <2>. QED BY <2>1, <2>2
<1>3. \A k \in i + 1 .. P : subject[L - (P - k)] = pattern[k]
  <2>1. CASE i = P
    BY <1>0, <2>1
  <2>2. CASE i # P
    <3>1. Piece(i, P + 1) /\ ~LastLetter(i, P + 1)
      BY <1>0, <1>1, <2>2 DEF Piece, LastLetter
    <3>2. PICK b : b = P + 1
      OBVIOUS
    <3>3. PICK j \in Nat \ {0} : /\ \A k \in i + 1 .. b - 1 : subject[j + (k - i) - 1] = pattern[k]
                                 /\ b = P + 1 => j + (b - 1 - i) - 1 = L
      BY <3>1, <3>2, PieceIsFound
    <3>4. ASSUME NEW k \in i + 1 .. P PROVE subject[L - (P - k)] = pattern[k]
      <4>1. j + (b - 1 - i) - 1 = L /\ b = P + 1 /\ j \in Nat /\ i \in Nat /\ k \in Int
        BY <1>0, <1>1, <3>2, <3>3
      <4>2. k \in i + 1 .. b - 1 /\ j + (k - i) - 1 = L - (P - k)
        <5> HIDE DEF P, L
        <5>. QED BY <1>0, <4>1
      <4>. QED BY <3>3, <4>2
    <3>. QED BY <3>4
  <2>. QED BY <2>1, <2>2
<1> DEFINE c == [n \in 0 .. P |-> IF n < i THEN n ELSE L - (P - n)]
<1>4. /\ c \in [0 .. P -> 0 .. L] /\ c[0] = 0 /\ c[P] = L
      /\ \A n \in 0 .. P : c[n] = IF n < i THEN n ELSE L - (P - n)
  BY <1>0, <1>1
<1> HIDE DEF c
<1>5. ASSUME NEW n \in 1 .. P
      PROVE  IF pattern[n] = "*" THEN c[n - 1] <= c[n] ELSE c[n] = c[n - 1] + 1 /\ subject[c[n]] = pattern[n]
  <2>0. n - 1 \in 0 .. P /\ n \in 0 .. P
    BY <1>0
  <2>1. CASE n = i
    <3>1. c[n] = L - (P - i) /\ c[n - 1] = i - 1
      BY <1>1, <1>4, <2>0, <2>1
    <3>. QED BY <1>0, <1>1, <2>1, <3>1
  <2>2. CASE n \in 1 .. i - 1
    <3>1. c[n] = n /\ c[n - 1] = n - 1
      BY <1>1, <1>4, <2>0, <2>2
    <3>. QED BY <1>0, <1>1, <1>2, <2>2, <3>1
  <2>3. CASE n \in i + 1 .. P
    <3>1. c[n] = L - (P - n) /\ c[n - 1] = L - (P - (n - 1))
      BY <1>1, <1>4, <2>0, <2>3
    <3>. QED BY <1>0, <1>1, <1>3, <2>3, <3>1
  <2>. QED BY <1>0, <1>1, <2>1, <2>2, <2>3
<1>6. Meant(c)
  BY <1>4, <1>5 DEF Meant, StandsFor
<1>. QED BY <1>0, <1>6, MeansIsMeant

(***************************************************************************)
(* A search finds only names its pattern means, for simple patterns and    *)
(* names of any length: the places its matchers found make a cut of the    *)
(* name.                                                                   *)
(***************************************************************************)
THEOREM FoundIsMeant == GlobSpec => []NothingElseIsFound
<1>1. GlobInv => NothingElseIsFound
  BY WholeIsMeant, InsideIsMeant, EndsAreMeant DEF NothingElseIsFound, Simple
<1>. QED BY <1>1, GlobInvInit, GlobInvStep, PTL DEF GlobSpec

-----------------------------------------------------------------------------
(* The texts that refer to one another.                                    *)

Words == InfoKey \union Word
HaveTexts == KnownKeys(loaded)

\* A text that refers to nothing is its own replacement.
LEMMA ReplaceNothing ==
  ASSUME NEW B, NEW text \in Seq(B), Keys(text) = {}, NEW f
  PROVE  Replace(text, f) = text
<1> DEFINE parts == [i \in DOMAIN text |-> <<text[i]>>]
           Part(n) == SubSeq(text, 1, n)
           T == {n \in 0 .. Len(text) : Joined(SubSeq(parts, 1, n)) = Part(n)}
<1>1. Len(text) \in Nat /\ DOMAIN text = 1 .. Len(text) /\ \A i \in 1 .. Len(text) : text[i] \in B /\ text[i] \notin InfoKey
  <2>1. \A i \in 1 .. Len(text) : text[i] \in B
    BY ElementOfSeq
  <2>. QED BY <2>1 DEF Keys
<1>2. Replace(text, f) = Joined(parts)
  BY <1>1 DEF Replace
<1>3. parts \in Seq(Seq(B)) /\ Len(parts) = Len(text) /\ \A i \in 1 .. Len(text) : parts[i] = <<text[i]>>
  <2>1. parts = [i \in 1 .. Len(text) |-> <<text[i]>>]
    BY <1>1
  <2>2. \A i \in 1 .. Len(text) : <<text[i]>> \in Seq(B)
    BY <1>1
  <2> HIDE DEF parts
  <2>. QED BY <1>1, <2>1, <2>2
<1> HIDE DEF parts
<1>4. 0 \in T
  <2>1. SubSeq(parts, 1, 0) = <<>> /\ Part(0) = <<>>
    BY SubSeqEmpty
  <2>2. Joined(SubSeq(parts, 1, 0)) = Part(0)
    BY <2>1, JoinedEmpty, Zenon
  <2>. QED BY <1>1, <2>2
<1>5. ASSUME NEW n \in 1 .. Len(text), n - 1 \in T PROVE n \in T
  <2> DEFINE s == SubSeq(parts, 1, n - 1)
             t == Part(n - 1)
  <2>1. s \in Seq(Seq(B)) /\ t \in Seq(B) /\ parts[n] \in Seq(B) /\ text[n] \in B
    <3>1. \A i \in 1 .. n - 1 : parts[i] \in Seq(B) /\ text[i] \in B
      BY <1>1, <1>3
    <3>. QED BY <1>1, <1>3, <3>1, SubSeqProperties
  <2>2. SubSeq(parts, 1, n) = Append(s, parts[n]) /\ Part(n) = Append(t, text[n])
    BY <1>1, <1>3, SubSeqRecursiveSecond, AppendIsConcat
  <2>3. Joined(s) = t
    BY <1>5
  <2> HIDE DEF s, t
  <2>4. Joined(Append(s, parts[n])) = Join(t, parts[n])
    BY <2>1, <2>3, JoinedAppend
  <2>5. Join(t, parts[n]) = Append(t, text[n])
    BY <1>3, <2>1, AppendIsConcat DEF Join
  <2>6. Joined(SubSeq(parts, 1, n)) = Part(n)
    BY <2>2, <2>4, <2>5, Zenon
  <2>. QED BY <1>1, <2>6
<1>6. Len(text) \in T
  <2> HIDE DEF T
  <2>1. \A n \in 0 .. Len(text) : n \in T
    BY <1>1, <1>4, <1>5, CountsUp
  <2>. QED BY <1>1, <2>1
<1>7. SubSeq(parts, 1, Len(text)) = parts /\ Part(Len(text)) = text
  BY <1>3, SubSeqFull
<1>. QED BY <1>2, <1>6, <1>7

\* What replaces the keys says what the replaced text is made of, and nothing else of f matters.
LEMMA ReplaceType ==
  ASSUME NEW B, NEW text \in Seq(InfoKey \union B), NEW f, \A d \in Keys(text) : f[d] \in Seq(B)
  PROVE  Replace(text, f) \in Seq(B)
<1> DEFINE Of(x) == IF x \in InfoKey THEN f[x] ELSE <<x>>
           parts == [i \in 1 .. Len(text) |-> Of(text[i])]
<1>1. Len(text) \in Nat /\ DOMAIN text = 1 .. Len(text) /\ \A i \in 1 .. Len(text) : text[i] \in InfoKey \union B
  BY ElementOfSeq
<1>2. \A i \in 1 .. Len(text) : Of(text[i]) \in Seq(B)
  <2> SUFFICES ASSUME NEW i \in 1 .. Len(text) PROVE Of(text[i]) \in Seq(B)
    OBVIOUS
  <2>1. CASE text[i] \in InfoKey
    <3>1. text[i] \in Keys(text)
      BY <1>1, <2>1 DEF Keys
    <3>. QED BY <2>1, <3>1
  <2>2. CASE text[i] \notin InfoKey
    <3>1. text[i] \in B
      BY <1>1, <2>2
    <3>2. <<text[i]>> \in Seq(B)
      BY <3>1
    <3>. QED BY <2>2, <3>2
  <2>. QED BY <2>1, <2>2
<1>3. parts \in Seq(Seq(B))
  <2> DEFINE U == Seq(B)
  <2> HIDE DEF Of, U
  <2>1. \A i \in 1 .. Len(text) : Of(text[i]) \in U
    BY <1>2 DEF U
  <2>2. parts \in Seq(U)
    BY <1>1, <2>1
  <2>. QED BY <2>2 DEF U
<1>4. Replace(text, f) = Joined(parts)
  BY <1>1 DEF Replace
<1>. QED
  <2> HIDE DEF parts
  <2>. QED BY <1>3, <1>4, JoinedType

\* Only what f gives for the keys of the text matters.
LEMMA ReplaceSame ==
  ASSUME NEW text, NEW f, NEW g, \A d \in Keys(text) : f[d] = g[d]
  PROVE  Replace(text, f) = Replace(text, g)
<1> DEFINE Of(h) == [i \in DOMAIN text |-> IF text[i] \in InfoKey THEN h[text[i]] ELSE <<text[i]>>]
<1>1. Of(f) = Of(g)
  <2>1. \A i \in DOMAIN text : text[i] \in InfoKey => text[i] \in Keys(text)
    BY DEF Keys
  <2>. QED BY <2>1
<1>2. Replace(text, f) = Joined(Of(f)) /\ Replace(text, g) = Joined(Of(g))
  BY DEF Replace
<1> HIDE DEF Of
<1>. QED BY <1>1, <1>2

-----------------------------------------------------------------------------

\* One reference further than the keys of s.
Further(s) == UNION {Keys(loaded[d]) : d \in s \cap HaveTexts}

LEMMA ReachedRecurs ==
  ASSUME NEW k \in InfoKey
  PROVE  /\ Reached(0, k) = {k}
         /\ \A n \in Nat : Reached(n + 1, k) = Further(Reached(n, k)) /\ Reached(n, k) \in SUBSET InfoKey
<1> DEFINE U == SUBSET InfoKey
           one == {k}
           D == [s \in U |-> Further(s)]
           IsReach(f) == f = [i \in Nat |-> IF i = 0 THEN one ELSE Further(f[i - 1])]
           reach == CHOOSE f : IsReach(f)
<1>1. one \in U /\ \A s : Further(s) \in U
  BY DEF Further, Keys
<1>2. \A n : Reached(n, k) = reach[n]
  BY DEF Reached, Further, HaveTexts
<1> HIDE DEF U, one
<1>3. D \in [U -> U]
  BY <1>1
<1>4. (\E f : Repeats(f, one, D)) /\ \A f : Repeats(f, one, D) => f \in [Nat -> U]
  <2> HIDE DEF D
  <2>. QED BY <1>1, <1>3, RepetitionExists
<1>5. ASSUME NEW f, f \in [Nat -> U] PROVE Repeats(f, one, D) <=> IsReach(f)
  <2>1. \A i \in Nat : i # 0 => i - 1 \in Nat /\ f[i - 1] \in U
    BY <1>5
  <2>2. \A i \in Nat : i # 0 => D[f[i - 1]] = Further(f[i - 1])
    BY <2>1
  <2> HIDE DEF D
  <2>. QED BY <2>2 DEF Repeats
<1>6. IsReach(reach)
  <2>1. \E f : IsReach(f)
    BY <1>4, <1>5
  <2>. QED BY <2>1
<1> HIDE DEF reach
<1>7. reach[0] = one /\ \A i \in Nat : reach[i + 1] = Further(reach[i])
  BY <1>6
<1>8. \A i \in Nat : reach[i] \in U
  <2> SUFFICES ASSUME NEW i \in Nat PROVE reach[i] \in U
    OBVIOUS
  <2>1. i = 0 \/ (i - 1 \in Nat /\ (i - 1) + 1 = i)
    OBVIOUS
  <2>. QED BY <1>1, <1>7, <2>1
<1>. QED BY <1>2, <1>7, <1>8 DEF U, one

\* The texts with the keys replaced, n times over.
Rounds(m, S) ==
  /\ m \in [Nat -> [InfoKey -> S]]
  /\ m[0] = loaded
  /\ \A n \in Nat, d \in InfoKey : m[n + 1][d] = Replace(loaded[d], m[n])
  /\ \A k : Meaning(k) = m[Len(table)][k]

LEMMA MeaningRecurs ==
  ASSUME NEW B, InfoKey \subseteq B, loaded \in [InfoKey -> Seq(B)]
  PROVE  \E m : Rounds(m, Seq(B))
<1> DEFINE S == Seq(B)
           U == [InfoKey -> S]
           Once(g) == [d \in InfoKey |-> Replace(loaded[d], g)]
           D == [g \in U |-> Once(g)]
           IsMeaning(f) == f = [i \in Nat |-> IF i = 0 THEN loaded ELSE Once(f[i - 1])]
           rounds == CHOOSE f : IsMeaning(f)
<1>1. ASSUME NEW g \in U PROVE Once(g) \in U
  <2>1. InfoKey \union B = B
    OBVIOUS
  <2>2. ASSUME NEW d \in InfoKey PROVE Replace(loaded[d], g) \in Seq(B)
    <3>1. loaded[d] \in Seq(InfoKey \union B)
      BY <2>1
    <3>2. \A e \in Keys(loaded[d]) : g[e] \in Seq(B)
      BY DEF Keys
    <3>. QED BY <3>1, <3>2, ReplaceType
  <2>. QED BY <2>2
<1>2. \A k : Meaning(k) = rounds[Len(table)][k]
  BY DEF Meaning
<1>3. loaded \in U
  OBVIOUS
<1> HIDE DEF U, Once
<1>4. D \in [U -> U]
  BY <1>1
<1>5. (\E f : Repeats(f, loaded, D)) /\ \A f : Repeats(f, loaded, D) => f \in [Nat -> U]
  <2> HIDE DEF D
  <2>. QED BY <1>3, <1>4, RepetitionExists
<1>6. PICK m : Repeats(m, loaded, D) /\ m \in [Nat -> U]
  BY <1>5
<1>7. IsMeaning(m)
  <2>1. \A i \in Nat : i # 0 => i - 1 \in Nat /\ m[i - 1] \in U
    BY <1>6
  <2>2. \A i \in Nat : i # 0 => D[m[i - 1]] = Once(m[i - 1])
    BY <2>1
  <2> HIDE DEF D
  <2>. QED BY <1>6, <2>2 DEF Repeats
<1>8. IsMeaning(rounds)
  BY <1>7
<1> HIDE DEF rounds, D
<1>9. rounds = [i \in Nat |-> rounds[i]] /\ rounds[0] = loaded /\ \A i \in Nat : rounds[i + 1] = Once(rounds[i])
  <2>1. rounds = [i \in Nat |-> IF i = 0 THEN loaded ELSE Once(rounds[i - 1])]
    BY <1>8
  <2>2. \A i \in Nat : rounds[i] = IF i = 0 THEN loaded ELSE Once(rounds[i - 1])
    BY <2>1, Zenon
  <2>3. \A i \in Nat : i + 1 \in Nat /\ i + 1 # 0 /\ (i + 1) - 1 = i
    OBVIOUS
  <2>4. ASSUME NEW i \in Nat PROVE rounds[i + 1] = Once(rounds[i])
    BY <2>2, <2>3, Zenon
  <2>5. rounds = [i \in Nat |-> rounds[i]]
    BY <2>1
  <2>. QED BY <2>2, <2>4, <2>5
<1>10. \A n \in Nat : rounds[n] \in U
  <2> SUFFICES ASSUME NEW n \in Nat PROVE rounds[n] \in U
    OBVIOUS
  <2> DEFINE T == {i \in 0 .. n : rounds[i] \in U}
  <2>1. 0 \in T
    BY <1>3, <1>9
  <2>2. ASSUME NEW i \in 1 .. n, i - 1 \in T PROVE i \in T
    <3>1. (i - 1) + 1 = i /\ i - 1 \in Nat /\ rounds[i - 1] \in U /\ i \in 0 .. n
      BY <2>2
    <3>2. rounds[i] = Once(rounds[i - 1])
      BY <1>9, <3>1
    <3>. QED BY <1>1, <3>1, <3>2
  <2> HIDE DEF T
  <2>3. n \in T
    BY <2>1, <2>2, CountsUp
  <2>. QED BY <2>3 DEF T
<1>11. rounds \in [Nat -> U]
  BY <1>9, <1>10
<1>12. Rounds(rounds, S)
  <2>1. \A n \in Nat, d \in InfoKey : rounds[n + 1][d] = Replace(loaded[d], rounds[n])
    BY <1>9 DEF Once
  <2>. QED BY <1>2, <1>9, <1>11, <2>1 DEF U, Rounds
<1>. QED BY <1>12

-----------------------------------------------------------------------------

\* Nothing k leads to is missing, or leads to itself.
Fine(k) == \A n \in Nat : \A e \in Reached(n, k) : e \in HaveTexts /\ \A j \in Nat \ {0} : e \notin Reached(j, e)

LEMMA KnownAreKeys == HaveTexts \subseteq InfoKey /\ \A t : Keys(t) \subseteq InfoKey
BY DEF HaveTexts, KnownKeys, Keys

\* What is referred to by what n references reach, n + 1 of them reach.
LEMMA ReachedNext ==
  ASSUME NEW k \in InfoKey, NEW n \in Nat, NEW e \in Reached(n, k), e \in HaveTexts, NEW d \in Keys(loaded[e])
  PROVE  d \in Reached(n + 1, k)
<1>1. Reached(n + 1, k) = Further(Reached(n, k))
  BY ReachedRecurs
<1>. QED BY <1>1 DEF Further

\* References on the way from k to e and from e on make one way from k.
LEMMA ReachedTogether ==
  ASSUME NEW k \in InfoKey, NEW n \in Nat, NEW e \in Reached(n, k), NEW j \in Nat
  PROVE  Reached(j, e) \subseteq Reached(n + j, k)
<1> DEFINE T == {i \in 0 .. j : Reached(i, e) \subseteq Reached(n + i, k)}
<1>0. e \in InfoKey
  BY ReachedRecurs
<1>1. 0 \in T
  <2>1. Reached(0, e) = {e} /\ n + 0 = n
    BY <1>0, ReachedRecurs
  <2>. QED BY <2>1
<1>2. ASSUME NEW i \in 1 .. j, i - 1 \in T PROVE i \in T
  <2>1. /\ i - 1 \in Nat /\ n + (i - 1) \in Nat /\ (i - 1) + 1 = i /\ (n + (i - 1)) + 1 = n + i /\ i \in 0 .. j
        /\ Reached(i - 1, e) \subseteq Reached(n + (i - 1), k)
    BY <1>2
  <2>2. Reached((i - 1) + 1, e) = Further(Reached(i - 1, e))
    BY <1>0, <2>1, ReachedRecurs
  <2>3. Reached((n + (i - 1)) + 1, k) = Further(Reached(n + (i - 1), k))
    BY <2>1, ReachedRecurs
  <2>4. Reached(i, e) \subseteq Reached(n + i, k)
    BY <2>1, <2>2, <2>3 DEF Further
  <2>. QED BY <2>1, <2>4
<1>3. \A i \in 0 .. j : i \in T
  <2> HIDE DEF T
  <2>. QED BY <1>1, <1>2, CountsUp
<1>4. j \in T
  BY <1>3
<1>. QED BY <1>4

\* The first reference on the way is one of the text of k.
LEMMA ReachedFirst ==
  ASSUME NEW k \in InfoKey, NEW n \in Nat, NEW e \in Reached(n + 1, k)
  PROVE  k \in HaveTexts /\ \E d \in Keys(loaded[k]) : e \in Reached(n, d)
<1> DEFINE T == {i \in 0 .. n : \A x \in Reached(i + 1, k) : k \in HaveTexts /\ \E d \in Keys(loaded[k]) : x \in Reached(i, d)}
<1>1. 0 \in T
  <2>1. Reached(0 + 1, k) = Further({k})
    BY ReachedRecurs
  <2>2. ASSUME NEW x \in Reached(0 + 1, k) PROVE k \in HaveTexts /\ \E d \in Keys(loaded[k]) : x \in Reached(0, d)
    <3>1. k \in HaveTexts /\ x \in Keys(loaded[k])
      BY <2>1, <2>2 DEF Further
    <3>2. Reached(0, x) = {x}
      BY <3>1, KnownAreKeys, ReachedRecurs
    <3>. QED BY <3>1, <3>2
  <2>. QED BY <2>2
<1>2. ASSUME NEW i \in 1 .. n, i - 1 \in T PROVE i \in T
  <2>1. /\ i \in Nat /\ i - 1 \in Nat /\ (i - 1) + 1 = i /\ i \in 0 .. n
        /\ \A x \in Reached(i, k) : k \in HaveTexts /\ \E d \in Keys(loaded[k]) : x \in Reached(i - 1, d)
    BY <1>2
  <2>2. ASSUME NEW x \in Reached(i + 1, k) PROVE k \in HaveTexts /\ \E d \in Keys(loaded[k]) : x \in Reached(i, d)
    <3>1. Reached(i + 1, k) = Further(Reached(i, k))
      BY <2>1, ReachedRecurs
    <3>2. PICK y \in Reached(i, k) : y \in HaveTexts /\ x \in Keys(loaded[y])
      BY <2>2, <3>1 DEF Further
    <3>3. PICK d \in Keys(loaded[k]) : y \in Reached(i - 1, d)
      BY <2>1, <3>2
    <3>4. x \in Reached((i - 1) + 1, d)
      BY <2>1, <3>2, <3>3, KnownAreKeys, ReachedNext
    <3>. QED BY <2>1, <3>2, <3>3, <3>4
  <2>. QED BY <2>1, <2>2
<1>3. \A i \in 0 .. n : i \in T
  <2> HIDE DEF T
  <2>. QED BY <1>1, <1>2, CountsUp
<1>4. n \in T
  BY <1>3
<1>. QED BY <1>4

\* A known key is fine exactly when those of its text are.
LEMMA FineBelow ==
  ASSUME NEW k \in InfoKey, Fine(k), NEW d \in Keys(loaded[k])
  PROVE  Fine(d) /\ d \in HaveTexts
<1>1. k \in Reached(0, k) /\ k \in HaveTexts
  <2>1. k \in Reached(0, k) /\ 0 \in Nat
    BY ReachedRecurs
  <2>. QED BY <2>1 DEF Fine
<1>2. d \in Reached(0 + 1, k)
  BY <1>1, ReachedNext
<1>3. ASSUME NEW n \in Nat, NEW e \in Reached(n, d) PROVE e \in Reached(1 + n, k) /\ 1 + n \in Nat
  BY <1>2, ReachedTogether
<1>. QED BY <1>2, <1>3 DEF Fine

\* A way from k back to k would be one from a key of its text back to that.
LEMMA FineFromBelow ==
  ASSUME NEW k \in HaveTexts, \A d \in Keys(loaded[k]) : Fine(d)
  PROVE  Fine(k)
<1>0. k \in InfoKey
  BY KnownAreKeys
<1>1. ASSUME NEW n \in Nat, NEW e \in Reached(n, k) PROVE e \in HaveTexts /\ \A j \in Nat \ {0} : e \notin Reached(j, e)
  <2>1. CASE n = 0
    <3>1. e = k
      BY <1>0, <1>1, <2>1, ReachedRecurs
    <3>2. ASSUME NEW j \in Nat \ {0}, k \in Reached(j, k) PROVE FALSE
      <4>1. j - 1 \in Nat /\ (j - 1) + 1 = j
        OBVIOUS
      <4>2. PICK d \in Keys(loaded[k]) : k \in Reached(j - 1, d)
        BY <1>0, <3>2, <4>1, ReachedFirst
      <4>. QED BY <3>2, <4>1, <4>2 DEF Fine
    <3>. QED BY <3>1, <3>2
  <2>2. CASE n # 0
    <3>1. n - 1 \in Nat /\ (n - 1) + 1 = n
      BY <2>2
    <3>2. PICK d \in Keys(loaded[k]) : e \in Reached(n - 1, d)
      BY <1>0, <1>1, <3>1, ReachedFirst
    <3>. QED BY <3>1, <3>2 DEF Fine
  <2>. QED BY <2>1, <2>2
<1>. QED BY <1>1 DEF Fine

-----------------------------------------------------------------------------

\* The rows are at least as many as the keys they give a text.
RowsFit == loaded \in [InfoKey -> Seq(Words) \union {NoText}] /\ Len(table) \in Nat /\ IsFiniteSet(HaveTexts) /\ Cardinality(HaveTexts) <= Len(table)

\* Keys of a set shrink with each one that is taken out.
LEMMA OneLess ==
  ASSUME NEW K, IsFiniteSet(K), NEW P \in SUBSET K, NEW d \in K \ P
  PROVE  /\ IsFiniteSet(K \ P) /\ Cardinality(K \ P) \in 1 .. Cardinality(K) /\ Cardinality(K) \in Nat
         /\ P \union {d} \in SUBSET K
         /\ Cardinality(K \ (P \union {d})) = Cardinality(K \ P) - 1
<1>1. IsFiniteSet(K \ P) /\ Cardinality(K \ P) <= Cardinality(K) /\ Cardinality(K) \in Nat /\ Cardinality(K \ P) \in Nat
  <2>1. K \ P \in SUBSET K
    OBVIOUS
  <2>. QED BY <2>1, FS_Subset, FS_CardinalityType
<1>2. K \ (P \union {d}) = (K \ P) \ {d}
  OBVIOUS
<1>3. Cardinality((K \ P) \ {d}) = Cardinality(K \ P) - 1
  BY <1>1, FS_RemoveElement
<1>4. Cardinality(K \ P) # 0
  BY <1>1, FS_EmptySet
<1>. QED BY <1>1, <1>2, <1>3, <1>4

\* Where no key is left to count, none is left.
LEMMA SomeLeft ==
  ASSUME NEW K, IsFiniteSet(K), NEW P \in SUBSET K
  PROVE  Cardinality(K \ P) \in Nat /\ (Cardinality(K \ P) <= 0 => K \ P = {})
<1>1. IsFiniteSet(K \ P) /\ Cardinality(K \ P) \in Nat
  BY FS_Difference, FS_CardinalityType
<1>2. Cardinality(K \ P) = 0 => K \ P = {}
  BY <1>1, FS_EmptySet
<1>. QED BY <1>1, <1>2

\* The case of one key taken out of all.
LEMMA OneOfThem ==
  ASSUME NEW K, IsFiniteSet(K), NEW d \in K
  PROVE  Cardinality(K \ {d}) = Cardinality(K) - 1 /\ Cardinality(K) - 1 \in Nat /\ Cardinality(K) \in Nat
<1>1. Cardinality(K \ {d}) = Cardinality(K) - 1
  BY FS_RemoveElement
<1>2. IsFiniteSet(K \ {d}) /\ Cardinality(K \ {d}) \in Nat
  BY FS_Difference, FS_CardinalityType
<1>3. Cardinality(K) \in Nat
  BY FS_CardinalityType
<1>. QED BY <1>1, <1>2, <1>3

\* With as many rounds as there are keys left to meet, the text of a fine key is settled.
LEMMA Settles ==
  ASSUME RowsFit, NEW S, NEW m, Rounds(m, S), NEW N \in Nat
  PROVE  \A P \in SUBSET HaveTexts, k \in HaveTexts, i \in Nat :
           (/\ Cardinality(HaveTexts \ P) <= N /\ Fine(k) /\ i >= N
            /\ \A p \in P : \E j \in Nat : k \in Reached(j, p)
            /\ k \in P)
           => m[i][k] = m[N][k]
<1> DEFINE Met(P, k) == k \in P /\ \A p \in P : \E j \in Nat : k \in Reached(j, p)
           Settled(n) == \A P \in SUBSET HaveTexts, k \in HaveTexts, i \in Nat :
                           Cardinality(HaveTexts \ P) <= n /\ Fine(k) /\ i >= n /\ Met(P, k) => m[i][k] = m[n][k]
           T == {n \in 0 .. N : Settled(n)}
<1>0. IsFiniteSet(HaveTexts) /\ \A P \in SUBSET HaveTexts : IsFiniteSet(HaveTexts \ P) /\ Cardinality(HaveTexts \ P) \in Nat
  BY FS_Difference, FS_CardinalityType DEF RowsFit
<1>1. ASSUME NEW P \in SUBSET HaveTexts, NEW k \in HaveTexts, Fine(k), Met(P, k), NEW d \in Keys(loaded[k])
      PROVE  d \in HaveTexts \ P /\ Fine(d) /\ Met(P \union {d}, d)
  <2>1. k \in InfoKey /\ d \in InfoKey
    BY KnownAreKeys
  <2>2. Fine(d) /\ d \in HaveTexts
    BY <1>1, <2>1, FineBelow
  <2>3. k \in Reached(0, k) /\ d \in Reached(0 + 1, k) /\ d \in Reached(0, d)
    BY <2>1, ReachedRecurs, ReachedNext
  <2>4. ASSUME d \in P PROVE FALSE
    <3>1. PICK j \in Nat : k \in Reached(j, d)
      BY <1>1, <2>4
    <3>2. d \in Reached(j + 1, d)
      BY <2>1, <3>1, ReachedNext
    <3>3. j + 1 \in Nat \ {0} /\ 0 \in Nat
      OBVIOUS
    <3>. QED BY <2>2, <2>3, <3>2, <3>3 DEF Fine
  <2>5. ASSUME NEW p \in P PROVE \E j \in Nat : d \in Reached(j, p)
    <3>1. PICK j \in Nat : k \in Reached(j, p)
      BY <1>1
    <3>2. d \in Reached(j + 1, p) /\ j + 1 \in Nat
      BY <3>1, KnownAreKeys, ReachedNext
    <3>. QED BY <3>2
  <2>. QED BY <2>2, <2>3, <2>4, <2>5
<1> HIDE DEF Met
<1>2. 0 \in T
  <2> SUFFICES ASSUME NEW P \in SUBSET HaveTexts, NEW k \in HaveTexts, NEW i \in Nat, Cardinality(HaveTexts \ P) <= 0, Fine(k), Met(P, k)
               PROVE  m[i][k] = m[0][k]
    OBVIOUS
  <2>1. HaveTexts \ P = {}
    BY <1>0, FS_EmptySet
  <2>2. Keys(loaded[k]) = {}
    BY <1>1, <2>1
  <2>3. k \in InfoKey /\ loaded[k] \in Seq(Words)
    BY KnownAreKeys DEF RowsFit, HaveTexts, KnownKeys
  <2>4. \A f : Replace(loaded[k], f) = loaded[k]
    BY <2>2, <2>3, ReplaceNothing
  <2>5. i = 0 \/ (i - 1 \in Nat /\ (i - 1) + 1 = i)
    OBVIOUS
  <2>. QED BY <2>3, <2>4, <2>5 DEF Rounds
<1>3. ASSUME NEW n \in 1 .. N, n - 1 \in T PROVE n \in T
  <2> SUFFICES ASSUME NEW P \in SUBSET HaveTexts, NEW k \in HaveTexts, NEW i \in Nat, Cardinality(HaveTexts \ P) <= n,
                      Fine(k), i >= n, Met(P, k)
               PROVE  m[i][k] = m[n][k]
    OBVIOUS
  <2>1. i - 1 \in Nat /\ (i - 1) + 1 = i /\ n - 1 \in Nat /\ (n - 1) + 1 = n /\ i - 1 >= n - 1
    OBVIOUS
  <2>2. Settled(n - 1)
    BY <1>3
  <2>3. ASSUME NEW d \in Keys(loaded[k]) PROVE m[i - 1][d] = m[n - 1][d]
    <3>1. d \in HaveTexts \ P /\ Fine(d) /\ Met(P \union {d}, d)
      BY <1>1
    <3>2. /\ Cardinality(HaveTexts \ (P \union {d})) = Cardinality(HaveTexts \ P) - 1
          /\ P \union {d} \in SUBSET HaveTexts
      BY <1>0, <3>1, OneLess, Zenon
    <3>3. Cardinality(HaveTexts \ (P \union {d})) <= n - 1
      <4>1. Cardinality(HaveTexts \ P) \in Nat
        BY <1>0
      <4>. QED BY <3>2, <4>1
    <3>. QED BY <2>1, <2>2, <3>1, <3>2, <3>3
  <2>4. Replace(loaded[k], m[i - 1]) = Replace(loaded[k], m[n - 1])
    BY <2>3, ReplaceSame
  <2>. QED BY <2>1, <2>4, KnownAreKeys DEF Rounds
<1>4. N \in T
  <2> HIDE DEF T
  <2>1. \A n \in 0 .. N : n \in T
    BY <1>2, <1>3, CountsUp
  <2>. QED BY <2>1
<1>. QED BY <1>4 DEF Met

\* What a fine key means is its text with what the keys in it mean.
LEMMA MeaningOfFine ==
  ASSUME RowsFit, NEW k \in HaveTexts, Fine(k), NEW f, \A d \in Keys(loaded[k]) : f[d] = Meaning(d)
  PROVE  Meaning(k) = Replace(loaded[k], f)
<1> DEFINE B == Words \union {"none"}
           L == Len(table)
           N == Cardinality(HaveTexts) - 1
<1>1. PICK m : Rounds(m, Seq(B))
  <2>1. loaded \in [InfoKey -> Seq(B)]
    <3>1. Seq(Words) \subseteq Seq(B) /\ NoText \in Seq(B)
      BY DEF NoText
    <3> HIDE DEF B
    <3>. QED BY <3>1 DEF RowsFit
  <2>2. InfoKey \subseteq B
    BY DEF Words
  <2> HIDE DEF B
  <2>. QED BY <2>1, <2>2, MeaningRecurs
<1>2. k \in InfoKey /\ {k} \in SUBSET HaveTexts /\ IsFiniteSet(HaveTexts)
  BY KnownAreKeys DEF RowsFit
<1>3. /\ Cardinality(HaveTexts \ {k}) = N /\ N \in Nat
      /\ L \in Nat /\ L - 1 \in Nat /\ (L - 1) + 1 = L /\ L - 1 >= N /\ L >= N
  <2>1. Cardinality(HaveTexts \ {k}) = N /\ N \in Nat /\ Cardinality(HaveTexts) \in Nat
    BY <1>2, OneOfThem
  <2>. QED BY <2>1 DEF RowsFit
<1>4. ASSUME NEW d \in Keys(loaded[k]) PROVE m[L - 1][d] = Meaning(d)
  <2>1. d \in InfoKey /\ Fine(d) /\ d \in HaveTexts /\ {d} \in SUBSET HaveTexts
    BY <1>2, KnownAreKeys, FineBelow
  <2>2. d \in Reached(0, d)
    BY <2>1, ReachedRecurs
  <2>3. Cardinality(HaveTexts \ {d}) <= N
    <3>1. Cardinality(HaveTexts \ {d}) = N
      BY <1>2, <2>1, OneOfThem
    <3>. QED BY <1>3, <3>1
  <2>4. ASSUME NEW i \in Nat, i >= N PROVE m[i][d] = m[N][d]
    <3> DEFINE P == {d}
               S == Seq(B)
    <3>1. P \in SUBSET HaveTexts /\ d \in P /\ Cardinality(HaveTexts \ P) <= N /\ \A p \in P : \E j \in Nat : d \in Reached(j, p)
      BY <2>1, <2>2, <2>3
    <3>2. Rounds(m, S) /\ N \in Nat /\ d \in HaveTexts /\ Fine(d)
      BY <1>1, <1>3, <2>1
    <3> HIDE DEF N, B, P, S
    <3>. QED BY <2>4, <3>1, <3>2, Settles
  <2>5. m[L - 1][d] = m[N][d] /\ m[L][d] = m[N][d]
    <3> HIDE DEF N, L
    <3>. QED BY <1>3, <2>4
  <2>. QED BY <1>1, <2>5 DEF Rounds
<1>5. Replace(loaded[k], m[L - 1]) = Replace(loaded[k], f)
  BY <1>4, ReplaceSame
<1>. QED BY <1>1, <1>2, <1>3, <1>5 DEF Rounds

-----------------------------------------------------------------------------

\* A resolution has no keys; NoText is none.
Result == Seq(Word) \union {NoText}

LEMMA NoTextIsNone == NoText \notin Seq(Word) /\ NoText \notin Seq(Words) /\ \A t \in Seq(Word) : Keys(t) = {} /\ t \in Seq(Words)
<1>1. \A t \in Seq(Words) : Len(t) = 1 => t[1] \in Words
  BY ElementOfSeq
<1>2. NoText \notin Seq(Words)
  BY <1>1, InfoAssumption DEF NoText, Words
<1>3. ASSUME NEW t \in Seq(Word) PROVE t \in Seq(Words) /\ Keys(t) = {}
  <2>1. DOMAIN t = 1 .. Len(t) /\ \A i \in 1 .. Len(t) : t[i] \in Word
    BY ElementOfSeq
  <2>. QED BY <1>3, <2>1, InfoAssumption DEF Keys, Words
<1>. QED BY <1>2, <1>3

TextsTyped == \A k \in KnownKeys(texts) : texts[k] \in Seq(Words)

\* A call gives a resolution or none, if those below it do.
LEMMA WithinType ==
  ASSUME TextsTyped, NEW key, NEW path, NEW k \in KnownKeys(texts), NEW deeper,
         \A d \in KnownKeys(texts) \ path : deeper[path \union {d}][d] \in Result
  PROVE  ResolveWithin(key, path, k, deeper) \in Result
<1> DEFINE below == [d \in Keys(texts[k]) |-> IF d \in KnownKeys(texts) \ path THEN deeper[path \union {d}][d] ELSE NoText]
<1>1. ResolveWithin(key, path, k, deeper) =
        IF key \in path \/ \E d \in DOMAIN below : below[d] = NoText THEN NoText ELSE Replace(texts[k], below)
  BY DEF ResolveWithin
<1>2. DOMAIN below = Keys(texts[k]) /\ \A d \in Keys(texts[k]) : below[d] \in Result
  BY DEF Result
<1> HIDE DEF below
<1>3. CASE \A d \in Keys(texts[k]) : below[d] # NoText
  <2>1. \A d \in Keys(texts[k]) : below[d] \in Seq(Word)
    BY <1>2, <1>3 DEF Result
  <2>2. texts[k] \in Seq(InfoKey \union Word)
    BY DEF TextsTyped, Words
  <2>3. Replace(texts[k], below) \in Seq(Word)
    BY <2>1, <2>2, ReplaceType
  <2>. QED BY <1>1, <2>3 DEF Result
<1>4. CASE \E d \in Keys(texts[k]) : below[d] = NoText
  BY <1>1, <1>2, <1>4 DEF Result
<1>. QED BY <1>3, <1>4

\* A call depends on nothing but what the calls below it give.
LEMMA WithinSame ==
  ASSUME NEW key, NEW path, NEW k, NEW f, NEW g,
         \A d \in KnownKeys(texts) \ path : f[path \union {d}][d] = g[path \union {d}][d]
  PROVE  ResolveWithin(key, path, k, f) = ResolveWithin(key, path, k, g)
<1> DEFINE below(h) == [d \in Keys(texts[k]) |-> IF d \in KnownKeys(texts) \ path THEN h[path \union {d}][d] ELSE NoText]
           Out(b) == IF key \in path \/ \E d \in DOMAIN b : b[d] = NoText THEN NoText ELSE Replace(texts[k], b)
<1>1. below(f) = below(g)
  OBVIOUS
<1>2. ResolveWithin(key, path, k, f) = Out(below(f)) /\ ResolveWithin(key, path, k, g) = Out(below(g))
  BY DEF ResolveWithin
<1> HIDE DEF below, Out
<1>. QED BY <1>1, <1>2

\* The recursion of ResolveString is a function that obeys its equation: a
\* path has one key more with every call, and there is no more to add in the end.
Resolves(r, key) ==
  /\ r \in [SUBSET KnownKeys(texts) -> [KnownKeys(texts) -> Result]]
  /\ \A path \in SUBSET KnownKeys(texts), k \in KnownKeys(texts) : r[path][k] = ResolveWithin(key, path, k, r)
  /\ ResolveString(key) = r[{}][key]

LEMMA ResolveRecurs ==
  ASSUME TextsTyped, IsFiniteSet(KnownKeys(texts)), NEW key
  PROVE  \E r : Resolves(r, key)
<1> DEFINE K == KnownKeys(texts)
           F == [SUBSET K -> [K -> Result]]
           Within(p, x, f) == ResolveWithin(key, p, x, f)
           Once(f) == [p \in SUBSET K |-> [x \in K |-> Within(p, x, f)]]
           D == [f \in F |-> Once(f)]
           nothing == [path \in SUBSET K |-> [k \in K |-> NoText]]
           left(p) == Cardinality(K \ p)
           IsResolution(r) == r = [path \in SUBSET K |-> [k \in K |-> Within(path, k, r)]]
           resolution == CHOOSE r : IsResolution(r)
<1>1. ResolveString(key) = resolution[{}][key]
  BY DEF ResolveString
<1>2. /\ \A path \in SUBSET K : left(path) \in Nat
      /\ \A path \in SUBSET K : \A d \in K \ path : left(path \union {d}) = left(path) - 1 /\ path \union {d} \in SUBSET K
      /\ \A path \in SUBSET K : left(path) = 0 => K \ path = {}
  <2> SUFFICES ASSUME NEW q \in SUBSET K
               PROVE  /\ left(q) \in Nat /\ (left(q) = 0 => K \ q = {})
                      /\ \A d \in K \ q : left(q \union {d}) = left(q) - 1 /\ q \union {d} \in SUBSET K
    OBVIOUS
  <2>1. IsFiniteSet(K \ q) /\ left(q) \in Nat /\ (left(q) = 0 => K \ q = {})
    BY FS_Difference, FS_CardinalityType, FS_EmptySet
  <2>2. ASSUME NEW d \in K \ q PROVE left(q \union {d}) = left(q) - 1 /\ q \union {d} \in SUBSET K
    BY OneLess
  <2>. QED BY <2>1, <2>2
<1>3. \A h : \A path \in SUBSET K, k \in K :
        (\A d \in K \ path : h[path \union {d}][d] \in Result) => Within(path, k, h) \in Result
  BY WithinType
<1>4. \A path, k, f, g :
        (\A d \in K \ path : f[path \union {d}][d] = g[path \union {d}][d]) => Within(path, k, f) = Within(path, k, g)
  BY WithinSame
<1> HIDE DEF K, Within, left
<1>5. nothing \in F
  BY DEF Result
<1>6. ASSUME NEW h \in F PROVE Once(h) \in F
  <2>1. \A path \in SUBSET K, k \in K : Within(path, k, h) \in Result
    <3> SUFFICES ASSUME NEW path \in SUBSET K, NEW k \in K PROVE Within(path, k, h) \in Result
      OBVIOUS
    <3>1. \A d \in K \ path : path \union {d} \in SUBSET K
      OBVIOUS
    <3>2. \A d \in K \ path : h[path \union {d}][d] \in Result
      BY <3>1
    <3>. QED BY <1>3, <3>2
  <2>. QED BY <2>1
<1> HIDE DEF nothing
<1>7. PICK g : Repeats(g, nothing, D) /\ g \in [Nat -> F]
  <2>1. D \in [F -> F]
    <3> HIDE DEF F, Once
    <3>. QED BY <1>6
  <2> HIDE DEF D, F
  <2>. QED BY <1>5, <2>1, RepetitionExists
<1>8. ASSUME NEW n \in Nat, NEW path \in SUBSET K, NEW k \in K PROVE g[n + 1][path][k] = Within(path, k, g[n])
  <2>1. \A i \in Nat : g[i] = IF i = 0 THEN nothing ELSE D[g[i - 1]]
    <3> HIDE DEF D, F
    <3>1. g = [i \in Nat |-> IF i = 0 THEN nothing ELSE D[g[i - 1]]]
      BY <1>7 DEF Repeats
    <3>. QED BY <3>1, Zenon
  <2>2. n + 1 \in Nat /\ n + 1 # 0 /\ (n + 1) - 1 = n
    OBVIOUS
  <2>3. g[n + 1] = D[g[n]]
    <3> HIDE DEF D, F
    <3>. QED BY <2>1, <2>2, Zenon
  <2>4. g[n] \in F
    <3> HIDE DEF F
    <3>. QED BY <1>7
  <2>5. D[g[n]] = Once(g[n])
    <3> HIDE DEF F, Once
    <3>. QED BY <2>4
  <2>6. Once(g[n])[path][k] = Within(path, k, g[n])
    OBVIOUS
  <2> HIDE DEF D, F, Once
  <2>. QED BY <2>3, <2>5, <2>6
<1> DEFINE h == [path \in SUBSET K |-> g[left(path) + 1][path]]
<1>9. IsResolution(h)
  <2>1. ASSUME NEW path \in SUBSET K, NEW k \in K PROVE h[path][k] = Within(path, k, h)
    <3>1. left(path) \in Nat
      BY <1>2
    <3>2. h[path][k] = Within(path, k, g[left(path)])
      BY <1>8, <3>1
    <3>3. ASSUME NEW d \in K \ path PROVE h[path \union {d}][d] = g[left(path)][path \union {d}][d]
      <4>1. left(path \union {d}) + 1 = left(path) /\ path \union {d} \in SUBSET K
        BY <1>2, <3>1
      <4>2. h[path \union {d}] = g[left(path \union {d}) + 1][path \union {d}]
        BY <4>1
      <4>. QED BY <4>1, <4>2
    <3> HIDE DEF h
    <3>. QED BY <1>4, <3>2, <3>3
  <2>2. ASSUME NEW path \in SUBSET K PROVE h[path] = [k \in K |-> h[path][k]]
    <3>1. g[left(path) + 1] \in F
      <4>1. left(path) + 1 \in Nat
        BY <1>2
      <4> HIDE DEF F
      <4>. QED BY <1>7, <4>1
    <3>2. g[left(path) + 1][path] \in [K -> Result]
      BY <3>1
    <3>. QED BY <3>2
  <2>3. h = [path \in SUBSET K |-> h[path]]
    OBVIOUS
  <2> HIDE DEF h
  <2>4. \A path \in SUBSET K : h[path] = [k \in K |-> Within(path, k, h)]
    BY <2>1, <2>2
  <2>. QED BY <2>3, <2>4
<1>10. IsResolution(resolution)
  <2> HIDE DEF h
  <2>. QED BY <1>9
<1> HIDE DEF resolution, h
<1>11. /\ \A path \in SUBSET K, k \in K : resolution[path][k] = Within(path, k, resolution)
       /\ resolution = [path \in SUBSET K |-> [k \in K |-> resolution[path][k]]]
  BY <1>10
<1>12. ASSUME NEW N \in Nat PROVE \A path \in SUBSET K : left(path) <= N => \A k \in K : resolution[path][k] \in Result
  <2> DEFINE Typed(n) == \A path \in SUBSET K : left(path) <= n => \A k \in K : resolution[path][k] \in Result
             T == {n \in 0 .. N : Typed(n)}
  <2>1. 0 \in T
    <3> SUFFICES ASSUME NEW path \in SUBSET K, left(path) <= 0, NEW k \in K PROVE resolution[path][k] \in Result
      OBVIOUS
    <3>1. K \ path = {}
      BY <1>2
    <3>2. resolution[path][k] = Within(path, k, resolution)
      BY <1>11
    <3>. QED BY <1>3, <3>1, <3>2
  <2>2. ASSUME NEW n \in 1 .. N, n - 1 \in T PROVE n \in T
    <3> SUFFICES ASSUME NEW path \in SUBSET K, left(path) <= n, NEW k \in K PROVE resolution[path][k] \in Result
      OBVIOUS
    <3>1. Typed(n - 1)
      BY <2>2
    <3>2. ASSUME NEW d \in K \ path PROVE resolution[path \union {d}][d] \in Result
      <4>1. left(path \union {d}) <= n - 1 /\ path \union {d} \in SUBSET K
        BY <1>2
      <4>. QED BY <3>1, <4>1
    <3>3. resolution[path][k] = Within(path, k, resolution)
      BY <1>11
    <3>. QED BY <1>3, <3>2, <3>3
  <2>3. N \in T
    <3> HIDE DEF T
    <3>1. \A n \in 0 .. N : n \in T
      BY <2>1, <2>2, CountsUp
    <3>. QED BY <3>1
  <2>. QED BY <2>3
<1>13. resolution \in F
  <2>1. \A path \in SUBSET K, k \in K : resolution[path][k] \in Result
    BY <1>2, <1>12
  <2>. QED BY <1>11, <2>1
<1>. QED BY <1>1, <1>11, <1>13 DEF Resolves, K, Within

-----------------------------------------------------------------------------

\* A text the walk has passed is what its key means, and that is fine.
Walked(k) == Fine(k) /\ texts[k] = Meaning(k) /\ texts[k] \in Seq(Word)

InfoInv ==
  /\ table \in Seq(InfoKey \X Seq(Words)) /\ RowsFit
  /\ texts \in [InfoKey -> Seq(Words) \union {NoText}] /\ KnownKeys(texts) = HaveTexts
  /\ info \in {"loading", "resolving", "resolved", "thrown"}
  /\ info = "loading" => texts = loaded
  /\ info \in {"resolving", "resolved"} => \A k \in HaveTexts : IF k \in unwalked THEN texts[k] = loaded[k] ELSE Walked(k)
  /\ unwalked \subseteq HaveTexts /\ (info = "resolved" => unwalked = {})
  /\ info = "thrown" => ~Sound

\* A call that resolves gives what its key means, if those below it do.
LEMMA CallIsMeant ==
  ASSUME InfoInv, info = "resolving", NEW key, NEW r, Resolves(r, key), NEW path \in SUBSET HaveTexts, NEW k \in HaveTexts,
         r[path][k] # NoText,
         \A d \in HaveTexts \ path : r[path \union {d}][d] # NoText =>
           Fine(d) /\ r[path \union {d}][d] = Meaning(d) /\ r[path \union {d}][d] \in Seq(Word)
  PROVE  Fine(k) /\ r[path][k] = Meaning(k)
<1> DEFINE below == [d \in Keys(texts[k]) |-> IF d \in KnownKeys(texts) \ path THEN r[path \union {d}][d] ELSE NoText]
<1>1. r[path][k] = IF key \in path \/ \E d \in DOMAIN below : below[d] = NoText THEN NoText ELSE Replace(texts[k], below)
  <2>1. r[path][k] = ResolveWithin(key, path, k, r)
    BY DEF Resolves, InfoInv
  <2>. QED BY <2>1 DEF ResolveWithin
<1>2. /\ KnownKeys(texts) = HaveTexts /\ DOMAIN below = Keys(texts[k])
      /\ \A d \in Keys(texts[k]) : below[d] = IF d \in HaveTexts \ path THEN r[path \union {d}][d] ELSE NoText
  BY DEF InfoInv
<1> HIDE DEF below
<1>3. r[path][k] = Replace(texts[k], below) /\ \A d \in Keys(texts[k]) : below[d] # NoText
  BY <1>1, <1>2
<1>4. CASE k \in unwalked
  <2>1. texts[k] = loaded[k]
    BY <1>4 DEF InfoInv
  <2>2. \A d \in Keys(loaded[k]) : Fine(d) /\ below[d] = Meaning(d)
    BY <1>2, <1>3, <2>1
  <2>3. Fine(k)
    BY <2>2, FineFromBelow
  <2>4. Meaning(k) = Replace(loaded[k], below)
    BY <2>2, <2>3, MeaningOfFine DEF InfoInv
  <2>. QED BY <1>3, <2>1, <2>3, <2>4
<1>5. CASE k \notin unwalked
  <2>1. Walked(k)
    BY <1>5 DEF InfoInv
  <2>2. Keys(texts[k]) = {} /\ texts[k] \in Seq(Word)
    BY <2>1, NoTextIsNone DEF Walked
  <2>3. Replace(texts[k], below) = texts[k]
    BY <2>2, ReplaceNothing
  <2>. QED BY <1>3, <2>1, <2>3 DEF Walked
<1>. QED BY <1>4, <1>5

\* Hence all calls do, by the number of keys that are not on the path.
LEMMA ResolvedIsMeant ==
  ASSUME InfoInv, info = "resolving", NEW key \in HaveTexts, ResolveString(key) # NoText
  PROVE  Fine(key) /\ ResolveString(key) = Meaning(key) /\ ResolveString(key) \in Seq(Word)
<1>1. KnownKeys(texts) = HaveTexts /\ IsFiniteSet(HaveTexts) /\ TextsTyped
  BY DEF InfoInv, RowsFit, TextsTyped, KnownKeys
<1>2. PICK r : Resolves(r, key)
  BY <1>1, ResolveRecurs
<1>3. \A path \in SUBSET HaveTexts, k \in HaveTexts : r[path][k] \in Result
  BY <1>1, <1>2 DEF Resolves
<1> DEFINE CallMeans(p, x) == r[p][x] # NoText => Fine(x) /\ r[p][x] = Meaning(x) /\ r[p][x] \in Seq(Word)
           Claim(n) == \A p \in SUBSET HaveTexts, x \in HaveTexts : Cardinality(HaveTexts \ p) <= n => CallMeans(p, x)
           N == Cardinality(HaveTexts \ {})
           T == {n \in 0 .. N : Claim(n)}
<1>4. ASSUME NEW p \in SUBSET HaveTexts, NEW x \in HaveTexts, \A d \in HaveTexts \ p : CallMeans(p \union {d}, d)
      PROVE  CallMeans(p, x)
  BY <1>2, <1>3, <1>4, CallIsMeant DEF Result
<1>5. \A p \in SUBSET HaveTexts : Cardinality(HaveTexts \ p) \in Nat /\ (Cardinality(HaveTexts \ p) <= 0 => HaveTexts \ p = {})
  BY <1>1, SomeLeft
<1>6. ASSUME NEW p \in SUBSET HaveTexts, NEW d \in HaveTexts \ p
      PROVE  Cardinality(HaveTexts \ (p \union {d})) = Cardinality(HaveTexts \ p) - 1 /\ p \union {d} \in SUBSET HaveTexts
  BY <1>1, OneLess, Zenon
<1> HIDE DEF CallMeans
<1>7. 0 \in T
  <2>1. ASSUME NEW p \in SUBSET HaveTexts, NEW x \in HaveTexts, Cardinality(HaveTexts \ p) <= 0 PROVE CallMeans(p, x)
    BY <1>4, <1>5, <2>1
  <2>2. N \in Nat
    BY <1>5
  <2>. QED BY <2>1, <2>2
<1>8. ASSUME NEW n \in 1 .. N, n - 1 \in T PROVE n \in T
  <2>1. ASSUME NEW p \in SUBSET HaveTexts, NEW x \in HaveTexts, Cardinality(HaveTexts \ p) <= n PROVE CallMeans(p, x)
    <3>1. ASSUME NEW d \in HaveTexts \ p PROVE CallMeans(p \union {d}, d)
      <4>1. Cardinality(HaveTexts \ (p \union {d})) <= n - 1 /\ p \union {d} \in SUBSET HaveTexts
        BY <1>5, <1>6, <2>1
      <4>. QED BY <1>8, <4>1
    <3>. QED BY <1>4, <3>1
  <2>. QED BY <2>1
<1>9. N \in T
  <2>1. N \in Nat
    BY <1>5
  <2> HIDE DEF T, N
  <2>2. \A n \in 0 .. N : n \in T
    BY <1>7, <1>8, <2>1, CountsUp
  <2>. QED BY <2>1, <2>2
<1>10. CallMeans({}, key)
  BY <1>5, <1>9
<1>11. ResolveString(key) = r[{}][key]
  BY <1>2 DEF Resolves
<1>. QED BY <1>10, <1>11 DEF CallMeans

\* A call that throws shows a text that is not sound, or a call below that throws.
LEMMA CallThatThrows ==
  ASSUME InfoInv, info = "resolving", NEW key \in HaveTexts, NEW r, Resolves(r, key), NEW path \in SUBSET (HaveTexts \ {key}),
         NEW k \in HaveTexts, r[path][k] = NoText, k \in path \union {key},
         \A p \in path \union {key} : \E j \in 0 .. Cardinality(path) : k \in Reached(j, p)
  PROVE  \/ ~Sound
         \/ \E d \in HaveTexts \ path : /\ d # key /\ r[path \union {d}][d] = NoText
                                    /\ \A p \in path \union {d, key} :
                                         \E j \in 0 .. Cardinality(path) + 1 : d \in Reached(j, p)
<1> DEFINE below == [d \in Keys(texts[k]) |-> IF d \in KnownKeys(texts) \ path THEN r[path \union {d}][d] ELSE NoText]
<1>1. r[path][k] = IF key \in path \/ \E d \in DOMAIN below : below[d] = NoText THEN NoText ELSE Replace(texts[k], below)
  <2>1. r[path][k] = ResolveWithin(key, path, k, r)
    BY DEF Resolves, InfoInv
  <2>. QED BY <2>1 DEF ResolveWithin
<1>2. /\ KnownKeys(texts) = HaveTexts /\ DOMAIN below = Keys(texts[k])
      /\ \A d \in Keys(texts[k]) : below[d] = IF d \in HaveTexts \ path THEN r[path \union {d}][d] ELSE NoText
  BY DEF InfoInv
<1> HIDE DEF below
<1>3. PICK d \in Keys(texts[k]) : below[d] = NoText
  <2> SUFFICES ASSUME \A d \in Keys(texts[k]) : below[d] # NoText PROVE FALSE
    OBVIOUS
  <2>1. ASSUME NEW d \in Keys(texts[k]) PROVE below[d] \in Seq(Word)
    <3>1. d \in HaveTexts \ path /\ below[d] = r[path \union {d}][d]
      BY <1>2
    <3>2. r[path \union {d}][d] \in Result
      <4>1. path \union {d} \in SUBSET HaveTexts
        BY <3>1
      <4>. QED BY <1>2, <3>1, <4>1 DEF Resolves
    <3>. QED BY <3>1, <3>2 DEF Result
  <2>2. texts[k] \in Seq(InfoKey \union Word)
    BY <1>2 DEF InfoInv, KnownKeys, Words
  <2>3. Replace(texts[k], below) \in Seq(Word)
    BY <2>1, <2>2, ReplaceType
  <2>. QED BY <1>1, <1>2, <2>3, NoTextIsNone
<1>4. k \in unwalked /\ texts[k] = loaded[k]
  <2>1. Walked(k) => Keys(texts[k]) = {}
    BY NoTextIsNone DEF Walked
  <2>. QED BY <1>3, <2>1 DEF InfoInv
<1>5. IsFiniteSet(path) /\ Cardinality(path) \in Nat /\ Cardinality(path) + 1 <= Len(table) /\ Len(table) \in Nat
  <2>1. IsFiniteSet(HaveTexts) /\ Cardinality(HaveTexts) <= Len(table) /\ Len(table) \in Nat
    BY DEF InfoInv, RowsFit
  <2>2. Cardinality(HaveTexts \ {key}) = Cardinality(HaveTexts) - 1 /\ Cardinality(HaveTexts) \in Nat
    BY <2>1, OneOfThem
  <2>3. IsFiniteSet(HaveTexts \ {key})
    BY <2>1, FS_Difference
  <2>4. IsFiniteSet(path) /\ Cardinality(path) <= Cardinality(HaveTexts \ {key}) /\ Cardinality(path) \in Nat
    BY <2>3, FS_Subset, FS_CardinalityType
  <2>. QED BY <2>1, <2>2, <2>4
<1>6. ASSUME NEW p \in path \union {key} PROVE \E j \in 1 .. Len(table) : j <= Cardinality(path) + 1 /\ d \in Reached(j, p)
  <2>1. PICK j \in 0 .. Cardinality(path) : k \in Reached(j, p)
    OBVIOUS
  <2>2. j \in Nat /\ j + 1 \in 1 .. Len(table) /\ j + 1 <= Cardinality(path) + 1
    BY <1>5
  <2>3. d \in Reached(j + 1, p)
    BY <1>3, <1>4, <2>1, <2>2, KnownAreKeys, ReachedNext
  <2>. QED BY <2>2, <2>3
<1>7. CASE d \notin HaveTexts \/ d \in path \union {key}
  <2>1. PICK p \in path \union {key} : d \notin HaveTexts \/ d = p
    BY <1>7
  <2>2. PICK j \in 1 .. Len(table) : d \in Reached(j, p)
    BY <1>6
  <2>. QED BY <2>1, <2>2 DEF Sound, HaveTexts
<1>8. CASE d \in HaveTexts /\ d \notin path \union {key}
  <2>1. r[path \union {d}][d] = NoText
    BY <1>2, <1>3, <1>8
  <2>2. ASSUME NEW p \in path \union {d, key} PROVE \E j \in 0 .. Cardinality(path) + 1 : d \in Reached(j, p)
    <3>1. CASE p = d
      <4>1. d \in Reached(0, d)
        BY <1>8, KnownAreKeys, ReachedRecurs
      <4>2. 0 \in 0 .. Cardinality(path) + 1
        BY <1>5
      <4>. QED BY <3>1, <4>1, <4>2
    <3>2. CASE p # d
      <4>1. PICK j \in 1 .. Len(table) : j <= Cardinality(path) + 1 /\ d \in Reached(j, p)
        BY <1>6, <3>2
      <4>. QED BY <1>5, <4>1
    <3>. QED BY <3>1, <3>2
  <2>. QED BY <1>8, <2>1, <2>2
<1>. QED BY <1>7, <1>8

\* Going from each call that throws to one below it ends, so the text is not sound.
LEMMA ThrownIsUnsound ==
  ASSUME InfoInv, info = "resolving", NEW key \in HaveTexts, ResolveString(key) = NoText, Sound
  PROVE  FALSE
<1>1. KnownKeys(texts) = HaveTexts /\ IsFiniteSet(HaveTexts) /\ TextsTyped
  BY DEF InfoInv, RowsFit, TextsTyped, KnownKeys
<1>2. PICK r : Resolves(r, key)
  BY <1>1, ResolveRecurs
<1> DEFINE CallThrows(p, x) == /\ r[p][x] = NoText /\ x \in p \union {key}
                           /\ \A y \in p \union {key} : \E j \in 0 .. Cardinality(p) : x \in Reached(j, y)
           Claim(n) == \A p \in SUBSET (HaveTexts \ {key}), x \in HaveTexts : Cardinality(HaveTexts \ p) <= n => ~CallThrows(p, x)
           N == Cardinality(HaveTexts \ {})
           T == {n \in 0 .. N : Claim(n)}
<1>3. \A p \in SUBSET HaveTexts : Cardinality(HaveTexts \ p) \in Nat /\ (Cardinality(HaveTexts \ p) <= 0 => HaveTexts \ p = {})
  BY <1>1, SomeLeft
<1>4. ASSUME NEW p \in SUBSET (HaveTexts \ {key}), NEW x \in HaveTexts, CallThrows(p, x)
      PROVE  \E d \in HaveTexts \ p : /\ p \union {d} \in SUBSET (HaveTexts \ {key}) /\ CallThrows(p \union {d}, d)
                                  /\ Cardinality(HaveTexts \ (p \union {d})) = Cardinality(HaveTexts \ p) - 1
  <2>1. PICK d \in HaveTexts \ p : /\ d # key /\ r[p \union {d}][d] = NoText
                               /\ \A y \in p \union {d, key} : \E j \in 0 .. Cardinality(p) + 1 : d \in Reached(j, y)
    BY <1>2, <1>4, CallThatThrows
  <2>2. p \in SUBSET HaveTexts /\ IsFiniteSet(p)
    BY <1>1, FS_Subset
  <2>3. Cardinality(p \union {d}) = Cardinality(p) + 1
    BY <2>1, <2>2, FS_AddElement
  <2>4. Cardinality(HaveTexts \ (p \union {d})) = Cardinality(HaveTexts \ p) - 1
    BY <1>1, <2>2, OneLess, Zenon
  <2>5. CallThrows(p \union {d}, d)
    <3>1. (p \union {d}) \union {key} = p \union {d, key}
      OBVIOUS
    <3>. QED BY <2>1, <2>3, <3>1
  <2>. QED BY <2>1, <2>4, <2>5
<1> HIDE DEF CallThrows
<1>5. 0 \in T
  <2>1. ASSUME NEW p \in SUBSET (HaveTexts \ {key}), NEW x \in HaveTexts, Cardinality(HaveTexts \ p) <= 0 PROVE FALSE
    BY <1>3, <2>1
  <2>2. Claim(0)
    BY <2>1
  <2>3. N \in Nat
    BY <1>3
  <2> HIDE DEF Claim, N
  <2>. QED BY <2>2, <2>3
<1>6. ASSUME NEW n \in 1 .. N, n - 1 \in T PROVE n \in T
  <2>1. ASSUME NEW p \in SUBSET (HaveTexts \ {key}), NEW x \in HaveTexts, Cardinality(HaveTexts \ p) <= n, CallThrows(p, x) PROVE FALSE
    <3>1. PICK d \in HaveTexts \ p : /\ p \union {d} \in SUBSET (HaveTexts \ {key}) /\ CallThrows(p \union {d}, d)
                                 /\ Cardinality(HaveTexts \ (p \union {d})) = Cardinality(HaveTexts \ p) - 1
      BY <1>4, <2>1
    <3>2. Cardinality(HaveTexts \ p) \in Nat
      BY <1>3
    <3>3. Cardinality(HaveTexts \ (p \union {d})) <= n - 1
      BY <2>1, <3>1, <3>2
    <3>. QED BY <1>6, <3>1, <3>3
  <2>. QED BY <2>1
<1>7. N \in T
  <2>1. N \in Nat
    BY <1>3
  <2> HIDE DEF T, N
  <2>2. \A n \in 0 .. N : n \in T
    BY <1>5, <1>6, <2>1, CountsUp
  <2>. QED BY <2>1, <2>2
<1>8. CallThrows({}, key)
  <2>1. ResolveString(key) = r[{}][key]
    BY <1>2 DEF Resolves
  <2>2. key \in Reached(0, key) /\ Cardinality({}) = 0
    BY KnownAreKeys, ReachedRecurs, FS_EmptySet
  <2>. QED BY <2>1, <2>2 DEF CallThrows
<1>. QED BY <1>3, <1>7, <1>8

-----------------------------------------------------------------------------

\* What the table says does not change while it is resolved.
LEMMA InfoStays ==
  ASSUME table' = table, loaded' = loaded
  PROVE  /\ HaveTexts' = HaveTexts /\ (RowsFit' <=> RowsFit) /\ (Sound' <=> Sound)
         /\ \A k : (Fine(k)' <=> Fine(k)) /\ Meaning(k)' = Meaning(k)
<1>1. HaveTexts' = HaveTexts
  BY DEF HaveTexts, KnownKeys
<1>2. RowsFit' <=> RowsFit
  BY <1>1 DEF RowsFit
<1>3. \A n, k : Reached(n, k)' = Reached(n, k)
  BY DEF Reached, KnownKeys
<1>4. Sound' <=> Sound
  BY <1>3 DEF Sound, KnownKeys
<1>5. \A k : Fine(k)' <=> Fine(k)
  BY <1>1, <1>3 DEF Fine
<1>6. \A k : Meaning(k)' = Meaning(k)
  BY DEF Meaning
<1>. QED BY <1>1, <1>2, <1>4, <1>5, <1>6

LEMMA InfoInvInit == InfoInit => InfoInv
<1> SUFFICES ASSUME InfoInit PROVE InfoInv
  OBVIOUS
<1>1. texts = [k \in InfoKey |-> NoText] /\ loaded = texts /\ table = <<>> /\ info = "loading"
  BY DEF InfoInit
<1>2. HaveTexts = {} /\ KnownKeys(texts) = {}
  BY <1>1 DEF HaveTexts, KnownKeys
<1>3. IsFiniteSet(HaveTexts) /\ Cardinality(HaveTexts) = 0 /\ Len(table) = 0
  BY <1>1, <1>2, FS_EmptySet
<1>4. RowsFit
  BY <1>1, <1>3 DEF RowsFit
<1>. QED BY <1>1, <1>2, <1>4 DEF InfoInv, InfoInit

LEMMA LoadRowKeeps == ASSUME InfoInv, NEW k \in InfoKey, NEW text \in Text, LoadRow(k, text) PROVE InfoInv'
<1>1. text \in Seq(Words) /\ text # NoText
  <2>1. PICK n \in 0 .. MaxText : text \in [1 .. n -> InfoKey \union Word]
    BY DEF Text
  <2>2. n \in Nat
    BY InfoAssumption
  <2>3. text \in Seq(Words)
    BY <2>1, <2>2 DEF Words
  <2>. QED BY <2>3, NoTextIsNone
<1>2. /\ info = "loading" /\ info' = info /\ texts = loaded /\ loaded' = texts' /\ table' = Append(table, <<k, text>>)
      /\ texts' = [texts EXCEPT ![k] = IF @ = NoText THEN text ELSE @]
  BY DEF LoadRow, InfoInv
<1>3. table' \in Seq(InfoKey \X Seq(Words)) /\ Len(table') = Len(table) + 1 /\ Len(table) \in Nat
  <2>1. <<k, text>> \in InfoKey \X Seq(Words) /\ table \in Seq(InfoKey \X Seq(Words))
    BY <1>1 DEF InfoInv
  <2>. QED BY <1>2, <2>1, AppendProperties
<1>4. texts' \in [InfoKey -> Seq(Words) \union {NoText}] /\ loaded' \in [InfoKey -> Seq(Words) \union {NoText}]
  BY <1>1, <1>2 DEF InfoInv
<1>5. HaveTexts' = HaveTexts \union {k} /\ KnownKeys(texts') = HaveTexts'
  BY <1>1, <1>2 DEF HaveTexts, KnownKeys, InfoInv
<1>6. IsFiniteSet(HaveTexts') /\ Cardinality(HaveTexts') <= Len(table')
  <2>1. IsFiniteSet(HaveTexts) /\ Cardinality(HaveTexts) <= Len(table) /\ Cardinality(HaveTexts) \in Nat
    BY FS_CardinalityType DEF InfoInv, RowsFit
  <2>2. IsFiniteSet(HaveTexts \union {k})
    BY <2>1, FS_AddElement
  <2>3. Cardinality(HaveTexts \union {k}) = Cardinality(HaveTexts) \/ Cardinality(HaveTexts \union {k}) = Cardinality(HaveTexts) + 1
    BY <2>1, FS_AddElement
  <2>. QED BY <1>3, <1>5, <2>1, <2>2, <2>3
<1>7. RowsFit'
  BY <1>3, <1>4, <1>6 DEF RowsFit
<1>8. unwalked' \subseteq HaveTexts'
  BY <1>5 DEF InfoInv, LoadRow
<1>. QED BY <1>2, <1>3, <1>4, <1>5, <1>7, <1>8 DEF InfoInv

LEMMA ResolveNextKeeps == ASSUME InfoInv, NEW key \in InfoKey, ResolveNext(key) PROVE InfoInv'
<1> DEFINE text == ResolveString(key)
<1>1. /\ info = "resolving" /\ key \in unwalked /\ unwalked' = unwalked \ {key} /\ table' = table /\ loaded' = loaded
      /\ IF text = NoText THEN info' = "thrown" /\ texts' = texts
                          ELSE texts' = [texts EXCEPT ![key] = text] /\ info' = info
  BY DEF ResolveNext
<1>2. /\ key \in HaveTexts /\ unwalked' \subseteq HaveTexts /\ HaveTexts' = HaveTexts /\ RowsFit' /\ (Sound' <=> Sound)
      /\ \A k : (Fine(k)' <=> Fine(k)) /\ Meaning(k)' = Meaning(k)
      /\ table' \in Seq(InfoKey \X Seq(Words))
  BY <1>1, InfoStays DEF InfoInv
<1> HIDE DEF text
<1>3. CASE text = NoText
  <2>1. ~Sound
    BY <1>1, <1>2, <1>3, ThrownIsUnsound DEF text
  <2>2. info' = "thrown" /\ texts' = texts
    BY <1>1, <1>3
  <2>3. KnownKeys(texts') = HaveTexts' /\ texts' \in [InfoKey -> Seq(Words) \union {NoText}]
    BY <1>2, <2>2 DEF InfoInv
  <2>. QED BY <1>2, <2>1, <2>2, <2>3 DEF InfoInv
<1>4. CASE text # NoText
  <2>1. Fine(key) /\ text = Meaning(key) /\ text \in Seq(Word)
    BY <1>1, <1>2, <1>4, ResolvedIsMeant DEF text
  <2>2. texts' = [texts EXCEPT ![key] = text] /\ info' = "resolving" /\ text \in Seq(Words)
    BY <1>1, <1>4, <2>1, NoTextIsNone
  <2>3. texts' \in [InfoKey -> Seq(Words) \union {NoText}]
    BY <2>2 DEF InfoInv
  <2>4. KnownKeys(texts') = HaveTexts'
    BY <1>2, <1>4, <2>2 DEF InfoInv, KnownKeys
  <2>5. ASSUME NEW k \in HaveTexts PROVE IF k \in unwalked' THEN texts'[k] = loaded'[k] ELSE Walked(k)'
    <3>1. k \in InfoKey
      BY KnownAreKeys
    <3>2. CASE k = key
      BY <1>1, <1>2, <2>1, <2>2, <3>1, <3>2 DEF InfoInv, Walked
    <3>3. CASE k # key
      <4>1. texts'[k] = texts[k] /\ (k \in unwalked' <=> k \in unwalked)
        BY <1>1, <2>2, <3>1, <3>3 DEF InfoInv
      <4>. QED BY <1>1, <1>2, <4>1 DEF InfoInv, Walked
    <3>. QED BY <3>2, <3>3
  <2>. QED BY <1>2, <2>2, <2>3, <2>4, <2>5 DEF InfoInv
<1>. QED BY <1>3, <1>4

LEMMA InfoInvStep == ASSUME InfoInv, [InfoNext]_infoVars PROVE InfoInv'
<1>1. CASE UNCHANGED infoVars
  <2>1. table' = table /\ texts' = texts /\ unwalked' = unwalked /\ info' = info /\ loaded' = loaded
    BY <1>1 DEF infoVars
  <2>2. KnownKeys(texts') = KnownKeys(texts)
    BY <2>1
  <2>. QED BY <2>1, <2>2, InfoStays DEF InfoInv, Walked
<1>2. CASE LoadEnds
  <2>1. /\ table' = table /\ texts' = texts /\ loaded' = loaded /\ info' = "resolving"
        /\ unwalked' = HaveTexts /\ texts = loaded
    BY <1>2 DEF LoadEnds, InfoInv, HaveTexts
  <2>2. KnownKeys(texts') = KnownKeys(texts)
    BY <2>1
  <2>. QED BY <2>1, <2>2, InfoStays DEF InfoInv
<1>3. CASE ResolveEnds
  <2>1. /\ table' = table /\ texts' = texts /\ loaded' = loaded /\ unwalked' = unwalked
        /\ info = "resolving" /\ info' = "resolved" /\ unwalked = {}
    BY <1>3 DEF ResolveEnds
  <2>2. KnownKeys(texts') = KnownKeys(texts)
    BY <2>1
  <2>. QED BY <2>1, <2>2, InfoStays DEF InfoInv, Walked
<1>. QED BY <1>1, <1>2, <1>3, LoadRowKeeps, ResolveNextKeeps DEF InfoNext

(***************************************************************************)
(* The order of the unordered map does not show, whatever the table says   *)
(* and however long its rows are: texts that were walked already are what  *)
(* their keys mean, so a text resolves the same before and after them, and *)
(* the call that throws stands at the end of references that lead nowhere  *)
(* or back.                                                                *)
(***************************************************************************)
THEOREM WalkedInAnyOrder == InfoSpec => []OrderDoesNotShow
<1>1. ASSUME InfoInv PROVE OrderDoesNotShow
  <2>1. ASSUME info = "resolved" PROVE Sound /\ \A k \in KnownKeys(loaded) : texts[k] = Meaning(k)
    <3>1. \A k \in HaveTexts : Fine(k) /\ texts[k] = Meaning(k)
      BY <1>1, <2>1 DEF InfoInv, Walked
    <3>2. ASSUME NEW k \in HaveTexts, NEW n \in 1 .. Len(table) PROVE Reached(n, k) \subseteq HaveTexts \ {k}
      <4>1. n \in Nat \ {0} /\ 0 \in Nat
        BY <1>1 DEF InfoInv, RowsFit
      <4>2. k \in Reached(0, k)
        BY KnownAreKeys, ReachedRecurs
      <4>. QED BY <3>1, <4>1, <4>2 DEF Fine
    <3>. QED BY <3>1, <3>2 DEF Sound, HaveTexts
  <2>. QED BY <1>1, <2>1 DEF InfoInv, OrderDoesNotShow
<1>. QED BY <1>1, InfoInvInit, InfoInvStep, PTL DEF InfoSpec

-----------------------------------------------------------------------------
(* All the parts.                                                          *)

LibraryInv == StoreInv /\ DbInv /\ ReaderTypeOK /\ GrfTypeOK /\ IdsFit

(***************************************************************************)
(* The types of every part hold whichever of them runs: the others are     *)
(* left alone.                                                             *)
(***************************************************************************)
THEOREM LibraryTypesCorrect == MCSpec => []LibraryTypeOK
<1> DEFINE vars == <<part, storeVars, dbVars, readerVars, grfVars, globVars, infoVars>>
<1>1. MCInit => LibraryInv
  BY StoreInitially, DbInvInit, ReaderTypeInit, GrfTypeInit DEF MCInit, LibraryInv
<1>2. ASSUME LibraryInv, [MCNext]_vars PROVE LibraryInv'
  <2>1. [StoreNext]_storeVars /\ [DbNext]_dbVars /\ [ReaderNext]_readerVars /\ [GrfNext]_grfVars
    BY <1>2, Zenon DEF MCNext
  <2>. QED
    BY <1>2, <2>1, StoreInductive, DbInvStep, ReaderTypeStep, GrfTypeStep, Zenon DEF LibraryInv
<1>3. LibraryInv => LibraryTypeOK
  BY DEF LibraryInv, LibraryTypeOK, StoreInv, DbInv
<1>. QED
  BY <1>1, <1>2, <1>3, PTL DEF MCSpec
=============================================================================
