----------------------------- MODULE GrfArchive -----------------------------
(***************************************************************************)
(* Loading GRF archives: RoGrfFactory, RoGrfVersion2 and the hash-map      *)
(* backend.  The list of the files of a GRF is taken from a cache on disk  *)
(* where there is one, and else from the GRF and then cached.  A cache is  *)
(* found by the base name of the GRF and its id, which is its place in the *)
(* order of loading, and its header is compared with the name and the id:  *)
(* nothing compares it with the GRF as it is today.                        *)
(*                                                                         *)
(* The info of a file is the GRF it was listed in and its place there;     *)
(* patching a GRF moves, adds or removes files.                            *)
(***************************************************************************)
EXTENDS Integers, Sequences

CONSTANTS
  Grf, Name,
  BaseName,      (* the file name of each GRF without its folder           *)
  MaxPlace,      (* bound: the places a file may have in a GRF             *)
  MaxId          (* bound: the ids of GRFs                                 *)

ASSUME GrfAssumption == MaxPlace \in Nat \ {0} /\ MaxId \in Nat

VARIABLES
  disk,          (* the place of each file in each GRF, 0 for none         *)
  cache,         (* cache files: a listing, or one of the marks below      *)
  mGrfs,         (* the listings of the process, by id                     *)
  saving,        (* the last GRF loaded is being written to its cache      *)
  crashes        (* history: cache files a process died writing            *)

grfVars == <<disk, cache, mGrfs, saving, crashes>>

NoInfo == [of |-> "none", place |-> 0]
Info == [of : Grf, place : 1 .. MaxPlace] \union {NoInfo}
Place == [Name -> 0 .. MaxPlace]

\* grf, files: what the backend and the cache hold.  Histories: the places
\* when the list was read, and names cached with the info of another GRF.
Listing == [grf : Grf, files : [Name -> Info], read : Place, taken : SUBSET Name]
NoCache == [grf |-> "none"]

\* A cache cut short: in its header, or after the header of a GRF.
TornCache(header) == [grf |-> "torn", header |-> header]
Torn == {TornCache(h) : h \in Grf \union {"none"}}
CacheFile == {<<BaseName[g], n>> : g \in Grf, n \in 0 .. MaxId}

CacheOf(g, id) == <<BaseName[g], id>>

GrfInit ==
  /\ disk \in [Grf -> {[n \in Name |-> 1], [n \in Name |-> 0]}]
  /\ cache = [f \in CacheFile |-> NoCache]
  /\ mGrfs = <<>>
  /\ saving = FALSE
  /\ crashes = {}

-----------------------------------------------------------------------------

\* getFileInfo: the first GRF that has the name.
HasFile(id, n) == mGrfs[id].files[n] # NoInfo
FirstWith(n) == CHOOSE id \in DOMAIN mGrfs : HasFile(id, n) /\ \A j \in 1 .. id - 1 : ~HasFile(j, n)
FileInfo(n) == mGrfs[FirstWith(n)].files[n]

\* The places in the GRF, without those of no file.
ReadList(g) ==
  [grf |-> g, read |-> disk[g], taken |-> {},
   files |-> [n \in Name |-> IF disk[g][n] = 0 THEN NoInfo ELSE [of |-> g, place |-> disk[g][n]]]]

\* getGrfId: the GRF gets the next id before its list is read.
Loads(g) == ~saving /\ Len(mGrfs) <= MaxId /\ \A id \in DOMAIN mGrfs : mGrfs[id].grf # g
Cached(g) == cache[CacheOf(g, Len(mGrfs))]

\* Mutant: the header of the cache is not compared.
LoadFromCache_AnyHeader(g) ==
  /\ Loads(g)
  /\ Cached(g) \in Listing
  /\ mGrfs' = Append(mGrfs, [Cached(g) EXCEPT !.grf = g])
  /\ UNCHANGED <<disk, cache, saving, crashes>>

LoadFromCache(g) ==
  /\ Loads(g)
  /\ Cached(g) \in Listing /\ Cached(g).grf = g
  /\ mGrfs' = Append(mGrfs, Cached(g))
  /\ UNCHANGED <<disk, cache, saving, crashes>>

\* No cache, or one with the header of another GRF, though it is cut short
\* after it; an empty list is not cached.
LoadFromGrf(g) ==
  /\ Loads(g)
  /\ Cached(g).grf # g /\ Cached(g) \notin {TornCache("none"), TornCache(g)}
  /\ mGrfs' = Append(mGrfs, ReadList(g))
  /\ IF \E n \in Name : disk[g][n] # 0
       THEN saving' = TRUE /\ cache' = [cache EXCEPT ![CacheOf(g, Len(mGrfs))] = TornCache("none")]
       ELSE UNCHANGED <<saving, cache>>
  /\ UNCHANGED <<disk, crashes>>

\* The archive throws where the cache is cut short: in its header, or in the
\* list if the header is that of the GRF.  The id is left without files.
LoadThrows(g) ==
  /\ Loads(g)
  /\ Cached(g) \in {TornCache("none"), TornCache(g)}
  /\ mGrfs' = Append(mGrfs, [grf |-> g, read |-> [n \in Name |-> 0], taken |-> {},
                             files |-> [n \in Name |-> NoInfo]])
  /\ UNCHANGED <<disk, cache, saving, crashes>>

\* A GRF that is loaded keeps its id, and its cache is read over its list
\* (unless there is none to read, for which a GRF without files is read again,
\* or it throws: nothing changes then).
LoadAgain(g) ==
  \E id \in DOMAIN mGrfs :
    LET l == mGrfs[id]
        c == cache[CacheOf(g, id - 1)]
        In(n) == c.files[n] # NoInfo
    IN  /\ ~saving /\ l.grf = g
        /\ c \in Listing /\ c.grf = g
        /\ mGrfs' = [mGrfs EXCEPT ![id] =
             [grf |-> g,
              files |-> [n \in Name |-> IF In(n) THEN c.files[n] ELSE l.files[n]],
              read |-> [n \in Name |-> IF In(n) THEN c.read[n] ELSE l.read[n]],
              taken |-> {n \in Name : n \in IF In(n) THEN c.taken ELSE l.taken}]]
        /\ UNCHANGED <<disk, cache, saving, crashes>>

\* Mutant: a cache is left where its header ends.
SaveFileListToCache_HeaderOnly ==
  /\ saving
  /\ cache' = [cache EXCEPT ![CacheOf(mGrfs[Len(mGrfs)].grf, Len(mGrfs) - 1)] =
       TornCache(mGrfs[Len(mGrfs)].grf)]
  /\ saving' = FALSE
  /\ UNCHANGED <<disk, mGrfs, crashes>>

\* saveFileListToCache asks the backend for each name, not for its own info.
SaveFileListToCache ==
  LET id == Len(mGrfs)
      l == mGrfs[id]
  IN  /\ saving
      /\ cache' = [cache EXCEPT ![CacheOf(l.grf, id - 1)] =
           [l EXCEPT !.files = [n \in Name |-> IF HasFile(id, n) THEN FileInfo(n) ELSE NoInfo],
                     !.taken = {n \in Name : HasFile(id, n) /\ FirstWith(n) # id}]]
      /\ saving' = FALSE
      /\ UNCHANGED <<disk, mGrfs, crashes>>

\* Another process; the old one may have been writing a cache, in its header
\* or after it.
GrfRestart ==
  LET l == mGrfs[Len(mGrfs)]
      f == CacheOf(l.grf, Len(mGrfs) - 1)
  IN  /\ mGrfs # <<>>
      /\ \/ ~saving /\ UNCHANGED <<cache, crashes>>
         \/ /\ saving
            /\ crashes' = crashes \union {f}
            /\ \E h \in {"none", l.grf} : cache' = [cache EXCEPT ![f] = TornCache(h)]
      /\ mGrfs' = <<>>
      /\ saving' = FALSE
      /\ UNCHANGED disk

\* Somebody patches a GRF between two runs.
PatchGrf(g, n, p) ==
  /\ mGrfs = <<>>
  /\ disk[g][n] # p
  /\ disk' = [disk EXCEPT ![g][n] = p]
  /\ UNCHANGED <<cache, mGrfs, saving, crashes>>

GrfNext ==
  \/ \E g \in Grf :
       \/ LoadFromCache(g) \/ LoadFromGrf(g) \/ LoadThrows(g) \/ LoadAgain(g)
       \/ \E n \in Name, p \in 0 .. MaxPlace : PatchGrf(g, n, p)
  \/ SaveFileListToCache \/ GrfRestart

GrfSpec == GrfInit /\ [][GrfNext]_grfVars

-----------------------------------------------------------------------------

\* The types of the disk, the caches and the backend; no GRF has two ids.
GrfTypeOK ==
  /\ disk \in [Grf -> Place]
  /\ cache \in [CacheFile -> Listing \union {NoCache} \union Torn]
  /\ mGrfs \in Seq(Listing)
  /\ \A i, j \in DOMAIN mGrfs : mGrfs[i].grf = mGrfs[j].grf => i = j
  /\ saving \in BOOLEAN /\ (saving => mGrfs # <<>>)
  /\ crashes \in SUBSET CacheFile

(***************************************************************************)
(* getFileContentsOf reads, in the GRF it is asked of, at the place of the *)
(* first info the backend has for the name.  That is the place the GRF has *)
(* the file at, through any order of loading, crash and restart, unless    *)
(* the file was patched since the list was read, or a GRF loaded before it *)
(* has the name: in this process, or in the one that wrote the cache.      *)
(***************************************************************************)
ReadsItsContents ==
  \A id \in DOMAIN mGrfs, n \in Name :
    LET l == mGrfs[id] IN
      HasFile(id, n) /\ disk[l.grf][n] = l.read[n] /\ n \notin l.taken
        /\ (\A j \in 1 .. id - 1 : ~HasFile(j, n))
      => FileInfo(n) = [of |-> l.grf, place |-> disk[l.grf][n]]

(***************************************************************************)
(* What keeps a GRF from loading is a cache a process died writing: no     *)
(* other order of loads, mismatched headers and restarts leaves a cache    *)
(* that is cut short.                                                      *)
(***************************************************************************)
OnlyACrashTearsACache ==
  \A f \in CacheFile :
    cache[f] \in Torn =>
      \/ f \in crashes
      \/ saving /\ f = CacheOf(mGrfs[Len(mGrfs)].grf, Len(mGrfs) - 1)
=============================================================================
