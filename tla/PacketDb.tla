------------------------------ MODULE PacketDb ------------------------------
(***************************************************************************)
(* RoNetXmlPacketDb: loading data/packets.xml.  The sections are parsed in *)
(* a fixed order, each definition in the order of the file.  What a client *)
(* version does not use is skipped, a later definition replaces an earlier *)
(* one, and any mistake ends the load with an exception.                   *)
(*                                                                         *)
(* A definition is its place in the file.  What a packet holds besides its *)
(* name is one datum: of a built-in type, of a type nobody defined, or a   *)
(* list or a field of a structure.                                         *)
(***************************************************************************)
EXTENDS Integers, Sequences

CONSTANTS
  PacketId,        (* the ids of the definitions                           *)
  ActionName,      (* the names of packets                                 *)
  StructName,
  ServerName,      (* the servers heart-beats are for                      *)
  DbVersion,       (* the versions definitions are made for                *)
  ClientVersion,   (* roCLIENT_VERSION                                     *)
  MaxDefinitions   (* bound: the definitions in the file                   *)

ASSUME PacketDbAssumption ==
  /\ PacketId \subseteq Nat /\ DbVersion \subseteq Nat
  /\ ClientVersion \in Nat /\ MaxDefinitions \in Nat
  /\ {"plain", "undefined"} \cap StructName = {} /\ "NONE" \notin ServerName

VARIABLES
  section,      (* what is being parsed, or how the load ended             *)
  mVersions, mStructures, mHeartBeatPackets, mPackets, mActionToPacketId,
  file          (* history: the definitions of the file met so far         *)

dbMaps == <<mVersions, mStructures, mHeartBeatPackets, mPackets, mActionToPacketId>>
dbVars == <<section, dbMaps, file>>

Section == <<"versions", "structures", "heartbeatpackets", "packets", "loaded">>
Datum == StructName \union {"plain", "undefined"}
Definition == [in : {"structures"}, name : StructName, id : {0}, version : DbVersion, data : Datum]
       \union [in : {"heartbeatpackets"}, name : ServerName \union {"NONE"}, id : PacketId, version : DbVersion, data : Datum]
       \union [in : {"packets"}, name : ActionName, id : PacketId \union {0}, version : DbVersion, data : Datum]

\* An entry of a map: the definition, and the one of the structure it refers to.
Entry == [def : 1 .. MaxDefinitions, data : 0 .. MaxDefinitions]
Absent == [def |-> 0, data |-> 0]

DbInit ==
  /\ section = "versions"
  /\ mVersions = {}
  /\ mStructures = [s \in StructName |-> Absent]
  /\ mHeartBeatPackets = [s \in ServerName |-> Absent]
  /\ mPackets = [i \in PacketId |-> Absent]
  /\ mActionToPacketId = [a \in ActionName |-> 0]
  /\ file = <<>>

-----------------------------------------------------------------------------

\* parseAllData: every type is built in or a structure known by now.
Parses(d) == d.data = "plain" \/ (d.data \in StructName /\ mStructures[d.data] # Absent)

EntryOf(d) ==
  [def |-> Len(file) + 1,
   data |-> IF d.data \in StructName THEN mStructures[d.data].def ELSE 0]

Usable(d) == ClientVersion >= d.version

\* What ends the load: the version is looked at before it is compared.  An
\* attribute that is missing, or that the builder rejects, ends it like these.
Throws(d) ==
  \/ d.in = "packets" /\ d.id = 0
  \/ d.in = "heartbeatpackets" /\ d.name = "NONE"
  \/ d.version \notin mVersions
  \/ Usable(d) /\ ~Parses(d)

Meets(d) ==
  /\ Len(file) < MaxDefinitions
  /\ section = d.in
  /\ file' = Append(file, d)

ParseVersion(v) ==
  /\ section = "versions"
  /\ mVersions' = mVersions \union {v}
  /\ UNCHANGED <<section, mStructures, mHeartBeatPackets, mPackets, mActionToPacketId, file>>

\* Mutant: structures are also taken where packets are.
ParseStructure_Anywhere(d) ==
  /\ Len(file) < MaxDefinitions
  /\ section \in {"structures", "packets"} /\ d.in = "structures" /\ file' = Append(file, d)
  /\ Usable(d) /\ ~Throws(d)
  /\ mStructures' = [mStructures EXCEPT ![d.name] = EntryOf(d)]
  /\ UNCHANGED <<section, mVersions, mHeartBeatPackets, mPackets, mActionToPacketId>>

ParseStructure(d) ==
  /\ d.in = "structures" /\ Meets(d)
  /\ Usable(d) /\ ~Throws(d)
  /\ mStructures' = [mStructures EXCEPT ![d.name] = EntryOf(d)]
  /\ UNCHANGED <<section, mVersions, mHeartBeatPackets, mPackets, mActionToPacketId>>

ParseHeartBeatPacket(d) ==
  /\ d.in = "heartbeatpackets" /\ Meets(d)
  /\ Usable(d) /\ ~Throws(d)
  /\ mHeartBeatPackets' = [mHeartBeatPackets EXCEPT ![d.name] = EntryOf(d)]
  /\ UNCHANGED <<section, mVersions, mStructures, mPackets, mActionToPacketId>>

\* Mutant: the first definition of an id stays.
ParsePacket_FirstStays(d) ==
  /\ d.in = "packets" /\ Meets(d)
  /\ Usable(d) /\ ~Throws(d)
  /\ mPackets' = [mPackets EXCEPT ![d.id] = IF @ = Absent THEN EntryOf(d) ELSE @]
  /\ mActionToPacketId' = [mActionToPacketId EXCEPT ![d.name] = d.id]
  /\ UNCHANGED <<section, mVersions, mStructures, mHeartBeatPackets>>

\* Mutant: the first id of an action stays.
ParsePacket_FirstIdStays(d) ==
  /\ d.in = "packets" /\ Meets(d)
  /\ Usable(d) /\ ~Throws(d)
  /\ mPackets' = [mPackets EXCEPT ![d.id] = EntryOf(d)]
  /\ mActionToPacketId' = [mActionToPacketId EXCEPT ![d.name] = IF @ = 0 THEN d.id ELSE @]
  /\ UNCHANGED <<section, mVersions, mStructures, mHeartBeatPackets>>

ParsePacket(d) ==
  /\ d.in = "packets" /\ Meets(d)
  /\ Usable(d) /\ ~Throws(d)
  /\ mPackets' = [mPackets EXCEPT ![d.id] = EntryOf(d)]
  /\ mActionToPacketId' = [mActionToPacketId EXCEPT ![d.name] = d.id]
  /\ UNCHANGED <<section, mVersions, mStructures, mHeartBeatPackets>>

\* A definition for a later client is known to be right in its attributes only.
SkipDefinition(d) ==
  /\ Meets(d) /\ ~Usable(d) /\ ~Throws(d)
  /\ UNCHANGED <<section, dbMaps>>

\* The exception leaves the constructor, and nobody gets the database.
ThrowOn(d) ==
  /\ Meets(d) /\ Throws(d)
  /\ section' = "failed"
  /\ UNCHANGED dbMaps

\* The section is at its end, or is not in the file.
NextSection ==
  /\ \E i \in 1 .. 4 : section = Section[i] /\ section' = Section[i + 1]
  /\ UNCHANGED <<dbMaps, file>>

DbNext ==
  \/ \E v \in DbVersion : ParseVersion(v)
  \/ \E d \in Definition :
       \/ ParseStructure(d) \/ ParseHeartBeatPacket(d) \/ ParsePacket(d)
       \/ SkipDefinition(d) \/ ThrowOn(d)
  \/ NextSection

DbSpec == DbInit /\ [][DbNext]_dbVars

-----------------------------------------------------------------------------

\* The packet getPacketByAction returns, as an entry of mPackets.
PacketByAction(a) == IF mActionToPacketId[a] = 0 THEN Absent ELSE mPackets[mActionToPacketId[a]]

\* The types of the maps and of the file.
DbTypeOK ==
  /\ section \in {"versions", "structures", "heartbeatpackets", "packets", "loaded", "failed"}
  /\ mVersions \in SUBSET DbVersion
  /\ mStructures \in [StructName -> Entry \union {Absent}]
  /\ mHeartBeatPackets \in [ServerName -> Entry \union {Absent}]
  /\ mPackets \in [PacketId -> Entry \union {Absent}]
  /\ mActionToPacketId \in [ActionName -> PacketId \union {0}]
  /\ file \in Seq(Definition)

(***************************************************************************)
(* Where the definitions of an id stand in the file in the order of their  *)
(* versions, the packet read under that id is laid out as in the newest    *)
(* version that is not newer than the client: no older layout survives,    *)
(* and none is kept from the future.                                       *)
(***************************************************************************)
DefinesId(n, i) == n \in DOMAIN file /\ file[n].in = "packets" /\ file[n].id = i

NewestUsableVersionIsRead ==
  section # "failed" =>
    \A i \in PacketId \ {0} :
      (\A m, n \in DOMAIN file :
         m < n /\ DefinesId(m, i) /\ DefinesId(n, i) => file[m].version <= file[n].version)
      => \A n \in DOMAIN file :
           DefinesId(n, i) /\ Usable(file[n]) =>
             /\ mPackets[i].def >= n
             /\ DefinesId(mPackets[i].def, i)
             /\ file[mPackets[i].def].version \in file[n].version .. ClientVersion

(***************************************************************************)
(* getPacketByAction(a) returns the last usable definition of a, the one a *)
(* request is written with, unless a definition further on gave its id to  *)
(* another action: then it returns the packet of that other action, and    *)
(* fills the fields it shares with a.                                      *)
(***************************************************************************)
LastOfAction(n, a) ==
  /\ file[n].in = "packets" /\ file[n].name = a /\ Usable(file[n])
  /\ \A m \in n + 1 .. Len(file) :
       ~(file[m].in = "packets" /\ file[m].name = a /\ Usable(file[m]))

ActionGetsItsLastPacket ==
  section # "failed" =>
    \A a \in ActionName, n \in DOMAIN file :
      LastOfAction(n, a) =>
        \/ PacketByAction(a).def = n
        \/ /\ PacketByAction(a).def > n
           /\ file[PacketByAction(a).def].id = file[n].id
           /\ file[PacketByAction(a).def].name # a

(***************************************************************************)
(* A packet's structure is the one getStructure gives when the load is     *)
(* over: the last usable definition of that name, however many there are.  *)
(* Structures inside structures have no such promise, they keep the one    *)
(* that was there.                                                         *)
(***************************************************************************)
PacketsHaveCurrentStructures ==
  \A i \in PacketId :
    mPackets[i] # Absent /\ file[mPackets[i].def].data \in StructName =>
      /\ mStructures[file[mPackets[i].def].data] # Absent
      /\ mPackets[i].data = mStructures[file[mPackets[i].def].data].def
=============================================================================
