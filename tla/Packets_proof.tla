--------------------------- MODULE Packets_proof ---------------------------
(***************************************************************************)
(* What holds of the packet database at every step of its load, whatever   *)
(* the file contains, and of any number of connections that read packets   *)
(* into it.                                                                *)
(***************************************************************************)
EXTENDS PacketDb, PacketReader, Selection_proof

\* What a definition in the section packets consists of.
LEMMA PacketDefinition ==
  ASSUME NEW d \in Definition, d.in = "packets"
  PROVE  d.name \in ActionName /\ d.id \in PacketId \union {0} /\ d.version \in DbVersion /\ d.data \in Datum
BY DEF Definition

\* ... and one in the section structures, and in heartbeatpackets.
LEMMA StructureDefinition ==
  ASSUME NEW d \in Definition, d.in = "structures"
  PROVE  d.name \in StructName /\ d.version \in DbVersion /\ d.data \in Datum
BY DEF Definition

LEMMA HeartBeatDefinition ==
  ASSUME NEW d \in Definition, d.in = "heartbeatpackets"
  PROVE  d.name \in ServerName \union {"NONE"} /\ d.id \in PacketId /\ d.version \in DbVersion /\ d.data \in Datum
BY DEF Definition

\* The definitions met so far stay, and d is the last.
LEMMA FileGrows ==
  ASSUME file \in Seq(Definition), NEW d \in Definition, Meets(d)
  PROVE  /\ file' \in Seq(Definition)
         /\ Len(file) \in Nat /\ Len(file') = Len(file) + 1 /\ Len(file) < MaxDefinitions
         /\ DOMAIN file = 1 .. Len(file) /\ DOMAIN file' = 1 .. Len(file) + 1
         /\ \A n \in DOMAIN file : file'[n] = file[n]
         /\ file'[Len(file) + 1] = d
BY DEF Meets

LEMMA EntryIsEntry ==
  ASSUME DbTypeOK, NEW d \in Definition, Meets(d)
  PROVE  EntryOf(d) \in Entry /\ EntryOf(d) # Absent /\ EntryOf(d).def = Len(file) + 1
<1>1. Len(file) \in Nat /\ Len(file) < MaxDefinitions
  BY FileGrows DEF DbTypeOK
<1>2. d.data \in StructName => mStructures[d.data].def \in 0 .. MaxDefinitions
  BY PacketDbAssumption DEF DbTypeOK, Entry, Absent
<1>. QED
  BY <1>1, <1>2, PacketDbAssumption DEF EntryOf, Entry, Absent

-----------------------------------------------------------------------------

LEMMA DbTypeStep == ASSUME DbTypeOK, [DbNext]_dbVars PROVE DbTypeOK'
<1>. USE DEF DbTypeOK
<1>1. ASSUME NEW v \in DbVersion, ParseVersion(v) PROVE DbTypeOK'
  BY <1>1 DEF ParseVersion
<1>2. ASSUME NEW d \in Definition, ParseStructure(d) PROVE DbTypeOK'
  <2>1. d.in = "structures" /\ Meets(d) BY <1>2 DEF ParseStructure
  <2>2. mStructures' \in [StructName -> Entry \union {Absent}]
    BY <1>2, <2>1, StructureDefinition, EntryIsEntry DEF ParseStructure
  <2>. QED BY <1>2, <2>1, <2>2, FileGrows DEF ParseStructure
<1>3. ASSUME NEW d \in Definition, ParseHeartBeatPacket(d) PROVE DbTypeOK'
  <2>1. d.in = "heartbeatpackets" /\ Meets(d) BY <1>3 DEF ParseHeartBeatPacket
  <2>2. mHeartBeatPackets' \in [ServerName -> Entry \union {Absent}]
    BY <1>3, <2>1, HeartBeatDefinition, EntryIsEntry DEF ParseHeartBeatPacket
  <2>. QED BY <1>3, <2>1, <2>2, FileGrows DEF ParseHeartBeatPacket
<1>4. ASSUME NEW d \in Definition, ParsePacket(d) PROVE DbTypeOK'
  <2>1. d.in = "packets" /\ Meets(d) BY <1>4 DEF ParsePacket
  <2>2. mPackets' \in [PacketId -> Entry \union {Absent}]
    BY <1>4, <2>1, PacketDefinition, EntryIsEntry DEF ParsePacket
  <2>3. mActionToPacketId' \in [ActionName -> PacketId \union {0}]
    BY <1>4, <2>1, PacketDefinition DEF ParsePacket
  <2>. QED BY <1>4, <2>1, <2>2, <2>3, FileGrows DEF ParsePacket
<1>5. ASSUME NEW d \in Definition, SkipDefinition(d) PROVE DbTypeOK'
  BY <1>5, FileGrows DEF SkipDefinition, dbMaps
<1>6. ASSUME NEW d \in Definition, ThrowOn(d) PROVE DbTypeOK'
  BY <1>6, FileGrows DEF ThrowOn, dbMaps
<1>7. CASE NextSection
  BY <1>7 DEF NextSection, dbMaps, Section
<1>8. CASE UNCHANGED dbVars
  BY <1>8 DEF dbVars, dbMaps
<1>. QED
  BY <1>1, <1>2, <1>3, <1>4, <1>5, <1>6, <1>7, <1>8 DEF DbNext

(***************************************************************************)
(* The maps, the section and the file read so far keep their types.        *)
(***************************************************************************)
THEOREM DatabaseTypeCorrect == DbSpec => []DbTypeOK
<1>1. DbInit => DbTypeOK
  BY DEF DbInit, DbTypeOK
<1>. QED
  BY <1>1, DbTypeStep, PTL DEF DbSpec

-----------------------------------------------------------------------------

\* A packet is a usable definition of its id.
PacketsAreDefinitions ==
  \A i \in PacketId : mPackets[i] # Absent =>
    DefinesId(mPackets[i].def, i) /\ Usable(file[mPackets[i].def])

\* While the load goes on, no usable definition is forgotten for an older one.
UsableAreKept ==
  section # "failed" => \A n \in DOMAIN file :
    file[n].in = "packets" /\ Usable(file[n]) =>
      file[n].id \in PacketId \ {0} /\ mPackets[file[n].id].def >= n

\* ... and the last definition of an action gives its id.
LastGivesId ==
  section # "failed" => \A n \in DOMAIN file, a \in ActionName :
    LastOfAction(n, a) => mActionToPacketId[a] = file[n].id

\* Packets are parsed when the structures are complete.
PacketsComeLast ==
  section \in {"versions", "structures", "heartbeatpackets"} => \A i \in PacketId : mPackets[i] = Absent

DbInv ==
  /\ DbTypeOK
  /\ PacketsAreDefinitions /\ UsableAreKept /\ LastGivesId /\ PacketsComeLast
  /\ PacketsHaveCurrentStructures

LEMMA DbInvInit == DbInit => DbInv
BY DEF DbInit, DbInv, DbTypeOK, PacketsAreDefinitions, UsableAreKept, LastGivesId, PacketsComeLast,
       PacketsHaveCurrentStructures

\* A definition that leaves mPackets and mActionToPacketId alone is none of a
\* packet, or is not usable, or ends the load.
LEMMA OtherDefinition ==
  ASSUME DbInv, NEW d \in Definition, Meets(d), DbTypeOK',
         UNCHANGED <<mPackets, mActionToPacketId>>,
         section' = section \/ section' = "failed",
         section' # "failed" => ~(d.in = "packets" /\ Usable(d))
  PROVE  PacketsAreDefinitions' /\ UsableAreKept' /\ LastGivesId' /\ PacketsComeLast'
<1>1. /\ Len(file) \in Nat /\ DOMAIN file = 1 .. Len(file) /\ DOMAIN file' = 1 .. Len(file) + 1
      /\ \A n \in DOMAIN file : file'[n] = file[n]
      /\ file'[Len(file) + 1] = d /\ Len(file') = Len(file) + 1
  BY FileGrows DEF DbInv, DbTypeOK
<1>2. PacketsAreDefinitions'
  BY <1>1 DEF DbInv, PacketsAreDefinitions, DefinesId, Usable
<1>3. UsableAreKept'
  BY <1>1 DEF DbInv, UsableAreKept, Usable
<1>4. LastGivesId'
  <2> SUFFICES ASSUME section' # "failed", NEW n \in 1 .. Len(file) + 1, NEW a \in ActionName, LastOfAction(n, a)'
               PROVE  mActionToPacketId[a] = file'[n].id
    BY <1>1 DEF LastGivesId
  <2>1. n \in 1 .. Len(file)
    BY <1>1 DEF LastOfAction, Usable
  <2>2. \A m \in n + 1 .. Len(file) : file'[m] = file[m] /\ m \in n + 1 .. Len(file')
    BY <1>1, <2>1
  <2>3. LastOfAction(n, a)
    BY <1>1, <2>1, <2>2 DEF LastOfAction, Usable
  <2>. QED BY <1>1, <2>1, <2>3 DEF DbInv, LastGivesId
<1>5. PacketsComeLast'
  BY DEF DbInv, PacketsComeLast
<1>. QED BY <1>2, <1>3, <1>4, <1>5

LEMMA ParsePacketKeepsInv ==
  ASSUME DbInv, DbTypeOK', NEW d \in Definition, ParsePacket(d)
  PROVE  DbInv'
<1>1. /\ Len(file) \in Nat /\ DOMAIN file = 1 .. Len(file) /\ DOMAIN file' = 1 .. Len(file) + 1
      /\ \A n \in DOMAIN file : file'[n] = file[n]
      /\ file'[Len(file) + 1] = d /\ Len(file') = Len(file) + 1
  BY FileGrows DEF DbInv, DbTypeOK, ParsePacket
<1>2. d.in = "packets" /\ Usable(d) /\ Parses(d) /\ d.id \in PacketId \ {0} /\ d.name \in ActionName
  BY PacketDefinition DEF ParsePacket, Throws
<1>3. EntryOf(d) # Absent /\ EntryOf(d).def = Len(file) + 1
  BY EntryIsEntry DEF DbInv, ParsePacket
<1>4. /\ mPackets'[d.id] = EntryOf(d)
      /\ \A i \in PacketId \ {d.id} : mPackets'[i] = mPackets[i]
      /\ mActionToPacketId'[d.name] = d.id
      /\ \A a \in ActionName \ {d.name} : mActionToPacketId'[a] = mActionToPacketId[a]
      /\ section = "packets" /\ section' = section /\ mStructures' = mStructures
  BY <1>2 DEF DbInv, DbTypeOK, ParsePacket, Meets
<1>5. PacketsAreDefinitions'
  <2> SUFFICES ASSUME NEW i \in PacketId, mPackets'[i] # Absent
               PROVE  DefinesId(mPackets[i].def, i)' /\ Usable(file[mPackets[i].def])'
    BY DEF PacketsAreDefinitions
  <2>1. CASE i = d.id
    BY <2>1, <1>1, <1>2, <1>3, <1>4 DEF DefinesId, Usable
  <2>2. CASE i # d.id
    BY <2>2, <1>1, <1>4 DEF DbInv, PacketsAreDefinitions, DefinesId, Usable
  <2>. QED BY <2>1, <2>2
<1>6. UsableAreKept'
  <2> SUFFICES ASSUME NEW n \in 1 .. Len(file) + 1, file'[n].in = "packets", Usable(file'[n])
               PROVE  file'[n].id \in PacketId \ {0} /\ mPackets'[file'[n].id].def >= n
    BY <1>1 DEF UsableAreKept, Usable
  <2>1. CASE n = Len(file) + 1
    BY <2>1, <1>1, <1>2, <1>3, <1>4
  <2>2. CASE n \in 1 .. Len(file)
    BY <2>2, <1>1, <1>3, <1>4 DEF DbInv, UsableAreKept, Usable
  <2>. QED BY <1>1, <2>1, <2>2
<1>7. LastGivesId'
  <2> SUFFICES ASSUME NEW n \in 1 .. Len(file) + 1, NEW a \in ActionName, LastOfAction(n, a)'
               PROVE  mActionToPacketId'[a] = file'[n].id
    BY <1>1 DEF LastGivesId
  <2>1. CASE n = Len(file) + 1
    BY <2>1, <1>1, <1>4 DEF LastOfAction
  <2>2. CASE n \in 1 .. Len(file)
    <3>1. a # d.name
      BY <2>2, <1>1, <1>2 DEF LastOfAction, Usable
    <3>2. \A m \in n + 1 .. Len(file) : file'[m] = file[m] /\ m \in n + 1 .. Len(file')
      BY <1>1, <2>2
    <3>3. LastOfAction(n, a)
      BY <1>1, <2>2, <3>2 DEF LastOfAction, Usable
    <3>. QED BY <1>1, <1>4, <2>2, <3>1, <3>3 DEF DbInv, LastGivesId
  <2>. QED BY <1>1, <2>1, <2>2
<1>8. PacketsComeLast'
  BY <1>4 DEF PacketsComeLast
<1>9. PacketsHaveCurrentStructures'
  <2> SUFFICES ASSUME NEW i \in PacketId, mPackets'[i] # Absent, file'[mPackets'[i].def].data \in StructName
               PROVE  /\ mStructures[file'[mPackets'[i].def].data] # Absent
                      /\ mPackets'[i].data = mStructures[file'[mPackets'[i].def].data].def
    BY <1>4 DEF PacketsHaveCurrentStructures
  <2>1. CASE i = d.id
    <3>1. file'[mPackets'[i].def] = d
      BY <2>1, <1>1, <1>3, <1>4
    <3>. QED BY <2>1, <3>1, <1>2, <1>4, PacketDbAssumption DEF Parses, EntryOf
  <2>2. CASE i # d.id
    <3>1. mPackets'[i] = mPackets[i] /\ mPackets[i].def \in DOMAIN file
      BY <2>2, <1>4 DEF DbInv, PacketsAreDefinitions, DefinesId
    <3>. QED BY <3>1, <1>1 DEF DbInv, PacketsHaveCurrentStructures
  <2>. QED BY <2>1, <2>2
<1>. QED BY <1>5, <1>6, <1>7, <1>8, <1>9 DEF DbInv

LEMMA DbInvStep == ASSUME DbInv, [DbNext]_dbVars PROVE DbInv'
<1>1. DbTypeOK'
  BY DbTypeStep DEF DbInv
<1>2. ASSUME NEW v \in DbVersion, ParseVersion(v) PROVE DbInv'
  BY <1>1, <1>2 DEF ParseVersion, DbInv, PacketsAreDefinitions, UsableAreKept, LastGivesId, PacketsComeLast,
       PacketsHaveCurrentStructures, DefinesId, LastOfAction, Usable
<1>3. ASSUME NEW d \in Definition, ParseStructure(d) PROVE DbInv'
  <2>1. PacketsAreDefinitions' /\ UsableAreKept' /\ LastGivesId' /\ PacketsComeLast'
    BY <1>1, <1>3, OtherDefinition DEF ParseStructure
  <2>2. \A i \in PacketId : mPackets'[i] = Absent
    BY <1>3 DEF DbInv, PacketsComeLast, ParseStructure, Meets
  <2>. QED BY <1>1, <2>1, <2>2 DEF DbInv, PacketsHaveCurrentStructures
<1>4. ASSUME NEW d \in Definition, Meets(d), UNCHANGED <<mPackets, mActionToPacketId, mStructures>>,
             section' = section \/ section' = "failed",
             section' # "failed" => ~(d.in = "packets" /\ Usable(d))
      PROVE  DbInv'
  <2>1. PacketsAreDefinitions' /\ UsableAreKept' /\ LastGivesId' /\ PacketsComeLast'
    BY <1>1, <1>4, OtherDefinition
  <2>2. \A n \in DOMAIN file : file'[n] = file[n]
    BY <1>4, FileGrows DEF DbInv, DbTypeOK
  <2>3. PacketsHaveCurrentStructures'
    BY <1>4, <2>2 DEF DbInv, PacketsHaveCurrentStructures, PacketsAreDefinitions, DefinesId
  <2>. QED BY <1>1, <2>1, <2>3 DEF DbInv
<1>5. ASSUME NEW d \in Definition, ParseHeartBeatPacket(d) PROVE DbInv'
  BY <1>4, <1>5 DEF ParseHeartBeatPacket
<1>6. ASSUME NEW d \in Definition, ParsePacket(d) PROVE DbInv'
  BY <1>1, <1>6, ParsePacketKeepsInv
<1>7. ASSUME NEW d \in Definition, SkipDefinition(d) PROVE DbInv'
  BY <1>4, <1>7 DEF SkipDefinition, dbMaps
<1>8. ASSUME NEW d \in Definition, ThrowOn(d) PROVE DbInv'
  BY <1>4, <1>8 DEF ThrowOn, dbMaps
<1>9. CASE NextSection
  <2>1. section # "failed" /\ section' # "failed" /\ (section' \in {"versions", "structures", "heartbeatpackets"} => section \in {"versions", "structures", "heartbeatpackets"})
    BY <1>9 DEF NextSection, Section
  <2>. QED
    BY <1>1, <1>9, <2>1 DEF NextSection, dbMaps, DbInv, PacketsAreDefinitions, UsableAreKept, LastGivesId, PacketsComeLast,
       PacketsHaveCurrentStructures, DefinesId, LastOfAction, Usable
<1>10. CASE UNCHANGED dbVars
  BY <1>1, <1>10 DEF dbVars, dbMaps, DbInv, PacketsAreDefinitions, UsableAreKept, LastGivesId, PacketsComeLast,
       PacketsHaveCurrentStructures, DefinesId, LastOfAction, Usable
<1>. QED
  BY <1>2, <1>3, <1>5, <1>6, <1>7, <1>8, <1>9, <1>10 DEF DbNext

LEMMA DatabaseInvariant == DbSpec => []DbInv
BY DbInvInit, DbInvStep, PTL DEF DbSpec

(***************************************************************************)
(* The newest usable version of a packet is the one read: no usable        *)
(* definition is forgotten for an older one, so that where those of an id  *)
(* are in the order of their versions none that is newer is left.          *)
(***************************************************************************)
THEOREM NewestVersionIsRead == DbSpec => []NewestUsableVersionIsRead
<1>1. DbInv => NewestUsableVersionIsRead
  <2> SUFFICES ASSUME DbInv, section # "failed", NEW i \in PacketId \ {0},
                      \A m, n \in DOMAIN file :
                        m < n /\ DefinesId(m, i) /\ DefinesId(n, i) => file[m].version <= file[n].version,
                      NEW n \in DOMAIN file, DefinesId(n, i), Usable(file[n])
               PROVE  /\ mPackets[i].def >= n
                      /\ DefinesId(mPackets[i].def, i)
                      /\ file[mPackets[i].def].version \in file[n].version .. ClientVersion
    BY DEF NewestUsableVersionIsRead
  <2>1. n \in 1 .. Len(file) /\ Len(file) \in Nat
    BY DEF DbInv, DbTypeOK
  <2>2. mPackets[i].def >= n /\ mPackets[i].def \in Nat
    BY DEF DbInv, UsableAreKept, DefinesId, DbTypeOK, Entry, Absent
  <2>3. DefinesId(mPackets[i].def, i) /\ Usable(file[mPackets[i].def])
    BY <2>1, <2>2 DEF DbInv, PacketsAreDefinitions, Absent
  <2>4. file[n].version \in Int /\ file[mPackets[i].def].version \in Int
    <3>1. ASSUME NEW k \in DOMAIN file, DefinesId(k, i) PROVE file[k].version \in Int
      <4>1. file[k] \in Definition
        BY DEF DbInv, DbTypeOK
      <4>2. file[k].version \in DbVersion
        BY <3>1, <4>1, PacketDefinition DEF DefinesId
      <4>3. DbVersion \subseteq Int
        BY PacketDbAssumption
      <4>. QED BY <4>2, <4>3
    <3>. QED BY <2>3, <3>1 DEF DefinesId
  <2>5. file[n].version <= file[mPackets[i].def].version
    BY <2>1, <2>2, <2>3, <2>4 DEF DefinesId
  <2>. QED
    BY <2>2, <2>3, <2>4, <2>5, PacketDbAssumption DEF Usable
<1>. QED
  BY <1>1, DatabaseInvariant, PTL

(***************************************************************************)
(* A request gets the last usable definition of its action, or the packet  *)
(* of another action that took its id further on in the file.              *)
(***************************************************************************)
THEOREM RequestGetsItsPacket == DbSpec => []ActionGetsItsLastPacket
<1>1. DbInv => ActionGetsItsLastPacket
  <2> SUFFICES ASSUME DbInv, section # "failed", NEW a \in ActionName, NEW n \in DOMAIN file, LastOfAction(n, a)
               PROVE  \/ PacketByAction(a).def = n
                      \/ /\ PacketByAction(a).def > n
                         /\ file[PacketByAction(a).def].id = file[n].id
                         /\ file[PacketByAction(a).def].name # a
    BY DEF ActionGetsItsLastPacket
  <2> DEFINE i == file[n].id
  <2>1. n \in 1 .. Len(file) /\ Len(file) \in Nat
    BY DEF DbInv, DbTypeOK
  <2>2. i \in PacketId \ {0} /\ mPackets[i].def >= n /\ mPackets[i].def \in Nat
    BY DEF DbInv, UsableAreKept, LastOfAction, DbTypeOK, Entry, Absent
  <2>3. PacketByAction(a) = mPackets[i]
    BY <2>2 DEF PacketByAction, DbInv, LastGivesId
  <2>4. DefinesId(mPackets[i].def, i) /\ Usable(file[mPackets[i].def])
    BY <2>1, <2>2 DEF DbInv, PacketsAreDefinitions, Absent
  <2>5. mPackets[i].def \in 1 .. Len(file)
    BY <2>4 DEF DefinesId, DbInv, DbTypeOK
  <2>6. ASSUME mPackets[i].def # n PROVE file[mPackets[i].def].name # a
    BY <2>1, <2>2, <2>4, <2>5, <2>6 DEF LastOfAction, DefinesId
  <2>. QED
    BY <2>1, <2>2, <2>3, <2>4, <2>6 DEF DefinesId
<1>. QED
  BY <1>1, DatabaseInvariant, PTL

(***************************************************************************)
(* Packets refer to the structures getStructure gives after the load,      *)
(* because no structure is parsed once there is a packet.                  *)
(***************************************************************************)
THEOREM StructuresAreCurrent == DbSpec => []PacketsHaveCurrentStructures
<1>1. DbInv => PacketsHaveCurrentStructures
  BY DEF DbInv
<1>. QED
  BY <1>1, DatabaseInvariant, PTL

-----------------------------------------------------------------------------

\* What a packet puts on the wire is made of numbers.
LEMMA CellsAreNumbers == ASSUME NEW p \in Packet PROVE Cells(p) \in Seq(Nat)
<1>1. CASE p \in [id : {PlainId}, fields : {<<v>> : v \in Data}]
  <2>1. PICK v \in Data : p.id = PlainId /\ p.fields = <<v>>
    BY <1>1
  <2>2. v \in Nat /\ PlainId \in Nat /\ PlainId # ListId
    BY ReaderAssumption DEF PlainId, ListId
  <2>3. Cells(p) = <<PlainId>> \o <<v>>
    BY <2>1, <2>2 DEF Cells
  <2>4. <<PlainId>> \in Seq(Nat) /\ <<v>> \in Seq(Nat)
    BY <2>2
  <2>. QED BY <2>3, <2>4
<1>2. CASE p \in [id : Data \ KnownId, fields : {<<v>> : v \in Data}]
  <2>1. PICK v \in Data : p.id \in Data \ KnownId /\ p.fields = <<v>>
    BY <1>2
  <2>2. v \in Nat /\ p.id \in Nat /\ p.id # ListId
    BY <2>1, ReaderAssumption DEF KnownId
  <2>3. Cells(p) = <<p.id>> \o <<v>>
    BY <2>1, <2>2 DEF Cells
  <2>4. <<p.id>> \in Seq(Nat) /\ <<v>> \in Seq(Nat)
    BY <2>2
  <2>. QED BY <2>3, <2>4
<1>3. CASE p \in [id : {0}, fields : {<<>>}]
  <2>1. p.id = 0 /\ p.fields = <<>> /\ p.id # ListId
    BY <1>3 DEF ListId
  <2>2. Cells(p) = <<0>> \o <<>>
    BY <2>1 DEF Cells
  <2>. QED BY <2>2
<1>4. CASE p \in {[id |-> ListId, fields |-> <<2 + Len(e), e>>] : e \in UNION {[1 .. n - 2 -> Data] : n \in Sizes}}
  <2>0. PICK n \in Sizes : \E e \in [1 .. n - 2 -> Data] : p = [id |-> ListId, fields |-> <<2 + Len(e), e>>]
    BY <1>4
  <2>1. PICK e \in [1 .. n - 2 -> Data] : p = [id |-> ListId, fields |-> <<2 + Len(e), e>>]
    BY <2>0
  <2>2. PICK m \in Nat : m = n - 2
    BY ReaderAssumption
  <2>3. e \in Seq(Nat)
    <3>1. e \in [1 .. m -> Nat]
      BY <2>2, ReaderAssumption
    <3>. QED BY <3>1
  <2>4. p.id = ListId /\ p.fields[1] = 2 + Len(e) /\ p.fields[2] = e
    BY <2>1
  <2>5. <<p.id>> \in Seq(Nat) /\ <<p.fields[1]>> \in Seq(Nat)
    BY <2>3, <2>4 DEF ListId
  <2>. QED BY <2>3, <2>4, <2>5 DEF Cells
<1>. QED BY <1>1, <1>2, <1>3, <1>4 DEF Packet

\* A packet of two fields keeps its form when one of them is written.
LEMMA ListFieldsForm ==
  ASSUME NEW f \in ListFields
  PROVE  /\ f[1] \in Nat /\ f[2] \in Seq(Nat) /\ Len(f) = 2
         /\ \A v \in Nat : [f EXCEPT ![1] = v] \in ListFields
         /\ \A v \in Seq(Nat) : [f EXCEPT ![2] = v] \in ListFields
BY DEF ListFields

LEMMA PlainFieldsForm ==
  ASSUME NEW f \in PlainFields
  PROVE  Len(f) = 1 /\ \A v \in Nat : [f EXCEPT ![1] = v] \in PlainFields
BY DEF PlainFields

LEMMA ReaderForm ==
  ASSUME ReaderTypeOK, NEW c \in Conn
  PROVE  /\ reader[c] \in Reader /\ wire[c] \in Seq(Nat) /\ posted[c] \in Seq(Event) /\ sent[c] \in Seq(Packet)
         /\ proto[PlainId] \in PlainFields /\ proto[ListId] \in ListFields
         /\ \A i \in KnownId : proto[i] \in Fields
         /\ wire[c] # <<>> => Head(wire[c]) \in Nat /\ Tail(wire[c]) \in Seq(Nat)
BY DEF ReaderTypeOK

LEMMA IdleForm == Idle \in Reader /\ Idle.at = "id" /\ ~Idle.torn
BY DEF Idle, Reader

LEMMA ReaderTypeInit == ReaderInit => ReaderTypeOK
<1> SUFFICES ASSUME ReaderInit PROVE ReaderTypeOK
  OBVIOUS
<1>1. <<0>> \in PlainFields
  BY DEF PlainFields
<1>2. <<0, <<>>>> \in ListFields
  <2>1. 0 \in Nat /\ <<>> \in Seq(Nat)
    OBVIOUS
  <2>. QED BY <2>1 DEF ListFields
<1>. QED BY <1>1, <1>2, IdleForm DEF ReaderInit, ReaderTypeOK, Fields, KnownId, PlainId, ListId

\* Writing the field a thread is at leaves every packet well formed.
LEMMA WritesType ==
  ASSUME ReaderTypeOK, NEW c \in Conn, NEW field, NEW v, Writes(c, field, v),
         \/ reader[c].at = "field" /\ field = 1 /\ v \in Nat
         \/ reader[c].at = "list" /\ field = 2 /\ v \in Seq(Nat),
         wire' \in [Conn -> Seq(Nat)]
  PROVE  ReaderTypeOK'
<1>1. reader[c].id \in KnownId /\ (reader[c].at = "list" => reader[c].id = ListId)
  BY DEF ReaderTypeOK
<1>2. /\ proto' \in [KnownId -> Fields] /\ proto'[PlainId] \in PlainFields /\ proto'[ListId] \in ListFields
  <2>1. CASE reader[c].id = PlainId
    <3>1. [proto[PlainId] EXCEPT ![field] = v] \in PlainFields
      BY <1>1, <2>1, PlainFieldsForm DEF ReaderTypeOK, PlainId, ListId
    <3>. QED BY <2>1, <3>1 DEF Writes, ReaderTypeOK, Fields, KnownId, PlainId, ListId
  <2>2. CASE reader[c].id = ListId
    <3>1. [proto[ListId] EXCEPT ![field] = v] \in ListFields
      BY ListFieldsForm DEF ReaderTypeOK
    <3>. QED BY <2>2, <3>1 DEF Writes, ReaderTypeOK, Fields, KnownId, PlainId, ListId
  <2>. QED BY <1>1, <2>1, <2>2 DEF KnownId
<1>3. \A d \in Conn : /\ reader'[d] \in Reader
                      /\ d # c => reader'[d].at = reader[d].at /\ reader'[d].id = reader[d].id
                                 /\ reader'[d].packet = reader[d].packet
                      /\ reader'[c].at \in {"translate", "size"} /\ reader'[c].id = reader[c].id
                      /\ reader'[c].at = "size" => field # Len(proto[reader[c].id])
  BY DEF Writes, ReaderTypeOK, Reader
<1>4. reader'[c].at = "size" => reader'[c].id = ListId
  BY <1>1, <1>3, PlainFieldsForm DEF ReaderTypeOK, KnownId, PlainId, ListId
<1>5. reader' \in [Conn -> Reader]
  BY <1>3 DEF Writes
<1>. QED BY <1>1, <1>2, <1>3, <1>4, <1>5 DEF Writes, ReaderTypeOK

LEMMA ReaderTypeStep == ASSUME ReaderTypeOK, [ReaderNext]_readerVars PROVE ReaderTypeOK'
<1> USE DEF ReaderTypeOK
<1>1. ASSUME NEW c \in Conn, NEW p \in Packet, ServerSends(c, p) PROVE ReaderTypeOK'
  BY <1>1, CellsAreNumbers DEF ServerSends
<1>2. ASSUME NEW c \in Conn, ServerEnds(c) PROVE ReaderTypeOK'
  BY <1>2 DEF ServerEnds
<1>3. ASSUME NEW c \in Conn, ReadPacketId(c) PROVE ReaderTypeOK'
  <2> DEFINE r == [Idle EXCEPT !.at = "field", !.id = Head(wire[c])]
  <2>1. r.at = "field" /\ r.id = Head(wire[c]) /\ (Head(wire[c]) \in KnownId => r \in Reader)
    BY IdleForm DEF Reader
  <2>. QED BY <1>3, <2>1, ReaderForm DEF ReadPacketId, Reads
<1>4. ASSUME NEW c \in Conn, ReadField(c) PROVE ReaderTypeOK'
  BY <1>4, ReaderForm, WritesType DEF ReadField, Reads
<1>5. ASSUME NEW c \in Conn, BeginList(c) PROVE ReaderTypeOK'
  <2>1. proto[ListId][1] \in Nat
    BY ListFieldsForm
  <2>. QED BY <1>5, <2>1 DEF BeginList, Reader
<1>6. ASSUME NEW c \in Conn, ReadElement(c) PROVE ReaderTypeOK'
  <2>1. Append(reader[c].list, Head(wire[c])) \in Seq(Nat)
    BY <1>6, ReaderForm DEF ReadElement, Reads, Reader
  <2>. QED BY <1>6, <2>1, ReaderForm DEF ReadElement, Reads, Reader
<1>7. ASSUME NEW c \in Conn, EndList(c) PROVE ReaderTypeOK'
  <2>1. reader[c].list \in Seq(Nat)
    BY DEF Reader
  <2>. QED BY <1>7, <2>1, WritesType DEF EndList
<1>8. ASSUME NEW c \in Conn, ReadFails(c) PROVE ReaderTypeOK'
  BY <1>8 DEF ReadFails, Reader
<1>9. ASSUME NEW c \in Conn, TranslatePacket(c) PROVE ReaderTypeOK'
  BY <1>9 DEF TranslatePacket, Reader
<1>10. ASSUME NEW c \in Conn, PostPacket(c) PROVE ReaderTypeOK'
  <2> DEFINE e == [id |-> reader[c].id, packet |-> reader[c].packet, properties |-> proto[reader[c].id],
                   shared |-> reader[c].shared, torn |-> reader[c].torn]
  <2>1. e \in Event
    BY <1>10 DEF PostPacket, Event, Reader
  <2>2. Append(posted[c], e) \in Seq(Event)
    BY <2>1
  <2>. QED BY <1>10, <2>2, IdleForm DEF PostPacket
<1>11. ASSUME NEW c \in Conn, StopReading(c) PROVE ReaderTypeOK'
  BY <1>11 DEF StopReading, Reader
<1>12. CASE UNCHANGED readerVars
  BY <1>12 DEF readerVars
<1>. QED
  BY <1>1, <1>2, <1>3, <1>4, <1>5, <1>6, <1>7, <1>8, <1>9, <1>10, <1>11, <1>12 DEF ReaderNext

LEMMA ReaderType == ReaderSpec => []ReaderTypeOK
BY ReaderTypeInit, ReaderTypeStep, PTL DEF ReaderSpec

-----------------------------------------------------------------------------

\* A read fails only at the end of a connection, and what was read is posted.
TornThreadEnds ==
  \A c \in Conn : reader[c].torn =>
    reader[c].at \in {"translate", "post"} /\ wire[c] = <<>> /\ c \in ended

\* ... and then no other packet is begun.
TornEventEnds ==
  \A c \in Conn : \A n \in DOMAIN posted[c] : posted[c][n].torn =>
    n = Len(posted[c]) /\ wire[c] = <<>> /\ c \in ended /\ reader[c].at \in {"id", "stopped"}

ReaderInv == ReaderTypeOK /\ TornThreadEnds /\ TornEventEnds

\* A step of c that posts nothing, in an open connection or in one that has
\* something on the wire: no event of it is torn, nor is its thread.
LEMMA WholeSoFar ==
  ASSUME ReaderInv, NEW c \in Conn, wire[c] # <<>> \/ c \notin ended
  PROVE  ~reader[c].torn /\ \A n \in DOMAIN posted[c] : ~posted[c][n].torn
BY DEF ReaderInv, TornThreadEnds, TornEventEnds

\* The step of one connection leaves what the others have read alone.
LEMMA OthersKeep ==
  ASSUME ReaderInv, ReaderTypeOK', NEW c \in Conn, ended \subseteq ended',
         \A d \in Conn \ {c} : /\ reader'[d].at = reader[d].at /\ reader'[d].torn = reader[d].torn
                                /\ wire'[d] = wire[d] /\ posted'[d] = posted[d],
         reader'[c].torn => reader'[c].at \in {"translate", "post"} /\ wire'[c] = <<>> /\ c \in ended',
         \A n \in DOMAIN posted'[c] : posted'[c][n].torn =>
           n = Len(posted'[c]) /\ wire'[c] = <<>> /\ c \in ended' /\ reader'[c].at \in {"id", "stopped"}
  PROVE  ReaderInv'
<1>1. TornThreadEnds'
  BY DEF ReaderInv, TornThreadEnds
<1>2. TornEventEnds'
  BY DEF ReaderInv, TornEventEnds
<1>. QED BY <1>1, <1>2 DEF ReaderInv

LEMMA ReaderInvStep == ASSUME ReaderInv, [ReaderNext]_readerVars PROVE ReaderInv'
<1>1. ReaderTypeOK'
  BY ReaderTypeStep DEF ReaderInv
<1>0. /\ wire \in [Conn -> Seq(Nat)] /\ posted \in [Conn -> Seq(Event)]
      /\ reader \in [Conn -> Reader]
  BY DEF ReaderInv, ReaderTypeOK
<1>2. ASSUME NEW c \in Conn, NEW p \in Packet, ServerSends(c, p) PROVE ReaderInv'
  BY <1>0, <1>1, <1>2, WholeSoFar, OthersKeep DEF ServerSends
<1>3. ASSUME NEW c \in Conn, ServerEnds(c) PROVE ReaderInv'
  BY <1>0, <1>1, <1>3, WholeSoFar, OthersKeep DEF ServerEnds
<1>4. ASSUME NEW c \in Conn, ReadPacketId(c) PROVE ReaderInv'
  <2>1. ~reader[c].torn /\ \A n \in DOMAIN posted[c] : ~posted[c][n].torn
    BY <1>4, WholeSoFar DEF ReadPacketId, Reads
  <2>2. ~reader'[c].torn
    BY <1>0, <1>4, <2>1 DEF ReadPacketId, Idle
  <2>. QED BY <1>0, <1>1, <1>4, <2>1, <2>2, OthersKeep DEF ReadPacketId, Reads
<1>5. ASSUME NEW c \in Conn, NEW field, NEW v, Writes(c, field, v), reader[c].at \in {"field", "list"},
             wire' = wire \/ Reads(c)
      PROVE  ReaderInv'
  <2>1. ~reader[c].torn /\ \A n \in DOMAIN posted[c] : ~posted[c][n].torn
    BY <1>5 DEF ReaderInv, TornThreadEnds, TornEventEnds
  <2>2. \A d \in Conn \ {c} : reader'[d].at = reader[d].at /\ reader'[d].torn = reader[d].torn
    BY <1>0, <1>5 DEF Writes, Reader
  <2>3. ~reader'[c].torn
    BY <1>0, <1>5, <2>1 DEF Writes, Reader
  <2>. QED BY <1>0, <1>1, <1>5, <2>1, <2>2, <2>3, OthersKeep DEF Writes, Reads
<1>6. ASSUME NEW c \in Conn, ReadField(c) PROVE ReaderInv'
  BY <1>5, <1>6 DEF ReadField
<1>7. ASSUME NEW c \in Conn, BeginList(c) PROVE ReaderInv'
  <2>1. ~reader[c].torn /\ \A n \in DOMAIN posted[c] : ~posted[c][n].torn
    BY <1>7 DEF BeginList, ReaderInv, TornThreadEnds, TornEventEnds
  <2>2. reader'[c].torn = reader[c].torn /\ \A d \in Conn \ {c} : reader'[d] = reader[d]
    BY <1>0, <1>7 DEF BeginList, Reader
  <2>. QED BY <1>1, <1>7, <2>1, <2>2, OthersKeep DEF BeginList
<1>8. ASSUME NEW c \in Conn, ReadElement(c) PROVE ReaderInv'
  <2>1. ~reader[c].torn /\ \A n \in DOMAIN posted[c] : ~posted[c][n].torn
    BY <1>8, WholeSoFar DEF ReadElement, Reads
  <2>2. reader'[c].torn = reader[c].torn /\ \A d \in Conn \ {c} : reader'[d] = reader[d]
    BY <1>0, <1>8 DEF ReadElement, Reader
  <2>. QED BY <1>0, <1>1, <1>8, <2>1, <2>2, OthersKeep DEF ReadElement, Reads
<1>9. ASSUME NEW c \in Conn, EndList(c) PROVE ReaderInv'
  BY <1>5, <1>9 DEF EndList
<1>10. ASSUME NEW c \in Conn, ReadFails(c) PROVE ReaderInv'
  <2>1. \A n \in DOMAIN posted[c] : ~posted[c][n].torn
    BY <1>10 DEF ReadFails, ReaderInv, TornEventEnds
  <2>2. reader'[c].at = "translate" /\ \A d \in Conn \ {c} : reader'[d] = reader[d]
    BY <1>0, <1>10 DEF ReadFails, Reader
  <2>. QED BY <1>1, <1>10, <2>1, <2>2, OthersKeep DEF ReadFails
<1>11. ASSUME NEW c \in Conn, TranslatePacket(c) PROVE ReaderInv'
  <2>1. \A n \in DOMAIN posted[c] : ~posted[c][n].torn
    BY <1>11 DEF TranslatePacket, ReaderInv, TornEventEnds
  <2>2. /\ reader'[c].at = "post" /\ reader'[c].torn = reader[c].torn
        /\ \A d \in Conn \ {c} : reader'[d] = reader[d]
    BY <1>0, <1>11 DEF TranslatePacket, Reader
  <2>3. reader[c].torn => wire[c] = <<>> /\ c \in ended
    BY DEF ReaderInv, TornThreadEnds
  <2>. QED BY <1>1, <1>11, <2>1, <2>2, <2>3, OthersKeep DEF TranslatePacket
<1>12. ASSUME NEW c \in Conn, PostPacket(c) PROVE ReaderInv'
  <2> DEFINE e == [id |-> reader[c].id, packet |-> reader[c].packet, properties |-> proto[reader[c].id],
                   shared |-> reader[c].shared, torn |-> reader[c].torn]
  <2>1. \A n \in DOMAIN posted[c] : ~posted[c][n].torn
    BY <1>12 DEF PostPacket, ReaderInv, TornEventEnds
  <2>2. /\ posted[c] \in Seq(Event) /\ posted'[c] = Append(posted[c], e) /\ e.torn = reader[c].torn
        /\ \A d \in Conn \ {c} : posted'[d] = posted[d] /\ reader'[d] = reader[d]
        /\ wire' = wire /\ ended' = ended /\ reader'[c] = Idle
    BY <1>0, <1>12 DEF PostPacket
  <2>3. \A n \in DOMAIN posted'[c] : posted'[c][n].torn => n = Len(posted'[c]) /\ reader[c].torn
    BY <2>1, <2>2
  <2>4. reader[c].torn => wire[c] = <<>> /\ c \in ended
    BY DEF ReaderInv, TornThreadEnds
  <2>. QED BY <1>1, <2>2, <2>3, <2>4, IdleForm, OthersKeep
<1>13. ASSUME NEW c \in Conn, StopReading(c) PROVE ReaderInv'
  <2>1. ~reader[c].torn
    BY <1>13 DEF StopReading, ReaderInv, TornThreadEnds
  <2>2. /\ reader'[c].at = "stopped" /\ reader'[c].torn = reader[c].torn
        /\ \A d \in Conn \ {c} : reader'[d] = reader[d]
    BY <1>0, <1>13 DEF StopReading, Reader
  <2>3. \A n \in DOMAIN posted[c] : posted[c][n].torn => n = Len(posted[c])
    BY DEF ReaderInv, TornEventEnds
  <2>. QED BY <1>1, <1>13, <2>1, <2>2, <2>3, OthersKeep DEF StopReading
<1>14. CASE UNCHANGED readerVars
  BY <1>1, <1>14 DEF readerVars, ReaderInv, TornThreadEnds, TornEventEnds
<1>. QED
  BY <1>2, <1>3, <1>4, <1>6, <1>7, <1>8, <1>9, <1>10, <1>11, <1>12, <1>13, <1>14 DEF ReaderNext

(***************************************************************************)
(* The event of a read that failed is the last of its connection, for any  *)
(* number of connections, whatever their servers send and whatever other   *)
(* connections write into the packets they share: a read fails only when   *)
(* nothing more can arrive.                                                *)
(***************************************************************************)
THEOREM TornEventIsLast == ReaderSpec => []TornIsLast
<1>1. ReaderInit => ReaderInv
  BY ReaderTypeInit DEF ReaderInit, Idle, ReaderInv, TornThreadEnds, TornEventEnds
<1>2. ReaderInv => TornIsLast
  BY DEF ReaderInv, TornEventEnds, TornIsLast
<1>. QED
  BY <1>1, <1>2, ReaderInvStep, PTL DEF ReaderSpec

-----------------------------------------------------------------------------
(* A connection that has not lost its place knows where it is: the packets *)
(* sent to it are those it is done with and those to come, and what is on  *)
(* the wire are the cells of the latter.                                   *)

Known == {p \in Packet : p.id \in KnownId}

\* The cells of a packet after its id, and those of several packets.
Body(p) == IF p.id = ListId THEN <<p.fields[1]>> \o p.fields[2] ELSE p.fields

CellsOf(ps) == [i \in 1 .. Len(ps) |-> Cells(ps[i])]

Stream(ps) == Joined(CellsOf(ps))

\* The wire holds s, or when the connection has ended the beginning of it.
Arrives(c, s) == \E t \in Seq(Nat) : s = Join(wire[c], t) /\ (c \notin ended => t = <<>>)

Inside(c) == reader[c].at \notin {"id", "stopped"}

Lost(c) == reader[c].id = ListId /\ reader[c].shared

\* What is still to be read of p.
ToCome(c, p, left) ==
  /\ reader[c].at = "field" => left = Body(p) /\ reader[c].list = <<>>
  /\ reader[c].at = "size" => left = p.fields[2] /\ reader[c].list = <<>>
  /\ reader[c].at = "list" => p.fields[2] = Join(reader[c].list, left)
  /\ reader[c].at \in {"translate", "post"} => left = <<>>

\* What was read of p is in the packet of the database.
Written(c, p) ==
  /\ reader[c].at = "size" => proto[ListId][1] = p.fields[1]
  /\ reader[c].at = "list" => reader[c].size = p.fields[1] /\ proto[ListId][1] = p.fields[1]
  /\ reader[c].at \in {"translate", "post"} => proto[reader[c].id] = p.fields
  /\ reader[c].at = "post" => reader[c].packet = p.fields

\* c is inside p, and s comes after p.
ReadsOn(c, p, s) ==
  /\ p.id = reader[c].id
  /\ ~reader[c].torn => \E left \in Seq(Nat) : ToCome(c, p, left) /\ Arrives(c, Join(left, s))
  /\ ~reader[c].torn /\ ~reader[c].shared => Written(c, p)

\* Event e is that of packet p.
Tells(e, p) ==
  /\ e.id = p.id
  /\ ~e.torn /\ ~e.shared => e.packet = p.fields /\ e.properties = p.fields

PostedAre(c, done) ==
  LET ps == Selected(done, Known) IN
    Len(posted[c]) = Len(ps) /\ \A n \in 1 .. Len(ps) : Tells(posted[c][n], ps[n])

KnowsPlace(c, done, rest) ==
  /\ sent[c] = Join(done, rest)
  /\ PostedAre(c, done)
  /\ reader[c].at = "id" => Arrives(c, Stream(rest))
  /\ Inside(c) /\ ~Lost(c) => rest # <<>> /\ ReadsOn(c, Head(rest), Stream(Tail(rest)))

Placed(c) == KeepsPlace(c) => \E done, rest \in Seq(Packet) : KnowsPlace(c, done, rest)

\* The fields of a packet, by its id.
LEMMA PacketForm ==
  ASSUME NEW p \in Packet
  PROVE  /\ p.id \in Nat /\ Body(p) \in Seq(Nat) /\ Cells(p) = Join(<<p.id>>, Body(p))
         /\ p.id = PlainId => \E v \in Nat : p.fields = <<v>> /\ Body(p) = <<v>>
         /\ p.id = ListId => \E e \in Seq(Nat) : p.fields = <<2 + Len(e), e>> /\ Body(p) = Join(<<2 + Len(e)>>, e)
         /\ p.id = 0 => Body(p) = <<>>
<1> USE DEF Join
<1>1. CASE p \in [id : {PlainId}, fields : {<<v>> : v \in Data}]
  <2>1. PICK v \in Data : p.id = PlainId /\ p.fields = <<v>>
    BY <1>1
  <2>2. v \in Nat
    BY ReaderAssumption
  <2>. QED BY <2>1, <2>2 DEF Body, Cells, PlainId, ListId, KnownId
<1>2. CASE p \in [id : Data \ KnownId, fields : {<<v>> : v \in Data}]
  <2>1. PICK v \in Data : p.id \in Data \ KnownId /\ p.fields = <<v>>
    BY <1>2
  <2>2. v \in Nat /\ p.id \in Nat /\ p.id \notin KnownId /\ p.id # 0
    BY <2>1, ReaderAssumption
  <2>3. p.id # ListId /\ p.id # PlainId
    BY <2>2 DEF KnownId
  <2>4. Body(p) = <<v>> /\ Cells(p) = <<p.id>> \o Body(p)
    BY <2>1, <2>3 DEF Body, Cells
  <2>. QED BY <2>2, <2>3, <2>4
<1>3. CASE p \in [id : {0}, fields : {<<>>}]
  <2>1. p.id = 0 /\ p.fields = <<>> /\ p.id # ListId /\ p.id # PlainId
    BY <1>3 DEF ListId, PlainId
  <2>2. Body(p) = <<>> /\ Cells(p) = <<p.id>> \o <<>>
    BY <2>1 DEF Body, Cells
  <2>. QED BY <2>1, <2>2
<1>4. CASE p \in {[id |-> ListId, fields |-> <<2 + Len(e), e>>] : e \in UNION {[1 .. n - 2 -> Data] : n \in Sizes}}
  <2>0. PICK n \in Sizes : \E e \in [1 .. n - 2 -> Data] : p = [id |-> ListId, fields |-> <<2 + Len(e), e>>]
    BY <1>4
  <2>1. PICK e \in [1 .. n - 2 -> Data] : p = [id |-> ListId, fields |-> <<2 + Len(e), e>>]
    BY <2>0
  <2>2. PICK m \in Nat : m = n - 2
    BY ReaderAssumption
  <2>3. e \in Seq(Nat)
    <3>1. e \in [1 .. m -> Nat]
      BY <2>2, ReaderAssumption
    <3>. QED BY <3>1
  <2>4. p.id = ListId /\ p.fields = <<2 + Len(e), e>> /\ p.fields[1] = 2 + Len(e) /\ p.fields[2] = e
    BY <2>1
  <2>5. ListId \in Nat \ {0} /\ ListId # PlainId
    BY DEF ListId, PlainId
  <2>6. Body(p) = <<2 + Len(e)>> \o e /\ Cells(p) = <<p.id>> \o Body(p)
    BY <2>4 DEF Body, Cells
  <2>7. <<2 + Len(e)>> \in Seq(Nat)
    BY <2>3
  <2>8. Body(p) \in Seq(Nat)
    BY <2>3, <2>6, <2>7, ConcatProperties
  <2>. QED BY <2>3, <2>4, <2>5, <2>6, <2>8
<1>. QED BY <1>1, <1>2, <1>3, <1>4 DEF Packet

LEMMA StreamType ==
  ASSUME NEW ps \in Seq(Packet)
  PROVE  CellsOf(ps) \in Seq(Seq(Nat)) /\ Stream(ps) \in Seq(Nat)
<1>1. \A i \in 1 .. Len(ps) : Cells(ps[i]) \in Seq(Nat)
  BY ElementOfSeq, CellsAreNumbers
<1>2. CellsOf(ps) \in Seq(Seq(Nat))
  <2> DEFINE U == Seq(Nat)
  <2>1. \A i \in 1 .. Len(ps) : Cells(ps[i]) \in U
    BY <1>1
  <2> HIDE DEF U
  <2>2. CellsOf(ps) \in Seq(U)
    BY <2>1 DEF CellsOf
  <2>. QED BY <2>2 DEF U
<1>. QED BY <1>2, JoinedType DEF Stream

LEMMA StreamConcat ==
  ASSUME NEW ps \in Seq(Packet), NEW qs \in Seq(Packet)
  PROVE  Stream(ps \o qs) = Join(Stream(ps), Stream(qs))
<1> DEFINE a == CellsOf(ps)
           b == CellsOf(qs)
<1>1. CellsOf(ps \o qs) = Join(a, b)
  BY DEF CellsOf, Join
<1>2. a \in Seq(Seq(Nat)) /\ b \in Seq(Seq(Nat))
  BY StreamType
<1> HIDE DEF a, b
<1>3. Joined(Join(a, b)) = Join(Joined(a), Joined(b))
  BY <1>2, JoinedConcat
<1>. QED BY <1>1, <1>3, Zenon DEF Stream, a, b

LEMMA StreamOne ==
  ASSUME NEW p \in Packet
  PROVE  Stream(<<p>>) = Cells(p)
<1> DEFINE s == Cells(p)
<1>1. s \in Seq(Nat)
  BY CellsAreNumbers
<1>2. CellsOf(<<p>>) = <<s>>
  BY DEF CellsOf
<1> HIDE DEF s
<1>3. Joined(<<s>>) = s
  BY <1>1, JoinedOne
<1>. QED BY <1>2, <1>3, Zenon DEF Stream, s

\* The first of the packets is the first on the wire.
LEMMA StreamFirst ==
  ASSUME NEW ps \in Seq(Packet), ps # <<>>
  PROVE  /\ Head(ps) \in Packet /\ Tail(ps) \in Seq(Packet) /\ ps = <<Head(ps)>> \o Tail(ps)
         /\ Stream(ps) = Join(<<Head(ps).id>>, Join(Body(Head(ps)), Stream(Tail(ps))))
<1> DEFINE p == Head(ps)
           r == Tail(ps)
<1>1. p \in Packet /\ r \in Seq(Packet) /\ ps = <<p>> \o r /\ <<p>> \in Seq(Packet)
  OBVIOUS
<1> HIDE DEF p, r
<1> DEFINE one == <<p>>
<1>2. Stream(one \o r) = Join(Stream(one), Stream(r))
  <2> one \in Seq(Packet)
    BY <1>1
  <2> HIDE DEF one
  <2>. QED BY <1>1, StreamConcat
<1>3. Stream(ps) = Join(Cells(p), Stream(r)) /\ Cells(p) = Join(<<p.id>>, Body(p))
  BY <1>1, <1>2, StreamOne, PacketForm
<1>4. Join(Join(<<p.id>>, Body(p)), Stream(r)) = Join(<<p.id>>, Join(Body(p), Stream(r)))
  <2> DEFINE i == <<p.id>>
             b == Body(p)
             s == Stream(r)
  <2>1. p.id \in Nat /\ b \in Seq(Nat) /\ s \in Seq(Nat)
    BY <1>1, PacketForm, StreamType
  <2>2. i \in Seq(Nat)
    BY <2>1
  <2> HIDE DEF i, b, s
  <2>3. Join(i, Join(b, s)) = Join(Join(i, b), s)
    BY <2>1, <2>2, JoinAssociates
  <2>. QED BY <2>3 DEF i, b, s
<1>. QED BY <1>1, <1>3, <1>4, Zenon DEF p, r

-----------------------------------------------------------------------------

LEMMA ArrivesSame ==
  ASSUME NEW c \in Conn, NEW s, Arrives(c, s), wire'[c] = wire[c], c \in ended' <=> c \in ended
  PROVE  Arrives(c, s)'
BY DEF Arrives, Join

\* The first cell of a wire can be told from those after it.
LEMMA FirstCell ==
  ASSUME NEW a \in Nat, NEW b \in Nat, NEW u \in Seq(Nat), NEW v \in Seq(Nat), Join(<<a>>, u) = Join(<<b>>, v)
  PROVE  a = b /\ u = v
<1>1. ASSUME NEW x \in Nat, NEW q \in Seq(Nat)
      PROVE  /\ Len(<<x>> \o q) = 1 + Len(q) /\ (<<x>> \o q)[1] = x
             /\ \A i \in 1 .. Len(q) : (<<x>> \o q)[i + 1] = q[i]
  <2> DEFINE one == <<x>>
  <2>1. one \in Seq(Nat) /\ Len(one) = 1 /\ one[1] = x
    OBVIOUS
  <2> HIDE DEF one
  <2>2. /\ Len(one \o q) = Len(one) + Len(q)
        /\ \A i \in 1 .. Len(one) + Len(q) : (one \o q)[i] = IF i <= Len(one) THEN one[i] ELSE q[i - Len(one)]
    BY <2>1, ConcatProperties
  <2>3. Len(q) \in Nat
    OBVIOUS
  <2>4. Len(one \o q) = 1 + Len(q) /\ (one \o q)[1] = x
    BY <2>1, <2>2, <2>3
  <2>5. ASSUME NEW i \in 1 .. Len(q) PROVE (one \o q)[i + 1] = q[i]
    <3>1. i + 1 \in 1 .. 1 + Len(q) /\ ~(i + 1 <= 1) /\ (i + 1) - 1 = i
      BY <2>3
    <3>. QED BY <2>1, <2>2, <3>1
  <2>. QED BY <2>4, <2>5 DEF one
<1> DEFINE s == <<a>> \o u
           t == <<b>> \o v
<1>2. s = t
  BY DEF Join
<1>3. Len(s) = 1 + Len(u) /\ s[1] = a /\ \A i \in 1 .. Len(u) : s[i + 1] = u[i]
  BY <1>1
<1>4. Len(t) = 1 + Len(v) /\ t[1] = b /\ \A i \in 1 .. Len(v) : t[i + 1] = v[i]
  BY <1>1
<1> HIDE DEF s, t
<1>5. a = b /\ Len(u) = Len(v)
  BY <1>2, <1>3, <1>4
<1>6. \A i \in 1 .. Len(u) : u[i] = v[i]
  BY <1>2, <1>3, <1>4, <1>5
<1>. QED BY <1>5, <1>6, SeqEqual

\* One cell is read: it is the first of those to come.
LEMMA ArrivesRead ==
  ASSUME ReaderTypeOK, NEW c \in Conn, NEW x \in Nat, NEW s \in Seq(Nat),
         Arrives(c, Join(<<x>>, s)), Reads(c), ended' = ended
  PROVE  Head(wire[c]) = x /\ Arrives(c, s)'
<1>1. PICK t \in Seq(Nat) : Join(<<x>>, s) = Join(wire[c], t) /\ (c \notin ended => t = <<>>)
  BY DEF Arrives
<1>2. wire[c] \in Seq(Nat) /\ wire[c] # <<>> /\ wire'[c] = Tail(wire[c])
  BY DEF ReaderTypeOK, Reads
<1>3. wire[c] = <<Head(wire[c])>> \o Tail(wire[c]) /\ Head(wire[c]) \in Nat /\ Tail(wire[c]) \in Seq(Nat)
  BY <1>2
<1> DEFINE h == Head(wire[c])
           w == Tail(wire[c])
           one == <<h>>
<1>4. wire[c] = Join(one, w) /\ h \in Nat /\ w \in Seq(Nat)
  BY <1>3 DEF Join
<1>5. one \in Seq(Nat)
  BY <1>4
<1>6. Join(w, t) \in Seq(Nat)
  BY <1>4 DEF Join
<1> HIDE DEF h, w, one
<1>7. Join(Join(one, w), t) = Join(one, Join(w, t))
  BY <1>4, <1>5, JoinAssociates
<1>8. Join(<<x>>, s) = Join(one, Join(w, t))
  BY <1>1, <1>4, <1>7, Zenon
<1> DEFINE r == Join(w, t)
<1>9. Join(<<x>>, s) = Join(<<h>>, r) /\ r \in Seq(Nat)
  BY <1>6, <1>8 DEF one
<1> HIDE DEF r
<1>10. x = h /\ s = r
  BY <1>4, <1>9, FirstCell
<1>11. wire'[c] = w
  BY <1>2 DEF w
<1>12. s = Join(wire'[c], t) /\ (c \notin ended' => t = <<>>)
  BY <1>1, <1>10, <1>11, Zenon DEF r
<1>. QED BY <1>10, <1>12 DEF Arrives, h

\* What a server sends comes after what it has sent.
LEMMA ArrivesMore ==
  ASSUME ReaderTypeOK, ReaderTypeOK', NEW c \in Conn, NEW s, NEW t, Arrives(c, s), c \notin ended,
         wire'[c] = Join(wire[c], t)
  PROVE  Arrives(c, Join(s, t))'
<1>0. wire[c] \in Seq(Nat) /\ wire'[c] \in Seq(Nat)
  BY DEF ReaderTypeOK
<1>1. s = wire[c]
  BY <1>0, JoinNothing DEF Arrives
<1>2. Join(s, t) = wire'[c]
  BY <1>1, Zenon
<1>3. wire'[c] = Join(wire'[c], <<>>)
  <2> DEFINE w == wire'[c]
  <2> w \in Seq(Nat)
    BY <1>0
  <2> HIDE DEF w
  <2>1. w = Join(w, <<>>)
    BY JoinNothing
  <2>. QED BY <2>1, Zenon DEF w
<1>4. <<>> \in Seq(Nat)
  OBVIOUS
<1> DEFINE q == Join(s, t)
<1> HIDE DEF q
<1>5. q = Join(wire'[c], <<>>)
  BY <1>2, <1>3, Zenon DEF q
<1>6. \E r \in Seq(Nat) : q = Join(wire'[c], r) /\ (c \notin ended' => r = <<>>)
  BY <1>4, <1>5, Zenon
<1>. QED BY <1>6, Zenon DEF Arrives, q, Join

\* The end of a connection takes away the last of what has not arrived.
LEMMA ArrivesLess ==
  ASSUME ReaderTypeOK, NEW c \in Conn, NEW s, Arrives(c, s), ServerEnds(c)
  PROVE  Arrives(c, s)'
<1>1. wire[c] \in Seq(Nat) /\ c \notin ended /\ c \in ended'
  BY DEF ReaderTypeOK, ServerEnds
<1>2. s = wire[c]
  BY <1>1, JoinNothing DEF Arrives
<1>3. PICK n \in 0 .. Len(wire[c]) : wire'[c] = SubSeq(wire[c], 1, n)
  BY DEF ServerEnds, ReaderTypeOK
<1> DEFINE w == wire[c]
           t == SubSeq(w, n + 1, Len(w))
<1>4. w \in Seq(Nat) /\ n \in 0 .. Len(w)
  BY <1>1, <1>3
<1> HIDE DEF w
<1>5. t \in Seq(Nat)
  <2>1. n + 1 \in Int /\ Len(w) \in Int /\ \A i \in n + 1 .. Len(w) : w[i] \in Nat
    BY <1>4
  <2>. QED BY <2>1, SubSeqProperties
<1>6. SubSeq(w, 1, n) \o t = w
  <2>1. Len(w) \in Nat /\ 1 \in 1 .. Len(w) + 1 /\ n \in 1 - 1 .. Len(w) /\ Len(w) \in n .. Len(w)
    BY <1>4
  <2>2. SubSeq(w, 1, n) \o SubSeq(w, n + 1, Len(w)) = SubSeq(w, 1, Len(w))
    BY <1>4, <2>1, ConcatAdjacentSubSeq
  <2>3. SubSeq(w, 1, Len(w)) = w
    BY <1>4, SubSeqFull
  <2>. QED BY <2>2, <2>3
<1> HIDE DEF t
<1>7. s = Join(wire'[c], t)
  BY <1>2, <1>3, <1>6, Zenon DEF w, Join
<1>. QED BY <1>1, <1>5, <1>7 DEF Arrives, Join

\* A connection that keeps its place has kept it so far.
LEMMA KeptBefore ==
  ASSUME ReaderTypeOK, ReaderNext, NEW c \in Conn, KeepsPlace(c)'
  PROVE  KeepsPlace(c)
<1>0. sent \in [Conn -> Seq(Packet)] /\ posted \in [Conn -> Seq(Event)]
  BY DEF ReaderTypeOK
<1>1. sent'[c] = sent[c] \/ \E p \in Packet : sent'[c] = Append(sent[c], p)
  BY <1>0 DEF ReaderNext, ServerSends, ServerEnds, ReadPacketId, ReadField, BeginList, ReadElement, EndList, ReadFails,
     TranslatePacket, PostPacket, StopReading, Writes
<1>2. posted'[c] = posted[c] \/ \E e : posted'[c] = Append(posted[c], e)
  BY <1>0 DEF ReaderNext, ServerSends, ServerEnds, ReadPacketId, ReadField, BeginList, ReadElement, EndList, ReadFails,
     TranslatePacket, PostPacket, StopReading, Writes
<1>3. \A n \in DOMAIN sent[c] : n \in DOMAIN sent'[c] /\ sent'[c][n] = sent[c][n]
  <2>1. sent[c] \in Seq(Packet)
    BY <1>0
  <2>. QED BY <1>1, <2>1
<1>4. \A n \in DOMAIN posted[c] : n \in DOMAIN posted'[c] /\ posted'[c][n] = posted[c][n]
  <2>1. posted[c] \in Seq(Event)
    BY <1>0
  <2>. QED BY <1>2, <2>1
<1>. QED BY <1>3, <1>4 DEF KeepsPlace

\* What was posted is kept with what is done.
LEMMA PostedSame ==
  ASSUME NEW c \in Conn, NEW done, PostedAre(c, done), posted'[c] = posted[c]
  PROVE  PostedAre(c, done)'
BY DEF PostedAre, Tells

\* A packet the database lacks is done with and nothing is posted.
LEMMA PostedSkips ==
  ASSUME ReaderTypeOK, NEW c \in Conn, NEW done \in Seq(Packet), NEW p \in Packet, p.id \notin KnownId,
         PostedAre(c, done), posted'[c] = posted[c]
  PROVE  PostedAre(c, Join(done, <<p>>))'
<1> DEFINE one == <<p>>
<1>1. one \in Seq(Packet) /\ Selected(one, Known) = <<>>
  BY SelectedOne DEF Known
<1> HIDE DEF one
<1>2. Selected(Join(done, one), Known) = Join(Selected(done, Known), <<>>)
  <2>1. Selected(Join(done, one), Known) = Join(Selected(done, Known), Selected(one, Known))
    BY <1>1, SelectedJoin
  <2>. QED BY <1>1, <2>1, Zenon
<1> DEFINE ps == Selected(done, Known)
<1>3. ps \in Seq(Packet)
  BY SelectedType
<1> HIDE DEF ps
<1>4. Join(ps, <<>>) = ps
  BY <1>3, JoinNothing
<1>5. Selected(Join(done, one), Known) = Selected(done, Known)
  BY <1>2, <1>4, Zenon DEF ps
<1>. QED BY <1>5 DEF PostedAre, Tells, one

\* A packet of the database is done with when its event is posted.
LEMMA PostedOneMore ==
  ASSUME ReaderTypeOK, NEW c \in Conn, NEW done \in Seq(Packet), NEW p \in Packet, p.id \in KnownId,
         NEW e, PostedAre(c, done), posted'[c] = Append(posted[c], e), Tells(e, p)
  PROVE  PostedAre(c, Join(done, <<p>>))'
<1> DEFINE one == <<p>>
<1>1. one \in Seq(Packet) /\ Selected(one, Known) = <<p>>
  BY SelectedOne DEF Known
<1> HIDE DEF one
<1>2. Selected(Join(done, one), Known) = Join(Selected(done, Known), <<p>>)
  <2>1. Selected(Join(done, one), Known) = Join(Selected(done, Known), Selected(one, Known))
    BY <1>1, SelectedJoin
  <2>. QED BY <1>1, <2>1, Zenon
<1> DEFINE ps == Selected(done, Known)
           qs == Join(ps, <<p>>)
<1>3. ps \in Seq(Packet)
  BY SelectedType
<1>4. Len(posted[c]) = Len(ps) /\ \A n \in 1 .. Len(ps) : Tells(posted[c][n], ps[n])
  BY DEF PostedAre
<1> HIDE DEF ps
<1>5. qs = Append(ps, p)
  BY <1>3, AppendIsConcat DEF Join
<1>6. Len(qs) = Len(ps) + 1 /\ qs[Len(ps) + 1] = p /\ \A n \in 1 .. Len(ps) : qs[n] = ps[n]
  BY <1>3, <1>5, AppendProperties
<1> HIDE DEF qs
<1> DEFINE es == posted[c]
<1>7. es \in Seq(Event)
  BY DEF ReaderTypeOK
<1>8. es = posted[c]
  OBVIOUS
<1> HIDE DEF es
<1>9. Len(posted'[c]) = Len(es) + 1 /\ posted'[c][Len(es) + 1] = e /\ \A n \in 1 .. Len(es) : posted'[c][n] = es[n]
  BY <1>7, <1>8
<1>10. Len(posted'[c]) = Len(qs) /\ \A n \in 1 .. Len(qs) : Tells(posted'[c][n], qs[n])
  <2>1. Len(ps) \in Nat /\ \A n \in 1 .. Len(ps) + 1 : n = Len(ps) + 1 \/ n \in 1 .. Len(ps)
    <3>1. Len(ps) \in Nat
      BY <1>3
    <3>. QED BY <3>1
  <2>2. ASSUME NEW n \in 1 .. Len(qs) PROVE Tells(posted'[c][n], qs[n])
    <3>1. CASE n = Len(ps) + 1
      BY <1>4, <1>6, <1>8, <1>9, <3>1
    <3>2. CASE n \in 1 .. Len(ps)
      <4>1. posted'[c][n] = posted[c][n] /\ qs[n] = ps[n]
        BY <1>4, <1>6, <1>8, <1>9, <3>2
      <4>. QED BY <1>4, <3>2, <4>1
    <3>. QED BY <1>6, <2>1, <3>1, <3>2
  <2>. QED BY <1>4, <1>6, <1>8, <1>9, <2>2
<1>11. Selected(Join(done, one), Known) = qs
  BY <1>2, Zenon DEF qs, ps
<1>. QED BY <1>10, <1>11 DEF PostedAre, Tells, one

\* A step of another connection takes no place away: at most it writes to the
\* packet c is reading, which marks the thread.
LEMMA ReadsBesideOthers ==
  ASSUME ReaderTypeOK, NEW c \in Conn, NEW p, NEW s, ReadsOn(c, p, s), Inside(c),
         wire'[c] = wire[c], c \in ended' <=> c \in ended,
         \/ reader'[c] = reader[c] /\ proto'[reader[c].id] = proto[reader[c].id]
         \/ reader'[c] = [reader[c] EXCEPT !.shared = TRUE]
  PROVE  ReadsOn(c, p, s)'
<1>0. reader[c] \in Reader
  BY DEF ReaderTypeOK
<1>1. /\ reader'[c].at = reader[c].at /\ reader'[c].id = reader[c].id /\ reader'[c].torn = reader[c].torn
      /\ reader'[c].list = reader[c].list
  BY <1>0 DEF Reader
<1>2. ASSUME ~reader[c].torn
      PROVE  \E left \in Seq(Nat) : ToCome(c, p, left)' /\ Arrives(c, Join(left, s))'
  <2>1. PICK left \in Seq(Nat) : ToCome(c, p, left) /\ Arrives(c, Join(left, s))
    BY <1>2 DEF ReadsOn
  <2> DEFINE t == Join(left, s)
  <2>2. Arrives(c, t)
    BY <2>1
  <2> HIDE DEF t
  <2>3. Arrives(c, t)'
    BY <2>2, ArrivesSame
  <2>4. ToCome(c, p, left)'
    BY <1>1, <2>1 DEF ToCome, Join
  <2>. QED BY <2>3, <2>4 DEF t
<1>3. ASSUME ~reader'[c].torn, ~reader'[c].shared PROVE Written(c, p)'
  <2>1. reader'[c] = reader[c] /\ proto'[reader[c].id] = proto[reader[c].id]
    BY <1>0, <1>3 DEF Reader
  <2>2. Written(c, p)
    BY <1>3, <2>1 DEF ReadsOn
  <2>3. reader[c].at \in {"size", "list"} => reader[c].id = ListId
    BY DEF ReaderTypeOK
  <2>. QED BY <2>1, <2>2, <2>3 DEF Written
<1>. QED BY <1>1, <1>2, <1>3 DEF ReadsOn

\* A thread keeps its place while another moves, unless it is told that its fields are shared.
LEMMA PlaceBesideOthers ==
  ASSUME ReaderTypeOK, NEW c \in Conn, NEW done, NEW rest, KnowsPlace(c, done, rest),
         sent'[c] = sent[c], posted'[c] = posted[c], wire'[c] = wire[c], c \in ended' <=> c \in ended,
         \/ reader'[c] = reader[c] /\ (Inside(c) => proto'[reader[c].id] = proto[reader[c].id])
         \/ reader'[c] = [reader[c] EXCEPT !.shared = TRUE]
  PROVE  KnowsPlace(c, done, rest)'
<1>1. PostedAre(c, done)'
  BY PostedSame DEF KnowsPlace
<1>2. sent'[c] = Join(done, rest)
  BY DEF KnowsPlace
<1>0. reader[c] \in Reader
  BY DEF ReaderTypeOK
<1>3. /\ reader'[c].at = reader[c].at /\ reader'[c].id = reader[c].id /\ reader'[c].torn = reader[c].torn
      /\ reader'[c].list = reader[c].list
  BY <1>0 DEF Reader
<1>4. reader[c].at = "id" => Arrives(c, Stream(rest))'
  <2> DEFINE s == Stream(rest)
  <2> HIDE DEF s
  <2>1. Arrives(c, s) => Arrives(c, s)'
    BY ArrivesSame
  <2>. QED BY <2>1 DEF KnowsPlace, s
<1>5. ASSUME Inside(c), ~Lost(c), ~Lost(c)' PROVE rest # <<>> /\ ReadsOn(c, Head(rest), Stream(Tail(rest)))'
  <2> DEFINE p == Head(rest)
             s == Stream(Tail(rest))
  <2>1. rest # <<>> /\ ReadsOn(c, p, s)
    BY <1>5 DEF KnowsPlace
  <2> HIDE DEF p, s
  <2>2. ReadsOn(c, p, s)'
    BY <1>5, <2>1, ReadsBesideOthers
  <2>. QED BY <2>1, <2>2 DEF p, s
<1>6. Lost(c) => Lost(c)'
  BY <1>0, <1>3 DEF Lost, Reader
<1>. QED BY <1>1, <1>2, <1>3, <1>4, <1>5, <1>6 DEF KnowsPlace, Inside

-----------------------------------------------------------------------------
(* The steps of a connection inside a packet, in the order of the thread.  *)

\* The field of a plain packet is read, or the size of one with a list.
LEMMA FieldReadsOn ==
  ASSUME ReaderInv, NEW c \in Conn, NEW p \in Packet, NEW s \in Seq(Nat), ReadsOn(c, p, s), ReadField(c)
  PROVE  ReadsOn(c, p, s)'
<1>0. /\ reader[c] \in Reader /\ reader[c].id \in KnownId /\ reader[c].at = "field" /\ ~reader[c].torn
      /\ p.id = reader[c].id /\ Reads(c) /\ ended' = ended /\ ReaderTypeOK
  BY DEF ReaderInv, ReaderTypeOK, TornThreadEnds, ReadField, ReadsOn, Writes
<1>1. Arrives(c, Join(Body(p), s))
  BY <1>0 DEF ReadsOn, ToCome
<1>2. reader[c].list = <<>>
  BY <1>0 DEF ReadsOn, ToCome
<1>3. proto' = [proto EXCEPT ![p.id][1] = Head(wire[c])]
  BY <1>0 DEF ReadField, Writes
<1>4. /\ reader'[c].at = IF 1 = Len(proto[p.id]) THEN "translate" ELSE "size"
      /\ reader'[c].id = p.id /\ reader'[c].torn = FALSE /\ reader'[c].list = reader[c].list
  BY <1>0 DEF ReadField, Writes, Reader
<1>5. CASE p.id = PlainId
  <2>1. PICK v \in Nat : p.fields = <<v>> /\ Body(p) = <<v>>
    BY <1>5, PacketForm
  <2>2. Arrives(c, Join(<<v>>, s))
    BY <1>1, <2>1, Zenon
  <2>3. Head(wire[c]) = v /\ Arrives(c, s)'
    BY <1>0, <2>2, ArrivesRead
  <2>4. proto[PlainId] \in PlainFields /\ proto \in [KnownId -> Fields] /\ PlainId \in KnownId
    BY <1>0 DEF ReaderTypeOK, KnownId
  <2>5. proto'[PlainId] = [proto[PlainId] EXCEPT ![1] = v] /\ Len(proto[PlainId]) = 1
    BY <1>3, <1>5, <2>3, <2>4, PlainFieldsForm
  <2>6. proto'[PlainId] = <<v>>
    BY <2>4, <2>5 DEF PlainFields
  <2>7. reader'[c].at = "translate"
    BY <1>4, <1>5, <2>5
  <2>8. Arrives(c, Join(<<>>, s))'
    <3>1. Join(<<>>, s) = s
      BY JoinNothing
    <3>. QED BY <2>3, <3>1, Zenon
  <2>9. ToCome(c, p, <<>>)' /\ Written(c, p)'
    BY <1>4, <1>5, <2>1, <2>6, <2>7 DEF ToCome, Written
  <2>10. <<>> \in Seq(Nat)
    OBVIOUS
  <2>. QED BY <1>4, <2>8, <2>9, <2>10 DEF ReadsOn
<1>6. CASE p.id = ListId
  <2>1. PICK e \in Seq(Nat) : p.fields = <<2 + Len(e), e>> /\ Body(p) = Join(<<2 + Len(e)>>, e)
    BY <1>6, PacketForm
  <2> DEFINE m == 2 + Len(e)
             one == <<m>>
  <2>2. m \in Nat /\ one \in Seq(Nat) /\ p.fields[1] = m /\ p.fields[2] = e
    BY <2>1
  <2>3. Body(p) = Join(one, e)
    BY <2>1
  <2>4. Join(e, s) \in Seq(Nat)
    BY DEF Join
  <2> HIDE DEF m, one
  <2>5. Join(Join(one, e), s) = Join(one, Join(e, s))
    BY <2>2, JoinAssociates
  <2> DEFINE t == Join(e, s)
  <2>6. Arrives(c, Join(<<m>>, t)) /\ t \in Seq(Nat)
    BY <1>1, <2>3, <2>4, <2>5, Zenon DEF one
  <2> HIDE DEF t
  <2>7. Head(wire[c]) = m /\ Arrives(c, t)'
    BY <1>0, <2>2, <2>6, ArrivesRead
  <2>8. proto[ListId] \in ListFields /\ proto \in [KnownId -> Fields] /\ ListId \in KnownId
    BY <1>0 DEF ReaderTypeOK, KnownId
  <2>9. proto'[ListId] = [proto[ListId] EXCEPT ![1] = m] /\ Len(proto[ListId]) = 2
    BY <1>3, <1>6, <2>7, <2>8, ListFieldsForm
  <2>10. proto'[ListId][1] = m
    BY <2>2, <2>8, <2>9 DEF ListFields
  <2>11. reader'[c].at = "size"
    BY <1>4, <1>6, <2>9
  <2>12. ToCome(c, p, e)' /\ Written(c, p)'
    BY <1>2, <1>4, <2>2, <2>10, <2>11 DEF ToCome, Written
  <2>13. Arrives(c, Join(e, s))'
    BY <2>7 DEF t
  <2>. QED BY <1>4, <2>12, <2>13 DEF ReadsOn
<1>. QED BY <1>0, <1>5, <1>6 DEF KnownId

\* The size is taken: nothing of the list is read yet.
LEMMA SizeReadsOn ==
  ASSUME ReaderInv, NEW c \in Conn, NEW p \in Packet, NEW s \in Seq(Nat), ReadsOn(c, p, s), ~Lost(c), BeginList(c)
  PROVE  ReadsOn(c, p, s)'
<1>0. /\ reader[c] \in Reader /\ reader[c].id = ListId /\ reader[c].at = "size" /\ ~reader[c].torn
      /\ p.id = reader[c].id /\ ReaderTypeOK /\ wire' = wire /\ ended' = ended /\ proto' = proto
  BY DEF ReaderInv, ReaderTypeOK, TornThreadEnds, BeginList, ReadsOn
<1>1. ~reader[c].shared /\ proto[ListId][1] = p.fields[1]
  BY <1>0 DEF Lost, ReadsOn, Written
<1>2. PICK left \in Seq(Nat) : ToCome(c, p, left) /\ Arrives(c, Join(left, s))
  BY <1>0 DEF ReadsOn
<1>3. left = p.fields[2] /\ reader[c].list = <<>>
  BY <1>0, <1>2 DEF ToCome
<1>4. reader' = [reader EXCEPT ![c] = [reader[c] EXCEPT !.at = "list", !.size = proto[ListId][1]]]
  BY <1>0 DEF BeginList, ReaderTypeOK
<1>5. /\ reader'[c].at = "list" /\ reader'[c].id = p.id /\ ~reader'[c].torn /\ ~reader'[c].shared
      /\ reader'[c].list = <<>> /\ reader'[c].size = p.fields[1]
  BY <1>0, <1>1, <1>3, <1>4 DEF Reader, ReaderTypeOK
<1>6. p.fields[2] = Join(<<>>, left)
  BY <1>3, JoinNothing
<1>7. ToCome(c, p, left)'
  BY <1>5, <1>6 DEF ToCome, Join
<1> DEFINE t == Join(left, s)
<1>8. Arrives(c, t)
  BY <1>2
<1> HIDE DEF t
<1>9. Arrives(c, t)'
  BY <1>0, <1>8, ArrivesSame
<1>10. Written(c, p)'
  BY <1>0, <1>1, <1>5 DEF Written
<1>. QED BY <1>5, <1>7, <1>9, <1>10 DEF ReadsOn, t

\* An element is read: the size says that there is one more.
LEMMA ElementReadsOn ==
  ASSUME ReaderInv, NEW c \in Conn, NEW p \in Packet, NEW s \in Seq(Nat), ReadsOn(c, p, s), ~Lost(c), ReadElement(c)
  PROVE  ReadsOn(c, p, s)'
<1>0. /\ reader[c] \in Reader /\ reader[c].id = ListId /\ reader[c].at = "list" /\ ~reader[c].torn
      /\ p.id = ListId /\ ReaderTypeOK /\ Reads(c) /\ ended' = ended /\ proto' = proto
      /\ 2 + Len(reader[c].list) < reader[c].size
  BY DEF ReaderInv, ReaderTypeOK, TornThreadEnds, ReadElement, ReadsOn
<1>1. ~reader[c].shared /\ Written(c, p)
  BY <1>0 DEF Lost, ReadsOn
<1>2. PICK left \in Seq(Nat) : ToCome(c, p, left) /\ Arrives(c, Join(left, s))
  BY <1>0 DEF ReadsOn
<1> DEFINE l == reader[c].list
<1>3. PICK e \in Seq(Nat) : p.fields = <<2 + Len(e), e>>
  BY <1>0, PacketForm
<1>4. p.fields[1] = 2 + Len(e) /\ p.fields[2] = e
  BY <1>3
<1>5. l \in Seq(Nat) /\ e = Join(l, left) /\ 2 + Len(l) < 2 + Len(e)
  BY <1>0, <1>1, <1>2, <1>4 DEF Reader, ToCome, Written
<1> HIDE DEF l
<1>6. left # <<>>
  <2> SUFFICES ASSUME left = <<>> PROVE FALSE
    OBVIOUS
  <2>1. e = l
    BY <1>5, JoinNothing
  <2>. QED BY <1>5, <2>1
<1> DEFINE h == Head(left)
           r == Tail(left)
           one == <<h>>
<1>7. h \in Nat /\ r \in Seq(Nat) /\ one \in Seq(Nat) /\ left = Join(one, r)
  BY <1>6 DEF Join
<1>8. Join(r, s) \in Seq(Nat)
  BY <1>7 DEF Join
<1> HIDE DEF h, r, one
<1>9. Join(Join(one, r), s) = Join(one, Join(r, s)) /\ Join(l, Join(one, r)) = Join(Join(l, one), r)
  BY <1>5, <1>7, JoinAssociates
<1> DEFINE t == Join(r, s)
<1>10. Arrives(c, Join(<<h>>, t)) /\ t \in Seq(Nat)
  BY <1>2, <1>7, <1>8, <1>9, Zenon DEF one
<1> HIDE DEF t
<1>11. Head(wire[c]) = h /\ Arrives(c, t)'
  BY <1>0, <1>7, <1>10, ArrivesRead
<1>12. reader' = [reader EXCEPT ![c] = [reader[c] EXCEPT !.list = Append(l, h)]]
  BY <1>0, <1>11 DEF ReadElement, ReaderTypeOK, l
<1>13. /\ reader'[c].at = "list" /\ reader'[c].id = p.id /\ ~reader'[c].torn /\ ~reader'[c].shared
       /\ reader'[c].list = Append(l, h) /\ reader'[c].size = reader[c].size
  BY <1>0, <1>1, <1>12 DEF Reader, ReaderTypeOK
<1>14. Append(l, h) = Join(l, one)
  BY <1>5, <1>7, AppendIsConcat DEF Join, one
<1>15. p.fields[2] = Join(reader'[c].list, r)
  BY <1>4, <1>5, <1>7, <1>9, <1>13, <1>14, Zenon
<1>16. ToCome(c, p, r)'
  BY <1>13, <1>15 DEF ToCome, Join
<1>17. Written(c, p)'
  BY <1>0, <1>1, <1>13 DEF Written
<1>. QED BY <1>7, <1>11, <1>13, <1>16, <1>17 DEF ReadsOn, t

\* As much is read as the size says: the whole list.
LEMMA ListReadsOn ==
  ASSUME ReaderInv, NEW c \in Conn, NEW p \in Packet, NEW s \in Seq(Nat), ReadsOn(c, p, s), ~Lost(c), EndList(c)
  PROVE  ReadsOn(c, p, s)'
<1>0. /\ reader[c] \in Reader /\ reader[c].id = ListId /\ reader[c].at = "list" /\ ~reader[c].torn
      /\ p.id = ListId /\ ReaderTypeOK /\ wire' = wire /\ ended' = ended
      /\ ~(2 + Len(reader[c].list) < reader[c].size)
      /\ proto[ListId] \in ListFields /\ proto \in [KnownId -> Fields] /\ ListId \in KnownId
      /\ reader \in [Conn -> Reader]
  <2>1. /\ reader[c] \in Reader /\ reader[c].id = ListId /\ reader[c].at = "list" /\ ~reader[c].torn
        /\ p.id = ListId /\ ReaderTypeOK /\ wire' = wire /\ ended' = ended
    BY DEF ReaderInv, ReaderTypeOK, TornThreadEnds, EndList, ReadsOn, Writes
  <2>2. proto[ListId] \in ListFields /\ proto \in [KnownId -> Fields] /\ ListId \in KnownId /\ reader \in [Conn -> Reader]
    BY <2>1 DEF ReaderTypeOK, KnownId
  <2>3. 2 + Len(reader[c].list) >= reader[c].size /\ Len(reader[c].list) \in Nat /\ reader[c].size \in Nat
    BY <2>1 DEF EndList, Reader
  <2>. QED BY <2>1, <2>2, <2>3
<1>1. ~reader[c].shared /\ Written(c, p)
  BY <1>0 DEF Lost, ReadsOn
<1>2. PICK left \in Seq(Nat) : ToCome(c, p, left) /\ Arrives(c, Join(left, s))
  BY <1>0 DEF ReadsOn
<1> DEFINE l == reader[c].list
<1>3. PICK e \in Seq(Nat) : p.fields = <<2 + Len(e), e>>
  BY <1>0, PacketForm
<1>4. p.fields[1] = 2 + Len(e) /\ p.fields[2] = e
  BY <1>3
<1>5. l \in Seq(Nat) /\ e = Join(l, left) /\ ~(2 + Len(l) < 2 + Len(e)) /\ proto[ListId][1] = 2 + Len(e)
  BY <1>0, <1>1, <1>2, <1>4 DEF Reader, ToCome, Written
<1>6. l = e /\ left = <<>>
  <2> HIDE DEF l
  <2>1. Len(e) = Len(l) + Len(left)
    BY <1>5, ConcatProperties DEF Join
  <2>2. Len(l) \in Nat /\ Len(left) \in Nat /\ Len(e) \in Nat
    BY <1>5
  <2>3. Len(left) = 0
    BY <1>5, <2>1, <2>2
  <2>4. left = <<>>
    BY <2>3, EmptySeq
  <2>5. Join(l, <<>>) = l
    BY <1>5, JoinNothing
  <2>. QED BY <1>5, <2>4, <2>5, Zenon
<1>7. proto' = [proto EXCEPT ![ListId][2] = e]
  BY <1>0, <1>6 DEF EndList, Writes
<1>8. proto'[ListId] = [proto[ListId] EXCEPT ![2] = e]
  BY <1>0, <1>7
<1>9. proto'[ListId] = p.fields
  <2> DEFINE f == proto[ListId]
  <2>1. f \in Nat \X Seq(Nat) /\ f[1] = 2 + Len(e)
    BY <1>0, <1>5 DEF ListFields
  <2> HIDE DEF f
  <2>2. [f EXCEPT ![2] = e] = <<2 + Len(e), e>>
    BY <2>1
  <2>. QED BY <1>3, <1>8, <2>2, Zenon DEF f
<1>10. /\ reader'[c].at = IF 2 = Len(proto[ListId]) THEN "translate" ELSE "size"
       /\ reader'[c].id = p.id /\ reader'[c].torn = FALSE
  BY <1>0 DEF EndList, Writes, Reader
<1>11. reader'[c].at = "translate"
  BY <1>0, <1>10, ListFieldsForm
<1>12. ToCome(c, p, left)' /\ Written(c, p)'
  BY <1>0, <1>6, <1>9, <1>10, <1>11 DEF ToCome, Written
<1> DEFINE t == Join(left, s)
<1>13. Arrives(c, t)
  BY <1>2
<1> HIDE DEF t
<1>14. Arrives(c, t)'
  BY <1>0, <1>13, ArrivesSame
<1>. QED BY <1>10, <1>12, <1>14 DEF ReadsOn, t

\* A read that fails leaves the thread at its packet.
LEMMA FailureReadsOn ==
  ASSUME ReaderInv, NEW c \in Conn, NEW p, NEW s, ReadsOn(c, p, s), ReadFails(c)
  PROVE  ReadsOn(c, p, s)'
<1>1. reader \in [Conn -> Reader]
  BY DEF ReaderInv, ReaderTypeOK
<1>2. reader'[c].id = reader[c].id /\ reader'[c].torn
  BY <1>1 DEF ReadFails, Reader
<1>. QED BY <1>2 DEF ReadsOn

\* The properties are taken while they are those that were read.
LEMMA TranslationReadsOn ==
  ASSUME ReaderInv, NEW c \in Conn, NEW p, NEW s, ReadsOn(c, p, s), TranslatePacket(c)
  PROVE  ReadsOn(c, p, s)'
<1>0. reader \in [Conn -> Reader] /\ reader[c].at = "translate"
  BY DEF ReaderInv, ReaderTypeOK, TranslatePacket
<1>1. /\ reader'[c].at = "post" /\ reader'[c].id = reader[c].id /\ reader'[c].torn = reader[c].torn
      /\ reader'[c].shared = reader[c].shared /\ reader'[c].packet = proto[reader[c].id]
      /\ wire' = wire /\ ended' = ended /\ proto' = proto
  BY <1>0 DEF TranslatePacket, Reader
<1>2. ASSUME ~reader[c].torn
      PROVE  \E left \in Seq(Nat) : ToCome(c, p, left)' /\ Arrives(c, Join(left, s))'
  <2>1. PICK left \in Seq(Nat) : ToCome(c, p, left) /\ Arrives(c, Join(left, s))
    BY <1>2 DEF ReadsOn
  <2> DEFINE t == Join(left, s)
  <2>2. Arrives(c, t)
    BY <2>1
  <2> HIDE DEF t
  <2>3. Arrives(c, t)'
    BY <1>1, <2>2, ArrivesSame
  <2>4. ToCome(c, p, left)'
    BY <1>0, <1>1, <2>1 DEF ToCome
  <2>. QED BY <2>3, <2>4 DEF t
<1>3. ASSUME ~reader[c].torn, ~reader[c].shared PROVE Written(c, p)'
  BY <1>0, <1>1, <1>3 DEF ReadsOn, Written
<1>. QED BY <1>1, <1>2, <1>3 DEF ReadsOn

-----------------------------------------------------------------------------
(* What each step does to the place of its connection.                     *)

\* A step inside a packet keeps the place, also when that is lost in the list.
LEMMA PlaceInside ==
  ASSUME ReaderTypeOK, NEW c \in Conn, NEW done \in Seq(Packet), NEW rest \in Seq(Packet), KnowsPlace(c, done, rest),
         Inside(c), Inside(c)', sent'[c] = sent[c], posted'[c] = posted[c], Lost(c) => Lost(c)',
         \A p \in Packet, s \in Seq(Nat) : ReadsOn(c, p, s) /\ ~Lost(c) => ReadsOn(c, p, s)'
  PROVE  KnowsPlace(c, done, rest)'
<1>1. PostedAre(c, done)'
  BY PostedSame DEF KnowsPlace
<1>2. ASSUME ~Lost(c)' PROVE (rest # <<>> /\ ReadsOn(c, Head(rest), Stream(Tail(rest))))'
  <2> DEFINE p == Head(rest)
             s == Stream(Tail(rest))
  <2>1. rest # <<>> /\ ReadsOn(c, p, s)
    BY <1>2 DEF KnowsPlace
  <2>2. p \in Packet /\ Tail(rest) \in Seq(Packet)
    BY <2>1
  <2>3. s \in Seq(Nat)
    BY <2>2, StreamType
  <2> HIDE DEF p, s
  <2>4. ReadsOn(c, p, s)'
    BY <1>2, <2>1, <2>2, <2>3
  <2>. QED BY <2>1, <2>4 DEF p, s
<1>3. reader'[c].at # "id"
  BY DEF Inside
<1>. QED BY <1>1, <1>2, <1>3 DEF KnowsPlace

\* The server sends one more, after all it has sent.
LEMMA PlaceSends ==
  ASSUME ReaderTypeOK, ReaderTypeOK', NEW c \in Conn, NEW q \in Packet, ServerSends(c, q),
         NEW done \in Seq(Packet), NEW rest \in Seq(Packet), KnowsPlace(c, done, rest)
  PROVE  KnowsPlace(c, done, Join(rest, <<q>>))'
<1> DEFINE one == <<q>>
           more == Join(rest, one)
           cs == Cells(q)
<1>0. /\ wire'[c] = Join(wire[c], cs) /\ c \notin ended /\ reader' = reader /\ proto' = proto /\ posted' = posted
      /\ sent'[c] = Append(sent[c], q) /\ sent[c] \in Seq(Packet)
  BY DEF ServerSends, ReaderTypeOK, Join
<1>1. one \in Seq(Packet) /\ cs \in Seq(Nat) /\ Stream(one) = cs
  BY StreamOne, CellsAreNumbers
<1>2. more \in Seq(Packet)
  BY <1>1 DEF Join
<1>3. sent'[c] = Join(sent[c], one)
  BY <1>0, AppendIsConcat DEF Join
<1> HIDE DEF cs, one
<1>4. ASSUME NEW ps \in Seq(Packet) PROVE Stream(Join(ps, one)) = Join(Stream(ps), cs)
  <2>1. Stream(Join(ps, one)) = Join(Stream(ps), Stream(one))
    BY <1>1, StreamConcat DEF Join
  <2>. QED BY <1>1, <2>1, Zenon
<1>5. sent'[c] = Join(done, more)
  <2>1. sent[c] = Join(done, rest)
    BY DEF KnowsPlace
  <2>2. Join(done, Join(rest, one)) = Join(Join(done, rest), one)
    BY <1>1, JoinAssociates
  <2>. QED BY <1>3, <2>1, <2>2, Zenon
<1>6. PostedAre(c, done)'
  BY <1>0, PostedSame DEF KnowsPlace
<1>7. ASSUME reader[c].at = "id" PROVE Arrives(c, Stream(more))'
  <2> DEFINE s == Stream(rest)
  <2>1. Arrives(c, s)
    BY <1>7 DEF KnowsPlace
  <2> HIDE DEF s
  <2>2. Arrives(c, Join(s, cs))'
    BY <1>0, <2>1, ArrivesMore
  <2>3. Stream(more) = Join(s, cs)
    BY <1>4 DEF s
  <2> HIDE DEF more
  <2>. QED BY <2>2, <2>3 DEF Arrives, Join
<1>8. ASSUME Inside(c), ~Lost(c) PROVE (more # <<>> /\ ReadsOn(c, Head(more), Stream(Tail(more))))'
  <2> DEFINE p == Head(rest)
             s == Stream(Tail(rest))
  <2>1. rest # <<>> /\ ReadsOn(c, p, s)
    BY <1>8 DEF KnowsPlace
  <2>2. Tail(rest) \in Seq(Packet)
    BY <2>1
  <2>3. more # <<>> /\ Head(more) = p /\ Tail(more) = Join(Tail(rest), one)
    <3>1. more = Append(rest, q)
      BY AppendIsConcat DEF Join, one
    <3>2. Append(Tail(rest), q) = Join(Tail(rest), one)
      BY <2>2, AppendIsConcat DEF Join, one
    <3>3. Head(Append(rest, q)) = Head(rest) /\ Tail(Append(rest, q)) = Append(Tail(rest), q)
      BY <2>1, HeadTailAppend
    <3>4. Append(rest, q) # <<>>
      BY AppendProperties
    <3>. QED BY <3>1, <3>2, <3>3, <3>4, Zenon
  <2>4. Stream(Tail(more)) = Join(s, cs) /\ s \in Seq(Nat)
    BY <1>4, <2>2, <2>3, StreamType
  <2> HIDE DEF p, s, more
  <2>5. ASSUME ~reader[c].torn
        PROVE  \E left \in Seq(Nat) : ToCome(c, p, left)' /\ Arrives(c, Join(left, Join(s, cs)))'
    <3>1. PICK left \in Seq(Nat) : ToCome(c, p, left) /\ Arrives(c, Join(left, s))
      BY <2>1, <2>5 DEF ReadsOn
    <3> DEFINE t == Join(left, s)
    <3>2. Arrives(c, t)
      BY <3>1
    <3> HIDE DEF t
    <3>3. Arrives(c, Join(t, cs))'
      BY <1>0, <3>2, ArrivesMore
    <3>4. Join(t, cs) = Join(left, Join(s, cs))
      <4>1. Join(left, Join(s, cs)) = Join(Join(left, s), cs)
        BY <1>1, <2>4, JoinAssociates
      <4>. QED BY <4>1, Zenon DEF t
    <3> DEFINE u == Join(t, cs)
               v == Join(left, Join(s, cs))
    <3>5. u = v /\ Arrives(c, u)'
      BY <3>3, <3>4
    <3> HIDE DEF u, v
    <3>6. Arrives(c, v)'
      BY <3>5
    <3>7. ToCome(c, p, left)'
      BY <1>0, <3>1 DEF ToCome
    <3>. QED BY <3>6, <3>7 DEF v
  <2>6. ~reader[c].torn /\ ~reader[c].shared => Written(c, p)'
    BY <1>0, <2>1 DEF ReadsOn, Written
  <2> DEFINE r == Join(s, cs)
  <2>7. ReadsOn(c, p, r)'
    BY <1>0, <2>1, <2>5, <2>6 DEF ReadsOn
  <2>8. Stream(Tail(more)) = r
    BY <2>4
  <2> HIDE DEF r
  <2>. QED BY <2>3, <2>7, <2>8
<1> HIDE DEF more
<1>9. KnowsPlace(c, done, more)'
  BY <1>0, <1>5, <1>6, <1>7, <1>8 DEF KnowsPlace, Inside, Lost
<1>. QED BY <1>9 DEF more, one

\* The end of the connection keeps what is before it.
LEMMA PlaceEnds ==
  ASSUME ReaderTypeOK, NEW c \in Conn, ServerEnds(c),
         NEW done \in Seq(Packet), NEW rest \in Seq(Packet), KnowsPlace(c, done, rest)
  PROVE  KnowsPlace(c, done, rest)'
<1>0. reader' = reader /\ proto' = proto /\ posted' = posted /\ sent' = sent
  BY DEF ServerEnds
<1>1. PostedAre(c, done)'
  BY <1>0, PostedSame DEF KnowsPlace
<1>2. ASSUME reader[c].at = "id" PROVE Arrives(c, Stream(rest))'
  <2> DEFINE s == Stream(rest)
  <2>1. Arrives(c, s)
    BY <1>2 DEF KnowsPlace
  <2> HIDE DEF s
  <2>2. Arrives(c, s)'
    BY <2>1, ArrivesLess
  <2>. QED BY <2>2 DEF s
<1>3. ASSUME Inside(c), ~Lost(c) PROVE (rest # <<>> /\ ReadsOn(c, Head(rest), Stream(Tail(rest))))'
  <2> DEFINE p == Head(rest)
             s == Stream(Tail(rest))
  <2>1. rest # <<>> /\ ReadsOn(c, p, s)
    BY <1>3 DEF KnowsPlace
  <2> HIDE DEF p, s
  <2>2. ASSUME ~reader[c].torn
        PROVE  \E left \in Seq(Nat) : ToCome(c, p, left)' /\ Arrives(c, Join(left, s))'
    <3>1. PICK left \in Seq(Nat) : ToCome(c, p, left) /\ Arrives(c, Join(left, s))
      BY <2>1, <2>2 DEF ReadsOn
    <3> DEFINE t == Join(left, s)
    <3>2. Arrives(c, t)
      BY <3>1
    <3> HIDE DEF t
    <3>3. Arrives(c, t)'
      BY <3>2, ArrivesLess
    <3>4. ToCome(c, p, left)'
      BY <1>0, <3>1 DEF ToCome
    <3>. QED BY <3>3, <3>4 DEF t
  <2>3. ~reader[c].torn /\ ~reader[c].shared => Written(c, p)'
    BY <1>0, <2>1 DEF ReadsOn, Written
  <2>4. ReadsOn(c, p, s)'
    BY <1>0, <2>1, <2>2, <2>3 DEF ReadsOn
  <2>. QED BY <2>1, <2>4 DEF p, s
<1>. QED BY <1>0, <1>1, <1>2, <1>3 DEF KnowsPlace, Inside, Lost

\* Nothing is on the wire of a connection to which nothing is to come.
LEMMA SomethingToCome ==
  ASSUME ReaderTypeOK, NEW c \in Conn, NEW rest \in Seq(Packet), Arrives(c, Stream(rest)), Reads(c)
  PROVE  rest # <<>>
<1> SUFFICES ASSUME rest = <<>> PROVE FALSE
  OBVIOUS
<1>1. Stream(<<>>) = <<>>
  <2>1. CellsOf(<<>>) = <<>>
    BY DEF CellsOf
  <2>. QED BY <2>1, JoinedEmpty DEF Stream
<1>2. PICK t \in Seq(Nat) : <<>> = Join(wire[c], t)
  BY <1>1 DEF Arrives
<1> DEFINE w == wire[c]
<1>3. w \in Seq(Nat) /\ w # <<>>
  BY DEF ReaderTypeOK, Reads
<1> HIDE DEF w
<1>4. Join(w, t) = <<>>
  BY <1>2 DEF w
<1>. QED BY <1>3, <1>4, ConcatEqualIffEmpty DEF Join

\* An id is read: a packet of the database is begun, a zero is done with.
LEMMA PlaceReadsId ==
  ASSUME ReaderInv, NEW c \in Conn, ReadPacketId(c), KeepsPlace(c),
         NEW done \in Seq(Packet), NEW rest \in Seq(Packet), KnowsPlace(c, done, rest)
  PROVE  \E d, r \in Seq(Packet) : KnowsPlace(c, d, r)'
<1>0. /\ ReaderTypeOK /\ reader \in [Conn -> Reader] /\ reader[c].at = "id" /\ Reads(c) /\ ended' = ended
      /\ proto' = proto /\ posted' = posted /\ sent' = sent
  BY DEF ReaderInv, ReaderTypeOK, ReadPacketId
<1>1. Arrives(c, Stream(rest))
  BY <1>0 DEF KnowsPlace
<1>2. rest # <<>>
  BY <1>0, <1>1, SomethingToCome
<1> DEFINE p == Head(rest)
           r == Tail(rest)
           s == Stream(r)
           b == Body(p)
           i == p.id
           one == <<p>>
<1>3. /\ p \in Packet /\ r \in Seq(Packet) /\ rest = Join(one, r)
      /\ Stream(rest) = Join(<<i>>, Join(b, s))
  BY <1>2, StreamFirst DEF Join
<1>4. i \in Nat /\ b \in Seq(Nat) /\ s \in Seq(Nat) /\ one \in Seq(Packet)
  <2>1. i \in Nat /\ b \in Seq(Nat)
    BY <1>3, PacketForm
  <2>2. s \in Seq(Nat)
    BY <1>3, StreamType
  <2>3. one \in Seq(Packet)
    BY <1>3
  <2>. QED BY <2>1, <2>2, <2>3
<1>5. i \in KnownId \union {0}
  <2>1. sent[c] = Join(done, rest)
    BY DEF KnowsPlace
  <2>2. Len(done) \in Nat /\ Len(rest) \in Nat /\ Len(rest) > 0 /\ p = rest[1]
    BY <1>2
  <2> HIDE DEF p
  <2>3. Len(done \o rest) = Len(done) + Len(rest) /\ (done \o rest)[Len(done) + 1] = p
    <3>1. Len(done) + 1 \in 1 .. Len(done) + Len(rest) /\ ~(Len(done) + 1 <= Len(done)) /\ Len(done) + 1 - Len(done) = 1
      BY <2>2
    <3>2. /\ Len(done \o rest) = Len(done) + Len(rest)
          /\ \A n \in 1 .. Len(done) + Len(rest) :
               (done \o rest)[n] = IF n <= Len(done) THEN done[n] ELSE rest[n - Len(done)]
      BY ConcatProperties
    <3>. QED BY <2>2, <3>1, <3>2
  <2> DEFINE q == done \o rest
             k == Len(done) + 1
  <2>4. q = sent[c] /\ q \in Seq(Packet) /\ k \in 1 .. Len(q) /\ q[k] = p
    BY <2>1, <2>2, <2>3, ConcatProperties DEF Join
  <2> HIDE DEF q, k
  <2>5. k \in DOMAIN sent[c] /\ sent[c][k] = p
    BY <2>4
  <2>. QED BY <2>5 DEF KeepsPlace
<1> HIDE DEF p, r, s, b, i, one
<1>6. Join(b, s) \in Seq(Nat)
  BY <1>4 DEF Join
<1> DEFINE t == Join(b, s)
<1>7. Arrives(c, Join(<<i>>, t)) /\ t \in Seq(Nat)
  BY <1>1, <1>3, <1>6, Zenon
<1> HIDE DEF t
<1>8. Head(wire[c]) = i /\ Arrives(c, t)'
  BY <1>0, <1>4, <1>7, ArrivesRead
<1>9. CASE i \in KnownId
  <2>1. reader'[c] = [Idle EXCEPT !.at = "field", !.id = i]
    BY <1>0, <1>8, <1>9 DEF ReadPacketId
  <2>2. /\ reader'[c].at = "field" /\ reader'[c].id = p.id /\ reader'[c].list = <<>>
        /\ ~reader'[c].torn
    BY <2>1 DEF Idle, i
  <2>3. ToCome(c, p, b)'
    BY <2>2 DEF ToCome, b
  <2>4. ReadsOn(c, p, s)'
    BY <1>4, <1>8, <2>2, <2>3 DEF ReadsOn, Written, t
  <2>5. PostedAre(c, done)' /\ sent'[c] = Join(done, rest)
    BY <1>0, PostedSame DEF KnowsPlace
  <2>6. KnowsPlace(c, done, rest)'
    BY <1>2, <2>2, <2>4, <2>5 DEF KnowsPlace, p, s, r
  <2>. QED BY <2>6
<1>10. CASE i \notin KnownId
  <2>1. reader' = reader
    BY <1>0, <1>8, <1>10 DEF ReadPacketId
  <2>2. b = <<>>
    BY <1>3, <1>5, <1>10, PacketForm DEF b, i
  <2>3. t = s
    BY <1>4, <2>2, JoinNothing DEF t
  <2> DEFINE d == Join(done, one)
  <2>4. PostedAre(c, d)'
    <3>1. PostedAre(c, done) /\ p.id \notin KnownId
      BY <1>10 DEF KnowsPlace, i
    <3>2. PostedAre(c, Join(done, <<p>>))'
      BY <1>0, <1>3, <3>1, PostedSkips
    <3>. QED BY <3>2 DEF one
  <2>5. d \in Seq(Packet) /\ sent'[c] = Join(d, r)
    <3>1. Join(done, Join(one, r)) = Join(Join(done, one), r) /\ Join(done, one) \in Seq(Packet)
      BY <1>3, <1>4, JoinAssociates
    <3>2. sent'[c] = Join(done, rest)
      BY <1>0 DEF KnowsPlace
    <3>. QED BY <1>3, <3>1, <3>2, Zenon
  <2> HIDE DEF d
  <2>6. Arrives(c, Stream(r))'
    BY <1>8, <2>3 DEF s
  <2>7. KnowsPlace(c, d, r)'
    BY <1>0, <2>1, <2>4, <2>5, <2>6 DEF KnowsPlace, Inside
  <2>. QED BY <1>3, <2>5, <2>7
<1>. QED BY <1>9, <1>10

\* The event is posted: its packet is done with.
LEMMA PlacePosts ==
  ASSUME ReaderInv, NEW c \in Conn, PostPacket(c), KeepsPlace(c)',
         NEW done \in Seq(Packet), NEW rest \in Seq(Packet), KnowsPlace(c, done, rest)
  PROVE  \E d, r \in Seq(Packet) : KnowsPlace(c, d, r)'
<1> DEFINE e == [id |-> reader[c].id, packet |-> reader[c].packet, properties |-> proto[reader[c].id],
                 shared |-> reader[c].shared, torn |-> reader[c].torn]
<1>0. /\ ReaderTypeOK /\ reader \in [Conn -> Reader] /\ reader[c].at = "post" /\ reader[c].id \in KnownId
      /\ wire \in [Conn -> Seq(Nat)] /\ posted[c] \in Seq(Event)
      /\ ended' = ended /\ wire' = wire /\ proto' = proto /\ sent' = sent /\ reader'[c] = Idle
  BY DEF ReaderInv, ReaderTypeOK, PostPacket
<1>1. posted'[c] = Append(posted[c], e)
  BY DEF PostPacket, ReaderInv, ReaderTypeOK
<1>2. ~Lost(c)
  <2> SUFFICES ASSUME Lost(c) PROVE FALSE
    OBVIOUS
  <2>1. e.id = ListId /\ e.shared
    BY DEF Lost
  <2> DEFINE es == posted[c]
             k == Len(es) + 1
  <2> HIDE DEF e
  <2>2. es \in Seq(Event) /\ posted'[c] = Append(es, e)
    BY <1>0, <1>1
  <2> HIDE DEF es
  <2>3. k \in DOMAIN posted'[c] /\ posted'[c][k] = e
    BY <2>2
  <2>. QED BY <2>1, <2>3 DEF KeepsPlace
<1> DEFINE p == Head(rest)
           r == Tail(rest)
           s == Stream(r)
           one == <<p>>
<1>3. rest # <<>> /\ ReadsOn(c, p, s)
  BY <1>0, <1>2 DEF KnowsPlace, Inside
<1>4. p \in Packet /\ r \in Seq(Packet) /\ rest = Join(one, r) /\ one \in Seq(Packet)
  BY <1>3, StreamFirst DEF Join
<1>5. s \in Seq(Nat)
  BY <1>4, StreamType
<1> HIDE DEF p, r, s, one
<1>6. p.id \in KnownId /\ Tells(e, p)
  BY <1>0, <1>3 DEF ReadsOn, Written, Tells
<1> DEFINE d == Join(done, one)
<1>7. PostedAre(c, d)'
  <2> HIDE DEF e
  <2>1. PostedAre(c, done)
    BY DEF KnowsPlace
  <2>2. PostedAre(c, Join(done, <<p>>))'
    BY <1>0, <1>1, <1>4, <1>6, <2>1, PostedOneMore
  <2>. QED BY <2>2 DEF one
<1>8. d \in Seq(Packet) /\ sent'[c] = Join(d, r)
  <2>1. Join(done, Join(one, r)) = Join(Join(done, one), r) /\ Join(done, one) \in Seq(Packet)
    BY <1>4, JoinAssociates
  <2>2. sent'[c] = Join(done, rest)
    BY <1>0 DEF KnowsPlace
  <2>. QED BY <1>4, <2>1, <2>2, Zenon
<1> HIDE DEF d
<1>9. Arrives(c, s)
  <2>1. CASE ~reader[c].torn
    <3>1. PICK left \in Seq(Nat) : ToCome(c, p, left) /\ Arrives(c, Join(left, s))
      BY <1>3, <2>1 DEF ReadsOn
    <3>2. left = <<>>
      BY <1>0, <3>1 DEF ToCome
    <3>3. Join(left, s) = s
      BY <1>5, <3>2, JoinNothing
    <3>. QED BY <3>1, <3>3, Zenon
  <2>2. CASE reader[c].torn
    <3>1. wire[c] = <<>> /\ c \in ended
      BY <2>2 DEF ReaderInv, TornThreadEnds
    <3>2. s = Join(<<>>, s)
      BY <1>5, JoinNothing
    <3>. QED BY <1>5, <3>1, <3>2 DEF Arrives
  <2>. QED BY <2>1, <2>2
<1>10. Arrives(c, s)'
  BY <1>0, <1>9, ArrivesSame
<1>11. reader'[c].at = "id"
  BY <1>0, IdleForm
<1>12. KnowsPlace(c, d, r)'
  BY <1>7, <1>8, <1>10, <1>11 DEF KnowsPlace, Inside, s
<1>. QED BY <1>4, <1>8, <1>12

-----------------------------------------------------------------------------

LEMMA PlacedInit == ASSUME ReaderInit, NEW c \in Conn PROVE Placed(c)
<1>1. <<>> \in Seq(Packet) /\ Join(<<>>, <<>>) = <<>>
  <2> DEFINE none == <<>>
  <2>1. none \in Seq(Packet)
    OBVIOUS
  <2> HIDE DEF none
  <2>2. Join(none, <<>>) = none
    BY <2>1, JoinNothing
  <2>. QED BY <2>1, <2>2, Zenon DEF none
<1>2. sent[c] = <<>> /\ posted[c] = <<>> /\ wire[c] = <<>> /\ reader[c].at = "id"
  BY IdleForm DEF ReaderInit
<1>3. PostedAre(c, <<>>)
  BY <1>2, SelectedEmpty DEF PostedAre
<1>4. Stream(<<>>) = <<>>
  <2>1. CellsOf(<<>>) = <<>>
    BY DEF CellsOf
  <2>. QED BY <2>1, JoinedEmpty DEF Stream
<1>5. Arrives(c, <<>>)
  <2>1. <<>> \in Seq(Nat)
    OBVIOUS
  <2>. QED BY <1>1, <1>2, <2>1, Zenon DEF Arrives
<1>6. Arrives(c, Stream(<<>>))
  BY <1>4, <1>5, Zenon
<1>7. KnowsPlace(c, <<>>, <<>>)
  BY <1>1, <1>2, <1>3, <1>6, Zenon DEF KnowsPlace, Inside
<1>. QED BY <1>1, <1>7 DEF Placed

\* What a step of d leaves of another connection.
LEMMA OthersAre ==
  ASSUME ReaderTypeOK, NEW c \in Conn, NEW d \in Conn, c # d,
         \/ \E p \in Packet : ServerSends(d, p)
         \/ ServerEnds(d)
         \/ ReadPacketId(d) \/ ReadField(d)
         \/ BeginList(d) \/ ReadElement(d) \/ EndList(d)
         \/ ReadFails(d) \/ TranslatePacket(d) \/ PostPacket(d) \/ StopReading(d)
  PROVE  /\ sent'[c] = sent[c] /\ posted'[c] = posted[c] /\ wire'[c] = wire[c] /\ (c \in ended' <=> c \in ended)
         /\ \/ reader'[c] = reader[c] /\ (Inside(c) => proto'[reader[c].id] = proto[reader[c].id])
            \/ reader'[c] = [reader[c] EXCEPT !.shared = TRUE]
<1>0. /\ sent \in [Conn -> Seq(Packet)] /\ posted \in [Conn -> Seq(Event)] /\ wire \in [Conn -> Seq(Nat)]
      /\ reader \in [Conn -> Reader] /\ proto \in [KnownId -> Fields]
      /\ (Inside(d) => reader[d].id \in KnownId) /\ (Inside(c) => reader[c].id \in KnownId)
  BY DEF ReaderTypeOK, Inside
<1>1. ASSUME NEW field, NEW v, Writes(d, field, v), Inside(d)
      PROVE  \/ reader'[c] = reader[c] /\ (Inside(c) => proto'[reader[c].id] = proto[reader[c].id])
             \/ reader'[c] = [reader[c] EXCEPT !.shared = TRUE]
  BY <1>0, <1>1 DEF Writes, Inside
<1>2. CASE ReadField(d) \/ EndList(d)
  BY <1>0, <1>1, <1>2 DEF ReadField, EndList, Inside, Reads, Writes
<1>3. CASE \E p \in Packet : ServerSends(d, p)
  BY <1>0, <1>3 DEF ServerSends
<1>4. CASE ServerEnds(d)
  BY <1>0, <1>4 DEF ServerEnds
<1>5. CASE ReadPacketId(d)
  BY <1>0, <1>5 DEF ReadPacketId, Reads
<1>6. CASE BeginList(d) \/ ReadElement(d)
  BY <1>0, <1>6 DEF BeginList, ReadElement, Reads
<1>7. CASE ReadFails(d) \/ TranslatePacket(d) \/ PostPacket(d) \/ StopReading(d)
  BY <1>0, <1>7 DEF ReadFails, TranslatePacket, PostPacket, StopReading
<1>. QED BY <1>2, <1>3, <1>4, <1>5, <1>6, <1>7

LEMMA PlacedStep ==
  ASSUME ReaderInv, [ReaderNext]_readerVars, NEW c \in Conn, Placed(c)
  PROVE  Placed(c)'
<1> SUFFICES ASSUME KeepsPlace(c)' PROVE \E d, r \in Seq(Packet) : KnowsPlace(c, d, r)'
  BY DEF Placed
<1>0. ReaderTypeOK /\ ReaderTypeOK' /\ reader \in [Conn -> Reader]
  BY ReaderTypeStep DEF ReaderInv, ReaderTypeOK
<1>1. KeepsPlace(c)
  BY <1>0, KeptBefore DEF readerVars, KeepsPlace
<1>2. PICK done \in Seq(Packet), rest \in Seq(Packet) : KnowsPlace(c, done, rest)
  BY <1>1 DEF Placed
<1>3. CASE UNCHANGED readerVars
  <2>1. KnowsPlace(c, done, rest)'
    BY <1>0, <1>2, <1>3, PlaceBesideOthers DEF readerVars
  <2>. QED BY <2>1
<1>4. ASSUME NEW d \in Conn, d # c,
             \/ \E p \in Packet : ServerSends(d, p)
             \/ ServerEnds(d)
             \/ ReadPacketId(d) \/ ReadField(d)
             \/ BeginList(d) \/ ReadElement(d) \/ EndList(d)
             \/ ReadFails(d) \/ TranslatePacket(d) \/ PostPacket(d) \/ StopReading(d)
      PROVE  \E e, r \in Seq(Packet) : KnowsPlace(c, e, r)'
  <2>1. KnowsPlace(c, done, rest)'
    BY <1>0, <1>2, <1>4, OthersAre, PlaceBesideOthers
  <2>. QED BY <2>1
<1>5. ASSUME NEW p \in Packet, ServerSends(c, p) PROVE \E d, r \in Seq(Packet) : KnowsPlace(c, d, r)'
  <2>1. KnowsPlace(c, done, Join(rest, <<p>>))'
    BY <1>0, <1>2, <1>5, PlaceSends
  <2>2. Join(rest, <<p>>) \in Seq(Packet)
    BY DEF Join
  <2>. QED BY <2>1, <2>2
<1>6. CASE ServerEnds(c)
  BY <1>0, <1>2, <1>6, PlaceEnds
<1>7. CASE ReadPacketId(c)
  BY <1>1, <1>2, <1>7, PlaceReadsId
<1>8. CASE PostPacket(c)
  BY <1>2, <1>8, PlacePosts
<1>9. CASE ReadField(c)
  <2>1. /\ Inside(c) /\ Inside(c)' /\ sent'[c] = sent[c] /\ posted'[c] = posted[c] /\ (Lost(c) => Lost(c)')
    BY <1>0, <1>9 DEF ReadField, Writes, Inside, Lost, Reader
  <2>2. \A p \in Packet, s \in Seq(Nat) : ReadsOn(c, p, s) /\ ~Lost(c) => ReadsOn(c, p, s)'
    BY <1>9, FieldReadsOn
  <2>3. KnowsPlace(c, done, rest)'
    BY <1>0, <1>2, <2>1, <2>2, PlaceInside
  <2>. QED BY <2>3
<1>10. CASE BeginList(c)
  <2>1. /\ Inside(c) /\ Inside(c)' /\ sent'[c] = sent[c] /\ posted'[c] = posted[c] /\ (Lost(c) => Lost(c)')
    BY <1>0, <1>10 DEF BeginList, Inside, Lost, Reader
  <2>2. \A p \in Packet, s \in Seq(Nat) : ReadsOn(c, p, s) /\ ~Lost(c) => ReadsOn(c, p, s)'
    BY <1>10, SizeReadsOn
  <2>3. KnowsPlace(c, done, rest)'
    BY <1>0, <1>2, <2>1, <2>2, PlaceInside
  <2>. QED BY <2>3
<1>11. CASE ReadElement(c)
  <2>1. /\ Inside(c) /\ Inside(c)' /\ sent'[c] = sent[c] /\ posted'[c] = posted[c] /\ (Lost(c) => Lost(c)')
    BY <1>0, <1>11 DEF ReadElement, Inside, Lost, Reader
  <2>2. \A p \in Packet, s \in Seq(Nat) : ReadsOn(c, p, s) /\ ~Lost(c) => ReadsOn(c, p, s)'
    BY <1>11, ElementReadsOn
  <2>3. KnowsPlace(c, done, rest)'
    BY <1>0, <1>2, <2>1, <2>2, PlaceInside
  <2>. QED BY <2>3
<1>12. CASE EndList(c)
  <2>1. /\ Inside(c) /\ Inside(c)' /\ sent'[c] = sent[c] /\ posted'[c] = posted[c] /\ (Lost(c) => Lost(c)')
    BY <1>0, <1>12 DEF EndList, Writes, Inside, Lost, Reader
  <2>2. \A p \in Packet, s \in Seq(Nat) : ReadsOn(c, p, s) /\ ~Lost(c) => ReadsOn(c, p, s)'
    BY <1>12, ListReadsOn
  <2>3. KnowsPlace(c, done, rest)'
    BY <1>0, <1>2, <2>1, <2>2, PlaceInside
  <2>. QED BY <2>3
<1>13. CASE ReadFails(c)
  <2>1. /\ Inside(c) /\ Inside(c)' /\ sent'[c] = sent[c] /\ posted'[c] = posted[c] /\ (Lost(c) => Lost(c)')
    BY <1>0, <1>13 DEF ReadFails, Inside, Lost, Reader
  <2>2. \A p \in Packet, s \in Seq(Nat) : ReadsOn(c, p, s) /\ ~Lost(c) => ReadsOn(c, p, s)'
    BY <1>13, FailureReadsOn
  <2>3. KnowsPlace(c, done, rest)'
    BY <1>0, <1>2, <2>1, <2>2, PlaceInside
  <2>. QED BY <2>3
<1>14. CASE TranslatePacket(c)
  <2>1. /\ Inside(c) /\ Inside(c)' /\ sent'[c] = sent[c] /\ posted'[c] = posted[c] /\ (Lost(c) => Lost(c)')
    BY <1>0, <1>14 DEF TranslatePacket, Inside, Lost, Reader
  <2>2. \A p \in Packet, s \in Seq(Nat) : ReadsOn(c, p, s) /\ ~Lost(c) => ReadsOn(c, p, s)'
    BY <1>14, TranslationReadsOn
  <2>3. KnowsPlace(c, done, rest)'
    BY <1>0, <1>2, <2>1, <2>2, PlaceInside
  <2>. QED BY <2>3
<1>15. CASE StopReading(c)
  <2>1. /\ sent'[c] = sent[c] /\ posted'[c] = posted[c] /\ reader'[c].at = "stopped"
    BY <1>0, <1>15 DEF StopReading
  <2>2. KnowsPlace(c, done, rest)'
    BY <1>2, <2>1, PostedSame DEF KnowsPlace, Inside
  <2>. QED BY <2>2
<1>. QED
  BY <1>3, <1>4, <1>5, <1>6, <1>7, <1>8, <1>9, <1>10, <1>11, <1>12, <1>13, <1>14, <1>15 DEF ReaderNext

\* A connection that knows its place has posted what was sent.
LEMMA PlacedPosts ==
  ASSUME ReaderTypeOK, \A c \in Conn : Placed(c)
  PROVE  PostedAsSent
<1> SUFFICES ASSUME NEW c \in Conn, KeepsPlace(c)
             PROVE  /\ Len(posted[c]) <= Len(KnownPackets(c))
                    /\ \A n \in DOMAIN posted[c] : Tells(posted[c][n], KnownPackets(c)[n])
  BY Zenon DEF PostedAsSent, Tells
<1>1. PICK done \in Seq(Packet), rest \in Seq(Packet) : KnowsPlace(c, done, rest)
  BY DEF Placed
<1> DEFINE ps == Selected(done, Known)
           qs == Selected(rest, Known)
<1>2. ps \in Seq(Packet) /\ qs \in Seq(Packet)
  BY SelectedType
<1>3. KnownPackets(c) = ps \o qs
  <2>1. sent[c] = Join(done, rest)
    BY <1>1 DEF KnowsPlace
  <2>2. Selected(Join(done, rest), Known) = Join(ps, qs)
    BY SelectedJoin
  <2>. QED BY <2>1, <2>2, Zenon DEF KnownPackets, Known, Join
<1>4. Len(posted[c]) = Len(ps) /\ \A n \in 1 .. Len(ps) : Tells(posted[c][n], ps[n])
  BY <1>1 DEF KnowsPlace, PostedAre
<1> DEFINE es == posted[c]
           ks == KnownPackets(c)
<1>5. es \in Seq(Event)
  BY DEF ReaderTypeOK
<1> HIDE DEF ps, qs
<1>6. Len(ks) = Len(ps) + Len(qs) /\ \A n \in 1 .. Len(ps) : ks[n] = ps[n]
  <2>1. Len(ps) \in Nat /\ Len(qs) \in Nat
    BY <1>2
  <2>2. /\ Len(ps \o qs) = Len(ps) + Len(qs)
        /\ \A n \in 1 .. Len(ps) + Len(qs) : (ps \o qs)[n] = IF n <= Len(ps) THEN ps[n] ELSE qs[n - Len(ps)]
    BY <1>2, ConcatProperties
  <2>3. \A n \in 1 .. Len(ps) : (ps \o qs)[n] = ps[n]
    BY <2>1, <2>2
  <2>. QED BY <1>3, <2>2, <2>3, Zenon
<1>7. Len(es) = Len(ps) /\ \A n \in 1 .. Len(ps) : Tells(es[n], ps[n])
  BY <1>4
<1> HIDE DEF es, ks
<1>8. Len(es) <= Len(ks)
  BY <1>2, <1>6, <1>7
<1>9. \A n \in DOMAIN es : Tells(es[n], ks[n])
  <2>1. DOMAIN es = 1 .. Len(ps)
    BY <1>5, <1>7
  <2>. QED BY <1>6, <1>7, <2>1
<1>. QED BY <1>8, <1>9 DEF es, ks

(***************************************************************************)
(* The events of a connection whose server keeps to the packet database    *)
(* are its packets in the order sent, each with what was sent, for any     *)
(* number of connections and whatever the others write into the packets    *)
(* they share: as long as no list is read by another's size, a thread      *)
(* knows which packet, and how much of it, is next on its wire.            *)
(***************************************************************************)
THEOREM PostedIsWhatWasSent == ReaderSpec => []PostedAsSent
<1> DEFINE Inv == ReaderInv /\ \A c \in Conn : Placed(c)
<1>1. ReaderInit => Inv
  BY ReaderTypeInit, PlacedInit DEF ReaderInit, Idle, ReaderInv, TornThreadEnds, TornEventEnds
<1>2. Inv /\ [ReaderNext]_readerVars => Inv'
  BY ReaderInvStep, PlacedStep
<1>3. Inv => PostedAsSent
  BY PlacedPosts DEF ReaderInv
<1>. QED
  BY <1>1, <1>2, <1>3, PTL DEF ReaderSpec
=============================================================================
