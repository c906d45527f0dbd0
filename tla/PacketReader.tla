---------------------------- MODULE PacketReader ----------------------------
(***************************************************************************)
(* RoNetTcpConnection::doReadPacket on the service threads of several      *)
(* connections.  Nothing on the wire says where a packet ends: a packet is *)
(* read field by field as the packet database lays it out, into the one    *)
(* RoNetPacket the database has for the id, which every connection shares. *)
(* A list is read element by element until as many bytes are read as the   *)
(* size field says, and assigned to its field when it is whole.            *)
(*                                                                         *)
(* A cell of the wire is what one read of a field takes; the server may    *)
(* end the connection between any two.  The database knows two packets:    *)
(* one with a single field, and one with a size and a list.                *)
(***************************************************************************)
EXTENDS Selection

CONSTANTS
  Conn,       (* the connections                                           *)
  Data,       (* what a field holds; it may look like the id of a packet   *)
  MaxSent,    (* bound: packets sent to all connections                    *)
  Sizes       (* bound: the sizes, in cells, of packets with a list        *)

ASSUME ReaderAssumption ==
  /\ Data \subseteq Nat \ {0}
  /\ MaxSent \in Nat /\ Sizes \subseteq Nat \ {0, 1}

PlainId == 1
ListId == 2
KnownId == {PlainId, ListId}    (* mPacketDb.hasPacket *)

VARIABLES
  wire,       (* cells on their way to each connection                     *)
  ended,      (* connections whose server has closed its end               *)
  proto,      (* the database's packets: the fields of each                *)
  reader,     (* where the thread of each connection is, and its locals    *)
  posted,     (* the events each connection posted                         *)
  sent        (* history: the packets sent to each connection              *)

readerVars == <<wire, ended, proto, reader, posted, sent>>

\* The size counts the cells of the id and of the size itself.  A packet of
\* an id the database lacks has a body too, which will be read as ids.
Packet ==
  [id : {PlainId}, fields : {<<v>> : v \in Data}]
    \union {[id |-> ListId, fields |-> <<2 + Len(e), e>>] : e \in UNION {[1 .. n - 2 -> Data] : n \in Sizes}}
    \union [id : Data \ KnownId, fields : {<<v>> : v \in Data}]
    \union [id : {0}, fields : {<<>>}]

\* What a server puts on the wire for a packet.
Cells(p) == <<p.id>> \o IF p.id = ListId THEN <<p.fields[1]>> \o p.fields[2] ELSE p.fields

\* id, list: the packet being read and the elements read so far; shared and
\* torn are histories: another connection wrote to the packet, a read failed.
Idle == [at |-> "id", id |-> 0, size |-> 0, list |-> <<>>,
         packet |-> <<>>, shared |-> FALSE, torn |-> FALSE]

ReaderInit ==
  /\ wire = [c \in Conn |-> <<>>]
  /\ ended = {}
  /\ proto = [i \in KnownId |-> IF i = PlainId THEN <<0>> ELSE <<0, <<>>>>]
  /\ reader = [c \in Conn |-> Idle]
  /\ posted = [c \in Conn |-> <<>>]
  /\ sent = [c \in Conn |-> <<>>]

-----------------------------------------------------------------------------

SentInAll == LET n[S \in SUBSET Conn] ==
                   IF S = {} THEN 0
                   ELSE LET c == CHOOSE x \in S : TRUE IN Len(sent[c]) + n[S \ {c}]
             IN  n[Conn]

\* The server sends a packet, of an id the client may not know.
ServerSends(c, p) ==
  /\ c \notin ended
  /\ SentInAll < MaxSent
  /\ wire' = [wire EXCEPT ![c] = @ \o Cells(p)]
  /\ sent' = [sent EXCEPT ![c] = Append(@, p)]
  /\ UNCHANGED <<ended, proto, reader, posted>>

\* The connection ends, and with it what has not arrived.
ServerEnds(c) ==
  /\ c \notin ended
  /\ ended' = ended \union {c}
  /\ \E n \in 0 .. Len(wire[c]) : wire' = [wire EXCEPT ![c] = SubSeq(@, 1, n)]
  /\ UNCHANGED <<proto, reader, posted, sent>>

Reads(c) == wire[c] # <<>> /\ wire' = [wire EXCEPT ![c] = Tail(@)]

\* A field is written, as a whole although the bytes may arrive in parts: what
\* is seen in between is seen in a shared packet, of which nothing is claimed.
\* A connection inside the same packet has to share it.
Writes(c, field, v) ==
  /\ proto' = [proto EXCEPT ![reader[c].id][field] = v]
  /\ reader' = [d \in Conn |->
       IF d = c THEN [reader[c] EXCEPT !.at = IF field = Len(proto[reader[c].id]) THEN "translate" ELSE "size"]
       ELSE IF reader[d].at \notin {"id", "stopped"} /\ reader[d].id = reader[c].id
            THEN [reader[d] EXCEPT !.shared = TRUE]
            ELSE reader[d]]
  /\ UNCHANGED <<ended, posted, sent>>

\* async_read of mPacketId; an id of zero or one the database lacks is dropped.
ReadPacketId(c) ==
  /\ reader[c].at = "id"
  /\ Reads(c)
  /\ reader' = IF Head(wire[c]) \in KnownId
                 THEN [reader EXCEPT ![c] = [Idle EXCEPT !.at = "field", !.id = Head(wire[c])]]
                 ELSE reader
  /\ UNCHANGED <<ended, proto, posted, sent>>

ReadField(c) ==
  /\ reader[c].at = "field"
  /\ Reads(c)
  /\ Writes(c, 1, Head(wire[c]))

\* The size is taken from the shared field.
BeginList(c) ==
  /\ reader[c].at = "size"
  /\ reader' = [reader EXCEPT ![c].at = "list", ![c].size = proto[ListId][1]]
  /\ UNCHANGED <<wire, ended, proto, posted, sent>>

ReadElement(c) ==
  /\ reader[c].at = "list" /\ 2 + Len(reader[c].list) < reader[c].size
  /\ Reads(c)
  /\ reader' = [reader EXCEPT ![c].list = Append(@, Head(wire[c]))]
  /\ UNCHANGED <<ended, proto, posted, sent>>

\* Mutant: an element that would end where the size says is not read.
EndList_OneShort(c) ==
  /\ reader[c].at = "list" /\ 3 + Len(reader[c].list) >= reader[c].size
  /\ Writes(c, 2, reader[c].list)
  /\ UNCHANGED wire

EndList(c) ==
  /\ reader[c].at = "list" /\ 2 + Len(reader[c].list) >= reader[c].size
  /\ Writes(c, 2, reader[c].list)
  /\ UNCHANGED wire

\* Mutant: a failed read is not the end of the connection.
ReadFails_Resumes(c) ==
  /\ reader[c].at \in {"field", "size", "list"}
  /\ wire[c] = <<>> /\ c \in ended
  /\ reader' = [reader EXCEPT ![c].at = "translate", ![c].torn = TRUE]
  /\ ended' = ended \ {c}
  /\ UNCHANGED <<wire, proto, posted, sent>>

\* boost::asio::read throws; the exception is logged, and the packet goes on.
ReadFails(c) ==
  /\ wire[c] = <<>> /\ c \in ended
  /\ \/ reader[c].at = "field"
     \/ reader[c].at = "list" /\ 2 + Len(reader[c].list) < reader[c].size
  /\ reader' = [reader EXCEPT ![c].at = "translate", ![c].torn = TRUE]
  /\ UNCHANGED <<wire, ended, proto, posted, sent>>

\* event.packet is made of the properties the packet has now (it is null where
\* no translator is registered, and of no use where it throws) ...
TranslatePacket(c) ==
  /\ reader[c].at = "translate"
  /\ reader' = [reader EXCEPT ![c].at = "post", ![c].packet = proto[reader[c].id]]
  /\ UNCHANGED <<wire, ended, proto, posted, sent>>

\* ... and the properties of the event are taken once more.
PostPacket(c) ==
  /\ reader[c].at = "post"
  /\ posted' = [posted EXCEPT ![c] = Append(@,
       [id |-> reader[c].id, packet |-> reader[c].packet, properties |-> proto[reader[c].id],
        shared |-> reader[c].shared, torn |-> reader[c].torn])]
  /\ reader' = [reader EXCEPT ![c] = Idle]
  /\ UNCHANGED <<wire, ended, proto, sent>>

\* handleReadPacket returns on the error, and nothing is read again.
StopReading(c) ==
  /\ reader[c].at = "id" /\ wire[c] = <<>> /\ c \in ended
  /\ reader' = [reader EXCEPT ![c].at = "stopped"]
  /\ UNCHANGED <<wire, ended, proto, posted, sent>>

ReaderNext ==
  \E c \in Conn :
    \/ \E p \in Packet : ServerSends(c, p)
    \/ ServerEnds(c)
    \/ ReadPacketId(c) \/ ReadField(c)
    \/ BeginList(c) \/ ReadElement(c) \/ EndList(c)
    \/ ReadFails(c) \/ TranslatePacket(c) \/ PostPacket(c) \/ StopReading(c)

ReaderSpec == ReaderInit /\ [][ReaderNext]_readerVars

-----------------------------------------------------------------------------

\* What the fields of a packet hold.
PlainFields == [1 .. 1 -> Nat]
ListFields == Nat \X Seq(Nat)
Fields == PlainFields \union ListFields

Reader ==
  [at : {"id", "field", "size", "list", "translate", "post", "stopped"},
   id : KnownId \union {0}, size : Nat, list : Seq(Nat),
   packet : Fields \union {<<>>}, shared : BOOLEAN, torn : BOOLEAN]

Event == [id : KnownId, packet : Fields, properties : Fields, shared : BOOLEAN, torn : BOOLEAN]

\* The types of the wires, the shared packets, the threads and the events.
ReaderTypeOK ==
  /\ wire \in [Conn -> Seq(Nat)] /\ ended \in SUBSET Conn
  /\ proto \in [KnownId -> Fields] /\ proto[PlainId] \in PlainFields /\ proto[ListId] \in ListFields
  /\ reader \in [Conn -> Reader]
  /\ \A c \in Conn : reader[c].at \notin {"id", "stopped"} => reader[c].id \in KnownId
  /\ \A c \in Conn : reader[c].at \in {"size", "list"} => reader[c].id = ListId
  /\ \A c \in Conn : reader[c].at = "post" => reader[c].packet \in Fields
  /\ posted \in [Conn -> Seq(Event)]
  /\ sent \in [Conn -> Seq(Packet)]

\* The server of c sent nothing but packets the database has, and zeros, and
\* no list was read by a size another connection may have written.
KeepsPlace(c) ==
  /\ \A n \in DOMAIN sent[c] : sent[c][n].id \in KnownId \union {0}
  /\ ~\E n \in DOMAIN posted[c] : posted[c][n].id = ListId /\ posted[c][n].shared

KnownPackets(c) == Selected(sent[c], {p \in Packet : p.id \in KnownId})

(***************************************************************************)
(* A connection whose server keeps to the packet database loses its place  *)
(* only in a list it reads while another connection reads one: before, the *)
(* events are its packets in the order sent, none twice and none made up,  *)
(* and each holds what was sent in both its halves unless the connection   *)
(* ended inside it or another wrote the same packet.                       *)
(***************************************************************************)
PostedAsSent ==
  \A c \in Conn : KeepsPlace(c) =>
    /\ Len(posted[c]) <= Len(KnownPackets(c))
    /\ \A n \in DOMAIN posted[c] :
         LET e == posted[c][n] IN
           /\ e.id = KnownPackets(c)[n].id
           /\ ~e.torn /\ ~e.shared =>
                e.packet = KnownPackets(c)[n].fields /\ e.properties = KnownPackets(c)[n].fields

(***************************************************************************)
(* An event that holds fields nobody sent with it is the last event of its *)
(* connection, also where the connection had lost its place before.        *)
(***************************************************************************)
TornIsLast ==
  \A c \in Conn : \A n \in DOMAIN posted[c] :
    posted[c][n].torn => n = Len(posted[c]) /\ wire[c] = <<>> /\ reader[c].at \in {"id", "stopped"}
=============================================================================
