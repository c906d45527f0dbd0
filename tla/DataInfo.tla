------------------------------ MODULE DataInfo ------------------------------
(***************************************************************************)
(* RoDataInfo: texts kept in the table StringData, in which {key} stands   *)
(* for the text of another key.  The rows are put in an unordered map, and *)
(* then each text is replaced by its resolution while the map is walked,   *)
(* so that a text may find those it refers to resolved already or not.     *)
(*                                                                         *)
(* A text is a sequence of words and of keys in braces.                    *)
(***************************************************************************)
EXTENDS Selection

CONSTANTS
  InfoKey,       (* the keys, those of the table and those referred to     *)
  Word,
  MaxRows,       (* bound: rows of the table                               *)
  MaxText        (* bound: words and keys of a text                        *)

ASSUME InfoAssumption ==
  InfoKey \cap Word = {} /\ "none" \notin InfoKey \union Word /\ MaxRows \in Nat /\ MaxText \in Nat

VARIABLES
  table,         (* the rows read so far                                   *)
  texts,         (* the map, with NoText for keys it does not have         *)
  unwalked,      (* the keys ResolveStringsInMap has not come to           *)
  info,          (* "loading", "resolving", "resolved" or "thrown"         *)
  loaded         (* history: the map before the walk                       *)

infoVars == <<table, texts, unwalked, info, loaded>>

NoText == <<"none">>
Text == UNION {[1 .. n -> InfoKey \union Word] : n \in 0 .. MaxText}
KnownKeys(m) == {k \in InfoKey : m[k] # NoText}
Keys(text) == {text[i] : i \in DOMAIN text} \cap InfoKey

InfoInit ==
  /\ table = <<>>
  /\ texts = [k \in InfoKey |-> NoText]
  /\ unwalked = {}
  /\ info = "loading"
  /\ loaded = texts

-----------------------------------------------------------------------------

LoadRow(k, text) ==
  /\ info = "loading" /\ Len(table) < MaxRows
  /\ table' = Append(table, <<k, text>>)
  /\ texts' = [texts EXCEPT ![k] = IF @ = NoText THEN text ELSE @]
  /\ loaded' = texts'
  /\ UNCHANGED <<unwalked, info>>

LoadEnds ==
  /\ info = "loading"
  /\ info' = "resolving"
  /\ unwalked' = KnownKeys(texts)
  /\ UNCHANGED <<table, texts, loaded>>

\* Every key of the text by what f gives for it.
Replace(text, f) == Joined([i \in DOMAIN text |-> IF text[i] \in InfoKey THEN f[text[i]] ELSE <<text[i]>>])

\* Mutant: what is referred to is taken as it is.
ResolveString_Once(key) ==
  IF Keys(texts[key]) \subseteq KnownKeys(texts) \ {key} THEN Replace(texts[key], texts) ELSE NoText

\* A call inside ResolveString(key): path (unresolvedKeys) is the keys between
\* key and k, deeper what the calls below give, NoText the exception.  All of
\* them are passed the key of the first.
ResolveWithin(key, path, k, deeper) ==
  LET below == [d \in Keys(texts[k]) |-> IF d \in KnownKeys(texts) \ path THEN deeper[path \union {d}][d] ELSE NoText] IN
    IF key \in path \/ \E d \in DOMAIN below : below[d] = NoText THEN NoText ELSE Replace(texts[k], below)

ResolveString(key) ==
  LET r[path \in SUBSET KnownKeys(texts)] == [k \in KnownKeys(texts) |-> ResolveWithin(key, path, k, r)]
  IN  r[{}][key]

\* A text of the map is replaced while the map is walked, in any order.
ResolveNext(k) ==
  /\ info = "resolving" /\ k \in unwalked
  /\ LET text == ResolveString(k) IN
       IF text = NoText THEN info' = "thrown" /\ UNCHANGED texts
                        ELSE texts' = [texts EXCEPT ![k] = text] /\ UNCHANGED info
  /\ unwalked' = unwalked \ {k}
  /\ UNCHANGED <<table, loaded>>

ResolveEnds ==
  /\ info = "resolving" /\ unwalked = {}
  /\ info' = "resolved"
  /\ UNCHANGED <<table, texts, unwalked, loaded>>

InfoNext ==
  \/ \E k \in InfoKey : (\E text \in Text : LoadRow(k, text)) \/ ResolveNext(k)
  \/ LoadEnds \/ ResolveEnds

InfoSpec == InfoInit /\ [][InfoNext]_infoVars

-----------------------------------------------------------------------------

\* The keys n references away from k.
Reached(n, k) ==
  LET a[i \in Nat] == IF i = 0 THEN {k} ELSE UNION {Keys(loaded[d]) : d \in a[i - 1] \cap KnownKeys(loaded)}
  IN  a[n]

\* The text of k with every key replaced, and those in what replaces it, as
\* many times over as the table has rows.
Meaning(k) ==
  LET m[i \in Nat] == IF i = 0 THEN loaded ELSE [d \in InfoKey |-> Replace(loaded[d], m[i - 1])]
  IN  m[Len(table)][k]

\* No text refers, directly or not, to itself or to a key the table lacks.
Sound ==
  \A k \in KnownKeys(loaded), n \in 1 .. Len(table) : Reached(n, k) \subseteq KnownKeys(loaded) \ {k}

(***************************************************************************)
(* The order in which the unordered map is walked does not show: a table   *)
(* in which no text refers to itself or to a missing key resolves, to the  *)
(* texts with every key replaced, and any other table throws.              *)
(***************************************************************************)
OrderDoesNotShow ==
  /\ info = "resolved" => Sound /\ \A k \in KnownKeys(loaded) : texts[k] = Meaning(k)
  /\ info = "thrown" => ~Sound
=============================================================================
