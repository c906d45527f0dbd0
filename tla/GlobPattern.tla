---------------------------- MODULE GlobPattern ----------------------------
(***************************************************************************)
(* RoGlobPattern: the names of an archive are searched with patterns whose *)
(* only special character is the star.  New cuts a pattern at its stars    *)
(* into matchers, one a turn of its loop, and matches asks each of them by *)
(* itself.  Characters count from 1 here, and NPos stands for npos.        *)
(***************************************************************************)
EXTENDS Integers, Sequences

CONSTANTS
  Letter,          (* the characters of names, none of them the star       *)
  MaxPattern, MaxSubject   (* bounds on lengths                            *)

ASSUME GlobAssumption ==
  /\ "*" \notin Letter
  /\ MaxPattern \in Nat /\ MaxSubject \in Nat

VARIABLES
  pattern, subject,
  matchers,        (* of New, and what it keeps between two turns          *)
  globIndex, globCount,
  glob             (* "new", "built", and then the answer: "yes", "no"     *)

globVars == <<pattern, subject, matchers, globIndex, globCount, glob>>

NPos == 0
Texts(S, n) == UNION {[1 .. m -> S] : m \in 0 .. n}
IsAt(piece, i, s) == i + Len(piece) - 1 <= Len(s) /\ SubSeq(s, i, i + Len(piece) - 1) = piece

GlobInit ==
  /\ pattern \in Texts(Letter \union {"*"}, MaxPattern)
  /\ subject \in Texts(Letter, MaxSubject)
  /\ matchers = <<>>
  /\ globIndex = 1 /\ globCount = 0
  /\ glob = "new"

-----------------------------------------------------------------------------

\* pattern.find(roGLOB_CHAR, i)
NextGlob(i) ==
  IF \E j \in i .. Len(pattern) : pattern[j] = "*"
    THEN CHOOSE j \in i .. Len(pattern) : pattern[j] = "*" /\ \A k \in i .. j - 1 : pattern[k] # "*"
    ELSE NPos

Matcher(kind, first, last) == <<[is |-> kind, text |-> SubSeq(pattern, first, last), from |-> globIndex - globCount]>>

\* What a turn of the loop adds.
Found ==
  LET next == NextGlob(globIndex) IN
    CASE globIndex = 1 /\ next = NPos -> Matcher("equals", 1, Len(pattern))
      [] globIndex = 1 /\ next > 1 -> Matcher("starts", 1, next - 1)
      [] globIndex > 1 /\ next = NPos /\ globIndex < Len(pattern) -> Matcher("ends", globIndex, Len(pattern))
      [] globIndex > 1 /\ next > globIndex -> Matcher("has", globIndex, next - 1)
      [] OTHER -> <<>>

NewForAll ==
  /\ glob = "new" /\ pattern \in {<<>>, <<"*">>}
  /\ glob' = "built"
  /\ UNCHANGED <<pattern, subject, matchers, globIndex, globCount>>

NewTurn ==
  /\ glob = "new" /\ pattern \notin {<<>>, <<"*">>}
  /\ matchers' = matchers \o Found
  /\ IF NextGlob(globIndex) = NPos \/ Len(pattern) <= globIndex
       THEN glob' = "built" /\ globIndex' = globIndex
       ELSE glob' = glob /\ globIndex' = NextGlob(globIndex) + 1
  /\ globCount' = globCount + 1
  /\ UNCHANGED <<pattern, subject>>

\* Mutant: a star counts as a character of the name.
Accepts_CountsStars(m) ==
  CASE m.is = "equals" -> subject = m.text
    [] m.is = "starts" -> IsAt(m.text, 1, subject)
    [] m.is = "ends" -> Len(m.text) <= Len(subject) /\ IsAt(m.text, Len(subject) - Len(m.text) + 1, subject)
    [] m.is = "has" -> \E i \in m.from + 1 .. Len(subject) : IsAt(m.text, i, subject)

\* Mutant: an end is found anywhere.
Accepts_EndAnywhere(m) ==
  CASE m.is = "equals" -> subject = m.text
    [] m.is = "starts" -> IsAt(m.text, 1, subject)
    [] OTHER -> \E i \in 1 .. Len(subject) : IsAt(m.text, i, subject)

Accepts(m) ==
  CASE m.is = "equals" -> subject = m.text
    [] m.is = "starts" -> IsAt(m.text, 1, subject)
    [] m.is = "ends" -> Len(m.text) <= Len(subject) /\ IsAt(m.text, Len(subject) - Len(m.text) + 1, subject)
    [] m.is = "has" -> \E i \in m.from .. Len(subject) : IsAt(m.text, i, subject)

MatchSubject ==
  /\ glob = "built"
  /\ glob' = IF \A i \in DOMAIN matchers : Accepts(matchers[i]) THEN "yes" ELSE "no"
  /\ UNCHANGED <<pattern, subject, matchers, globIndex, globCount>>

GlobNext == NewForAll \/ NewTurn \/ MatchSubject

GlobSpec == GlobInit /\ [][GlobNext]_globVars

-----------------------------------------------------------------------------

\* The lengths of what the first n characters of the pattern can stand for at
\* the beginning of the subject, by those of the first n - 1.
Longer(n, lengths) ==
  IF pattern[n] = "*"
    THEN {j \in 0 .. Len(subject) : \E i \in lengths : i <= j}
    ELSE {j \in 1 .. Len(subject) : j - 1 \in lengths /\ subject[j] = pattern[n]}

\* What a glob pattern means: every star stands for any text.
Means ==
  LET lengths[n \in 0 .. Len(pattern)] == IF n = 0 THEN {0} ELSE Longer(n, lengths[n - 1])
  IN  Len(subject) \in lengths[Len(pattern)]

Stars == {i \in DOMAIN pattern : pattern[i] = "*"}

(***************************************************************************)
(* A search misses no name its pattern means, wherever the stars are and   *)
(* however often pieces occur.                                             *)
(***************************************************************************)
NoNameIsMissed == glob = "no" => ~Means

(***************************************************************************)
(* A search finds nothing else where the pattern is a name, a beginning,   *)
(* an end or a piece of one, or a beginning and an end that do not overlap *)
(* in the name.  An end of a single character is never compared, and       *)
(* pieces between stars may overlap.                                       *)
(***************************************************************************)
Simple ==
  \/ Stars = {} /\ pattern # <<>>
  \/ Stars = {1, Len(pattern)}
  \/ \E i \in Stars : Stars = {i} /\ i # Len(pattern) - 1 /\ Len(subject) >= Len(pattern) - 1

NothingElseIsFound == glob = "yes" /\ Simple => Means
=============================================================================
