------------------------------- MODULE Strings -------------------------------
(***************************************************************************)
(* The string utilities of util.cpp that decide something: how requests,   *)
(* paths and rules are cut into parts and put together again.              *)
(*                                                                         *)
(* A string is a sequence of symbols.  A symbol is a character, or a word  *)
(* into which no code looks; positions count from 0, as in the code.       *)
(***************************************************************************)
EXTENDS Naturals, SequencesExt, FiniteSetsExt

CONSTANTS
  WordSize,             \* the characters of each word; any other symbol is one character
  Lowercase             \* what tolower makes of the symbols it changes

\* What the code looks for or measures character by character: no word, no letter.
Punctuation == {"/", ".", ":", " ", "\r", "\n", "NUL", "0", "1"}

ASSUME StringsAssumption ==
  /\ \A word \in DOMAIN WordSize : WordSize[word] \in Nat
  /\ \A symbol \in DOMAIN Lowercase : Lowercase[symbol] \notin DOMAIN Lowercase
  /\ Punctuation \cap (DOMAIN WordSize \cup DOMAIN Lowercase \cup Range(Lowercase)) = {}

Size(s) == FoldLeft(LAMBDA n, x : n + (IF x \in DOMAIN WordSize THEN WordSize[x] ELSE 1), 0, s)

\* std::string::find: the first occurrence of sep in s at or after start, Len(s)
\* for npos.
Find(s, sep, start) ==
  LET found == {p \in start..(Len(s) - Len(sep)) : SubSeq(s, p + 1, p + Len(sep)) = sep}
  IN IF found = {} THEN Len(s) ELSE Min(found)

Has(s, sep) == \E p \in 0..(Len(s) - Len(sep)) : SubSeq(s, p + 1, p + Len(sep)) = sep

\* At most n cuts; an empty separator cuts after every character.
SplitN(s, sep, n) ==
  LET rest[at \in [start : 0..Len(s), cuts : 0..n]] ==
        LET end == IF sep = <<>> THEN at.start + 1 ELSE Find(s, sep, at.start) IN
        IF end < Len(s) /\ at.cuts > 0
        THEN <<SubSeq(s, at.start + 1, end)>>
             \o rest[[start |-> end + Len(sep), cuts |-> at.cuts - 1]]
        ELSE <<SubSeq(s, at.start + 1, Len(s))>>
  IN rest[[start |-> 0, cuts |-> n]]

\* There is room for no more than Len(s) cuts.
Split(s, sep) == SplitN(s, sep, Len(s))

Join(joiner, parts) ==
  IF parts = <<>> THEN <<>>
  ELSE FoldLeft(LAMBDA s, part : s \o joiner \o part, Head(parts), Tail(parts))

ToLowercase(s) ==
  [k \in DOMAIN s |-> IF s[k] \in DOMAIN Lowercase THEN Lowercase[s[k]] ELSE s[k]]

\* What a system call makes of a string: c_str() ends at the first NUL.
CString(s) == SubSeq(s, 1, Find(s, <<"NUL">>, 0))

\* What the caller of pop_n_sstream gets, and what it leaves in the buffer.
Popped(buffer, n) == SubSeq(buffer, 1, n)
Remaining(buffer, n, discard) == SubSeq(buffer, n + discard + 1, Len(buffer))

-----------------------------------------------------------------------------
(* Paths.                                                                  *)

Slash == <<"/">>
Here == <<".">>
Up == <<".", ".">>

\* Wrong on purpose: ".." at the root is dropped.
CanonicalizePathClamped(path) ==
  LET Enter(parts, part) ==
        IF part \in {<<>>, Here} \/ (part = Up /\ parts = <<>>) THEN parts
        ELSE IF part = Up THEN Front(parts) ELSE Append(parts, part)
  IN IF path = <<>> THEN <<>>
     ELSE Slash \o Join(Slash, FoldLeft(Enter, <<>>, Split(path, Slash)))

\* Empty for a path that leaves the document root.
CanonicalizePath(path) ==
  LET Enter(done, part) ==
        CASE part \in {<<>>, Here} -> done
          [] part = Up -> [left |-> done.left \/ done.valid = <<>>,
                           valid |-> IF done.valid = <<>> THEN <<>> ELSE Front(done.valid)]
          [] OTHER -> [done EXCEPT !.valid = Append(@, part)]
      end == FoldLeft(Enter, [left |-> FALSE, valid |-> <<>>], Split(path, Slash))
  IN IF path = <<>> \/ end.left THEN <<>> ELSE Slash \o Join(Slash, end.valid)

\* The path of the rules for a file: .htaccess in the file's directory.
HtaccessPath(path) ==
  LET parts == Split(path, Slash)
  IN IF Len(parts) < 2 THEN <<>> ELSE Join(Slash, Append(Front(parts), <<".htaccess">>))

-----------------------------------------------------------------------------
(* References, written without looking at how the code computes.           *)

Nth(S, k) == CHOOSE x \in S : Cardinality({y \in S : y <= x}) = k

\* What lies between two neighbouring occurrences of a symbol.
Pieces(s, symbol) ==
  LET bounds == {0, Len(s) + 1} \cup {k \in DOMAIN s : s[k] = symbol}
  IN [k \in 1..(Cardinality(bounds) - 1) |->
        SubSeq(s, Nth(bounds, k) + 1, Nth(bounds, k + 1) - 1)]

Components(path) == Pieces(path, "/")

\* How far components from..to lead down, less how far they lead up.
Names(parts, from, to) == {k \in from..to : parts[k] \notin {<<>>, Here, Up}}
Ups(parts, from, to) == {k \in from..to : parts[k] = Up}
Ascends(parts, from, to) ==
  Cardinality(Ups(parts, from, to)) > Cardinality(Names(parts, from, to))

\* A path leaves the root if some beginning of it goes up more often than down.
LeavesRoot(path) ==
  LET parts == Components(path) IN
    path = <<>> \/ \E k \in DOMAIN parts : Ascends(parts, 1, k)

\* What a path that stays below the root names: the components that nothing
\* after them goes above again.
Resolved(path) ==
  LET parts == Components(path)
      kept == {k \in Names(parts, 1, Len(parts)) :
                 \A l \in k..Len(parts) : ~Ascends(parts, k + 1, l)}
  IN [k \in 1..Cardinality(kept) |-> parts[Nth(kept, k)]]
=============================================================================
