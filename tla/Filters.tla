------------------------------- MODULE Filters ------------------------------
(***************************************************************************)
(* The programs grep and wc (user/grep.c, user/wc.c) on an input that read *)
(* hands out in pieces of any size, as a pipe or the console does.  grep   *)
(* keeps the unfinished line at the start of its buffer, wc keeps inword.  *)
(***************************************************************************)
EXTENDS Integers, Sequences, SequencesExt

CONSTANTS
  Patterns, Inputs,  \* sequences of characters; NL ends a line
  NL, SP,            \* '\n' and ' '
  BUFSIZE            \* sizeof(buf) of grep

ASSUME FilterAssumption == BUFSIZE \in Nat \ {0} /\ NL # SP

VARIABLES
  re, stdin,         \* argv[1]; what is to be read
  taken,             \* characters read so far
  buf, out,          \* grep: buf[0 .. m - 1], the lines written
  counts, inword,    \* wc: lines, words, characters
  prog               \* "none", "grep", "wc" or "done"

filterVars == <<re, stdin, taken, buf, out, counts, inword, prog>>

----------------------------------------------------------------------------
(* The matcher; a string is a sequence, and the end of it is its '\0'.     *)
RECURSIVE matchhere(_, _), matchstar(_, _, _)
matchhere(r, t) ==
  IF r = <<>> THEN TRUE
  ELSE IF Len(r) > 1 /\ r[2] = "*" THEN matchstar(r[1], SubSeq(r, 3, Len(r)), t)
  ELSE IF r = <<"$">> THEN t = <<>>
  ELSE t # <<>> /\ r[1] \in {".", t[1]} /\ matchhere(Tail(r), Tail(t))

matchstar(c, r, t) ==
  matchhere(r, t) \/ (t # <<>> /\ c \in {".", t[1]} /\ matchstar(c, r, Tail(t)))

match(r, t) ==
  IF r # <<>> /\ r[1] = "^" THEN matchhere(Tail(r), t)
  ELSE \E k \in 1 .. Len(t) + 1 : matchhere(r, SubSeq(t, k, Len(t)))

(* The loop over the lines in the buffer: what is written and kept.        *)
RECURSIVE ScanLines(_, _, _)
ScanLines(r, b, w) ==
  LET q == SelectInSeq(b, LAMBDA c : c = NL)
      line == SubSeq(b, 1, q - 1)
  IN IF q = 0 THEN [kept |-> b, written |-> w]
     ELSE ScanLines(r, SubSeq(b, q + 1, Len(b)), IF match(r, line) THEN Append(w, line) ELSE w)

Piece(n) == SubSeq(stdin, taken + 1, taken + n)

(* One read of grep and the work on what it brought; a full buffer asks    *)
(* for 0 characters, which looks like the end of the input.                *)
grep ==
  LET space == BUFSIZE - Len(buf) - 1
      there == Len(stdin) - taken
  IN
  /\ prog = "grep"
  /\ IF space = 0 \/ there = 0
       THEN prog' = "done" /\ UNCHANGED <<taken, buf, out>>
       ELSE \E n \in 1 .. IF space < there THEN space ELSE there :
              LET l == ScanLines(re, buf \o Piece(n), out) IN
              /\ buf' = l.kept /\ out' = l.written /\ taken' = taken + n /\ prog' = prog
  /\ UNCHANGED <<re, stdin, counts, inword>>

(* wc: one character.                                                      *)
Tally(s, c) ==
  LET word == c \notin {NL, SP} IN
  [l |-> s.l + (IF c = NL THEN 1 ELSE 0), w |-> s.w + (IF word /\ ~s.in THEN 1 ELSE 0),
   c |-> s.c + 1, in |-> word]

(* Mutant of WcPiece: inword is set again for every piece.                 *)
FreshWord(n) == FoldLeft(Tally, [l |-> counts.l, w |-> counts.w, c |-> counts.c, in |-> FALSE], Piece(n))

WcPiece(n) == FoldLeft(Tally, [l |-> counts.l, w |-> counts.w, c |-> counts.c, in |-> inword], Piece(n))

wc ==
  /\ prog = "wc"
  /\ IF taken = Len(stdin) THEN prog' = "done" /\ UNCHANGED <<taken, counts, inword>>
     ELSE \E n \in 1 .. Len(stdin) - taken :
            LET s == WcPiece(n) IN
            /\ counts' = [l |-> s.l, w |-> s.w, c |-> s.c] /\ inword' = s.in
            /\ taken' = taken + n /\ prog' = prog
  /\ UNCHANGED <<re, stdin, buf, out>>

FilterInit ==
  /\ re = <<>> /\ stdin = <<>> /\ taken = 0 /\ buf = <<>> /\ out = <<>>
  /\ counts = [l |-> 0, w |-> 0, c |-> 0] /\ inword = FALSE /\ prog = "none"

StartFilter ==
  /\ prog = "none" /\ stdin' \in Inputs
  /\ \/ re' \in Patterns /\ prog' = "grep"
     \/ re' = <<>> /\ prog' = "wc"
  /\ UNCHANGED <<taken, buf, out, counts, inword>>

FilterNext == StartFilter \/ grep \/ wc

FilterSpec == FilterInit /\ [][FilterNext]_filterVars

----------------------------------------------------------------------------
(* What a pattern means, without the search: it is a sequence of items,    *)
(* each a character, perhaps with a star, that match consecutive pieces.   *)
RECURSIVE Items(_)
Items(r) ==
  IF r = <<>> THEN <<>>
  ELSE IF Len(r) > 1 /\ r[2] = "*" THEN <<[c |-> r[1], star |-> TRUE]>> \o Items(SubSeq(r, 3, Len(r)))
  ELSE <<[c |-> r[1], star |-> FALSE]>> \o Items(Tail(r))

MatchesFrom(items, t, a, b) ==
  \E cut \in [0 .. Len(items) -> a .. b] :
    /\ cut[0] = a /\ cut[Len(items)] = b
    /\ \A k \in 1 .. Len(items) :
         /\ IF items[k].star THEN cut[k - 1] <= cut[k] ELSE cut[k] = cut[k - 1] + 1
         /\ \A x \in cut[k - 1] + 1 .. cut[k] : items[k].c \in {".", t[x]}

Means(r, t) ==
  LET front == r # <<>> /\ r[1] = "^"
      body == IF front THEN Tail(r) ELSE r
      items == Items(body)
      last == IF items = <<>> THEN FALSE ELSE items[Len(items)] = [c |-> "$", star |-> FALSE]
      core == IF last THEN SubSeq(items, 1, Len(items) - 1) ELSE items
  IN \E a \in 0 .. Len(t) : \E b \in a .. Len(t) :
       (front => a = 0) /\ (last => b = Len(t)) /\ MatchesFrom(core, t, a, b)

(* The lines of the input, and of them those before the first one that     *)
(* does not fit into the buffer with its end.                              *)
RECURSIVE Split(_)
Split(s) ==
  LET q == SelectInSeq(s, LAMBDA c : c = NL) IN
  IF q = 0 \/ q > BUFSIZE - 1 THEN <<>>
  ELSE <<SubSeq(s, 1, q - 1)>> \o Split(SubSeq(s, q + 1, Len(s)))

WordStarts(s) ==
  {k \in 1 .. Len(s) : s[k] \notin {NL, SP} /\ (k = 1 \/ s[IF k = 1 THEN 1 ELSE k - 1] \in {NL, SP})}

(* What grep and wc do does not depend on the pieces their input comes in. *)
(* grep has written the lines that match, in order (a line that does not   *)
(* fit into its buffer, and what follows it, is not looked at); wc has     *)
(* counted each line, word and character once, and a word cut in two by    *)
(* read is one word.                                                       *)
FiltersRight ==
  /\ (prog = "done" /\ counts.c = 0) =>
       out = SelectSeq(Split(stdin), LAMBDA t : Means(re, t))
  /\ counts.c > 0 =>
       counts = [l |-> Cardinality({k \in 1 .. taken : stdin[k] = NL}),
                 w |-> Cardinality(WordStarts(SubSeq(stdin, 1, taken))), c |-> taken]
=============================================================================
