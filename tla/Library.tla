------------------------------- MODULE Library ------------------------------
(***************************************************************************)
(* The byte loops of kernel/string.c and user/ulib.c and the conversion of *)
(* numbers in the two printf.c, as functions on a small memory, for every  *)
(* small argument: overlaps, lengths 0 and negative, strings that fill     *)
(* their field, and the least int.                                         *)
(***************************************************************************)
EXTENDS Integers, Sequences, SequencesExt

CONSTANTS
  MemSize,    \* bytes of memory
  Letters,    \* characters other than '\0', as numbers
  INTBITS,    \* width of int
  Base        \* base of printint

ASSUME LibraryAssumption == MemSize \in Nat /\ Letters \subseteq Nat \ {0} /\ Base > 1

UINTS == 2 ^ INTBITS
Addresses == 0 .. MemSize - 1
ToInt(x) == IF x >= UINTS \div 2 THEN x - UINTS ELSE x

VARIABLES
  mem,       \* the memory before and
  args,      \* the call
  after,     \* the memory after it
  res        \* what it returns

libVars == <<mem, args, after, res>>

Up(n) == [k \in 1 .. n |-> k - 1]
Down(n) == [k \in 1 .. n |-> n - k]
CopyBytes(m, d, s, order) == FoldLeft(LAMBDA x, k : [x EXCEPT ![d + k] = x[s + k]], m, order)

(* Mutant of memmove: from the start, always.                              *)
AlwaysUp(m, d, s, n) == CopyBytes(m, d, s, Up(n))

(* string.c: from the end if dst lies inside the source.                   *)
memmove(m, d, s, n) == CopyBytes(m, d, s, IF s < d /\ s + n > d THEN Down(n) ELSE Up(n))

(* ulib.c: from the start if src is above dst.                             *)
user_memmove(m, d, s, n) == CopyBytes(m, d, s, IF s > d THEN Up(n) ELSE Down(n))

(* Distance from a to the '\0' behind it.                                  *)
strlen(m, a) == CHOOSE n \in 0 .. MemSize - a - 1 : m[a + n] = 0 /\ \A k \in 0 .. n - 1 : m[a + k] # 0

(* strncpy fills up with '\0'; a string of n characters gets none.         *)
strncpy(m, d, t, n) ==
  [a \in Addresses |-> IF a \in d .. d + n - 1
                         THEN IF a - d <= strlen(m, t) THEN m[t + a - d] ELSE 0
                         ELSE m[a]]

safestrcpy(m, d, t, n) ==
  LET k == IF strlen(m, t) < n - 1 THEN strlen(m, t) ELSE n - 1 IN
  IF n <= 0 THEN m
  ELSE [a \in Addresses |-> IF a \in d .. d + k - 1 THEN m[t + a - d] ELSE IF a = d + k THEN 0 ELSE m[a]]

RECURSIVE strncmp(_, _, _, _)
strncmp(m, p, q, n) ==
  IF n = 0 THEN 0
  ELSE IF m[p] # 0 /\ m[p] = m[q] THEN strncmp(m, p + 1, q + 1, n - 1)
  ELSE m[p] - m[q]

(* printint: the digits of x, as a uint; -xx of the least int is itself.   *)
RECURSIVE Digits(_)
Digits(x) == IF x < Base THEN <<x>> ELSE Digits(x \div Base) \o <<x % Base>>

printint(xx, sign) ==
  LET neg == sign /\ xx < 0 IN [neg |-> neg, digits |-> Digits((IF neg THEN -xx ELSE xx) % UINTS)]

----------------------------------------------------------------------------
Memories == {m \in [Addresses -> {0} \cup Letters] : m[MemSize - 1] = 0}

(* The calls: dst and src are areas or strings of the memory, disjoint for *)
(* the string functions.                                                   *)
Calls ==
  [op : {"memmove", "user_memmove"}, d : Addresses, s : Addresses, n : 0 .. MemSize]
  \cup [op : {"strncpy", "safestrcpy", "strncmp"}, d : Addresses, s : Addresses, n : 0 .. MemSize]
  \cup [op : {"printint"}, d : {0, 1}, s : {0}, n : 0 .. UINTS - 1]

Allowed(m, c) ==
  CASE c.op \in {"memmove", "user_memmove"} -> c.d + c.n <= MemSize /\ c.s + c.n <= MemSize
    [] c.op \in {"strncpy", "safestrcpy"} ->
         c.d + c.n <= MemSize /\ (c.d + c.n <= c.s \/ c.s + strlen(m, c.s) < c.d)
    [] c.op = "strncmp" -> TRUE
    [] c.op = "printint" -> \A a \in Addresses : m[a] = 0

LibInit ==
  /\ mem = [a \in Addresses |-> 0] /\ args = [op |-> "none", d |-> 0, s |-> 0, n |-> 0]
  /\ after = mem /\ res = <<>>

CallLibrary ==
  /\ args.op = "none" /\ mem' \in Memories /\ args' \in {c \in Calls : Allowed(mem', c)}
  /\ after' = mem' /\ UNCHANGED res

RunCall(c) ==
  CASE c.op = "memmove"      -> after' = memmove(mem, c.d, c.s, c.n) /\ res' = <<c.d>>
    [] c.op = "user_memmove" -> after' = user_memmove(mem, c.d, c.s, c.n) /\ res' = <<c.d>>
    [] c.op = "strncpy"      -> after' = strncpy(mem, c.d, c.s, c.n) /\ res' = <<c.d>>
    [] c.op = "safestrcpy"   -> after' = safestrcpy(mem, c.d, c.s, c.n) /\ res' = <<c.d>>
    [] c.op = "strncmp"      -> after' = mem /\ res' = <<strncmp(mem, c.d, c.s, c.n)>>
    [] c.op = "printint"     -> after' = mem /\ res' = <<printint(ToInt(c.n), c.d = 1)>>

Returns == args.op # "none" /\ res = <<>> /\ RunCall(args) /\ UNCHANGED <<mem, args>>

LibNext == CallLibrary \/ Returns

LibSpec == LibInit /\ [][LibNext]_libVars

----------------------------------------------------------------------------
(* The functions compute what they are for.  Both memmoves copy as if at   *)
(* once, also when the areas overlap, and leave the rest of memory alone.  *)
(* The copies of strings write only into the n bytes of the destination    *)
(* and keep as many characters as fit; what safestrcpy writes is always a  *)
(* string.  strncmp tells strings apart by their first n characters.  The  *)
(* digits printint prints stand for the number, the least int included.    *)
LibraryRight ==
  res # <<>> =>
    LET t == SubSeq([k \in 1 .. MemSize |-> mem[k - 1]], args.s + 1, MemSize)
        field == args.d .. args.d + args.n - 1
        At(a) == IF a < MemSize THEN mem[a] ELSE 0
        Same(n) == \A k \in 0 .. n - 1 : \/ At(args.d + k) = At(args.s + k)
                                        \/ \E l \in 0 .. k - 1 : At(args.d + l) = 0
    IN CASE args.op \in {"memmove", "user_memmove"} ->
              after = [a \in Addresses |-> IF a \in field THEN mem[args.s + a - args.d] ELSE mem[a]]
         [] args.op \in {"strncpy", "safestrcpy"} ->
              /\ \A a \in Addresses \ field : after[a] = mem[a]
              /\ args.op = "safestrcpy" /\ args.n > 0 => \E a \in field : after[a] = 0
              /\ \A k \in 1 .. args.n - (IF args.op = "strncpy" THEN 0 ELSE 1) :
                   (\A l \in 1 .. k : t[l] # 0) => after[args.d + k - 1] = t[k]
         [] args.op = "strncmp" -> res = <<0>> <=> Same(args.n)
         [] args.op = "printint" ->
              LET value == FoldLeft(LAMBDA v, x : Base * v + x, 0, res[1].digits)
              IN (IF res[1].neg THEN -value ELSE value) = IF args.d = 1 THEN ToInt(args.n) ELSE args.n
         [] OTHER -> TRUE
=============================================================================
