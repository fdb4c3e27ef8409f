------------------------------ MODULE FilesInv ------------------------------
(***************************************************************************)
(* The reference counts of file.c and the ends of pipe.c are exact, for    *)
(* any number of processes, descriptors, files and pipes, and whatever     *)
(* calls the programs make: the inductive invariant, what the steps do to  *)
(* the state it speaks of, how the counts change, and the steps of dup,    *)
(* close and filealloc.  FilesProofs has the others and the theorems.      *)
(***************************************************************************)
EXTENDS Files, FiniteSetTheorems, WellFoundedInduction, TLAPS

(* A program in user mode makes any calls: every step of a shell or of a   *)
(* test program is one of these or a step of FilesNext.                    *)
Program(p) ==
  /\ at[p] = "user" /\ \E s : script' = [script EXCEPT ![p] = s]
  /\ UNCHANGED <<files, pipes, at, pfd, parent, killed, locals, kills, printed>>

FilesSpec == FilesInit /\ [][FilesNext \/ \E p \in Procs : Program(p)]_filesVars

----------------------------------------------------------------------------
Points == {"unused", "user", "zombie", "closing", "pipeclose", "openalloc", "pipealloc",
           "read", "rsleep", "write", "wsleep"}
Kinds == {"none", "dev", "read", "write"}
PipeEnds == {"read", "write"} \X Pipes

TabOK ==
  /\ ofile \in [Procs -> [Fds -> FileIds \cup {0}]] /\ ref \in [FileIds -> Nat]
  /\ kind \in [FileIds -> Kinds] /\ pipe \in [FileIds -> Pipes \cup {0}]
  /\ at \in [Procs -> Points] /\ closing \in [Procs -> Seq(FileIds)]
  /\ ff \in [Procs -> PipeEnds \cup {<<>>}]

(* Where a process may have files to close or to install, and that one     *)
(* that is gone has none.                                                  *)
AtOK(p) ==
  /\ Len(closing[p]) <= 2
  /\ at[p] \notin {"closing", "pipeclose", "openalloc", "pipealloc"} => closing[p] = <<>>
  /\ at[p] = "openalloc" => Len(closing[p]) = 1
  /\ at[p] = "pipealloc" => Len(closing[p]) > 0
  /\ at[p] = "pipeclose" => ff[p] \in PipeEnds
  /\ at[p] \in {"unused", "zombie"} => \A fd \in Fds : ofile[p][fd] = 0

AtInv == \A p \in Procs : AtOK(p)

(* The descriptors and the pending closes that name a file.                *)
Named(o, f) == {x \in Procs \X Fds : o[x[1]][x[2]] = f}
Pending(c, f) == {x \in Procs \X (1 .. 2) : x[2] \in DOMAIN c[x[1]] /\ c[x[1]][x[2]] = f}

CountInv ==
  \A f \in FileIds : ref[f] = Cardinality(Named(ofile, f)) + Cardinality(Pending(closing, f))

(* A file that filealloc has just returned is its caller's alone, and has  *)
(* no type; nor has a free one.                                            *)
Fresh(p) == at[p] \in {"openalloc", "pipealloc"}

FreshInv ==
  /\ \A f \in FileIds : ref[f] = 0 => kind[f] = "none"
  /\ \A p \in Procs : Fresh(p) =>
       /\ \A i \in DOMAIN closing[p] : ref[closing[p][i]] = 1 /\ kind[closing[p][i]] = "none"
       /\ Len(closing[p]) = 2 => closing[p][1] # closing[p][2]

(* An end of a pipe is held by one file, or by the process that is about   *)
(* to close it, and is open as long as it is held.                         *)
FileHolds(f, e, pi) == ref[f] > 0 /\ kind[f] = e /\ pipe[f] = pi
ProcHolds(p, e, pi) == at[p] = "pipeclose" /\ ff[p] = <<e, pi>>

ReadEnds == {pi \in Pipes : readopen[pi]}
WriteEnds == {pi \in Pipes : writeopen[pi]}

OneHolder(e, pi) ==
  /\ \A f, g \in FileIds : FileHolds(f, e, pi) /\ FileHolds(g, e, pi) => f = g
  /\ \A p, q \in Procs : ProcHolds(p, e, pi) /\ ProcHolds(q, e, pi) => p = q
  /\ \A f \in FileIds, p \in Procs : ~(FileHolds(f, e, pi) /\ ProcHolds(p, e, pi))

OpenIffHeld(e, open) ==
  \A pi \in Pipes :
    pi \in open <=> \/ \E f \in FileIds : FileHolds(f, e, pi)
                    \/ \E p \in Procs : ProcHolds(p, e, pi)

EndsInv ==
  /\ \A f \in FileIds : kind[f] \in {"read", "write"} => pipe[f] \in Pipes
  /\ \A pi \in Pipes : OneHolder("read", pi) /\ OneHolder("write", pi)
  /\ OpenIffHeld("read", ReadEnds) /\ OpenIffHeld("write", WriteEnds)

FlagsOK == readopen \in [Pipes -> BOOLEAN] /\ writeopen \in [Pipes -> BOOLEAN]

FilesInv == TabOK /\ AtInv /\ CountInv /\ FreshInv /\ EndsInv /\ FlagsOK

----------------------------------------------------------------------------
(* What the steps do to the state the invariant speaks of.                 *)

(* Places from which a process goes on with a call, or starts one.         *)
Idle == {"user", "read", "rsleep", "write", "wsleep", "closing"}

Moves(q) ==
  \/ at'[q] = at[q]
  \/ at[q] \in Idle /\ closing[q] = <<>> /\ at'[q] \in Idle
  \/ Fresh(q) /\ at'[q] = "closing"
  \/ at[q] = "zombie" /\ at'[q] = "unused"
  \/ at[q] \in Idle /\ closing[q] = <<>> /\ at'[q] = "zombie" /\ \A fd \in Fds : ofile[q][fd] = 0

SameEnds == ReadEnds' = ReadEnds /\ WriteEnds' = WriteEnds

(* Processes move and nothing else changes.                                *)
Quiet ==
  /\ UNCHANGED <<ofile, ref, kind, pipe, closing, ff>>
  /\ at' \in [Procs -> Points] /\ \A q \in Procs : Moves(q)

(* dup.                                                                    *)
Dups(p, fd, fd2) ==
  /\ ofile[p][fd] = 0 /\ ofile[p][fd2] \in FileIds
  /\ ofile' = [ofile EXCEPT ![p][fd] = ofile[p][fd2]]
  /\ ref' = [ref EXCEPT ![ofile[p][fd2]] = @ + 1]
  /\ at[p] = "user" /\ UNCHANGED <<kind, pipe, at, closing, ff>>

(* A descriptor is cleared, and its file is to be closed.                  *)
Clears(p, fd) ==
  /\ ofile[p][fd] \in FileIds /\ closing[p] = <<>> /\ at[p] \in Idle
  /\ ofile' = [ofile EXCEPT ![p][fd] = 0]
  /\ closing' = [closing EXCEPT ![p] = <<ofile[p][fd]>>]
  /\ at' = [at EXCEPT ![p] = "closing"] /\ UNCHANGED <<ref, kind, pipe, ff>>

(* A file is taken, its number kept.                                       *)
Takes(p, f) ==
  /\ ref[f] = 0 /\ ref' = [ref EXCEPT ![f] = 1]
  /\ closing' = [closing EXCEPT ![p] = Append(@, f)]
  /\ \/ at[p] = "user" /\ at' = [at EXCEPT ![p] = "openalloc"]
     \/ at[p] = "user" /\ at' = [at EXCEPT ![p] = "pipealloc"]
     \/ at[p] = "pipealloc" /\ Len(closing[p]) = 1 /\ at' = at
  /\ UNCHANGED <<ofile, kind, pipe, ff>>

(* open installs its file.                                                 *)
Opens(p, fd) ==
  /\ at[p] = "openalloc" /\ ofile[p][fd] = 0
  /\ ofile' = [ofile EXCEPT ![p][fd] = closing[p][1]]
  /\ kind' = [kind EXCEPT ![closing[p][1]] = "dev"]
  /\ closing' = [closing EXCEPT ![p] = <<>>]
  /\ at' = [at EXCEPT ![p] = "user"] /\ UNCHANGED <<ref, pipe, ff>>

(* pipe gives its files their types, and then installs them or fails.      *)
Typed(p, pi) ==
  /\ at[p] = "pipealloc" /\ Len(closing[p]) = 2 /\ pi \notin ReadEnds /\ pi \notin WriteEnds
  /\ kind' = [kind EXCEPT ![closing[p][1]] = "read", ![closing[p][2]] = "write"]
  /\ pipe' = [pipe EXCEPT ![closing[p][1]] = pi, ![closing[p][2]] = pi]
  /\ UNCHANGED <<ref, ff>>

Fails(p) == at' = [at EXCEPT ![p] = "closing"] /\ UNCHANGED <<ofile, closing>>

Installs(p, fd0, fd1) ==
  /\ ofile[p][fd0] = 0 /\ ofile[p][fd1] = 0 /\ fd0 # fd1
  /\ ofile' = [ofile EXCEPT ![p][fd0] = closing[p][1], ![p][fd1] = closing[p][2]]
  /\ closing' = [closing EXCEPT ![p] = <<>>]
  /\ at' = [at EXCEPT ![p] = "user"]

Paired(pi) == ReadEnds' = ReadEnds \cup {pi} /\ WriteEnds' = WriteEnds \cup {pi}

(* A reference is given up; the last one frees the file.                   *)
Drops(p) ==
  /\ at[p] = "closing" /\ closing[p] # <<>>
  /\ ref' = [ref EXCEPT ![Head(closing[p])] = @ - 1]
  /\ closing' = [closing EXCEPT ![p] = Tail(@)]
  /\ \/ ref[Head(closing[p])] # 1 /\ UNCHANGED <<kind, ff, at>>
     \/ /\ ref[Head(closing[p])] = 1 /\ kind' = [kind EXCEPT ![Head(closing[p])] = "none"]
        /\ kind[Head(closing[p])] \notin {"read", "write"} /\ UNCHANGED <<ff, at>>
     \/ /\ ref[Head(closing[p])] = 1 /\ kind' = [kind EXCEPT ![Head(closing[p])] = "none"]
        /\ kind[Head(closing[p])] \in {"read", "write"}
        /\ ff' = [ff EXCEPT ![p] = <<kind[Head(closing[p])], pipe[Head(closing[p])]>>]
        /\ at' = [at EXCEPT ![p] = "pipeclose"]
  /\ UNCHANGED <<ofile, pipe>>

(* The end of a pipe is closed.                                            *)
Closes(p) ==
  /\ at[p] = "pipeclose" /\ at' \in [Procs -> Points] /\ at'[p] = "closing"
  /\ \A q \in Procs \ {p} : \/ at'[q] = at[q]
                            \/ at[q] \in Idle /\ closing[q] = <<>> /\ at'[q] \in Idle
  /\ ff' = [ff EXCEPT ![p] = <<>>]
  /\ ReadEnds' = IF ff[p][1] = "write" THEN ReadEnds ELSE ReadEnds \ {ff[p][2]}
  /\ WriteEnds' = IF ff[p][1] = "write" THEN WriteEnds \ {ff[p][2]} ELSE WriteEnds
  /\ UNCHANGED <<ofile, ref, kind, pipe, closing>>

(* fork copies the descriptors of p to q.                                  *)
Copies(p, q) ==
  /\ at[p] = "user" /\ at[q] = "unused" /\ at' = [at EXCEPT ![q] = "user"]
  /\ ofile' = [ofile EXCEPT ![q] = ofile[p]]
  /\ ref' = [f \in FileIds |-> ref[f] + Cardinality({fd \in Fds : ofile[p][fd] = f})]
  /\ UNCHANGED <<kind, pipe, closing, ff>>

(* Every step of the model has one of these effects.                       *)
Effect ==
  \/ Quiet /\ SameEnds
  \/ \E p \in Procs : \E fd, fd2 \in Fds : Dups(p, fd, fd2) /\ SameEnds
  \/ \E p \in Procs : \E fd \in Fds : Clears(p, fd) /\ SameEnds
  \/ \E p \in Procs : \E f \in FileIds : Takes(p, f) /\ SameEnds
  \/ \E p \in Procs : \E fd \in Fds : Opens(p, fd) /\ SameEnds
  \/ \E p \in Procs : \E pi \in Pipes : Typed(p, pi) /\ Fails(p) /\ Paired(pi)
  \/ \E p \in Procs : \E pi \in Pipes : \E fd0, fd1 \in Fds :
       Typed(p, pi) /\ Installs(p, fd0, fd1) /\ Paired(pi)
  \/ \E p \in Procs : Drops(p) /\ SameEnds
  \/ \E p \in Procs : Closes(p)
  \/ \E p, q \in Procs : Copies(p, q) /\ SameEnds

----------------------------------------------------------------------------
LEMMA FirstMember ==
  ASSUME NEW S, S \subseteq Nat, S # {} PROVE First(S) \in S
<1>1. PICK x \in S : \A y \in S : ~(<<y, x>> \in OpToRel(<, Nat))
  BY NatLessThanWellFounded, WFMin, Zenon
<1>2. \A y \in S : ~(y < x) BY Zenon, <1>1 DEF OpToRel
<1>3. \A y \in S : x <= y BY <1>2
<1> QED BY Zenon, <1>3 DEF First

LEMMA SetFacts ==
  /\ Fds \subseteq Nat /\ FileIds \subseteq Nat \ {0} /\ Procs \subseteq Nat /\ Pipes \subseteq Nat
  /\ 0 \in Fds /\ 1 \in Fds /\ 1 \in FileIds /\ 1 \in Procs
  /\ IsFiniteSet(Fds) /\ IsFiniteSet(Procs)
<1>1. IsFiniteSet(0 .. NOFILE - 1) /\ IsFiniteSet(1 .. NumProcs)
  BY FS_Interval, FilesAssumption
<1> QED BY <1>1, FilesAssumption DEF Fds, FileIds, Procs, Pipes

(* The ends of the pipes that are open, by who changes them.               *)
LEMMA EndsKept == UNCHANGED <<readopen, writeopen>> => SameEnds
BY Zenon DEF SameEnds, ReadEnds, WriteEnds

LEMMA AsksAt == ASSUME NEW p, NEW op, Asks(p, op) PROVE at[p] = "user"
BY Zenon DEF Asks

LEMMA PipecloseEnds ==
  ASSUME NEW p \in Procs, AtInv, FlagsOK, pipeclose(p)
  PROVE /\ ReadEnds' = IF ff[p][1] = "write" THEN ReadEnds ELSE ReadEnds \ {ff[p][2]}
        /\ WriteEnds' = IF ff[p][1] = "write" THEN WriteEnds \ {ff[p][2]} ELSE WriteEnds
<1>1. readopen \in [Pipes -> BOOLEAN] /\ writeopen \in [Pipes -> BOOLEAN] BY Zenon DEF FlagsOK
<1>2. ff[p][2] \in Pipes BY Zenon DEF pipeclose, AtInv, AtOK, PipeEnds
<1>3. CASE ff[p][1] = "write"
  <2>1. /\ writeopen' = [writeopen EXCEPT ![ff[p][2]] = FALSE] /\ readopen' = readopen
    BY Zenon, <1>3 DEF pipeclose
  <2>2. \A pi \in Pipes : writeopen'[pi] <=> pi # ff[p][2] /\ writeopen[pi]
    BY <2>1, <1>1, Zenon
  <2> QED BY <1>3, <2>1, <2>2, Zenon DEF ReadEnds, WriteEnds
<1>4. CASE ff[p][1] # "write"
  <2>1. /\ readopen' = [readopen EXCEPT ![ff[p][2]] = FALSE] /\ writeopen' = writeopen
    BY Zenon, <1>4 DEF pipeclose
  <2>2. \A pi \in Pipes : readopen'[pi] <=> pi # ff[p][2] /\ readopen[pi]
    BY <2>1, <1>1, Zenon
  <2> QED BY <1>4, <2>1, <2>2, Zenon DEF ReadEnds, WriteEnds
<1> QED BY <1>3, <1>4

LEMMA PairedEnds ==
  ASSUME NEW pi \in Pipes, FlagsOK,
         readopen' = [readopen EXCEPT ![pi] = TRUE], writeopen' = [writeopen EXCEPT ![pi] = TRUE]
  PROVE Paired(pi)
<1>1. readopen \in [Pipes -> BOOLEAN] /\ writeopen \in [Pipes -> BOOLEAN] BY Zenon DEF FlagsOK
<1>2. \A x \in Pipes : readopen'[x] <=> x = pi \/ readopen[x] BY <1>1, Zenon
<1>3. \A x \in Pipes : writeopen'[x] <=> x = pi \/ writeopen[x] BY <1>1, Zenon
<1> QED BY <1>2, <1>3, Zenon DEF Paired, ReadEnds, WriteEnds

LEMMA ReturnAt == ASSUME NEW p, NEW r, Return(p, r) PROVE at' = [at EXCEPT ![p] = "user"]
BY Zenon DEF Return

LEMMA GiveUpAt == ASSUME NEW p, GiveUp(p) PROVE at' = [at EXCEPT ![p] = "closing"]
BY Zenon DEF GiveUp

LEMMA IdleClosing ==
  ASSUME AtInv, NEW p \in Procs, at[p] \in Idle, at[p] # "closing" PROVE closing[p] = <<>>
BY Zenon DEF AtInv, AtOK, Idle

LEMMA OneMoves ==
  ASSUME TabOK, NEW p \in Procs, NEW x \in Points, at' = [at EXCEPT ![p] = x], Moves(p),
         UNCHANGED <<ofile, ref, kind, pipe, closing, ff>>
  PROVE Quiet
BY Zenon DEF Quiet, Moves, TabOK

(* Going back to the program, or failing.                                  *)
LEMMA ReturnQuiet ==
  ASSUME TabOK, AtInv, NEW p \in Procs, at[p] \in Idle \ {"closing"},
         NEW x \in Idle, at' = [at EXCEPT ![p] = x],
         UNCHANGED <<ofile, ref, kind, pipe, closing, ff>>
  PROVE Quiet
<1>1. closing[p] = <<>> BY Zenon, IdleClosing
<1>2. at'[p] = x BY Zenon DEF TabOK
<1>3. x \in Points BY Zenon DEF Idle, Points
<1>4. Moves(p) BY Zenon, <1>1, <1>2 DEF Moves
<1> QED BY Zenon, <1>3, <1>4, OneMoves

LEMMA WakesEach ==
  ASSUME NEW w, NEW pi, NEW from, NEW to, NEW q \in Procs
  PROVE \/ Wakes(w, pi, from, to)[q] = w[q]
        \/ w[q] = from /\ Wakes(w, pi, from, to)[q] = to
BY Zenon DEF Wakes

(* wakeup moves sleepers only.                                             *)
LEMMA WakesMoves ==
  ASSUME TabOK, AtInv, NEW pi, NEW from, NEW to,
         <<from, to>> \in {<<"rsleep", "read">>, <<"wsleep", "write">>}
  PROVE /\ Wakes(at, pi, from, to) \in [Procs -> Points]
        /\ \A q \in Procs :
             \/ Wakes(at, pi, from, to)[q] = at[q]
             \/ /\ at[q] \in Idle /\ closing[q] = <<>>
                /\ Wakes(at, pi, from, to)[q] \in Idle
<1>1. from \in Idle \ {"closing"} /\ to \in Idle /\ to \in Points BY Zenon DEF Idle, Points
<1>2. \A q \in Procs : at[q] = from => at[q] \in Idle /\ closing[q] = <<>>
  BY Zenon, <1>1, IdleClosing
<1>3. Wakes(at, pi, from, to) \in [Procs -> Points] BY Zenon, <1>1 DEF Wakes, TabOK
<1> QED BY <1>1, <1>2, <1>3, WakesEach

LEMMA QuietWake ==
  ASSUME TabOK, AtInv, NEW pi, NEW from, NEW to,
         <<from, to>> \in {<<"rsleep", "read">>, <<"wsleep", "write">>},
         NEW p \in Procs, at[p] \in Idle \ {"closing"}, NEW x \in Idle,
         at' = [Wakes(at, pi, from, to) EXCEPT ![p] = x],
         UNCHANGED <<ofile, ref, kind, pipe, closing, ff>>
  PROVE Quiet
<1> DEFINE w == Wakes(at, pi, from, to)
<1>1. w \in [Procs -> Points] BY WakesMoves
<1>2. \A q \in Procs : \/ w[q] = at[q]
                       \/ at[q] \in Idle /\ closing[q] = <<>> /\ w[q] \in Idle
  BY WakesMoves
<1>3. closing[p] = <<>> BY IdleClosing
<1>4. x \in Points BY Zenon DEF Idle, Points
<1> HIDE DEF w
<1>5. at' = [w EXCEPT ![p] = x] BY Zenon DEF w
<1>6. at' \in [Procs -> Points] BY Zenon, <1>1, <1>4, <1>5
<1>7. ASSUME NEW q \in Procs PROVE Moves(q)
  <2>1. CASE q = p BY <1>1, <1>3, <1>5, <2>1 DEF Moves
  <2>2. CASE q # p BY Zenon, <1>1, <1>2, <1>5, <2>2 DEF Moves
  <2> QED BY <2>1, <2>2
<1> QED BY <1>6, <1>7 DEF Quiet

LEMMA ReadWriteEffect ==
  ASSUME TabOK, AtInv, NEW p \in Procs, sys_read(p) \/ sys_write(p)
  PROVE Quiet /\ SameEnds
<1>1. at[p] = "user" BY Zenon, AsksAt DEF sys_read, sys_write, Reads
<1>2. UNCHANGED <<ofile, ref, kind, pipe, closing, ff>> /\ UNCHANGED <<readopen, writeopen>>
  BY Zenon DEF sys_read, sys_write, files, pipes
<1>3. \/ at' = [at EXCEPT ![p] = "user"] \/ at' = [at EXCEPT ![p] = "read"]
      \/ at' = [at EXCEPT ![p] = "write"]
  <2>1. argfd(p) \in FileIds \cup {0} BY DEF TabOK, argfd
  <2>2. argfd(p) # 0 => kind[argfd(p)] \in Kinds BY Zenon, <2>1 DEF TabOK
  <2> QED BY Zenon, <2>2 DEF sys_read, sys_write, Return, HasType, Kinds
<1>4. {"user", "read", "write"} \subseteq Idle /\ at[p] \in Idle \ {"closing"} BY Zenon, <1>1 DEF Idle
<1> QED BY <1>2, <1>3, <1>4, ReturnQuiet, EndsKept

LEMMA PipewriteEffect ==
  ASSUME TabOK, AtInv, NEW p \in Procs, pipewrite(p) PROVE Quiet /\ SameEnds
<1>1. at[p] = "write" BY Zenon DEF pipewrite
<1>2. UNCHANGED <<ofile, ref, kind, pipe, closing, ff>> /\ UNCHANGED <<readopen, writeopen>>
  BY Zenon DEF pipewrite, files
<1>3. \/ at' = [at EXCEPT ![p] = "user"]
      \/ at' = [Wakes(at, pipe[cur[p]], "rsleep", "read") EXCEPT ![p] = "wsleep"]
      \/ at' = [Wakes(at, pipe[cur[p]], "rsleep", "read") EXCEPT ![p] = "user"]
  BY Zenon DEF pipewrite, Return
<1>4. {"user", "wsleep"} \subseteq Idle /\ at[p] \in Idle \ {"closing"} BY Zenon, <1>1 DEF Idle
<1> QED BY <1>2, <1>3, <1>4, ReturnQuiet, QuietWake, EndsKept

LEMMA PipereadEffect ==
  ASSUME TabOK, AtInv, NEW p \in Procs, piperead(p) PROVE Quiet /\ SameEnds
<1>1. at[p] = "read" BY Zenon DEF piperead
<1>2. UNCHANGED <<ofile, ref, kind, pipe, closing, ff>> /\ UNCHANGED <<readopen, writeopen>>
  BY Zenon DEF piperead, files, locals
<1>3. \/ at' = [at EXCEPT ![p] = "user"] \/ at' = [at EXCEPT ![p] = "rsleep"]
      \/ at' = [Wakes(at, pipe[cur[p]], "wsleep", "write") EXCEPT ![p] = "user"]
  BY Zenon DEF piperead, Return
<1>4. {"user", "rsleep"} \subseteq Idle /\ at[p] \in Idle \ {"closing"} BY Zenon, <1>1 DEF Idle
<1> QED BY <1>2, <1>3, <1>4, ReturnQuiet, QuietWake, EndsKept

LEMMA StayQuiet ==
  ASSUME TabOK, UNCHANGED <<ofile, ref, kind, pipe, closing, ff, at>> PROVE Quiet
BY Zenon DEF Quiet, Moves, TabOK

LEMMA ExitEffect ==
  ASSUME TabOK, AtInv, NEW p \in Procs, exit(p) PROVE Quiet /\ SameEnds
<1>1. /\ at[p] = "user" /\ at' = [at EXCEPT ![p] = "closing"]
      /\ UNCHANGED <<ofile, ref, kind, pipe, closing, ff>> /\ UNCHANGED <<readopen, writeopen>>
  BY Zenon DEF exit, files, pipes, locals
<1>2. "closing" \in Idle /\ at[p] \in Idle \ {"closing"} BY Zenon, <1>1 DEF Idle
<1> QED BY Zenon, <1>1, <1>2, ReturnQuiet, EndsKept

(* A zombie is freed.                                                      *)
LEMMA ReapQuiet ==
  ASSUME TabOK, NEW p \in Procs, at[p] = "zombie", at' = [at EXCEPT ![p] = "unused"],
         UNCHANGED <<ofile, ref, kind, pipe, closing, ff>>
  PROVE Quiet
<1>1. at'[p] = "unused" /\ "unused" \in Points BY Zenon DEF TabOK, Points
<1>2. Moves(p) BY Zenon, <1>1 DEF Moves
<1> QED BY Zenon, <1>1, <1>2, OneMoves

LEMMA WaitEffect ==
  ASSUME TabOK, AtInv, NEW p \in Procs, wait(p) PROVE Quiet /\ SameEnds
<1> DEFINE children == {q \in Procs : parent[q] = p /\ at[q] # "unused"}
<1> DEFINE zombies == {q \in children : at[q] = "zombie"}
<1>1. /\ at[p] = "user" /\ UNCHANGED <<ofile, ref, kind, pipe, closing, ff>>
      /\ UNCHANGED <<readopen, writeopen>>
  BY Zenon, AsksAt DEF wait, files, pipes, locals
<1>2. children # {} => zombies # {} BY Zenon DEF wait
<1>3. CASE children = {}
  <2>1. at' = [at EXCEPT ![p] = "user"] BY Zenon, <1>3 DEF wait, Return
  <2>2. "user" \in Idle /\ at[p] \in Idle \ {"closing"} BY Zenon, <1>1 DEF Idle
  <2> QED BY Zenon, <1>1, <2>1, <2>2, ReturnQuiet, EndsKept
<1>4. CASE children # {}
  <2>1. at' = [at EXCEPT ![First(zombies)] = "unused"] BY Zenon, <1>4 DEF wait
  <2>2. First(zombies) \in zombies BY Zenon, <1>2, <1>4, FirstMember, SetFacts
  <2> QED BY <1>1, <2>1, <2>2, ReapQuiet, EndsKept
<1> QED BY <1>3, <1>4

LEMMA ReapsEffect ==
  ASSUME TabOK, NEW p \in Procs, InitReaps(p) PROVE Quiet /\ SameEnds
BY Zenon, ReapQuiet, EndsKept DEF InitReaps, files, pipes, locals

LEMMA KillEffect ==
  ASSUME TabOK, AtInv, NEW p \in Procs, kill(p) PROVE Quiet /\ SameEnds
<1>1. UNCHANGED <<ofile, ref, kind, pipe, closing, ff>> /\ UNCHANGED <<readopen, writeopen>>
  BY Zenon DEF kill, files, pipes, locals
<1>2. at' = [at EXCEPT ![p] = CASE @ = "rsleep" -> "read" [] @ = "wsleep" -> "write"
                                [] OTHER -> @]
  BY Zenon DEF kill
<1>3. CASE at[p] \in {"rsleep", "wsleep"}
  <2>1. /\ {"read", "write"} \subseteq Idle /\ at[p] \in Idle \ {"closing"}
    BY Zenon, <1>3 DEF Idle
  <2>2. at' = [at EXCEPT ![p] = "read"] \/ at' = [at EXCEPT ![p] = "write"]
    BY Zenon, <1>2, <1>3
  <2> QED BY <1>1, <2>1, <2>2, ReturnQuiet, EndsKept
<1>4. CASE at[p] \notin {"rsleep", "wsleep"}
  <2>1. at' = at BY Zenon, <1>2, <1>4 DEF TabOK
  <2> QED BY <1>1, <2>1, StayQuiet, EndsKept
<1> QED BY <1>3, <1>4

LEMMA ChooseEffect ==
  ASSUME TabOK, NEW p \in Procs, Choose(p) \/ Program(p) PROVE Quiet /\ SameEnds
<1>1. /\ UNCHANGED <<ofile, ref, kind, pipe, closing, ff, at>>
      /\ UNCHANGED <<readopen, writeopen>>
  BY Zenon DEF Choose, Program, files, pipes, locals
<1> QED BY <1>1, StayQuiet, EndsKept

----------------------------------------------------------------------------
LEMMA DupEffect ==
  ASSUME TabOK, AtInv, NEW p \in Procs, sys_dup(p)
  PROVE /\ Quiet \/ \E fd, fd2 \in Fds : Dups(p, fd, fd2)
        /\ SameEnds
<1>1. /\ at[p] = "user" /\ UNCHANGED <<kind, pipe, closing, ff>>
      /\ UNCHANGED <<readopen, writeopen>>
  BY Zenon, AsksAt DEF sys_dup, pipes, locals
<1>2. "user" \in Idle /\ at[p] \in Idle \ {"closing"} BY Zenon, <1>1 DEF Idle
<1>3. at' = [at EXCEPT ![p] = "user"] BY Zenon, ReturnAt DEF sys_dup
<1>4. CASE argfd(p) = 0 \/ FreeFds(ofile[p]) = {}
  <2>1. UNCHANGED <<ofile, ref>> BY Zenon, <1>4 DEF sys_dup
  <2> QED BY Zenon, <1>1, <1>2, <1>3, <2>1, ReturnQuiet, EndsKept
<1>5. CASE ~(argfd(p) = 0 \/ FreeFds(ofile[p]) = {})
  <2> DEFINE fd == First(FreeFds(ofile[p]))
  <2>1. /\ ofile' = [ofile EXCEPT ![p][fd] = argfd(p)]
        /\ ref' = [ref EXCEPT ![argfd(p)] = @ + 1]
    BY Zenon, <1>5 DEF sys_dup
  <2>2. fd \in FreeFds(ofile[p]) BY Zenon, <1>5, FirstMember, SetFacts DEF FreeFds
  <2>3. fd \in Fds /\ ofile[p][fd] = 0 BY Zenon, <2>2 DEF FreeFds
  <2>4. FdArg(p) \in Fds /\ ofile[p][FdArg(p)] = argfd(p) BY Zenon, <1>5 DEF argfd
  <2>5. argfd(p) \in FileIds BY <1>5, <2>4 DEF TabOK
  <2>6. at' = at BY Zenon, <1>1, <1>3 DEF TabOK
  <2>7. Dups(p, fd, FdArg(p)) BY <1>1, <2>1, <2>3, <2>4, <2>5, <2>6, Zenon DEF Dups
  <2> QED BY <1>1, <2>3, <2>4, <2>7, EndsKept
<1> QED BY <1>4, <1>5

LEMMA CloseEffect ==
  ASSUME TabOK, AtInv, NEW p \in Procs, sys_close(p)
  PROVE (Quiet \/ \E fd \in Fds : Clears(p, fd)) /\ SameEnds
<1>1. /\ at[p] = "user" /\ UNCHANGED <<ref, kind, pipe, ff>>
      /\ UNCHANGED <<readopen, writeopen>>
  BY Zenon, AsksAt DEF sys_close, pipes
<1>2. "user" \in Idle /\ at[p] \in Idle \ {"closing"} BY <1>1 DEF Idle
<1>3. CASE argfd(p) = 0
  <2>1. at' = [at EXCEPT ![p] = "user"] /\ UNCHANGED <<ofile, closing>>
    BY Zenon, <1>3, ReturnAt DEF sys_close
  <2> QED BY Zenon, <1>1, <1>2, <2>1, ReturnQuiet, EndsKept
<1>4. CASE argfd(p) # 0
  <2>1. FdArg(p) \in Fds /\ ofile[p][FdArg(p)] = argfd(p) BY Zenon, <1>4 DEF argfd
  <2>2. argfd(p) \in FileIds BY <1>4, <2>1 DEF TabOK
  <2>3. /\ ofile' = [ofile EXCEPT ![p][FdArg(p)] = 0]
        /\ closing' = [closing EXCEPT ![p] = <<argfd(p)>>]
        /\ at' = [at EXCEPT ![p] = "closing"]
    BY Zenon, <1>4 DEF sys_close
  <2>4. closing[p] = <<>> BY Zenon, <1>2, IdleClosing
  <2>5. Clears(p, FdArg(p)) BY Zenon, <1>1, <1>2, <2>1, <2>2, <2>3, <2>4 DEF Clears
  <2> QED BY <1>1, <2>1, <2>5, EndsKept
<1> QED BY <1>3, <1>4

LEMMA ClosedEffect ==
  ASSUME TabOK, AtInv, NEW p \in Procs, Closed(p)
  PROVE (Quiet \/ \E fd \in Fds : Clears(p, fd)) /\ SameEnds
<1> DEFINE left0 == {fd \in Fds : ofile[p][fd] # 0}
<1> DEFINE fd == First(left0)
<1>1. /\ at[p] = "closing" /\ closing[p] = <<>> /\ UNCHANGED <<ref, kind, pipe, ff>>
      /\ UNCHANGED <<readopen, writeopen>>
  BY Zenon DEF Closed, pipes
<1>2. at[p] \in Idle /\ {"user", "zombie"} \subseteq Points /\ "user" \in Idle
  BY Zenon, <1>1 DEF Idle, Points
<1>3. CASE Head(script[p]).op = "exit" /\ left0 # {}
  <2>1. /\ ofile' = [ofile EXCEPT ![p][fd] = 0] /\ at' = at
        /\ closing' = [closing EXCEPT ![p] = <<ofile[p][fd]>>]
    BY Zenon, <1>3 DEF Closed
  <2>2. fd \in left0 BY Zenon, <1>3, FirstMember, SetFacts
  <2>3. fd \in Fds /\ ofile[p][fd] \in FileIds BY <2>2 DEF TabOK
  <2>4. at' = [at EXCEPT ![p] = "closing"] BY Zenon, <1>1, <2>1 DEF TabOK
  <2>5. Clears(p, fd) BY Zenon, <1>1, <1>2, <2>1, <2>3, <2>4 DEF Clears
  <2> QED BY <1>1, <2>3, <2>5, EndsKept
<1>4. CASE Head(script[p]).op = "exit" /\ left0 = {}
  <2>1. at' = [at EXCEPT ![p] = "zombie"] /\ UNCHANGED <<ofile, closing>>
    BY Zenon, <1>4 DEF Closed
  <2>2. at'[p] = "zombie" /\ \A x \in Fds : ofile[p][x] = 0 BY Zenon, <1>4, <2>1 DEF TabOK
  <2>3. Moves(p) BY Zenon, <1>1, <1>2, <2>2 DEF Moves
  <2> QED BY Zenon, <1>1, <1>2, <2>1, <2>3, OneMoves, EndsKept
<1>5. CASE Head(script[p]).op # "exit"
  <2>1. at' = [at EXCEPT ![p] = "user"] /\ UNCHANGED <<ofile, closing>>
    BY Zenon, <1>5, ReturnAt DEF Closed
  <2>2. at'[p] = "user" BY Zenon, <2>1 DEF TabOK
  <2>3. Moves(p) BY Zenon, <1>1, <1>2, <2>2 DEF Moves
  <2> QED BY Zenon, <1>1, <1>2, <2>1, <2>3, OneMoves, EndsKept
<1> QED BY <1>3, <1>4, <1>5

LEMMA FilecloseEffect ==
  ASSUME NEW p \in Procs, fileclose(p) PROVE Drops(p) /\ SameEnds
<1>1. UNCHANGED <<readopen, writeopen>> BY Zenon DEF fileclose, pipes
<1>2. Drops(p) BY Zenon DEF fileclose, LastRef, Drops
<1> QED BY <1>1, <1>2, EndsKept

LEMMA PipecloseEffect ==
  ASSUME TabOK, AtInv, FlagsOK, NEW p \in Procs, pipeclose(p) PROVE Closes(p)
<1> DEFINE here == [at EXCEPT ![p] = "closing"]
<1>1. /\ at[p] = "pipeclose" /\ ff' = [ff EXCEPT ![p] = <<>>]
      /\ UNCHANGED <<ofile, ref, kind, pipe, closing>>
  BY Zenon DEF pipeclose, files
<1>2. PICK pi, from, to : /\ <<from, to>> \in {<<"rsleep", "read">>, <<"wsleep", "write">>}
                          /\ at' = Wakes(here, pi, from, to)
  BY DEF pipeclose
<1>3. from \in Idle \ {"closing"} /\ to \in Idle /\ to \in Points BY Zenon, <1>2 DEF Idle, Points
<1>4. here \in [Procs -> Points] /\ here[p] = "closing" BY Zenon DEF TabOK, Points
<1>5. \A q \in Procs : at'[q] = here[q] \/ (here[q] = from /\ at'[q] = to)
  BY Zenon, <1>2 DEF Wakes
<1>6. at' \in [Procs -> Points] BY Zenon, <1>2, <1>3, <1>4 DEF Wakes
<1>7. at'[p] = "closing" BY Zenon, <1>3, <1>4, <1>5
<1>8. ASSUME NEW q \in Procs \ {p}
      PROVE at'[q] = at[q] \/ (at[q] \in Idle /\ closing[q] = <<>> /\ at'[q] \in Idle)
  <2>1. here[q] = at[q] BY Zenon DEF TabOK
  <2>2. at[q] = from => at[q] \in Idle /\ closing[q] = <<>> BY Zenon, <1>3, IdleClosing
  <2> QED BY <1>3, <1>5, <2>1, <2>2
<1> QED BY <1>1, <1>6, <1>7, <1>8, PipecloseEnds DEF Closes

LEMMA AllocEffect ==
  ASSUME TabOK, AtInv, NEW p \in Procs, filealloc(p)
  PROVE (Quiet \/ \E f \in FileIds : Takes(p, f)) /\ SameEnds
<1> DEFINE f == First(FreeFiles)
<1>1. UNCHANGED <<ofile, kind, pipe, ff>> /\ UNCHANGED <<readopen, writeopen>>
  BY Zenon DEF filealloc, pipes
<1>2. at[p] = "user" \/ (at[p] = "pipealloc" /\ Len(closing[p]) = 1 /\ ~Asks(p, "open"))
  BY Zenon, AsksAt DEF filealloc
<1>3. CASE FreeFiles = {}
  <2>1. at' = [at EXCEPT ![p] = "closing"] /\ UNCHANGED <<ref, closing>>
    BY Zenon, <1>3, GiveUpAt DEF filealloc
  <2>2. at'[p] = "closing" /\ "closing" \in Points BY Zenon, <2>1 DEF TabOK, Points
  <2>3. at[p] = "user" => closing[p] = <<>> BY Zenon, IdleClosing DEF Idle
  <2>4. Moves(p) BY Zenon, <1>2, <2>2, <2>3 DEF Moves, Idle, Fresh
  <2> QED BY Zenon, <1>1, <2>1, <2>2, <2>4, OneMoves, EndsKept
<1>4. CASE FreeFiles # {}
  <2>1. f \in FreeFiles BY Zenon, <1>4, FirstMember, SetFacts DEF FreeFiles
  <2>2. f \in FileIds /\ ref[f] = 0 BY Zenon, <2>1 DEF FreeFiles
  <2>3. /\ ref' = [ref EXCEPT ![f] = 1] /\ closing' = [closing EXCEPT ![p] = Append(@, f)]
        /\ at' = [at EXCEPT ![p] = IF Asks(p, "open") THEN "openalloc" ELSE "pipealloc"]
    BY Zenon, <1>4 DEF filealloc
  <2>4. \/ at[p] = "user" /\ at' = [at EXCEPT ![p] = "openalloc"]
        \/ at[p] = "user" /\ at' = [at EXCEPT ![p] = "pipealloc"]
        \/ at[p] = "pipealloc" /\ Len(closing[p]) = 1 /\ at' = at
    <3>1. CASE at[p] = "user" BY Zenon, <2>3, <3>1
    <3>2. CASE at[p] # "user" BY Zenon, <1>2, <2>3, <3>2 DEF TabOK
    <3> QED BY <3>1, <3>2
  <2>5. Takes(p, f) BY <1>1, <2>2, <2>3, <2>4, Zenon DEF Takes
  <2> QED BY <1>1, <2>2, <2>5, EndsKept
<1> QED BY <1>3, <1>4

(* A call fails with the files it has allocated.                           *)
LEMMA GiveUpQuiet ==
  ASSUME TabOK, NEW p \in Procs, Fresh(p), GiveUp(p),
         UNCHANGED <<ofile, ref, kind, pipe, closing, ff>>
  PROVE Quiet
<1>1. at' = [at EXCEPT ![p] = "closing"] BY Zenon, GiveUpAt
<1>2. at'[p] = "closing" /\ "closing" \in Points BY Zenon, <1>1 DEF TabOK, Points
<1>3. Moves(p) BY Zenon, <1>2 DEF Moves
<1> QED BY Zenon, <1>1, <1>2, <1>3, OneMoves

LEMMA OpenEffect ==
  ASSUME TabOK, AtInv, NEW p \in Procs, sys_open(p)
  PROVE (Quiet \/ \E fd \in Fds : Opens(p, fd)) /\ SameEnds
<1> DEFINE fd == First(FreeFds(ofile[p]))
<1>1. /\ at[p] = "openalloc" /\ UNCHANGED <<ref, pipe, ff>>
      /\ UNCHANGED <<readopen, writeopen>>
  BY Zenon DEF sys_open, pipes
<1>2. CASE FreeFds(ofile[p]) = {}
  <2>1. GiveUp(p) /\ UNCHANGED <<ofile, kind, closing>> BY Zenon, <1>2 DEF sys_open
  <2> QED BY <1>1, <2>1, GiveUpQuiet, EndsKept DEF Fresh
<1>3. CASE FreeFds(ofile[p]) # {}
  <2>1. fd \in FreeFds(ofile[p]) BY Zenon, <1>3, FirstMember, SetFacts DEF FreeFds
  <2>2. fd \in Fds /\ ofile[p][fd] = 0 BY Zenon, <2>1 DEF FreeFds
  <2>3. /\ ofile' = [ofile EXCEPT ![p][fd] = closing[p][1]]
        /\ kind' = [kind EXCEPT ![closing[p][1]] = "dev"]
        /\ closing' = [closing EXCEPT ![p] = <<>>] /\ at' = [at EXCEPT ![p] = "user"]
    BY Zenon, <1>3, ReturnAt DEF sys_open
  <2>4. Opens(p, fd) BY Zenon, <1>1, <2>2, <2>3 DEF Opens
  <2> QED BY <1>1, <2>2, <2>4, EndsKept
<1> QED BY <1>2, <1>3

LEMMA TwoFree ==
  ASSUME NEW S \in SUBSET Fds, ~(Cardinality(S) < 2)
  PROVE /\ First(S) \in S /\ First(S \ {First(S)}) \in S
        /\ First(S) # First(S \ {First(S)})
<1>1. S # {}
  <2>1. Cardinality({}) = 0 BY Zenon, FS_EmptySet
  <2> QED BY <2>1
<1>2. First(S) \in S BY Zenon, <1>1, FirstMember, SetFacts
<1>3. S # {First(S)} BY FS_Singleton
<1>4. S \ {First(S)} # {} BY Zenon, <1>2, <1>3
<1>5. First(S \ {First(S)}) \in S \ {First(S)} BY Zenon, <1>4, FirstMember, SetFacts
<1> QED BY <1>2, <1>5

LEMMA PipeEffect ==
  ASSUME TabOK, FlagsOK, NEW p \in Procs, sys_pipe(p)
  PROVE \/ Quiet /\ SameEnds
        \/ \E pi \in Pipes : Typed(p, pi) /\ Fails(p) /\ Paired(pi)
        \/ \E pi \in Pipes, fd0, fd1 \in Fds : Typed(p, pi) /\ Installs(p, fd0, fd1) /\ Paired(pi)
<1> DEFINE pi == First(FreePages)
<1> DEFINE fds == FreeFds(ofile[p])
<1> DEFINE fd0 == First(fds)
<1> DEFINE fd1 == First(fds \ {fd0})
<1>1. at[p] = "pipealloc" /\ Len(closing[p]) = 2 /\ UNCHANGED <<ref, ff>> BY Zenon DEF sys_pipe
<1>2. CASE FreePages = {}
  <2>1. /\ GiveUp(p) /\ UNCHANGED <<ofile, kind, pipe, closing>>
        /\ UNCHANGED <<readopen, writeopen>>
    BY Zenon, <1>2 DEF sys_pipe, pipes
  <2> QED BY <1>1, <2>1, GiveUpQuiet, EndsKept DEF Fresh
<1>3. CASE FreePages # {}
  <2>1. pi \in FreePages BY Zenon, <1>3, FirstMember, SetFacts DEF FreePages
  <2>2. pi \in Pipes /\ pi \notin ReadEnds /\ pi \notin WriteEnds
    BY Zenon, <2>1 DEF FreePages, ReadEnds, WriteEnds
  <2>3. /\ kind' = [kind EXCEPT ![closing[p][1]] = "read", ![closing[p][2]] = "write"]
        /\ pipe' = [pipe EXCEPT ![closing[p][1]] = pi, ![closing[p][2]] = pi]
        /\ readopen' = [readopen EXCEPT ![pi] = TRUE]
        /\ writeopen' = [writeopen EXCEPT ![pi] = TRUE]
    BY Zenon, <1>3 DEF sys_pipe
  <2>4. Typed(p, pi) BY <1>1, <2>2, <2>3, Zenon DEF Typed
  <2>5. Paired(pi) BY Zenon, <2>2, <2>3, PairedEnds
  <2>6. CASE Cardinality(fds) < 2 \/ Head(script[p]).good = 0
    <3>1. GiveUp(p) /\ UNCHANGED <<ofile, closing>> BY <1>3, <2>6 DEF sys_pipe
    <3>2. Fails(p) BY <3>1, GiveUpAt DEF Fails
    <3> QED BY <2>2, <2>4, <2>5, <3>2
  <2>7. CASE ~(Cardinality(fds) < 2 \/ Head(script[p]).good = 0)
    <3>1. /\ ofile' = [ofile EXCEPT ![p][fd0] = closing[p][1], ![p][fd1] = closing[p][2]]
          /\ closing' = [closing EXCEPT ![p] = <<>>] /\ at' = [at EXCEPT ![p] = "user"]
      BY <1>3, <2>7, ReturnAt DEF sys_pipe
    <3>2. fds \in SUBSET Fds /\ ~(Cardinality(fds) < 2) BY Zenon, <2>7 DEF FreeFds
    <3>3. fd0 \in fds /\ fd1 \in fds /\ fd0 # fd1 BY Zenon, <3>2, TwoFree
    <3>4. fd0 \in Fds /\ fd1 \in Fds /\ ofile[p][fd0] = 0 /\ ofile[p][fd1] = 0
      BY Zenon, <3>3 DEF FreeFds
    <3>5. Installs(p, fd0, fd1) BY <3>1, <3>3, <3>4, Zenon DEF Installs
    <3> QED BY SMTT(30), <2>2, <2>4, <2>5, <3>4, <3>5
  <2> QED BY <2>6, <2>7
<1> QED BY <1>2, <1>3

LEMMA ForkEffect ==
  ASSUME TabOK, AtInv, NEW p \in Procs, fork(p)
  PROVE (Quiet \/ \E q \in Procs : Copies(p, q)) /\ SameEnds
<1> DEFINE free == {q \in Procs : at[q] = "unused"}
<1>1. at[p] = "user" /\ UNCHANGED <<kind, pipe, closing, ff>> /\ UNCHANGED <<readopen, writeopen>>
  BY Zenon, AsksAt DEF fork, pipes, locals
<1>2. CASE free = {}
  <2>1. at' = [at EXCEPT ![p] = "user"] /\ UNCHANGED <<ofile, ref>>
    BY Zenon, <1>2, ReturnAt DEF fork
  <2>2. "user" \in Idle /\ at[p] \in Idle \ {"closing"} BY Zenon, <1>1 DEF Idle
  <2> QED BY Zenon, <1>1, <2>1, <2>2, ReturnQuiet, EndsKept
<1>3. CASE free # {}
  <2>1. First(free) \in free BY Zenon, <1>3, FirstMember, SetFacts
  <2>2. Copies(p, First(free)) BY <1>1, <1>3, <2>1 DEF fork, Copies
  <2> QED BY <1>1, <2>1, <2>2, EndsKept
<1> QED BY <1>2, <1>3

LEMMA StepEffect ==
  ASSUME FilesInv, [FilesNext \/ \E p \in Procs : Program(p)]_filesVars PROVE Effect
<1>1. TabOK /\ AtInv /\ FlagsOK BY Zenon DEF FilesInv
<1>2. CASE UNCHANGED filesVars
  <2>1. /\ UNCHANGED <<ofile, ref, kind, pipe, closing, ff, at>>
        /\ UNCHANGED <<readopen, writeopen>>
    BY <1>2 DEF filesVars, files, pipes, locals
  <2> QED BY <1>1, <2>1, StayQuiet, EndsKept DEF Effect
<1>3. ASSUME NEW p \in Procs, FilesStep(p) \/ kill(p) \/ Program(p) PROVE Effect
  <2>1. CASE sys_dup(p) BY Zenon, <1>1, <2>1, DupEffect DEF Effect
  <2>2. CASE sys_close(p) BY Zenon, <1>1, <2>2, CloseEffect DEF Effect
  <2>3. CASE fileclose(p) BY Zenon, <2>3, FilecloseEffect DEF Effect
  <2>4. CASE pipeclose(p) BY <1>1, <2>4, PipecloseEffect DEF Effect
  <2>5. CASE Closed(p) BY <1>1, <2>5, ClosedEffect DEF Effect
  <2>6. CASE filealloc(p) BY <1>1, <2>6, AllocEffect DEF Effect
  <2>7. CASE sys_open(p) BY <1>1, <2>7, OpenEffect DEF Effect
  <2>8. CASE sys_pipe(p) BY <1>1, <2>8, PipeEffect, Zenon DEF Effect
  <2>9. CASE sys_read(p) \/ sys_write(p) BY <1>1, <2>9, ReadWriteEffect DEF Effect
  <2>10. CASE pipewrite(p) BY <1>1, <2>10, PipewriteEffect DEF Effect
  <2>11. CASE piperead(p) BY Zenon, <1>1, <2>11, PipereadEffect DEF Effect
  <2>12. CASE fork(p) BY Zenon, <1>1, <2>12, ForkEffect DEF Effect
  <2>13. CASE exit(p) BY Zenon, <1>1, <2>13, ExitEffect DEF Effect
  <2>14. CASE wait(p) BY Zenon, <1>1, <2>14, WaitEffect DEF Effect
  <2>15. CASE InitReaps(p) BY Zenon, <1>1, <2>15, ReapsEffect DEF Effect
  <2>16. CASE Choose(p) \/ Program(p) BY Zenon, <1>1, <2>16, ChooseEffect DEF Effect
  <2>17. CASE kill(p) BY <1>1, <2>17, KillEffect DEF Effect
  <2> QED BY SMTT(30), <1>3, <2>1, <2>2, <2>3, <2>4, <2>5, <2>6, <2>7, <2>8, <2>9, <2>10, <2>11, <2>12,
             <2>13, <2>14, <2>15, <2>16, <2>17 DEF FilesStep
<1> QED BY <1>2, <1>3 DEF FilesNext

----------------------------------------------------------------------------
(* Counting.  A table with a row of elements of T for every process.       *)
Rows(R, T) == {x \in Procs \X T : x[2] \in R[x[1]]}

LEMMA RowCount ==
  ASSUME NEW T, IsFiniteSet(T), NEW p \in Procs, NEW R \in [Procs -> SUBSET T]
  PROVE LET others == {x \in Rows(R, T) : x[1] # p} IN
        /\ Cardinality(others) \in Nat /\ Cardinality(R[p]) \in Nat
        /\ Cardinality(Rows(R, T)) = Cardinality(others) + Cardinality(R[p])
<1> DEFINE others == {x \in Rows(R, T) : x[1] # p}
<1> DEFINE mine == {p} \X R[p]
<1>1. R[p] \in SUBSET T OBVIOUS
<1>2. IsFiniteSet(R[p]) /\ IsFiniteSet({p}) /\ Cardinality({p}) = 1
  BY Zenon, <1>1, FS_Subset, FS_Singleton
<1>3. IsFiniteSet(Procs \X T) BY Zenon, SetFacts, FS_Product
<1>4. others \in SUBSET (Procs \X T) BY Zenon DEF Rows
<1>5. IsFiniteSet(others) BY Zenon, <1>3, <1>4, FS_Subset
<1>6. IsFiniteSet(mine) /\ Cardinality(mine) = 1 * Cardinality(R[p]) BY <1>2, FS_Product
<1>7. Rows(R, T) = others \cup mine BY Zenon DEF Rows
<1>8. others \cap mine = {} OBVIOUS
<1>9. Cardinality({}) = 0 BY Zenon, FS_EmptySet
<1>10. /\ Cardinality(others) \in Nat /\ Cardinality(R[p]) \in Nat
  BY Zenon, <1>2, <1>5, FS_CardinalityType
<1>11. Cardinality(others \cup mine) =
         Cardinality(others) + Cardinality(mine) - Cardinality(others \cap mine)
  BY Zenon, <1>5, <1>6, FS_Union
<1>12. Cardinality(Rows(R, T)) = Cardinality(others) + 1 * Cardinality(R[p]) - 0
  BY Zenon, <1>6, <1>7, <1>8, <1>9, <1>11
<1> HIDE DEF others, mine
<1>13. Cardinality(Rows(R, T)) = Cardinality(others) + Cardinality(R[p]) BY <1>10, <1>12
<1> QED BY <1>10, <1>13 DEF others

(* One row of a table is replaced.                                         *)
LEMMA RowChange ==
  ASSUME NEW T, IsFiniteSet(T), NEW p \in Procs, NEW R \in [Procs -> SUBSET T],
         NEW S \in [Procs -> SUBSET T], \A q \in Procs \ {p} : S[q] = R[q]
  PROVE /\ Cardinality(Rows(R, T)) \in Nat /\ Cardinality(Rows(S, T)) \in Nat
        /\ Cardinality(R[p]) \in Nat /\ Cardinality(S[p]) \in Nat
        /\ Cardinality(Rows(S, T)) + Cardinality(R[p]) =
             Cardinality(Rows(R, T)) + Cardinality(S[p])
<1> DEFINE A == {x \in Rows(R, T) : x[1] # p}
<1> DEFINE B == {x \in Rows(S, T) : x[1] # p}
<1>1. A = B BY Zenon DEF Rows
<1>2. /\ Cardinality(A) \in Nat /\ Cardinality(R[p]) \in Nat
      /\ Cardinality(Rows(R, T)) = Cardinality(A) + Cardinality(R[p])
  BY Zenon, RowCount
<1>3. /\ Cardinality(S[p]) \in Nat
      /\ Cardinality(Rows(S, T)) = Cardinality(B) + Cardinality(S[p])
  BY Zenon, RowCount
<1> HIDE DEF A, B
<1> QED BY <1>1, <1>2, <1>3

(* The descriptors of p, and the pending closes of a process, that name f. *)
FdsOf(row, f) == {fd \in Fds : row[fd] = f}
Places(s, f) == {i \in 1 .. 2 : i \in DOMAIN s /\ s[i] = f}

Is(g, f) == IF g = f THEN 1 ELSE 0

(* Tables that differ in one row; in one descriptor; in what one process   *)
(* is to close.                                                            *)
OtherRows(o, o2, p) == \A q \in Procs \ {p} : o2[q] = o[q]
SetFd(o, o2, p, fd, g) ==
  o \in [Procs -> [Fds -> FileIds \cup {0}]] /\ o2 = [o EXCEPT ![p][fd] = g]
SetRow(c, c2, p, s) == c \in [Procs -> Seq(FileIds)] /\ c2 = [c EXCEPT ![p] = s]

LEMMA FiniteCounts ==
  ASSUME NEW x, NEW f
  PROVE /\ IsFiniteSet(Named(x, f)) /\ Cardinality(Named(x, f)) \in Nat
        /\ IsFiniteSet(Pending(x, f)) /\ Cardinality(Pending(x, f)) \in Nat
        /\ IsFiniteSet(FdsOf(x, f)) /\ Cardinality(FdsOf(x, f)) \in Nat
        /\ IsFiniteSet(Places(x, f)) /\ Cardinality(Places(x, f)) \in Nat
<1>1. 1 \in Int /\ 2 \in Int OBVIOUS
<1>2. IsFiniteSet(1 .. 2) BY <1>1, FS_Interval, Zenon
<1>3. IsFiniteSet(Procs \X Fds) /\ IsFiniteSet(Procs \X (1 .. 2)) BY Zenon, <1>2, SetFacts, FS_Product
<1>4. /\ Named(x, f) \in SUBSET (Procs \X Fds) /\ Pending(x, f) \in SUBSET (Procs \X (1 .. 2))
      /\ FdsOf(x, f) \in SUBSET Fds /\ Places(x, f) \in SUBSET (1 .. 2)
  BY Zenon DEF Named, Pending, FdsOf, Places
<1>5. /\ IsFiniteSet(Named(x, f)) /\ IsFiniteSet(Pending(x, f))
      /\ IsFiniteSet(FdsOf(x, f)) /\ IsFiniteSet(Places(x, f))
  BY SMTT(30), <1>2, <1>3, <1>4, SetFacts, FS_Subset
<1> QED BY <1>5, FS_CardinalityType

LEMMA NamedRow ==
  ASSUME NEW o, NEW o2, NEW p \in Procs, NEW f, OtherRows(o, o2, p)
  PROVE Cardinality(Named(o2, f)) + Cardinality(FdsOf(o[p], f)) =
             Cardinality(Named(o, f)) + Cardinality(FdsOf(o2[p], f))
<1> DEFINE R == [q \in Procs |-> FdsOf(o[q], f)]
<1> DEFINE S == [q \in Procs |-> FdsOf(o2[q], f)]
<1>1. R \in [Procs -> SUBSET Fds] /\ S \in [Procs -> SUBSET Fds] BY Zenon DEF FdsOf
<1>2. Named(o, f) = Rows(R, Fds) /\ Named(o2, f) = Rows(S, Fds) BY Zenon DEF Named, Rows, FdsOf
<1>3. R[p] = FdsOf(o[p], f) /\ S[p] = FdsOf(o2[p], f) OBVIOUS
<1>4. \A q \in Procs \ {p} : S[q] = R[q] BY Zenon DEF OtherRows
<1> HIDE DEF R, S
<1>5. /\ Cardinality(Rows(R, Fds)) \in Nat /\ Cardinality(Rows(S, Fds)) \in Nat
      /\ Cardinality(R[p]) \in Nat /\ Cardinality(S[p]) \in Nat
      /\ Cardinality(Rows(S, Fds)) + Cardinality(R[p]) =
           Cardinality(Rows(R, Fds)) + Cardinality(S[p])
  BY SMTT(30), <1>1, <1>4, RowChange, SetFacts
<1> QED BY <1>2, <1>3, <1>5

LEMMA PendingRow ==
  ASSUME NEW c, NEW c2, NEW p \in Procs, NEW f, OtherRows(c, c2, p)
  PROVE Cardinality(Pending(c2, f)) + Cardinality(Places(c[p], f)) =
          Cardinality(Pending(c, f)) + Cardinality(Places(c2[p], f))
<1> DEFINE T == 1 .. 2
<1> DEFINE R == [q \in Procs |-> Places(c[q], f)]
<1> DEFINE S == [q \in Procs |-> Places(c2[q], f)]
<1>1. R \in [Procs -> SUBSET T] /\ S \in [Procs -> SUBSET T] BY Zenon DEF Places
<1>2. Pending(c, f) = Rows(R, T) /\ Pending(c2, f) = Rows(S, T) BY Zenon DEF Pending, Rows, Places
<1>3. R[p] = Places(c[p], f) /\ S[p] = Places(c2[p], f) OBVIOUS
<1>4. \A q \in Procs \ {p} : S[q] = R[q] BY Zenon DEF OtherRows
<1>5. IsFiniteSet(T)
  <2>1. 1 \in Int /\ 2 \in Int OBVIOUS
  <2> QED BY <2>1, FS_Interval, Zenon
<1> HIDE DEF R, S, T
<1>6. /\ Cardinality(Rows(R, T)) \in Nat /\ Cardinality(Rows(S, T)) \in Nat
      /\ Cardinality(R[p]) \in Nat /\ Cardinality(S[p]) \in Nat
      /\ Cardinality(Rows(S, T)) + Cardinality(R[p]) =
           Cardinality(Rows(R, T)) + Cardinality(S[p])
  BY <1>1, <1>4, <1>5, RowChange
<1> QED BY <1>2, <1>3, <1>6

(* One descriptor is set.                                                  *)
LEMMA NamedSet ==
  ASSUME NEW o, NEW o2, NEW p \in Procs, NEW fd \in Fds, NEW g, NEW f, SetFd(o, o2, p, fd, g)
  PROVE Cardinality(Named(o2, f)) + Is(o[p][fd], f) = Cardinality(Named(o, f)) + Is(g, f)
<1> DEFINE A == FdsOf(o[p], f)
<1> DEFINE rest == A \ {fd}
<1>1. o2[p] = [o[p] EXCEPT ![fd] = g] /\ o[p] \in [Fds -> FileIds \cup {0}] BY Zenon DEF SetFd
<1>2. OtherRows(o, o2, p) BY Zenon DEF SetFd, OtherRows
<1>3. FdsOf(o2[p], f) = IF g = f THEN rest \cup {fd} ELSE rest BY Zenon, <1>1 DEF FdsOf
<1>4. /\ Cardinality(Named(o, f)) \in Nat /\ Cardinality(Named(o2, f)) \in Nat
      /\ IsFiniteSet(A) /\ Cardinality(A) \in Nat /\ Cardinality(FdsOf(o2[p], f)) \in Nat
  BY Zenon, FiniteCounts
<1>5. /\ IsFiniteSet(rest)
      /\ Cardinality(rest) = IF fd \in A THEN Cardinality(A) - 1 ELSE Cardinality(A)
  BY Zenon, <1>4, FS_RemoveElement
<1>6. Cardinality(rest \cup {fd}) = Cardinality(rest) + 1 BY Zenon, <1>5, FS_AddElement
<1>7. fd \in A <=> o[p][fd] = f BY Zenon DEF FdsOf
<1>8. Cardinality(Named(o2, f)) + Cardinality(A) =
        Cardinality(Named(o, f)) + Cardinality(FdsOf(o2[p], f))
  BY <1>2, NamedRow
<1> HIDE DEF A, rest
<1>9. Cardinality(FdsOf(o2[p], f)) + Is(o[p][fd], f) = Cardinality(A) + Is(g, f)
  BY <1>3, <1>4, <1>5, <1>6, <1>7 DEF Is
<1>10. Is(o[p][fd], f) \in Nat /\ Is(g, f) \in Nat BY Zenon DEF Is
<1> DEFINE a == Cardinality(Named(o2, f))
<1> DEFINE b == Cardinality(A)
<1> DEFINE c == Cardinality(Named(o, f))
<1> DEFINE d == Cardinality(FdsOf(o2[p], f))
<1>11. /\ a \in Nat /\ b \in Nat /\ c \in Nat /\ d \in Nat /\ a + b = c + d
       /\ d + Is(o[p][fd], f) = b + Is(g, f)
  BY Zenon, <1>4, <1>8, <1>9
<1> HIDE DEF a, b, c, d
<1>12. a + Is(o[p][fd], f) = c + Is(g, f) BY <1>10, <1>11
<1> QED BY Zenon, <1>12 DEF a, c

LEMMA PendingSet ==
  ASSUME NEW c, NEW c2, NEW p \in Procs, NEW s, NEW f, SetRow(c, c2, p, s)
  PROVE Cardinality(Pending(c2, f)) + Cardinality(Places(c[p], f)) =
          Cardinality(Pending(c, f)) + Cardinality(Places(s, f))
<1>1. c2[p] = s /\ OtherRows(c, c2, p) BY Zenon DEF SetRow, OtherRows
<1>2. Cardinality(Pending(c2, f)) + Cardinality(Places(c[p], f)) =
        Cardinality(Pending(c, f)) + Cardinality(Places(c2[p], f))
  BY <1>1, PendingRow
<1> QED BY <1>1, <1>2

(* How many places of a short sequence hold f.                             *)
LEMMA PlacesCount ==
  ASSUME NEW f
  PROVE /\ Cardinality(Places(<<>>, f)) = 0
        /\ \A g \in FileIds : Cardinality(Places(<<g>>, f)) = Is(g, f)
        /\ \A s \in Seq(FileIds) : Len(s) = 1 => Cardinality(Places(s, f)) = Is(s[1], f)
        /\ \A s \in Seq(FileIds) :
             Len(s) = 2 => Cardinality(Places(s, f)) = Is(s[1], f) + Is(s[2], f)
<1>1. Cardinality({}) = 0 /\ Cardinality({1}) = 1 /\ Cardinality({2}) = 1 /\ IsFiniteSet({1})
  BY Zenon, FS_EmptySet, FS_Singleton
<1>2. Cardinality({1} \cup {2}) = 2 BY <1>1, FS_AddElement
<1>3. Places(<<>>, f) = {} BY DEF Places
<1>4. ASSUME NEW s \in Seq(FileIds), Len(s) = 1 PROVE Cardinality(Places(s, f)) = Is(s[1], f)
  <2>1. Places(s, f) = IF s[1] = f THEN {1} ELSE {} BY <1>4 DEF Places
  <2> QED BY <1>1, <2>1 DEF Is
<1>5. ASSUME NEW s \in Seq(FileIds), Len(s) = 2
      PROVE Cardinality(Places(s, f)) = Is(s[1], f) + Is(s[2], f)
  <2>1. DOMAIN s = {1, 2} BY <1>5
  <2>2. CASE s[1] = f /\ s[2] = f
    <3>1. Places(s, f) = {1} \cup {2} BY <2>1, <2>2 DEF Places
    <3>2. Cardinality(Places(s, f)) = 2 BY <1>2, <3>1, Zenon
    <3> QED BY <2>2, <3>2 DEF Is
  <2>3. CASE s[1] = f /\ s[2] # f
    <3>1. Places(s, f) = {1} BY <2>1, <2>3 DEF Places
    <3> QED BY <1>1, <2>3, <3>1 DEF Is
  <2>4. CASE s[1] # f /\ s[2] = f
    <3>1. Places(s, f) = {2} BY <2>1, <2>4 DEF Places
    <3> QED BY <1>1, <2>4, <3>1 DEF Is
  <2>5. CASE s[1] # f /\ s[2] # f
    <3>1. Places(s, f) = {} BY Zenon, <2>1, <2>5 DEF Places
    <3> QED BY <1>1, <2>5, <3>1 DEF Is
  <2> QED BY <2>2, <2>3, <2>4, <2>5
<1>6. ASSUME NEW g \in FileIds PROVE Cardinality(Places(<<g>>, f)) = Is(g, f)
  <2>1. <<g>> \in Seq(FileIds) /\ Len(<<g>>) = 1 /\ <<g>>[1] = g OBVIOUS
  <2> QED BY Zenon, <1>4, <2>1
<1> QED BY Zenon, <1>1, <1>3, <1>4, <1>5, <1>6

----------------------------------------------------------------------------
(* A file that someone names is in use.                                    *)
LEMMA NamedInUse ==
  ASSUME TabOK, CountInv, NEW f \in FileIds, NEW p \in Procs
  PROVE /\ \A fd \in Fds : ofile[p][fd] = f => ref[f] > 0
        /\ ref[f] = 0 => Cardinality(FdsOf(ofile[p], f)) = 0
        /\ AtInv => \A i \in DOMAIN closing[p] : closing[p][i] = f => ref[f] > 0
<1>1. /\ Cardinality(Named(ofile, f)) \in Nat /\ Cardinality(Pending(closing, f)) \in Nat
      /\ IsFiniteSet(Named(ofile, f)) /\ IsFiniteSet(Pending(closing, f))
  BY Zenon, FiniteCounts
<1>2. ref[f] = Cardinality(Named(ofile, f)) + Cardinality(Pending(closing, f))
  BY Zenon DEF CountInv
<1>3. ref[f] = 0 => Named(ofile, f) = {} /\ Pending(closing, f) = {}
  <2>1. ref[f] = 0 => Cardinality(Named(ofile, f)) = 0 /\ Cardinality(Pending(closing, f)) = 0
    BY <1>1, <1>2
  <2> QED BY <1>1, <2>1, FS_EmptySet
<1>4. ref[f] \in Nat BY Zenon DEF TabOK
<1>5. ASSUME ref[f] = 0, NEW fd \in Fds PROVE ofile[p][fd] # f
  <2>1. <<p, fd>> \notin Named(ofile, f) BY <1>3, <1>5
  <2> QED BY <2>1 DEF Named
<1>6. ref[f] = 0 => FdsOf(ofile[p], f) = {} BY Zenon, <1>5 DEF FdsOf
<1>7. Cardinality({}) = 0 BY Zenon, FS_EmptySet
<1>8. ASSUME AtInv, ref[f] = 0, NEW i \in DOMAIN closing[p] PROVE closing[p][i] # f
  <2>1. closing[p] \in Seq(FileIds) /\ Len(closing[p]) <= 2 BY Zenon, <1>8 DEF AtInv, AtOK, TabOK
  <2>2. i \in 1 .. 2 BY <2>1
  <2>3. <<p, i>> \notin Pending(closing, f) BY <1>3, <1>8
  <2> QED BY <2>2, <2>3 DEF Pending
<1> QED BY <1>4, <1>5, <1>6, <1>7, <1>8

(* The only name of a file with one reference.                             *)
LEMMA Alone ==
  ASSUME TabOK, AtInv, CountInv, NEW f \in FileIds, ref[f] = 1,
         NEW p \in Procs, NEW i \in DOMAIN closing[p], closing[p][i] = f
  PROVE /\ \A q \in Procs, fd \in Fds : ofile[q][fd] # f
        /\ \A q \in Procs : \A j \in DOMAIN closing[q] : closing[q][j] = f => q = p /\ j = i
<1>1. /\ Cardinality(Named(ofile, f)) \in Nat /\ Cardinality(Pending(closing, f)) \in Nat
      /\ IsFiniteSet(Named(ofile, f)) /\ IsFiniteSet(Pending(closing, f))
  BY Zenon, FiniteCounts
<1>2. ref[f] = Cardinality(Named(ofile, f)) + Cardinality(Pending(closing, f))
  BY Zenon DEF CountInv
<1>3. ASSUME NEW q \in Procs, NEW j \in DOMAIN closing[q], closing[q][j] = f
      PROVE <<q, j>> \in Pending(closing, f)
  <2>1. closing[q] \in Seq(FileIds) /\ Len(closing[q]) <= 2 BY Zenon DEF AtInv, AtOK, TabOK
  <2>2. j \in 1 .. 2 BY <2>1
  <2> QED BY <1>3, <2>2 DEF Pending
<1>4. <<p, i>> \in Pending(closing, f) BY Zenon, <1>3
<1>5. Cardinality(Pending(closing, f)) # 0 BY SMTT(30), <1>1, <1>4, FS_EmptySet
<1>6. Cardinality(Pending(closing, f)) = 1 /\ Cardinality(Named(ofile, f)) = 0
  BY SMTT(30), <1>1, <1>2, <1>5
<1>7. Named(ofile, f) = {} BY <1>1, <1>6, FS_EmptySet
<1>8. PICK x : Pending(closing, f) = {x} BY Zenon, <1>1, <1>6, FS_Singleton
<1>9. ASSUME NEW q \in Procs, NEW fd \in Fds PROVE ofile[q][fd] # f
  <2>1. <<q, fd>> \notin Named(ofile, f) BY Zenon, <1>7
  <2> QED BY <2>1 DEF Named
<1>10. ASSUME NEW q \in Procs, NEW j \in DOMAIN closing[q], closing[q][j] = f
       PROVE q = p /\ j = i
  <2>1. <<q, j>> = <<p, i>> BY <1>3, <1>4, <1>8, <1>10
  <2> QED BY <2>1
<1> QED BY <1>9, <1>10

----------------------------------------------------------------------------
(* The ends of pipes stay with their holders.                              *)
LEMMA EndsSame ==
  ASSUME EndsInv, SameEnds,
         \A f \in FileIds : kind'[f] \in {"read", "write"} => pipe'[f] \in Pipes,
         \A e \in {"read", "write"}, pi \in Pipes :
           /\ \A f \in FileIds : FileHolds(f, e, pi)' <=> FileHolds(f, e, pi)
           /\ \A p \in Procs : ProcHolds(p, e, pi)' <=> ProcHolds(p, e, pi)
  PROVE EndsInv'
<1>1. ASSUME NEW pi \in Pipes PROVE OneHolder("read", pi)' /\ OneHolder("write", pi)'
  <2>1. OneHolder("read", pi) /\ OneHolder("write", pi) BY Zenon DEF EndsInv
  <2> QED BY <2>1, Zenon DEF OneHolder
<1>2. OpenIffHeld("read", ReadEnds)' /\ OpenIffHeld("write", WriteEnds)'
  <2>1. OpenIffHeld("read", ReadEnds) /\ OpenIffHeld("write", WriteEnds) BY Zenon DEF EndsInv
  <2> QED BY <2>1, Zenon DEF OpenIffHeld, SameEnds
<1> QED BY <1>1, <1>2 DEF EndsInv

LEMMA QuietStep ==
  ASSUME TabOK, AtInv, CountInv, FreshInv, EndsInv, Quiet, SameEnds
  PROVE TabOK' /\ AtInv' /\ CountInv' /\ FreshInv' /\ EndsInv'
<1>1. TabOK' BY Zenon DEF TabOK, Quiet
<1>2. AtInv'
  <2>1. ASSUME NEW q \in Procs PROVE AtOK(q)'
    <3>1. AtOK(q) /\ Moves(q) /\ UNCHANGED <<closing, ff, ofile>> BY Zenon DEF Quiet, AtInv
    <3>2. PipeEnds' = PipeEnds BY Zenon DEF PipeEnds
    <3> QED BY <3>1, <3>2 DEF AtOK, Moves, Idle, Fresh
  <2> QED BY <2>1 DEF AtInv
<1>3. CountInv' BY ZenonT(40) DEF CountInv, Quiet, Named, Pending
<1>4. FreshInv'
  <2>1. \A q \in Procs : Fresh(q)' => Fresh(q) BY Zenon DEF Quiet, Moves, Idle, Fresh
  <2> QED BY <2>1 DEF Quiet, FreshInv
<1>5. EndsInv'
  <2>1. \A q \in Procs : at'[q] = "pipeclose" <=> at[q] = "pipeclose"
    BY Zenon DEF Quiet, Moves, Idle, Fresh
  <2>2. UNCHANGED <<ref, kind, pipe, ff>> BY Zenon DEF Quiet
  <2>3. \A f \in FileIds : kind'[f] \in {"read", "write"} => pipe'[f] \in Pipes
    BY Zenon, <2>2 DEF EndsInv
  <2> QED BY <2>1, <2>2, <2>3, EndsSame DEF FileHolds, ProcHolds
<1> QED BY <1>1, <1>2, <1>3, <1>4, <1>5

(* A process whose state a step leaves alone.                              *)
LEMMA OthersAt ==
  ASSUME AtInv, NEW q \in Procs, at'[q] = at[q], closing'[q] = closing[q],
         ofile'[q] = ofile[q], ff'[q] = ff[q]
  PROVE AtOK(q)'
<1>1. AtOK(q) /\ PipeEnds' = PipeEnds BY Zenon DEF AtInv, PipeEnds
<1> QED BY <1>1 DEF AtOK

LEMMA DupsStep ==
  ASSUME TabOK, AtInv, CountInv, FreshInv, EndsInv, SameEnds,
         NEW p \in Procs, NEW fd \in Fds, NEW fd2 \in Fds, Dups(p, fd, fd2)
  PROVE TabOK' /\ AtInv' /\ CountInv' /\ FreshInv' /\ EndsInv'
<1> DEFINE g == ofile[p][fd2]
<1>0. g \in FileIds /\ ref[g] \in Nat /\ ref[g] > 0
  BY Zenon, NamedInUse DEF Dups, TabOK
<1>1. TabOK' BY <1>0 DEF TabOK, Dups
<1>2. AtInv'
  <2>1. ASSUME NEW q \in Procs PROVE AtOK(q)'
    <3>1. CASE q = p BY Zenon, <3>1 DEF AtInv, AtOK, Dups
    <3>2. CASE q # p BY Zenon, <3>2, OthersAt DEF Dups, TabOK
    <3> QED BY <3>1, <3>2
  <2> QED BY <2>1 DEF AtInv
<1>3. CountInv'
  <2>1. ASSUME NEW f \in FileIds
        PROVE ref'[f] = Cardinality(Named(ofile', f)) + Cardinality(Pending(closing', f))
    <3>1. Cardinality(Named(ofile', f)) + Is(0, f) = Cardinality(Named(ofile, f)) + Is(g, f)
      <4>1. SetFd(ofile, ofile', p, fd, g) /\ ofile[p][fd] = 0 BY Zenon DEF Dups, TabOK, SetFd
      <4> QED BY <4>1, NamedSet
    <3>2. closing' = closing /\ ref'[f] = ref[f] + Is(g, f) BY DEF Dups, TabOK, Is
    <3>3. Is(0, f) = 0 /\ Is(g, f) \in Nat BY Zenon, SetFacts DEF Is
    <3> QED BY SMTT(30), <3>1, <3>2, <3>3, FiniteCounts DEF CountInv
  <2> QED BY <2>1 DEF CountInv
<1>4. FreshInv'
  <2>1. \A f \in FileIds : ref'[f] = 0 => ref[f] = 0 BY <1>0 DEF Dups, TabOK
  <2>2. ASSUME NEW q \in Procs, Fresh(q), NEW i \in DOMAIN closing[q] PROVE closing[q][i] # g
    <3>1. closing[q][i] \in FileIds /\ ref[closing[q][i]] = 1 BY <2>2 DEF FreshInv, TabOK
    <3> QED BY <3>1, Alone, <2>2
  <2>3. \A q \in Procs : \A i \in DOMAIN closing[q] : closing[q][i] \in FileIds BY DEF TabOK
  <2> QED BY <2>1, <2>2, <2>3 DEF FreshInv, Dups, TabOK, Fresh
<1>5. EndsInv'
  <2>1. \A f \in FileIds : ref'[f] > 0 <=> ref[f] > 0 BY <1>0 DEF Dups, TabOK
  <2>2. UNCHANGED <<kind, pipe, at, ff>> BY Zenon DEF Dups
  <2>3. \A f \in FileIds : kind'[f] \in {"read", "write"} => pipe'[f] \in Pipes
    BY Zenon, <2>2 DEF EndsInv
  <2> QED BY SMTT(30), <2>1, <2>2, <2>3, EndsSame DEF FileHolds, ProcHolds
<1> QED BY <1>1, <1>2, <1>3, <1>4, <1>5

LEMMA ClearsStep ==
  ASSUME TabOK, AtInv, CountInv, FreshInv, EndsInv, SameEnds,
         NEW p \in Procs, NEW fd \in Fds, Clears(p, fd)
  PROVE TabOK' /\ AtInv' /\ CountInv' /\ FreshInv' /\ EndsInv'
<1> DEFINE g == ofile[p][fd]
<1>0. g \in FileIds /\ <<g>> \in Seq(FileIds) /\ Len(<<g>>) = 1 BY DEF Clears
<1>1. TabOK' BY Zenon, <1>0 DEF TabOK, Clears, Points
<1>2. AtInv'
  <2>1. ASSUME NEW q \in Procs PROVE AtOK(q)'
    <3>1. CASE q = p
      <4>1. at'[p] = "closing" /\ closing'[p] = <<g>> BY Zenon DEF Clears, TabOK
      <4> QED BY <1>0, <3>1, <4>1 DEF AtOK
    <3>2. CASE q # p BY Zenon, <3>2, OthersAt DEF Clears, TabOK
    <3> QED BY <3>1, <3>2
  <2> QED BY <2>1 DEF AtInv
<1>3. CountInv'
  <2>1. ASSUME NEW f \in FileIds
        PROVE ref'[f] = Cardinality(Named(ofile', f)) + Cardinality(Pending(closing', f))
    <3>1. Cardinality(Named(ofile', f)) + Is(g, f) = Cardinality(Named(ofile, f)) + Is(0, f)
      <4>1. SetFd(ofile, ofile', p, fd, 0) BY Zenon DEF Clears, TabOK, SetFd
      <4> QED BY <4>1, NamedSet
    <3>2. Cardinality(Pending(closing', f)) + Cardinality(Places(closing[p], f)) =
            Cardinality(Pending(closing, f)) + Cardinality(Places(<<g>>, f))
      <4>1. SetRow(closing, closing', p, <<g>>) BY Zenon DEF Clears, TabOK, SetRow
      <4> QED BY <4>1, PendingSet
    <3>3. closing[p] = <<>> BY Zenon DEF Clears
    <3>4. Cardinality(Places(closing[p], f)) = 0 /\ Cardinality(Places(<<g>>, f)) = Is(g, f)
      BY Zenon, <1>0, <3>3, PlacesCount
    <3>5. Is(0, f) = 0 /\ Is(g, f) \in Nat BY Zenon, SetFacts DEF Is
    <3>6. ref'[f] = Cardinality(Named(ofile, f)) + Cardinality(Pending(closing, f))
      BY Zenon DEF CountInv, Clears
    <3>7. /\ Cardinality(Named(ofile, f)) \in Nat /\ Cardinality(Pending(closing, f)) \in Nat
          /\ Cardinality(Named(ofile', f)) \in Nat /\ Cardinality(Pending(closing', f)) \in Nat
      BY Zenon, FiniteCounts
    <3> QED BY SMTT(30), <3>1, <3>2, <3>4, <3>5, <3>6, <3>7
  <2> QED BY <2>1 DEF CountInv
<1>4. FreshInv'
  <2>1. \A q \in Procs : Fresh(q)' => Fresh(q) /\ closing'[q] = closing[q]
    BY Zenon DEF Clears, TabOK, Fresh
  <2> QED BY <2>1 DEF FreshInv, Clears
<1>5. EndsInv'
  <2>1. \A q \in Procs : at'[q] = "pipeclose" <=> at[q] = "pipeclose"
    BY Zenon DEF Clears, Idle, TabOK
  <2>2. UNCHANGED <<kind, pipe, ref, ff>> BY Zenon DEF Clears
  <2>3. \A f \in FileIds : kind'[f] \in {"read", "write"} => pipe'[f] \in Pipes
    BY Zenon, <2>2 DEF EndsInv
  <2> QED BY <2>1, <2>2, <2>3, EndsSame DEF FileHolds, ProcHolds
<1> QED BY SMTT(30), <1>1, <1>2, <1>3, <1>4, <1>5

LEMMA TakesStep ==
  ASSUME TabOK, AtInv, CountInv, FreshInv, EndsInv, SameEnds,
         NEW p \in Procs, NEW g \in FileIds, Takes(p, g)
  PROVE TabOK' /\ AtInv' /\ CountInv' /\ FreshInv' /\ EndsInv'
<1> DEFINE s == Append(closing[p], g)
<1>0. /\ closing[p] \in Seq(FileIds) /\ s \in Seq(FileIds) /\ Len(s) = Len(closing[p]) + 1
      /\ s[Len(s)] = g /\ \A i \in DOMAIN closing[p] : s[i] = closing[p][i]
  BY DEF TabOK
<1>6. at[p] = "user" => closing[p] = <<>> BY Zenon, IdleClosing DEF Idle
<1>7. Len(closing[p]) = 0 \/ (at[p] = "pipealloc" /\ Len(closing[p]) = 1)
  BY <1>6 DEF Takes
<1>8. closing'[p] = s /\ kind[g] = "none" BY Zenon DEF Takes, TabOK, FreshInv
<1>1. TabOK' BY Zenon, <1>0 DEF TabOK, Takes, Points
<1>2. AtInv'
  <2>1. ASSUME NEW q \in Procs PROVE AtOK(q)'
    <3>1. CASE q = p
      <4>1. \/ at[p] = "user" /\ at'[p] \in {"openalloc", "pipealloc"}
            \/ at[p] = "pipealloc" /\ at'[p] = "pipealloc"
        BY Zenon DEF Takes, TabOK
      <4>2. Len(s) <= 2 /\ Len(s) > 0 /\ (at[p] = "user" => Len(s) = 1)
        BY <1>0, <1>6, <1>7
      <4> HIDE DEF s
      <4>3. /\ at'[p] \in {"openalloc", "pipealloc"} /\ (at'[p] = "openalloc" => Len(s) = 1)
        BY <4>1, <4>2, Zenon
      <4>4. closing'[p] = s BY Zenon, <1>8
      <4> QED BY SMTT(30), <3>1, <4>2, <4>3, <4>4 DEF AtOK
    <3>2. CASE q # p BY Zenon, <3>2, OthersAt DEF Takes, TabOK
    <3> QED BY <3>1, <3>2
  <2> QED BY <2>1 DEF AtInv
<1>3. CountInv'
  <2>1. ASSUME NEW f \in FileIds
        PROVE ref'[f] = Cardinality(Named(ofile', f)) + Cardinality(Pending(closing', f))
    <3>1. Cardinality(Pending(closing', f)) + Cardinality(Places(closing[p], f)) =
            Cardinality(Pending(closing, f)) + Cardinality(Places(s, f))
      <4>1. SetRow(closing, closing', p, s) BY Zenon DEF Takes, TabOK, SetRow
      <4> QED BY <4>1, PendingSet
    <3>2. Cardinality(Places(s, f)) = Cardinality(Places(closing[p], f)) + Is(g, f)
      <4>1. CASE Len(closing[p]) = 0
        <5>1. closing[p] = <<>> BY <1>0, <4>1
        <5>2. Len(s) = 1 /\ s[1] = g BY <1>0, <4>1
        <5> QED BY <1>0, <5>1, <5>2, PlacesCount DEF Is
      <4>2. CASE Len(closing[p]) = 1
        <5>1. Len(s) = 2 /\ s[1] = closing[p][1] /\ s[2] = g BY <1>0, <4>2
        <5>2. Cardinality(Places(s, f)) = Is(closing[p][1], f) + Is(g, f)
          BY Zenon, <1>0, <5>1, PlacesCount
        <5>3. Cardinality(Places(closing[p], f)) = Is(closing[p][1], f)
          BY Zenon, <1>0, <4>2, PlacesCount
        <5> QED BY Zenon, <5>2, <5>3
      <4> QED BY <1>7, <4>1, <4>2
    <3>3. ref'[f] = ref[f] + Is(g, f) /\ Is(g, f) \in Nat /\ ofile' = ofile
      BY DEF Takes, TabOK, Is
    <3>4. ref[f] = Cardinality(Named(ofile, f)) + Cardinality(Pending(closing, f))
      BY Zenon DEF CountInv
    <3>5. /\ Cardinality(Named(ofile, f)) \in Nat /\ Cardinality(Pending(closing, f)) \in Nat
          /\ Cardinality(Pending(closing', f)) \in Nat /\ Cardinality(Places(closing[p], f)) \in Nat
      BY Zenon, FiniteCounts
    <3> QED BY SMTT(30), <3>1, <3>2, <3>3, <3>4, <3>5
  <2> QED BY <2>1 DEF CountInv
<1>4. FreshInv'
  <2>1. \A f \in FileIds : ref'[f] = 0 => kind'[f] = "none" BY Zenon DEF Takes, TabOK, FreshInv
  <2>2. ASSUME NEW q \in Procs, Fresh(q), NEW i \in DOMAIN closing[q]
        PROVE /\ closing[q][i] # g
              /\ ref'[closing[q][i]] = 1 /\ kind'[closing[q][i]] = "none"
    <3>1. closing[q][i] \in FileIds /\ ref[closing[q][i]] = 1 /\ kind[closing[q][i]] = "none"
      BY <2>2 DEF FreshInv, TabOK
    <3> QED BY <3>1 DEF Takes, TabOK
  <2>3. ref'[g] = 1 /\ kind'[g] = "none" BY Zenon, <1>8 DEF Takes, TabOK
  <2>4. ASSUME NEW q \in Procs, q # p, Fresh(q)'
        PROVE /\ \A i \in DOMAIN closing'[q] : ref'[closing'[q][i]] = 1 /\ kind'[closing'[q][i]] = "none"
              /\ Len(closing'[q]) = 2 => closing'[q][1] # closing'[q][2]
    <3>1. Fresh(q) /\ closing'[q] = closing[q] BY Zenon, <2>4 DEF Fresh, Takes, TabOK
    <3>2. Len(closing[q]) = 2 => closing[q][1] # closing[q][2] BY Zenon, <3>1 DEF FreshInv
    <3> QED BY <2>2, <3>1, <3>2
  <2>5. /\ \A i \in DOMAIN s : ref'[s[i]] = 1 /\ kind'[s[i]] = "none"
        /\ Len(s) = 2 => s[1] # s[2]
    <3>1. CASE Len(closing[p]) = 0
      <4>1. DOMAIN s = {1} /\ s[1] = g BY <1>0, <3>1
      <4> QED BY <1>0, <2>3, <3>1, <4>1
    <3>2. CASE at[p] = "pipealloc" /\ Len(closing[p]) = 1
      <4>1. DOMAIN s = {1, 2} /\ s[1] = closing[p][1] /\ s[2] = g /\ 1 \in DOMAIN closing[p]
        BY <1>0, <3>2
      <4>2. Fresh(p) BY Zenon, <3>2 DEF Fresh
      <4> QED BY <2>2, <2>3, <4>1, <4>2
    <3> QED BY SMTT(30), <1>7, <3>1, <3>2
  <2> QED BY Zenon, <1>8, <2>1, <2>4, <2>5 DEF FreshInv
<1>5. EndsInv'
  <2>1. \A f \in FileIds : kind[f] # "none" => ref'[f] = ref[f] BY Zenon, <1>8 DEF Takes, TabOK
  <2>2. \A q \in Procs : at'[q] = "pipeclose" <=> at[q] = "pipeclose" BY Zenon DEF Takes, TabOK
  <2>3. UNCHANGED <<kind, pipe, ff>> BY Zenon DEF Takes
  <2>4. \A f \in FileIds : kind'[f] \in {"read", "write"} => pipe'[f] \in Pipes
    BY Zenon, <2>3 DEF EndsInv
  <2> QED BY <2>1, <2>2, <2>3, <2>4, EndsSame DEF FileHolds, ProcHolds
<1> QED BY SMTT(30), <1>1, <1>2, <1>3, <1>4, <1>5
=============================================================================
