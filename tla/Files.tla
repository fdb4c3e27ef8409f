------------------------------- MODULE Files -------------------------------
(***************************************************************************)
(* Descriptors, the file table and pipes: kernel/file.c, kernel/pipe.c and *)
(* the calls of kernel/sysfile.c on descriptors, made by processes that    *)
(* fork, exit and are killed.                                              *)
(*                                                                         *)
(* A section under ftable.lock or under the lock of a pipe is one step,    *)
(* with the sleep that ends it: sleep gives up the lock and waits in one   *)
(* step for those who hold the lock.  One hart: a process is not killed    *)
(* inside such a section.                                                  *)
(***************************************************************************)
EXTENDS Integers, Sequences, FiniteSets

CONSTANTS
  NumProcs, NOFILE, NFILE, NumPipes,  \* processes, descriptors, files, pages for pipes
  PIPESIZE,
  WORD,      \* the counters of a pipe are unsigned: they wrap at WORD
  MaxKills   \* bound on kills

ASSUME FilesAssumption ==
  /\ NumProcs \in Nat \ {0} /\ NOFILE \in Nat /\ NOFILE >= 2 /\ NFILE \in Nat \ {0}
  /\ NumPipes \in Nat /\ MaxKills \in Nat
  /\ PIPESIZE \in Nat \ {0} /\ WORD \in Nat /\ PIPESIZE < WORD /\ WORD % PIPESIZE = 0

Procs == 1 .. NumProcs
Fds == 0 .. NOFILE - 1
FileIds == 1 .. NFILE     \* 0 is the null pointer
Pipes == 1 .. NumPipes

VARIABLES
  ofile,                          \* the descriptors of each process
  ref, kind, pipe,                \* the files: "read" and "write" are ends of a pipe
  readopen, writeopen, nread, nwrite, data,  \* the pipes
  at, script, pfd, parent, killed,  \* control point, program, the array of pipe()
  cur, left, closing, ff,         \* locals of read, write and close
  ret, kills, printed             \* result of close; kills left; bytes on the console

files == <<ofile, ref, kind, pipe>>
pipes == <<readopen, writeopen, nread, nwrite, data>>
locals == <<cur, left, closing, ff, ret>>
filesVars == <<files, pipes, at, script, pfd, parent, killed, locals, kills, printed>>

(* A call of a program.  The descriptors NOFILE and NOFILE + 1 stand for   *)
(* p[0] and p[1] of its array p; the first good bytes of the buffer can be *)
(* copied; must: the program exits when the call fails.                    *)
Call(op, fd, n) ==
  [op |-> op, fd |-> fd, n |-> n, good |-> n, must |-> FALSE, child |-> <<>>]
Must(c) == [c EXCEPT !.must = TRUE]
P0 == NOFILE
P1 == NOFILE + 1
ForkCall(s) == [Must(Call("fork", 0, 0)) EXCEPT !.child = s]
ExitCall == Call("exit", 0, 0)
WriteCall(n) == Must(Call("write", 1, n))

(* Mutant of After: cat writes its whole buffer.                           *)
WholeBuffer(s, r) ==
  CASE r = -1 /\ Head(s).must -> <<ExitCall>>
    [] r > 0 /\ Head(s).op = "cat" -> <<WriteCall(Head(s).n)>> \o s
    [] OTHER -> Tail(s)

(* The program after a call that returned r.  cat writes what it has read  *)
(* and reads again.                                                        *)
After(s, r) ==
  CASE r = -1 /\ Head(s).must -> <<ExitCall>>
    [] r > 0 /\ Head(s).op = "cat" -> <<WriteCall(r)>> \o s
    [] OTHER -> Tail(s)

Return(p, r) ==
  /\ at' = [at EXCEPT ![p] = "user"]
  /\ script' = [script EXCEPT ![p] = After(@, r)]

Asks(p, op) == at[p] = "user" /\ ~killed[p] /\ script[p] # <<>> /\ Head(script[p]).op = op

(* The descriptor that is the argument; its file, or null.                 *)
FdArg(p) ==
  LET fd == Head(script[p]).fd IN IF fd >= NOFILE THEN pfd[p][fd - NOFILE + 1] ELSE fd

argfd(p) == IF FdArg(p) \in Fds THEN ofile[p][FdArg(p)] ELSE 0

(* Mutant of FreeFiles: a file without a type counts as free.              *)
Untyped == {f \in FileIds : kind[f] = "none"}

(* fdalloc and filealloc take the first that is free.                      *)
FreeFds(o) == {fd \in Fds : o[fd] = 0}
FreeFiles == {f \in FileIds : ref[f] = 0}
First(S) == CHOOSE x \in S : \A y \in S : x <= y

Least(a, b) == IF a < b THEN a ELSE b

----------------------------------------------------------------------------
(* dup and close.                                                          *)

sys_dup(p) ==
  /\ Asks(p, "dup")
  /\ LET f == argfd(p) IN
     IF f = 0 \/ FreeFds(ofile[p]) = {}
       THEN Return(p, -1) /\ UNCHANGED <<ofile, ref>>
       ELSE /\ ofile' = [ofile EXCEPT ![p][First(FreeFds(ofile[p]))] = f]
            /\ ref' = [ref EXCEPT ![f] = @ + 1]
            /\ Return(p, First(FreeFds(ofile[p])))
  /\ UNCHANGED <<kind, pipe, pipes, pfd, parent, killed, locals, kills, printed>>

sys_close(p) ==
  /\ Asks(p, "close")
  /\ LET f == argfd(p) IN
     IF f = 0
       THEN Return(p, -1) /\ UNCHANGED <<ofile, closing, ret>>
       ELSE /\ ofile' = [ofile EXCEPT ![p][FdArg(p)] = 0]
            /\ closing' = [closing EXCEPT ![p] = <<f>>]
            /\ ret' = [ret EXCEPT ![p] = 0]
            /\ at' = [at EXCEPT ![p] = "closing"] /\ UNCHANGED script
  /\ UNCHANGED <<ref, kind, pipe, pipes, pfd, parent, killed, cur, left, ff, kills, printed>>

LastRef(f) == ref[f] = 1

(* fileclose, up to the release of ftable.lock; what the file was is kept  *)
(* for pipeclose, since the file may be another one by then.               *)
fileclose(p) ==
  /\ at[p] = "closing" /\ closing[p] # <<>>
  /\ LET f == Head(closing[p]) IN
     /\ ref' = [ref EXCEPT ![f] = @ - 1]
     /\ IF LastRef(f)
          THEN /\ kind' = [kind EXCEPT ![f] = "none"]
               /\ IF kind[f] \in {"read", "write"}
                    THEN /\ ff' = [ff EXCEPT ![p] = <<kind[f], pipe[f]>>]
                         /\ at' = [at EXCEPT ![p] = "pipeclose"]
                    ELSE UNCHANGED <<ff, at>>
          ELSE UNCHANGED <<kind, ff, at>>
  /\ closing' = [closing EXCEPT ![p] = Tail(@)]
  /\ UNCHANGED <<ofile, pipe, pipes, script, pfd, parent, killed, cur, left, ret, kills,
                 printed>>

(* wakeup(c): who sleeps there goes on with its loop.                      *)
Wakes(where, pi, from, to) ==
  [q \in Procs |-> IF where[q] = from /\ pipe[cur[q]] = pi THEN to ELSE where[q]]

(* pipeclose.  The page of a pipe is free when both ends are closed.       *)
pipeclose(p) ==
  /\ at[p] = "pipeclose"
  /\ LET pi == ff[p][2]
         here == [at EXCEPT ![p] = "closing"]
     IN IF ff[p][1] = "write"
          THEN /\ writeopen' = [writeopen EXCEPT ![pi] = FALSE] /\ UNCHANGED readopen
               /\ at' = Wakes(here, pi, "rsleep", "read")
          ELSE /\ readopen' = [readopen EXCEPT ![pi] = FALSE] /\ UNCHANGED writeopen
               /\ at' = Wakes(here, pi, "wsleep", "write")
  /\ ff' = [ff EXCEPT ![p] = <<>>]
  /\ UNCHANGED <<files, nread, nwrite, data, script, pfd, parent, killed, cur, left,
                 closing, ret, kills, printed>>

(* All is closed: the call returns, or the process becomes a zombie and    *)
(* its children are init's.                                                *)
Closed(p) ==
  /\ at[p] = "closing" /\ closing[p] = <<>>
  /\ IF Head(script[p]).op = "exit"
       THEN IF \E fd \in Fds : ofile[p][fd] # 0
              THEN /\ ofile' = [ofile EXCEPT ![p][First({fd \in Fds : ofile[p][fd] # 0})] = 0]
                   /\ closing' = [closing EXCEPT ![p] =
                                    <<ofile[p][First({fd \in Fds : ofile[p][fd] # 0})]>>]
                   /\ UNCHANGED <<at, script, parent>>
              ELSE /\ at' = [at EXCEPT ![p] = "zombie"]
                   /\ parent' = [q \in Procs |-> IF parent[q] = p THEN 0 ELSE parent[q]]
                   /\ script' = [script EXCEPT ![p] = <<>>] /\ UNCHANGED <<ofile, closing>>
       ELSE Return(p, ret[p]) /\ UNCHANGED <<ofile, closing, parent>>
  /\ UNCHANGED <<ref, kind, pipe, pipes, pfd, killed, cur, left, ff, ret, kills, printed>>

----------------------------------------------------------------------------
(* pipe and open.  The files a call has allocated and not yet installed    *)
(* are in closing: on an error it closes them.                             *)

GiveUp(p) ==
  at' = [at EXCEPT ![p] = "closing"] /\ ret' = [ret EXCEPT ![p] = -1] /\ UNCHANGED script

(* pipealloc takes two files, each under ftable.lock; sys_open one.        *)
filealloc(p) ==
  /\ \/ Asks(p, "open") \/ Asks(p, "pipe")
     \/ at[p] = "pipealloc" /\ Len(closing[p]) = 1
  /\ IF FreeFiles = {}
       THEN GiveUp(p) /\ UNCHANGED <<ref, closing>>
       ELSE /\ ref' = [ref EXCEPT ![First(FreeFiles)] = 1]
            /\ closing' = [closing EXCEPT ![p] = Append(@, First(FreeFiles))]
            /\ at' = [at EXCEPT ![p] = IF Asks(p, "open") THEN "openalloc" ELSE "pipealloc"]
            /\ UNCHANGED <<script, ret>>
  /\ UNCHANGED <<ofile, kind, pipe, pipes, pfd, parent, killed, cur, left, ff, kills, printed>>

(* sys_open of a device, from fdalloc on.                                  *)
sys_open(p) ==
  /\ at[p] = "openalloc"
  /\ IF FreeFds(ofile[p]) = {}
       THEN GiveUp(p) /\ UNCHANGED <<ofile, kind, closing>>
       ELSE LET f == closing[p][1] IN
            /\ ofile' = [ofile EXCEPT ![p][First(FreeFds(ofile[p]))] = f]
            /\ kind' = [kind EXCEPT ![f] = "dev"]
            /\ closing' = [closing EXCEPT ![p] = <<>>]
            /\ Return(p, First(FreeFds(ofile[p]))) /\ UNCHANGED ret
  /\ UNCHANGED <<ref, pipe, pipes, pfd, parent, killed, cur, left, ff, kills, printed>>

FreePages == {pi \in Pipes : ~readopen[pi] /\ ~writeopen[pi]}

(* The rest of pipealloc, and sys_pipe: the page, two descriptors and the  *)
(* copy of their numbers to the program, each of which may fail.           *)
sys_pipe(p) ==
  /\ at[p] = "pipealloc" /\ Len(closing[p]) = 2
  /\ IF FreePages = {}
       THEN GiveUp(p) /\ UNCHANGED <<ofile, kind, pipe, pipes, closing, pfd>>
       ELSE LET pi == First(FreePages)
                rf == closing[p][1]
                wf == closing[p][2]
                fds == FreeFds(ofile[p])
                fd0 == First(fds)
                fd1 == First(fds \ {fd0})
            IN /\ kind' = [kind EXCEPT ![rf] = "read", ![wf] = "write"]
               /\ pipe' = [pipe EXCEPT ![rf] = pi, ![wf] = pi]
               /\ readopen' = [readopen EXCEPT ![pi] = TRUE]
               /\ writeopen' = [writeopen EXCEPT ![pi] = TRUE]
               /\ nread' = [nread EXCEPT ![pi] = 0] /\ nwrite' = [nwrite EXCEPT ![pi] = 0]
               /\ data' = [data EXCEPT ![pi] = [i \in 0 .. PIPESIZE - 1 |-> 0]]
               /\ IF Cardinality(fds) < 2 \/ Head(script[p]).good = 0
                    THEN GiveUp(p) /\ UNCHANGED <<ofile, closing, pfd>>
                    ELSE /\ ofile' = [ofile EXCEPT ![p][fd0] = rf, ![p][fd1] = wf]
                         /\ pfd' = [pfd EXCEPT ![p] = <<fd0, fd1>>]
                         /\ closing' = [closing EXCEPT ![p] = <<>>]
                         /\ Return(p, 0) /\ UNCHANGED ret
  /\ UNCHANGED <<ref, parent, killed, cur, left, ff, kills, printed>>

----------------------------------------------------------------------------
(* read and write.  cat reads with read; devices are modelled elsewhere:   *)
(* here their input has ended and their output is counted.                 *)

Reads(p) == Asks(p, "read") \/ Asks(p, "cat")

(* fileread and filewrite panic on a file of no type.                      *)
HasType(f) == f # 0 => kind[f] # "none"

sys_read(p) ==
  /\ Reads(p) /\ HasType(argfd(p))
  /\ LET f == argfd(p) IN
     CASE f = 0 \/ kind[f] = "write" -> Return(p, -1) /\ UNCHANGED cur
       [] f # 0 /\ kind[f] = "dev" -> Return(p, 0) /\ UNCHANGED cur
       [] f # 0 /\ kind[f] = "read" -> /\ cur' = [cur EXCEPT ![p] = f]
                                      /\ at' = [at EXCEPT ![p] = "read"] /\ UNCHANGED script
  /\ UNCHANGED <<files, pipes, pfd, parent, killed, left, closing, ff, ret, kills, printed>>

sys_write(p) ==
  /\ Asks(p, "write") /\ HasType(argfd(p))
  /\ LET f == argfd(p)
         n == Head(script[p]).n
     IN CASE f = 0 \/ kind[f] = "read" -> Return(p, -1) /\ UNCHANGED <<cur, left, printed>>
          [] f # 0 /\ kind[f] = "dev" ->
               Return(p, n) /\ printed' = printed + n /\ UNCHANGED <<cur, left>>
          [] f # 0 /\ kind[f] = "write" ->
               /\ cur' = [cur EXCEPT ![p] = f] /\ left' = [left EXCEPT ![p] = n]
               /\ at' = [at EXCEPT ![p] = "write"] /\ UNCHANGED <<script, printed>>
  /\ UNCHANGED <<files, pipes, pfd, parent, killed, closing, ff, ret, kills>>

(* Mutant of Count: the difference is not unsigned.                        *)
NoWrap(pi) == nwrite[pi] - nread[pi]

Count(pi) == (nwrite[pi] - nread[pi]) % WORD

(* pipewrite, from acquire (or the end of sleep) to sleep or release.  The *)
(* byte written is named by its position in the stream.                    *)
pipewrite(p) ==
  /\ at[p] = "write"
  /\ LET pi == pipe[cur[p]]
         c == Head(script[p])
         done == c.n - left[p]
         k == Least(PIPESIZE - Count(pi), c.good - done)
         new == {(nwrite[pi] + i) % WORD : i \in 0 .. k - 1}
         woken == Wakes(at, pi, "rsleep", "read")
     IN IF left[p] > 0 /\ (~readopen[pi] \/ killed[p])
          THEN Return(p, -1) /\ UNCHANGED <<nwrite, data, left>>
          ELSE /\ nwrite' = [nwrite EXCEPT ![pi] = (@ + k) % WORD]
               /\ data' = [data EXCEPT ![pi] = [s \in DOMAIN @ |->
                     IF \E v \in new : v % PIPESIZE = s
                       THEN CHOOSE v \in new : v % PIPESIZE = s ELSE @[s]]]
               /\ left' = [left EXCEPT ![p] = @ - k]
               /\ IF done + k < c.n /\ Count(pi) + k = PIPESIZE
                    THEN at' = [woken EXCEPT ![p] = "wsleep"] /\ UNCHANGED script
                    ELSE /\ at' = [woken EXCEPT ![p] = "user"]
                         /\ script' = [script EXCEPT ![p] = After(@, done + k)]
  /\ UNCHANGED <<files, readopen, writeopen, nread, pfd, parent, killed, cur, closing, ff,
                 ret, kills, printed>>

(* piperead: a byte that cannot be copied out has left the pipe.           *)
piperead(p) ==
  /\ at[p] = "read"
  /\ LET pi == pipe[cur[p]]
         c == Head(script[p])
         taken == Least(Count(pi), Least(c.n, c.good + 1))
     IN CASE Count(pi) = 0 /\ writeopen[pi] /\ killed[p] -> Return(p, -1) /\ UNCHANGED nread
          [] Count(pi) = 0 /\ writeopen[pi] /\ ~killed[p] ->
               at' = [at EXCEPT ![p] = "rsleep"] /\ UNCHANGED <<nread, script>>
          [] Count(pi) # 0 \/ ~writeopen[pi] ->
               /\ nread' = [nread EXCEPT ![pi] = (@ + taken) % WORD]
               /\ at' = [Wakes(at, pi, "wsleep", "write") EXCEPT ![p] = "user"]
               /\ script' = [script EXCEPT ![p] = After(@, Least(taken, c.good))]
  /\ UNCHANGED <<files, readopen, writeopen, nwrite, data, pfd, parent, killed, locals,
                 kills, printed>>

----------------------------------------------------------------------------
(* Processes, as far as they share files.                                  *)

Refs(f) == Cardinality({x \in Procs \X Fds : ofile[x[1]][x[2]] = f})

fork(p) ==
  /\ Asks(p, "fork")
  /\ LET free == {q \in Procs : at[q] = "unused"}
         q == First(free)
     IN IF free = {}
          THEN Return(p, -1) /\ UNCHANGED <<ofile, ref, pfd, parent>>
          ELSE /\ ofile' = [ofile EXCEPT ![q] = ofile[p]]
               /\ ref' = [f \in FileIds |->
                            ref[f] + Cardinality({fd \in Fds : ofile[p][fd] = f})]
               /\ pfd' = [pfd EXCEPT ![q] = pfd[p]]
               /\ parent' = [parent EXCEPT ![q] = p]
               /\ at' = [at EXCEPT ![q] = "user"]
               /\ script' = [script EXCEPT ![q] = Head(script[p]).child,
                                           ![p] = After(@, q)]
  /\ UNCHANGED <<kind, pipe, pipes, killed, locals, kills, printed>>

(* exit, called or forced on a killed process on its way to user mode.     *)
exit(p) ==
  /\ at[p] = "user" /\ (killed[p] = FALSE => script[p] # <<>> /\ Head(script[p]).op = "exit")
  /\ at' = [at EXCEPT ![p] = "closing"]
  /\ script' = [script EXCEPT ![p] = <<ExitCall>>]
  /\ UNCHANGED <<files, pipes, pfd, parent, killed, locals, kills, printed>>

(* wait sleeps while it has children and none is a zombie.                 *)
wait(p) ==
  /\ Asks(p, "wait")
  /\ LET children == {q \in Procs : parent[q] = p /\ at[q] # "unused"}
         zombies == {q \in children : at[q] = "zombie"}
     IN /\ children # {} => zombies # {}
        /\ IF children = {}
             THEN Return(p, -1) /\ UNCHANGED <<parent, killed>>
             ELSE /\ at' = [at EXCEPT ![First(zombies)] = "unused"]
                  /\ parent' = [parent EXCEPT ![First(zombies)] = 0]
                  /\ killed' = [killed EXCEPT ![First(zombies)] = FALSE]
                  /\ script' = [script EXCEPT ![p] = Tail(@)]
  /\ UNCHANGED <<files, pipes, pfd, locals, kills, printed>>

(* init waits for the processes it has inherited.                          *)
InitReaps(p) ==
  /\ at[p] = "zombie" /\ parent[p] = 0
  /\ at' = [at EXCEPT ![p] = "unused"] /\ killed' = [killed EXCEPT ![p] = FALSE]
  /\ UNCHANGED <<files, pipes, script, pfd, parent, locals, kills, printed>>

kill(p) ==
  /\ kills > 0 /\ at[p] \notin {"unused", "zombie"} /\ ~killed[p]
  /\ kills' = kills - 1
  /\ killed' = [killed EXCEPT ![p] = TRUE]
  /\ at' = [at EXCEPT ![p] = CASE @ = "rsleep" -> "read" [] @ = "wsleep" -> "write"
                              [] OTHER -> @]
  /\ UNCHANGED <<files, pipes, script, pfd, parent, locals, printed>>

(* A program that makes any call of a menu.                                *)
Menu ==
  LET ends == {P0, P1, 0}
      rw == {Call("read", P0, 2), Call("write", P1, 3)}
  IN {Call("pipe", 0, 1), Call("pipe", 0, 0), Call("open", 0, 0)} \cup rw
     \cup {[c EXCEPT !.good = 1] : c \in rw}
     \cup {Call(op, e, 0) : op \in {"dup", "close"}, e \in ends}

Choose(p) ==
  /\ Asks(p, "any")
  /\ \E c \in Menu : script' = [script EXCEPT ![p] = <<c>> \o Tail(@)]
  /\ UNCHANGED <<files, pipes, at, pfd, parent, killed, locals, kills, printed>>

----------------------------------------------------------------------------
FilesInit ==
  /\ ofile = [p \in Procs |-> [fd \in Fds |-> IF p = 1 /\ fd < 2 THEN 1 ELSE 0]]
  /\ ref = [f \in FileIds |-> IF f = 1 THEN 2 ELSE 0]
  /\ kind = [f \in FileIds |-> IF f = 1 THEN "dev" ELSE "none"]
  /\ pipe = [f \in FileIds |-> 0]
  /\ readopen = [pi \in Pipes |-> FALSE] /\ writeopen = [pi \in Pipes |-> FALSE]
  /\ nread = [pi \in Pipes |-> 0] /\ nwrite = [pi \in Pipes |-> 0]
  /\ data = [pi \in Pipes |-> [i \in 0 .. PIPESIZE - 1 |-> 0]]
  /\ at = [p \in Procs |-> IF p = 1 THEN "user" ELSE "unused"]
  /\ script = [p \in Procs |-> <<>>]
  /\ pfd = [p \in Procs |-> <<NOFILE, NOFILE>>]
  /\ parent = [p \in Procs |-> 0] /\ killed = [p \in Procs |-> FALSE]
  /\ cur = [p \in Procs |-> 1] /\ left = [p \in Procs |-> 0]
  /\ closing = [p \in Procs |-> <<>>] /\ ff = [p \in Procs |-> <<>>]
  /\ ret = [p \in Procs |-> 0] /\ kills = MaxKills /\ printed = 0

FilesStep(p) ==
  \/ sys_dup(p) \/ sys_close(p) \/ fileclose(p) \/ pipeclose(p) \/ Closed(p)
  \/ filealloc(p) \/ sys_open(p) \/ sys_pipe(p)
  \/ sys_read(p) \/ sys_write(p) \/ pipewrite(p) \/ piperead(p)
  \/ fork(p) \/ exit(p) \/ wait(p) \/ InitReaps(p) \/ Choose(p)

FilesNext == \E p \in Procs : FilesStep(p) \/ kill(p)

----------------------------------------------------------------------------
FilesTypeOK ==
  /\ ofile \in [Procs -> [Fds -> FileIds \cup {0}]]
  /\ ref \in [FileIds -> Nat] /\ pipe \in [FileIds -> Pipes \cup {0}]
  /\ kind \in [FileIds -> {"none", "dev", "read", "write"}]
  /\ readopen \in [Pipes -> BOOLEAN] /\ writeopen \in [Pipes -> BOOLEAN]
  /\ nread \in [Pipes -> 0 .. WORD - 1] /\ nwrite \in [Pipes -> 0 .. WORD - 1]
  /\ data \in [Pipes -> [0 .. PIPESIZE - 1 -> 0 .. WORD - 1]]
  /\ at \in [Procs -> {"unused", "user", "zombie", "closing", "pipeclose", "openalloc",
                       "pipealloc", "read", "rsleep", "write", "wsleep"}]
  /\ parent \in [Procs -> Procs \cup {0}] /\ killed \in [Procs -> BOOLEAN]
  /\ cur \in [Procs -> FileIds] /\ left \in [Procs -> Nat]
  /\ kills \in Nat /\ printed \in Nat

(* The count of a file is the number of descriptors that name it and of    *)
(* calls that are about to close or to install it, and an end of a pipe is *)
(* open as long as a file is that end or the last close of it is between   *)
(* fileclose and pipeclose: nothing is reused while someone holds it and   *)
(* nothing leaks (filedup, fileclose, pipeclose and the error paths of     *)
(* sys_pipe, pipealloc and sys_open).                                      *)
RefsExact ==
  /\ \A f \in FileIds :
       ref[f] = Refs(f) + Cardinality({x \in Procs \X (1 .. 2) :
                             x[2] \in DOMAIN closing[x[1]] /\ closing[x[1]][x[2]] = f})
  /\ \A pi \in Pipes :
       LET Held(end) == \/ \E f \in FileIds : ref[f] > 0 /\ kind[f] = end /\ pipe[f] = pi
                        \/ \E p \in Procs : at[p] = "pipeclose" /\ ff[p] = <<end, pi>>
       IN readopen[pi] = Held("read") /\ writeopen[pi] = Held("write")

(* Each pipe is a bounded FIFO, across the wrap of nread and nwrite.       *)
Contents(pi) ==
  IF readopen[pi] \/ writeopen[pi]
    THEN [i \in 1 .. (nwrite[pi] - nread[pi]) % WORD |-> data[pi][(nread[pi] + i - 1) % PIPESIZE]]
    ELSE <<>>
=============================================================================
