------------------------------ MODULE FileData ------------------------------
(***************************************************************************)
(* The contents of files: the lower half of kernel/fs.c (balloc, bfree,    *)
(* bmap, itrunc, readi, writei) and the inode cases of fileread and        *)
(* filewrite in kernel/file.c, for processes that use open files at the    *)
(* same time.                                                              *)
(*                                                                         *)
(* A turn of the loop of readi or writei, one block, is a step under the   *)
(* lock of the inode.  A byte and a block number take one cell of a block, *)
(* so NINDIRECT is BSIZE.  The copy from or to the user may fail.          *)
(***************************************************************************)
EXTENDS Integers, Sequences, FiniteSets, FiniteSetsExt

CONSTANTS
  DataProcs, Opens, Inodes,
  InodeOf,       \* InodeOf[f]: the inode of the open file f
  Appender,      \* an open file that has been written to
  BSIZE, NDIRECT, MAXOPBLOCKS,
  BPB,           \* bits of a block of the bitmap: more than there are blocks
  NumData,       \* data blocks of the disk; there are enough of them
  UINT,          \* uint is 0 .. UINT - 1
  Sizes,         \* the sizes asked of read and write, as uints
  MaxSize,       \* bound on the size of a file: what bmap can map
  MaxOps         \* bound on the calls made

ASSUME DataAssumption ==
  /\ {BSIZE, NDIRECT, MAXOPBLOCKS, BPB, NumData, MaxOps} \subseteq Nat /\ BSIZE > 0 /\ BPB > NumData
  /\ MaxSize = (NDIRECT + BSIZE) * BSIZE /\ MaxSize < UINT /\ Sizes \subseteq 0 .. UINT - 1
  /\ InodeOf \in [Opens -> Inodes] /\ Appender \in Opens /\ NDIRECT > 0

NINDIRECT == BSIZE
MAXFILE == NDIRECT + NINDIRECT + NINDIRECT * NINDIRECT
Cells == 0 .. BSIZE - 1
DataBlocks == 1 .. NumData
BBLOCK(b) == -1 - b \div BPB  \* the block of its bit in the bitmap
INODES == NumData + 1        \* the block of the inodes
Torn == -1                   \* a byte of a copy that failed: the old one or the new one

VARIABLES
  inuse, store,       \* the bitmap; the contents of the blocks
  addrs, size,        \* of each inode
  datalk, foff,       \* the lock of each inode; the offset of each open file
  job,                \* the call each process makes
  logged,             \* the blocks of its transaction
  text, calls         \* what the files should hold; calls made

dataVars == <<inuse, store, addrs, size, datalk, foff, job, logged, text, calls>>

Min2(x, y) == IF x < y THEN x ELSE y
ZeroBlock == [c \in Cells |-> 0]
NoJob == [op |-> "none"]
Byte(p, j) == 10 * p + j     \* byte j of the buffer of p

Calls(p) == job[p] = NoJob /\ calls < MaxOps /\ calls' = calls + 1

(* balloc takes the first free block and clears it.                        *)
balloc(used) == CHOOSE b \in DataBlocks \ used : \A c \in DataBlocks \ used : b <= c

(* bmap: the address of block bn of inode i, and what it changes.          *)
bmap(i, bn) ==
  LET a == addrs[i]
      b1 == balloc(inuse)
      ib == IF a[NDIRECT] = 0 THEN b1 ELSE a[NDIRECT]
      used1 == inuse \cup {ib}
      store1 == IF a[NDIRECT] = 0 THEN [store EXCEPT ![b1] = ZeroBlock] ELSE store
      b2 == balloc(used1)
      log1 == IF a[NDIRECT] = 0 THEN {BBLOCK(b1), b1} ELSE {}
      slot == bn - NDIRECT
      Old(b) == [addr |-> b, inuse |-> inuse, store |-> store, addrs |-> a, log |-> {}]
  IN IF bn < NDIRECT
       THEN IF a[bn] # 0 THEN Old(a[bn])
            ELSE [addr |-> b1, inuse |-> inuse \cup {b1}, addrs |-> [a EXCEPT ![bn] = b1],
                  store |-> [store EXCEPT ![b1] = ZeroBlock], log |-> {BBLOCK(b1), b1}]
       ELSE IF store1[ib][slot] # 0 THEN Old(store1[ib][slot])
            ELSE [addr |-> b2, inuse |-> used1 \cup {b2}, addrs |-> [a EXCEPT ![NDIRECT] = ib],
                  store |-> [store1 EXCEPT ![ib][slot] = b2, ![b2] = ZeroBlock],
                  log |-> log1 \cup {BBLOCK(b2), ib, b2}]

BlocksOf(i) ==
  LET a == addrs[i]
      direct == {a[n] : n \in 0 .. NDIRECT - 1}
      indirect == IF a[NDIRECT] = 0 THEN {} ELSE {store[a[NDIRECT]][c] : c \in Cells}
  IN (direct \cup indirect \cup {a[NDIRECT]}) \ {0}

(* itrunc, for open with O_TRUNC: bfree of every block, size 0.            *)
itrunc(p, f) ==
  LET i == InodeOf[f] IN
  /\ Calls(p) /\ datalk[i] = 0
  /\ inuse' = inuse \ BlocksOf(i)
  /\ addrs' = [addrs EXCEPT ![i] = [n \in 0 .. NDIRECT |-> 0]]
  /\ size' = [size EXCEPT ![i] = 0] /\ text' = [text EXCEPT ![i] = <<>>]
  /\ UNCHANGED <<store, datalk, foff, job, logged>>

(* A call of fileread or filewrite begins; f->readable and f->writable are *)
(* set.  A size is an int: from UINT \div 2 on it is negative, and         *)
(* filewrite does nothing.                                                 *)
Asked == MapThenSumSet(LAMBDA q : job[q].n, {q \in DataProcs : job[q].op = "write"})

CallFile(p) ==
  /\ Calls(p)
  /\ \E f \in Opens, n \in Sizes, op \in {"read", "write"} :
       /\ op = "write" => n < UINT \div 2 /\ foff[f] + n + Asked <= MaxSize
       /\ job' = [job EXCEPT ![p] = [op |-> op, f |-> f, n |-> n, i |-> 0, pc |-> "lock"]]
  /\ UNCHANGED <<inuse, store, addrs, size, datalk, foff, logged, text>>

(* Mutant of MaxChunk: no slop for writes that are not aligned.            *)
NoSlop == ((MAXOPBLOCKS - 1 - 1) \div 2) * BSIZE

(* filewrite: begin_op, ilock, and the checks of writei, for the next      *)
(* stretch of at most max bytes.                                           *)
MaxChunk == ((MAXOPBLOCKS - 1 - 1 - 2) \div 2) * BSIZE

filewrite(p) ==
  LET j == job[p]
      i == InodeOf[j.f]
      n1 == Min2(j.n - j.i, MaxChunk)
  IN
  /\ j.op = "write" /\ j.pc = "lock"
  /\ IF j.i = j.n
       THEN job' = [job EXCEPT ![p] = NoJob] /\ UNCHANGED <<datalk, logged>>
       ELSE /\ datalk[i] = 0
            /\ IF \/ foff[j.f] > size[i] \/ (foff[j.f] + n1) % UINT < foff[j.f]
                  \/ foff[j.f] + n1 > MAXFILE * BSIZE
                 THEN job' = [job EXCEPT ![p] = NoJob] /\ UNCHANGED <<datalk, logged>>
                 ELSE /\ datalk' = [datalk EXCEPT ![i] = p] /\ logged' = [logged EXCEPT ![p] = {}]
                      /\ job' = [job EXCEPT ![p] =
                           [op |-> "write", f |-> j.f, n |-> j.n, i |-> j.i, pc |-> "copy",
                            n1 |-> n1, off |-> foff[j.f], tot |-> 0]]
  /\ UNCHANGED <<inuse, store, addrs, size, foff, text, calls>>

(* One block of writei; ok is FALSE when either_copyin fails after k bytes *)
(* of it: they are in the buffer, but not in the log.                      *)
Overlay(block, o, new) ==
  [c \in Cells |-> IF c \in o .. o + Len(new) - 1 THEN new[c - o + 1] ELSE block[c]]

WriteText(old, off, new) ==
  LET end == off + Len(new) IN
  [x \in 1 .. IF end > Len(old) THEN end ELSE Len(old) |->
     IF x \in off + 1 .. end THEN new[x - off] ELSE old[x]]

writei(p, ok) ==
  LET j == job[p]
      i == InodeOf[j.f]
      r == bmap(i, j.off \div BSIZE)
      o == j.off % BSIZE
      m == Min2(j.n1 - j.tot, BSIZE - o)
      src == [c \in 1 .. m |-> Byte(p, j.i + j.tot + c - 1)]
      torn(k) == [c \in 1 .. k |-> Torn]
  IN
  /\ j.op = "write" /\ j.pc = "copy" /\ j.tot < j.n1
  /\ j.off \div BSIZE < NDIRECT + NINDIRECT     \* or bmap panics
  /\ inuse' = r.inuse /\ addrs' = [addrs EXCEPT ![i] = r.addrs]
  /\ IF ok
       THEN /\ store' = [r.store EXCEPT ![r.addr] = Overlay(@, o, src)]
            /\ text' = [text EXCEPT ![i] = WriteText(@, j.off, src)]
            /\ logged' = [logged EXCEPT ![p] = @ \cup r.log \cup {r.addr}]
            /\ job' = [job EXCEPT ![p].tot = @ + m, ![p].off = @ + m]
       ELSE \E k \in 0 .. m - 1 :
            /\ store' = [r.store EXCEPT ![r.addr] = Overlay(@, o, torn(k))]
            /\ text' = [text EXCEPT ![i] = LET seen == Min2(k, Len(@) - j.off) IN
                                           IF seen > 0 THEN WriteText(@, j.off, torn(seen)) ELSE @]
            /\ logged' = [logged EXCEPT ![p] = @ \cup r.log]
            /\ job' = [job EXCEPT ![p].pc = "fail"]
  /\ UNCHANGED <<size, datalk, foff, calls>>

(* Mutant of SizeAfter: the size is set, not raised.                       *)
JustOff(off, old) == off

SizeAfter(off, old) == IF off > old THEN off ELSE old

(* The end of writei and of its turn in filewrite.                         *)
WriteDone(p) ==
  LET j == job[p]
      i == InodeOf[j.f]
  IN
  /\ j.op = "write" /\ j.pc # "lock" /\ (j.pc = "copy" => j.tot = j.n1)
  /\ size' = [size EXCEPT ![i] = SizeAfter(j.off, @)]
  /\ foff' = [foff EXCEPT ![j.f] = @ + j.tot]
  /\ datalk' = [datalk EXCEPT ![i] = 0]
  /\ logged' = [logged EXCEPT ![p] = @ \cup {INODES}]
  /\ job' = [job EXCEPT ![p] = IF j.pc = "fail" THEN NoJob
                               ELSE [op |-> "write", f |-> j.f, n |-> j.n,
                                     i |-> j.i + j.tot, pc |-> "lock"]]
  /\ UNCHANGED <<inuse, store, addrs, text, calls>>

Clamp(off, n, sz) == IF off + n > sz THEN sz - off ELSE n

(* fileread and readi.                                                     *)
fileread(p) ==
  LET j == job[p]
      i == InodeOf[j.f]
      off == foff[j.f]
      end == (off + j.n) % UINT
  IN
  /\ j.op = "read" /\ j.pc = "lock" /\ datalk[i] = 0
  /\ IF off > size[i] \/ end < off
       THEN job' = [job EXCEPT ![p] = NoJob] /\ UNCHANGED datalk
       ELSE /\ datalk' = [datalk EXCEPT ![i] = p]
            /\ job' = [job EXCEPT ![p] =
                 [op |-> "read", f |-> j.f, pc |-> "copy", off |-> off, got |-> <<>>,
                  n1 |-> Clamp(off, j.n, size[i])]]
  /\ UNCHANGED <<inuse, store, addrs, size, foff, logged, text, calls>>

readi(p) ==
  LET j == job[p]
      i == InodeOf[j.f]
      r == bmap(i, j.off \div BSIZE)
      o == j.off % BSIZE
      m == Min2(j.n1 - Len(j.got), BSIZE - o)
  IN
  /\ j.op = "read" /\ j.pc = "copy" /\ Len(j.got) < j.n1
  /\ inuse' = r.inuse /\ store' = r.store /\ addrs' = [addrs EXCEPT ![i] = r.addrs]
  /\ \/ job' = [job EXCEPT ![p].off = @ + m,
                           ![p].got = @ \o [c \in 1 .. m |-> r.store[r.addr][o + c - 1]]]
     \/ job' = [job EXCEPT ![p].pc = "fail"]
  /\ UNCHANGED <<size, datalk, foff, logged, text, calls>>

ReadDone(p) ==
  LET j == job[p] IN
  /\ j.op = "read" /\ j.pc # "lock" /\ (j.pc = "copy" => Len(j.got) = j.n1)
  /\ foff' = [foff EXCEPT ![j.f] = IF j.pc = "fail" THEN @ ELSE @ + Len(j.got)]
  /\ datalk' = [datalk EXCEPT ![InodeOf[j.f]] = 0] /\ job' = [job EXCEPT ![p] = NoJob]
  /\ UNCHANGED <<inuse, store, addrs, size, logged, text, calls>>

----------------------------------------------------------------------------
(* At the start one byte has been written through Appender, and nothing    *)
(* else, so that its next write is not aligned.                            *)
DataInit ==
  LET start == InodeOf[Appender] IN
  /\ inuse = {1}
  /\ store = [b \in DataBlocks |-> IF b = 1 THEN [ZeroBlock EXCEPT ![0] = Byte(0, 1)] ELSE ZeroBlock]
  /\ addrs = [i \in Inodes |-> [n \in 0 .. NDIRECT |-> IF i = start /\ n = 0 THEN 1 ELSE 0]]
  /\ size = [i \in Inodes |-> IF i = start THEN 1 ELSE 0]
  /\ text = [i \in Inodes |-> IF i = start THEN <<Byte(0, 1)>> ELSE <<>>]
  /\ datalk = [i \in Inodes |-> 0] /\ foff = [f \in Opens |-> IF f = Appender THEN 1 ELSE 0]
  /\ job = [p \in DataProcs |-> NoJob] /\ logged = [p \in DataProcs |-> {}] /\ calls = 0

DataNext ==
  \E p \in DataProcs :
    \/ CallFile(p) \/ \E f \in Opens : itrunc(p, f)
    \/ filewrite(p) \/ writei(p, TRUE) \/ writei(p, FALSE) \/ WriteDone(p)
    \/ fileread(p) \/ readi(p) \/ ReadDone(p)

DataSpec == DataInit /\ [][DataNext]_dataVars

----------------------------------------------------------------------------
DataTypeOK ==
  /\ inuse \subseteq DataBlocks /\ size \in [Inodes -> 0 .. MaxSize]
  /\ addrs \in [Inodes -> [0 .. NDIRECT -> {0} \cup DataBlocks]]
  /\ datalk \in [Inodes -> {0} \cup DataProcs] /\ foff \in [Opens -> 0 .. MaxSize]

(* A file holds what was written to it, through every truncation, short    *)
(* write and change from direct to indirect blocks; a fresh block shows    *)
(* nothing of its former file.  Where a copy failed half-way inside the    *)
(* file, a byte is the old or the new one.  What read returns is the       *)
(* contents from the offset on, one state of the file, whoever writes to   *)
(* it at the same time.                                                    *)
ByteAt(i, x) ==
  LET bn == x \div BSIZE
      b == IF bn < NDIRECT THEN addrs[i][bn] ELSE store[addrs[i][NDIRECT]][bn - NDIRECT]
  IN store[b][x % BSIZE]

ContentRight ==
  /\ \A i \in Inodes :
       datalk[i] = 0 => /\ size[i] = Len(text[i])
                        /\ \A x \in 0 .. size[i] - 1 : ByteAt(i, x) = text[i][x + 1]
  /\ \A p \in DataProcs :
       LET j == job[p] IN
       j.op = "read" /\ j.pc = "copy" =>
         /\ j.off <= Len(text[InodeOf[j.f]])
         /\ j.got = SubSeq(text[InodeOf[j.f]], foff[j.f] + 1, j.off)

(* A transaction of filewrite logs fewer blocks than the MAXOPBLOCKS that  *)
(* begin_op reserved for it, the data of a chunk that is not aligned, the  *)
(* indirect block, the inode and the bitmap: one fewer is what log_write   *)
(* needs so as never to panic (NoLogPanic).                                *)
LogFits == \A p \in DataProcs : Cardinality(logged[p]) <= MAXOPBLOCKS - 1
=============================================================================
