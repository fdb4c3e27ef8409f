-------------------------------- MODULE MkFs --------------------------------
(***************************************************************************)
(* The program that builds the disk image: mkfs/mkfs.c.  It has its own    *)
(* block map, iappend, which must agree with bmap of the kernel.           *)
(*                                                                         *)
(* A cell of a block holds a byte, a block number or an entry of the root  *)
(* directory, as in FileData; byte x of inode i is Content(i, x).          *)
(***************************************************************************)
EXTENDS FileData

CONSTANTS
  NMETA,         \* blocks before the first data block
  FileSizes,     \* sizes of the files on the command line: what bmap can map
  MaxFiles       \* bound: files on the command line

ASSUME MkFsAssumption ==
  /\ {NMETA, MaxFiles} \subseteq Nat /\ FileSizes \subseteq 0 .. (NDIRECT + NINDIRECT) * BSIZE

ROOT == 1
Content(i, x) == 100 * i + x

VARIABLES
  image,        \* dinodes: addrs and size; blocks; the bitmap
  freeblock,    \* the next free block
  entries,      \* inums entered in the root directory
  rest,         \* bytes of the last file that are still to be read
  phase         \* "build" or "done"

mkfsVars == <<image, freeblock, entries, rest, phase>>

NewDinode == [addrs |-> [n \in 0 .. NDIRECT |-> 0], size |-> 0]

(* Block fbn of inode i, allocated if it is not there.                     *)
Slot(m, i, fbn) ==
  LET d == m.img.dinode[i].addrs
      Own(k) == [m EXCEPT !.img.dinode[i].addrs[k] = m.free, !.free = @ + 1]
      m1 == IF d[NDIRECT] = 0 THEN Own(NDIRECT) ELSE m
      ib == m1.img.dinode[i].addrs[NDIRECT]
      c == fbn - NDIRECT
  IN IF fbn < NDIRECT
       THEN IF d[fbn] = 0 THEN [m |-> Own(fbn), x |-> m.free] ELSE [m |-> m, x |-> d[fbn]]
       ELSE IF m1.img.block[ib][c] # 0 THEN [m |-> m1, x |-> m1.img.block[ib][c]]
            ELSE [m |-> [m1 EXCEPT !.img.block[ib][c] = m1.free, !.free = @ + 1], x |-> m1.free]

(* iappend: the bytes xp from off on, block by block, then the new size.   *)
RECURSIVE Append1(_, _, _, _)
Append1(m, i, off, xp) ==
  LET fbn == off \div BSIZE
      o == off % BSIZE
      s == Slot(m, i, fbn)
      n1 == Min2(Len(xp), (fbn + 1) * BSIZE - off)
      bytes == [c \in Cells |-> IF c \in o .. o + n1 - 1 THEN xp[c - o + 1]
                                ELSE s.m.img.block[s.x][c]]
  IN IF xp = <<>> THEN [m EXCEPT !.img.dinode[i].size = off]
     ELSE Append1([s.m EXCEPT !.img.block[s.x] = bytes], i, off + n1, SubSeq(xp, n1 + 1, Len(xp)))

iappend(m, i, xp) == Append1(m, i, m.img.dinode[i].size, xp)

Entry(m, i) == iappend(m, ROOT, <<i>>)
Now == [img |-> image, free |-> freeblock]
Becomes(m) == image' = m.img /\ freeblock' = m.free

(* main, for one argument: ialloc, and the entry of the file in the root.  *)
ialloc(sz) ==
  LET i == Len(entries) IN
  /\ phase = "build" /\ rest = 0 /\ i < MaxFiles + 2
  /\ Becomes(Entry([Now EXCEPT !.img.dinode = [x \in DOMAIN @ \cup {i} |->
                                   IF x = i THEN NewDinode ELSE @[x]]], i))
  /\ entries' = Append(entries, i) /\ rest' = sz /\ UNCHANGED phase

(* One turn of its read loop.                                              *)
ReadFile ==
  LET i == Len(entries) - 1
      n == Min2(rest, BSIZE)
  IN
  /\ phase = "build" /\ rest > 0
  /\ Becomes(iappend(Now, i, [k \in 1 .. n |-> Content(i, image.dinode[i].size + k - 1)]))
  /\ rest' = rest - n /\ UNCHANGED <<entries, phase>>

(* Mutant of mkfs_balloc: one block too few.                               *)

OneTooFew ==
  /\ phase = "build" /\ rest = 0
  /\ image' = [image EXCEPT !.dinode[ROOT].size = ((@ \div BSIZE) + 1) * BSIZE,
                            !.bitmap = 0 .. freeblock - 2]
  /\ phase' = "done" /\ UNCHANGED <<freeblock, entries, rest>>

RootSize(sz) == ((sz \div BSIZE) + 1) * BSIZE

(* The end of main: the size of the root rounded up, the bitmap.           *)
mkfs_balloc ==
  /\ phase = "build" /\ rest = 0
  /\ image' = [image EXCEPT !.dinode[ROOT].size = RootSize(@),
                            !.bitmap = 0 .. freeblock - 1]
  /\ phase' = "done" /\ UNCHANGED <<freeblock, entries, rest>>

Blank == [img |-> [dinode |-> [x \in {ROOT} |-> NewDinode], bitmap |-> {},
                   block |-> [b \in 0 .. NMETA + 4 * MaxFiles + 4 |-> ZeroBlock]],
          free |-> NMETA]

MkFsInit ==
  LET m == Entry(Entry(Blank, ROOT), ROOT) IN
  /\ image = m.img /\ freeblock = m.free /\ entries = <<ROOT, ROOT>> /\ rest = 0 /\ phase = "build"

MkFsNext == (\E sz \in FileSizes : ialloc(sz)) \/ ReadFile \/ mkfs_balloc

MkFsSpec == MkFsInit /\ [][MkFsNext]_mkfsVars

----------------------------------------------------------------------------
(* The address bmap finds for block bn, 0 if it would allocate one.        *)
BmapFinds(i, bn) ==
  LET a == image.dinode[i].addrs IN
  IF bn < NDIRECT THEN a[bn]
  ELSE IF a[NDIRECT] = 0 THEN 0 ELSE image.block[a[NDIRECT]][bn - NDIRECT]

(* The image is one the kernel can start from: every byte of every file is *)
(* where bmap looks for it, and so is every entry of the root; no block    *)
(* serves two purposes, and the bitmap has exactly the blocks in use.      *)
(* Below the size of a file every block is mapped, or a read of the kernel *)
(* would allocate it, outside a transaction.  The size of the root is      *)
(* rounded up by a whole block when its entries fill their blocks exactly, *)
(* and then its last block is missing; only then.                          *)
ImageSound ==
  phase = "done" =>
    LET all == DOMAIN image.dinode
        used == UNION {{<<i, n, BmapFinds(i, n)>> : n \in 0 .. NDIRECT + NINDIRECT - 1} : i \in all}
                \cup {<<i, -1, image.dinode[i].addrs[NDIRECT]>> : i \in all}
        mapped == {u \in used : u[3] # 0}
    IN /\ \A i \in all \ {ROOT} : \A x \in 0 .. image.dinode[i].size - 1 :
            image.block[BmapFinds(i, x \div BSIZE)][x % BSIZE] = Content(i, x)
       /\ \A k \in 1 .. Len(entries) :
            image.block[BmapFinds(ROOT, (k - 1) \div BSIZE)][(k - 1) % BSIZE] = entries[k]
       /\ image.bitmap = 0 .. NMETA - 1 \cup {u[3] : u \in mapped}
       /\ \A u, w \in mapped : u[3] = w[3] => u = w
       /\ \A i \in all : \A bn \in 0 .. ((image.dinode[i].size + BSIZE - 1) \div BSIZE) - 1 :
            \/ BmapFinds(i, bn) # 0
            \/ i = ROOT /\ Len(entries) % BSIZE = 0 /\ bn = Len(entries) \div BSIZE
=============================================================================
