---------------------------- MODULE CacheProofs ----------------------------
(***************************************************************************)
(* The buffer cache of bio.c keeps every block coherent, for any number of *)
(* buffers, blocks and processes.                                          *)
(***************************************************************************)
EXTENDS BufferCache, FiniteSetTheorems, WellFoundedInduction, TLAPS

(* The processes between bget and the end of brelse of buffer b.           *)
Users(b) == {p \in DiskProcs : dpc[p] # "idle" /\ mybuf[p] = b}

Pinned(b) == IF blockno[b] \in pins THEN 1 ELSE 0

ValidBufs == {b \in Bufs : valid[b]}

(* A buffer in use keeps its block, no block has two buffers, a pinned     *)
(* block has a valid one, and refcnt counts the users and the pin.         *)
UseInv ==
  /\ \A p \in DiskProcs :
       dpc[p] # "idle" => want[p] \in DiskBlocks /\ blockno[mybuf[p]] = want[p]
  /\ \A b, c \in Bufs : b # c /\ blockno[b] = blockno[c] => blockno[b] = 0
  /\ \A k \in pins : \E b \in ValidBufs : blockno[b] = k

CountInv ==
  \A b \in Bufs : IsFiniteSet(Users(b)) /\ refcnt[b] = Cardinality(Users(b)) + Pinned(b)

(* The sleep lock of a buffer is held by the process that works on it.     *)
Holds == {"reading", "hold", "dirty", "writing", "done"}

LockInv ==
  /\ \A p \in DiskProcs : dpc[p] \in Holds => locked[mybuf[p]] = p
  /\ \A b \in Bufs :
       locked[b] # Nobody => mybuf[locked[b]] = b /\ dpc[locked[b]] \in Holds

(* A request is that of the holder of the buffer, for its block; it reads  *)
(* when the buffer is not valid yet and writes when it is.                 *)
PortInv ==
  /\ \A b \in Bufs :
       port[b] # "idle" => locked[b] # Nobody /\ dpc[locked[b]] \in {"reading", "writing"}
  /\ \A p \in DiskProcs : dpc[p] \in {"reading", "writing"} => port[mybuf[p]] # "idle"

ReadOp(k) == <<FALSE, k>>
WriteOp(k) == <<TRUE, k>>

OpInv ==
  \A p \in DiskProcs : /\ dpc[p] = "reading" => op[mybuf[p]] = ReadOp(want[p])
                       /\ dpc[p] = "writing" => op[mybuf[p]] = WriteOp(want[p])

(* A valid buffer, and one that the disk has just filled, has the last     *)
(* value; so has the disk, unless the block is pinned or about to be       *)
(* written by its holder.                                                  *)
ValidInv ==
  \A p \in DiskProcs :
    /\ dpc[p] = "reading" => mybuf[p] \notin ValidBufs
    /\ dpc[p] \in {"hold", "dirty", "writing", "done"} => mybuf[p] \in ValidBufs

Unwritten(p) == dpc[p] = "dirty" \/ (dpc[p] = "writing" /\ port[mybuf[p]] # "served")

DataInv ==
  /\ \A b \in ValidBufs : blockno[b] \in DiskBlocks /\ bdata[b] = latest[blockno[b]]
  /\ \A p \in DiskProcs :
       port[mybuf[p]] = "served" =>
         /\ dpc[p] = "reading" => bdata[mybuf[p]] = latest[want[p]]
         /\ dpc[p] = "writing" => platter[want[p]] = latest[want[p]]
  /\ \A k \in DiskBlocks :
       platter[k] # latest[k] => k \in pins \/ \E p \in DiskProcs : want[p] = k /\ Unwritten(p)

CacheInv ==
  /\ CacheTypeOK /\ UseInv /\ CountInv /\ LockInv /\ PortInv /\ OpInv /\ ValidInv /\ DataInv

(* The types of what a holder changes, of the requests, of the block       *)
(* numbers and of the values.                                              *)
HandOK ==
  /\ dpc \in [DiskProcs -> Points] /\ mybuf \in [DiskProcs -> Bufs]
  /\ locked \in [Bufs -> DiskProcs \cup {Nobody}]
PortOK == port \in [Bufs -> {"idle", "asked", "served"}]
NoOK == blockno \in [Bufs -> DiskBlocks \cup {0}] /\ want \in [DiskProcs -> Nat]
DataOK ==
  /\ bdata \in [Bufs -> Values] /\ pins \in SUBSET DiskBlocks
  /\ latest \in [DiskBlocks -> Values] /\ platter \in [DiskBlocks -> Values]

----------------------------------------------------------------------------
LEMMA TypesSplit ==
  FieldsOK <=> HandOK /\ PortOK /\ NoOK /\ DataOK /\ reads \in Nat
  BY Zenon DEF FieldsOK, HandOK, PortOK, NoOK, DataOK

LEMMA StepCases ==
  ASSUME [CacheNext]_cacheVars
  PROVE  \/ \E p \in DiskProcs : \/ acquiresleep(p) \/ bread(p) \/ Modify(p) \/ bwrite(p)
                                 \/ bpin(p) \/ bunpin(p) \/ releasesleep(p) \/ brelse(p)
                                 \/ \E k \in DiskBlocks : bget(p, k)
         \/ \E b \in Bufs : DiskActs(b)
         \/ UNCHANGED cacheVars
  BY Zenon DEF CacheNext, CacheStep

(* What the steps do to the set of valid buffers.                          *)
LEMMA ValidBread ==
  ASSUME CacheTypeOK, NEW p \in DiskProcs, bread(p)
  PROVE  ValidBufs' = ValidBufs \cup {mybuf[p]}
<1>1. mybuf[p] \in Bufs /\ Bufs' = Bufs
  BY Zenon DEF CacheTypeOK, FieldsOK, Bufs
<1>2. valid' = [valid EXCEPT ![mybuf[p]] = TRUE] /\ valid \in [Bufs -> BOOLEAN]
  BY Zenon DEF bread, CacheTypeOK
<1>. QED
  BY Zenon, <1>1, <1>2 DEF ValidBufs

LEMMA ValidSame ==
  ASSUME valid' = valid
  PROVE  ValidBufs' = ValidBufs
  BY Zenon DEF ValidBufs, Bufs

LEMMA ValidEvict ==
  ASSUME CacheTypeOK, NEW b \in Bufs, valid' = [valid EXCEPT ![b] = FALSE]
  PROVE  ValidBufs' = ValidBufs \ {b}
<1>1. Bufs' = Bufs
  BY Zenon DEF Bufs
<1>. QED
  BY Zenon, <1>1 DEF ValidBufs, CacheTypeOK

LEMMA Highest ==
  ASSUME NEW S \in SUBSET Bufs, S # {}, NBUF \in Nat
  PROVE  \E i \in S : \A j \in S : j <= i
<1>. DEFINE T == {NBUF - i : i \in S}
<1>1. T \subseteq Nat /\ T # {}
  <2>1. \A i \in S : NBUF - i \in Nat
    BY DEF Bufs
  <2>. QED
    BY Zenon, <2>1
<1>2. PICK x \in T : \A y \in T : ~ (<<y, x>> \in OpToRel(<, Nat))
  BY Zenon, <1>1, NatLessThanWellFounded, WFMin
<1>3. \A y \in T : ~ (y < x)
  BY Zenon, <1>1, <1>2 DEF OpToRel
<1>4. PICK i \in S : x = NBUF - i
  OBVIOUS
<1>5. ASSUME NEW j \in S  PROVE j <= i
  <2>1. NBUF - j \in T
    OBVIOUS
  <2>2. ~ (NBUF - j < NBUF - i)
    BY Zenon, <2>1, <1>3, <1>4
  <2>. QED
    BY <2>2 DEF Bufs
<1>. QED
  BY Zenon, <1>5

LEMMA Rigid ==
  Bufs' = Bufs /\ DiskBlocks' = DiskBlocks /\ Values' = Values /\ Points' = Points
  BY Zenon DEF Bufs, DiskBlocks, Values, Points

LEMMA Firsts == 1 \in Bufs /\ DiskBlocks \subseteq Nat
  BY CacheAssumption DEF Bufs, DiskBlocks

(* What the steps do, with ValidBufs for valid and without the requests.   *)
Blocked(p) ==
  /\ locked[mybuf[p]] # Nobody /\ dpc' = [dpc EXCEPT ![p] = "lsleep"]
  /\ UNCHANGED <<locked, port, bdata>>

Hit(p) ==
  /\ locked[mybuf[p]] = Nobody /\ locked' = [locked EXCEPT ![mybuf[p]] = p]
  /\ mybuf[p] \in ValidBufs /\ dpc' = [dpc EXCEPT ![p] = "hold"] /\ UNCHANGED <<port, bdata>>

Miss(p) ==
  /\ locked[mybuf[p]] = Nobody /\ locked' = [locked EXCEPT ![mybuf[p]] = p]
  /\ mybuf[p] \notin ValidBufs /\ dpc' = [dpc EXCEPT ![p] = "reading"]
  /\ port[mybuf[p]] = "idle" /\ port' = [port EXCEPT ![mybuf[p]] = "asked"]
  /\ bdata' = bdata

LEMMA AcquireEffect ==
  ASSUME CacheTypeOK, NEW p \in DiskProcs, acquiresleep(p)
  PROVE  /\ dpc[p] = "lock" /\ ValidBufs' = ValidBufs
         /\ UNCHANGED <<lru, blockno, refcnt, mybuf, want, reads, latest, pins, platter>>
<1>1. valid' = valid
  BY Zenon DEF acquiresleep, cache
<1>2. ValidBufs' = ValidBufs
  BY Zenon, <1>1, ValidSame
<1>. QED
  BY Zenon, <1>2 DEF acquiresleep, Goes, Ask, portVars, cache

LEMMA AcquireCases ==
  ASSUME CacheTypeOK, NEW p \in DiskProcs, acquiresleep(p)
  PROVE  Blocked(p) \/ Hit(p) \/ Miss(p)
<1>1. mybuf[p] \in Bufs
  BY Zenon DEF CacheTypeOK, FieldsOK
<1>2. bdata = [bdata EXCEPT ![mybuf[p]] = bdata[mybuf[p]]]
  BY Zenon DEF CacheTypeOK, FieldsOK
<1>. QED
  BY Zenon, <1>1, <1>2 DEF acquiresleep, Goes, Ask, portVars, cache, ValidBufs, Blocked, Hit,
     Miss

LEMMA BreadEffect ==
  ASSUME CacheTypeOK, NEW p \in DiskProcs, bread(p)
  PROVE  /\ dpc[p] = "reading" /\ dpc' = [dpc EXCEPT ![p] = "hold"]
         /\ port[mybuf[p]] = "served" /\ port' = [port EXCEPT ![mybuf[p]] = "idle"]
         /\ ValidBufs' = ValidBufs \cup {mybuf[p]}
         /\ UNCHANGED <<bdata, platter, lru, blockno, refcnt, locked, mybuf, want, reads,
                        latest, pins>>
  BY Zenon, ValidBread DEF bread, Goes, Done

LEMMA ModifyEffect ==
  ASSUME CacheTypeOK, UseInv, NEW p \in DiskProcs, Modify(p)
  PROVE  /\ dpc[p] = "hold" /\ dpc' = [dpc EXCEPT ![p] = "dirty"] /\ port[mybuf[p]] = "idle"
         /\ \E v \in Values : /\ bdata' = [bdata EXCEPT ![mybuf[p]] = v]
                              /\ latest' = [latest EXCEPT ![want[p]] = v]
         /\ ValidBufs' = ValidBufs
         /\ UNCHANGED <<port, platter, lru, blockno, refcnt, locked, mybuf, want, reads, pins>>
<1>. DEFINE v == (latest[want[p]] + 1) % 2
<1>1. latest[want[p]] \in 0 .. 1
  BY Zenon DEF Modify, Goes, UseInv, CacheTypeOK, FieldsOK, Values
<1>2. v \in Values
  BY <1>1 DEF Values
<1>3. /\ bdata' = [bdata EXCEPT ![mybuf[p]] = v] /\ latest' = [latest EXCEPT ![want[p]] = v]
      /\ valid' = valid
  BY Zenon DEF Modify, Fill, cache
<1>4. ValidBufs' = ValidBufs
  BY Zenon, <1>3, ValidSame
<1>. HIDE DEF v
<1>. QED
  BY Zenon, <1>3, <1>4, <1>2 DEF Modify, Goes, Fill, cache

LEMMA BwriteEffect ==
  ASSUME CacheTypeOK, NEW p \in DiskProcs, bwrite(p)
  PROVE  /\ dpc[p] = IF want[p] \in pins THEN "hold" ELSE "dirty"
         /\ dpc' = [dpc EXCEPT ![p] = "writing"]
         /\ locked[mybuf[p]] = p /\ port[mybuf[p]] = "idle"
         /\ port' = [port EXCEPT ![mybuf[p]] = "asked"]
         /\ bdata' = bdata
         /\ ValidBufs' = ValidBufs
         /\ UNCHANGED <<platter, lru, blockno, refcnt, locked, mybuf, want, reads, latest>>
         /\ pins' = pins
<1>1. valid' = valid
  BY Zenon DEF bwrite, cache
<1>2. ValidBufs' = ValidBufs
  BY Zenon, <1>1, ValidSame
<1>3. bdata = [bdata EXCEPT ![mybuf[p]] = bdata[mybuf[p]]]
  BY Zenon DEF CacheTypeOK, FieldsOK
<1>. QED
  BY Zenon, <1>2, <1>3 DEF bwrite, Goes, Ask, cache

LEMMA BpinEffect ==
  ASSUME CacheTypeOK, UseInv, NEW p \in DiskProcs, bpin(p)
  PROVE  /\ dpc[p] = "dirty" /\ dpc' = [dpc EXCEPT ![p] = "done"] /\ ValidBufs' = ValidBufs
         /\ want[p] \in DiskBlocks
         /\ \/ want[p] \in pins /\ UNCHANGED <<refcnt, pins>>
            \/ /\ want[p] \notin pins /\ pins' = pins \cup {want[p]}
               /\ refcnt' = [refcnt EXCEPT ![mybuf[p]] = @ + 1]
         /\ UNCHANGED <<port, bdata, platter, lru, blockno, locked, mybuf, want, reads, latest>>
<1>1. valid' = valid
  BY Zenon DEF bpin
<1>2. ValidBufs' = ValidBufs
  BY Zenon, <1>1, ValidSame
<1>3. want[p] \in DiskBlocks
  BY Zenon DEF bpin, Goes, UseInv
<1>. QED
  BY Zenon, <1>2, <1>3 DEF bpin, Goes, portVars

LEMMA BunpinEffect ==
  ASSUME CacheTypeOK, NEW p \in DiskProcs, bunpin(p)
  PROVE  /\ dpc[p] = "writing" /\ dpc' = [dpc EXCEPT ![p] = "done"] /\ ValidBufs' = ValidBufs
         /\ port[mybuf[p]] = "served" /\ port' = [port EXCEPT ![mybuf[p]] = "idle"]
         /\ \/ want[p] \notin pins /\ UNCHANGED <<refcnt, pins>>
            \/ /\ want[p] \in pins /\ pins' = pins \ {want[p]}
               /\ refcnt' = [refcnt EXCEPT ![mybuf[p]] = @ - 1]
         /\ UNCHANGED <<bdata, platter, lru, blockno, locked, mybuf, want, reads, latest>>
<1>1. valid' = valid
  BY Zenon DEF bunpin
<1>2. ValidBufs' = ValidBufs
  BY Zenon, <1>1, ValidSame
<1>. QED
  BY Zenon, <1>2 DEF bunpin, Goes, Done

LEMMA ReleaseEffect ==
  ASSUME CacheTypeOK, NEW p \in DiskProcs, releasesleep(p)
  PROVE  /\ dpc[p] \in {"hold", "done"} /\ locked[mybuf[p]] = p
         /\ locked' = [locked EXCEPT ![mybuf[p]] = Nobody]
         /\ dpc' \in [DiskProcs -> Points] /\ dpc'[p] = "brelse"
         /\ \A q \in DiskProcs \ {p} :
              dpc'[q] = dpc[q] \/ (dpc[q] = "lsleep" /\ dpc'[q] = "lock")
         /\ ValidBufs' = ValidBufs
         /\ UNCHANGED <<port, bdata, platter, lru, blockno, refcnt, mybuf, want, reads, latest,
                        pins>>
<1>1. valid' = valid
  BY Zenon DEF releasesleep, cache
<1>2. ValidBufs' = ValidBufs
  BY Zenon, <1>1, ValidSame
<1>3. /\ dpc' \in [DiskProcs -> Points] /\ dpc'[p] = "brelse"
      /\ \A q \in DiskProcs \ {p} :
           dpc'[q] = dpc[q] \/ (dpc[q] = "lsleep" /\ dpc'[q] = "lock")
  BY Zenon DEF releasesleep, CacheTypeOK, FieldsOK, Points
<1>. QED
  BY Zenon, <1>2, <1>3 DEF releasesleep, portVars, cache

LEMMA BrelseEffect ==
  ASSUME CacheTypeOK, NEW p \in DiskProcs, brelse(p)
  PROVE  /\ dpc[p] = "brelse" /\ dpc' = [dpc EXCEPT ![p] = "idle"] /\ ValidBufs' = ValidBufs
         /\ refcnt' = [refcnt EXCEPT ![mybuf[p]] = @ - 1]
         /\ lru' \in {lru, ToFront(mybuf[p])}
         /\ mybuf' = [mybuf EXCEPT ![p] = 1] /\ want' = [want EXCEPT ![p] = 1]
         /\ UNCHANGED <<port, bdata, platter, blockno, locked, reads, latest, pins>>
<1>1. valid' = valid
  BY Zenon DEF brelse
<1>2. ValidBufs' = ValidBufs
  BY Zenon, <1>1, ValidSame
<1>. QED
  BY Zenon, <1>2 DEF brelse, Goes, portVars

LEMMA IdleEffect ==
  ASSUME UNCHANGED cacheVars
  PROVE  /\ ValidBufs' = ValidBufs
         /\ UNCHANGED <<port, bdata, platter, lru, blockno, refcnt, locked, dpc, mybuf, want,
                        reads, latest, pins>>
  BY Zenon, ValidSame DEF cacheVars, portVars, cache

(* bget finds the buffer of the block, or takes one without references.    *)
Found(p, b, k) ==
  /\ mybuf' = [mybuf EXCEPT ![p] = b] /\ blockno[b] = k
  /\ refcnt' = [refcnt EXCEPT ![b] = @ + 1] /\ blockno' = blockno /\ ValidBufs' = ValidBufs

Evicted(p, b, k) ==
  /\ mybuf' = [mybuf EXCEPT ![p] = b] /\ (\A c \in Bufs : blockno[c] # k)
  /\ refcnt[b] = 0 /\ refcnt' = [refcnt EXCEPT ![b] = 1]
  /\ blockno' = [blockno EXCEPT ![b] = k] /\ ValidBufs' = ValidBufs \ {b}

LEMMA BgetEffect ==
  ASSUME CacheTypeOK, NEW p \in DiskProcs, NEW k \in DiskBlocks, bget(p, k)
  PROVE  /\ dpc[p] = "idle" /\ dpc' = [dpc EXCEPT ![p] = "lock"]
         /\ want' = [want EXCEPT ![p] = k]
         /\ UNCHANGED <<port, bdata, platter, lru, locked, latest, pins>>
  BY Zenon DEF bget, Goes, portVars

LEMMA BgetCases ==
  ASSUME CacheTypeOK, NEW p \in DiskProcs, NEW k \in DiskBlocks, bget(p, k)
  PROVE  \E b \in Bufs : Found(p, b, k) \/ Evicted(p, b, k)
<1>1. CASE \E b \in Bufs : Cached(b, k)
  <2>. DEFINE b == CHOOSE c \in Bufs : Cached(c, k)
  <2>1. b \in Bufs /\ blockno[b] = k
    BY Zenon, <1>1 DEF Cached
  <2>2. /\ refcnt' = [refcnt EXCEPT ![b] = @ + 1] /\ mybuf' = [mybuf EXCEPT ![p] = b]
        /\ blockno' = blockno /\ valid' = valid
    BY Zenon, <1>1 DEF bget
  <2>. QED
    BY Zenon, <2>1, <2>2, ValidSame DEF Found
<1>2. CASE ~ \E b \in Bufs : Cached(b, k)
  <2>. DEFINE i == CHOOSE i \in Unused : \A j \in Unused : j <= i
              b == lru[i]
  <2>1. Unused # {} /\ Unused \subseteq Bufs
    BY Zenon, <1>2 DEF bget, Unused, CacheTypeOK, ListOK
  <2>2. i \in Unused
    BY Zenon, <2>1, Highest, CacheAssumption
  <2>3. b \in Bufs /\ refcnt[b] = 0
    BY Zenon, <2>1, <2>2 DEF Unused, CacheTypeOK, ListOK
  <2>4. /\ blockno' = [blockno EXCEPT ![b] = k] /\ valid' = [valid EXCEPT ![b] = FALSE]
        /\ refcnt' = [refcnt EXCEPT ![b] = 1] /\ mybuf' = [mybuf EXCEPT ![p] = b]
    BY Zenon, <1>2 DEF bget
  <2>5. ValidBufs' = ValidBufs \ {b}
    BY Zenon, <2>3, <2>4, ValidEvict
  <2>. QED
    BY Zenon, <1>2, <2>3, <2>4, <2>5 DEF Cached, Evicted
<1>. QED
  BY Zenon, <1>1, <1>2

(* The disk serves the request of the holder of the buffer.                *)
Reads(b, p) ==
  /\ dpc[p] = "reading" /\ platter' = platter
  /\ bdata' = [bdata EXCEPT ![b] = platter[want[p]]]

Writes(b, p) ==
  /\ dpc[p] = "writing" /\ bdata' = bdata
  /\ platter' = [platter EXCEPT ![want[p]] = bdata[b]]

LEMMA DiskEffect ==
  ASSUME NEW b \in Bufs, DiskActs(b)
  PROVE  /\ port[b] = "asked" /\ port' = [port EXCEPT ![b] = "served"] /\ ValidBufs' = ValidBufs
         /\ UNCHANGED <<lru, blockno, refcnt, locked, dpc, mybuf, want, reads, latest, pins>>
<1>1. valid' = valid
  BY Zenon DEF DiskActs, cache
<1>2. ValidBufs' = ValidBufs
  BY Zenon, <1>1, ValidSame
<1>. QED
  BY Zenon, <1>2 DEF DiskActs, Serve, cache

LEMMA DiskCases ==
  ASSUME CacheTypeOK, UseInv, LockInv, PortInv, OpInv, NEW b \in Bufs, DiskActs(b)
  PROVE  \E p \in DiskProcs :
           /\ locked[b] = p /\ mybuf[p] = b /\ want[p] \in DiskBlocks /\ blockno[b] = want[p]
           /\ Reads(b, p) \/ Writes(b, p)
<1>1. PICK p \in DiskProcs : locked[b] = p /\ mybuf[p] = b /\ dpc[p] \in {"reading", "writing"}
  BY DEF DiskActs, Serve, PortInv, LockInv, CacheTypeOK, FieldsOK
<1>2. want[p] \in DiskBlocks /\ blockno[b] = want[p]
  BY Zenon, <1>1 DEF UseInv
<1>3. CASE dpc[p] = "reading"
  <2>1. op[b] = <<FALSE, want[p]>>
    BY Zenon, <1>1, <1>3 DEF OpInv, ReadOp
  <2>2. op[b][1] = FALSE /\ op[b][2] = want[p]
    BY <2>1
  <2>3. Reads(b, p)
    BY Zenon, <1>3, <2>2 DEF DiskActs, Serve, Reads
  <2>. QED
    BY Zenon, <1>1, <1>2, <2>3
<1>4. CASE dpc[p] = "writing"
  <2>1. op[b] = <<TRUE, want[p]>>
    BY Zenon, <1>1, <1>4 DEF OpInv, WriteOp
  <2>2. op[b][1] = TRUE /\ op[b][2] = want[p]
    BY <2>1
  <2>3. Writes(b, p)
    BY Zenon, <1>4, <2>2 DEF DiskActs, Serve, Writes
  <2>. QED
    BY Zenon, <1>1, <1>2, <2>3
<1>. QED
  BY <1>1, <1>3, <1>4, Zenon

(* The list after brelse has the same buffers.                             *)
LEMMA FrontEffect ==
  ASSUME ListOK, NEW b \in Bufs
  PROVE  /\ ToFront(b) \in [Bufs -> Bufs]
         /\ \A c \in Bufs : \E i \in Bufs : ToFront(b)[i] = c
<1>. DEFINE n == CHOOSE i \in Bufs : lru[i] = b
            f == [i \in Bufs |-> IF i = 1 THEN b ELSE IF i <= n THEN lru[i - 1] ELSE lru[i]]
<1>1. ToFront(b) = f
  BY Zenon DEF ToFront
<1>2. n \in Bufs /\ lru[n] = b
  BY Zenon DEF ListOK
<1>3. lru \in [Bufs -> Bufs]
  BY Zenon DEF ListOK
<1>. HIDE DEF n
<1>4. ASSUME NEW i \in Bufs  PROVE f[i] \in Bufs
  <2>1. i # 1 => i - 1 \in Bufs
    BY CacheAssumption DEF Bufs
  <2>. QED
    BY Zenon, <2>1, <1>3
<1>5. ASSUME NEW c \in Bufs  PROVE \E i \in Bufs : f[i] = c
  <2>1. PICK j \in Bufs : lru[j] = c
    BY Zenon DEF ListOK
  <2>2. CASE j < n
    <3>1. j + 1 \in Bufs /\ j + 1 # 1 /\ j + 1 <= n /\ (j + 1) - 1 = j
      BY <2>2, <1>2, CacheAssumption DEF Bufs
    <3>. QED
      BY Zenon, <3>1, <2>1
  <2>3. CASE j = n
    <3>1. 1 \in Bufs
      BY CacheAssumption DEF Bufs
    <3>. QED
      BY Zenon, <3>1, <2>1, <2>3, <1>2
  <2>4. CASE j > n
    <3>1. j # 1 /\ ~ (j <= n)
      BY <2>4, <1>2, CacheAssumption DEF Bufs
    <3>. QED
      BY Zenon, <3>1, <2>1
  <2>. QED
    BY <2>2, <2>3, <2>4, <1>2, CacheAssumption DEF Bufs
<1>. QED
  BY Zenon, <1>1, <1>4, <1>5


(* The list keeps every buffer: only brelse changes it.                    *)
LEMMA ListStep ==
  ASSUME CacheTypeOK, [CacheNext]_cacheVars
  PROVE  ListOK'
<1>1. ListOK
  BY Zenon DEF CacheTypeOK
<1>2. CASE lru' = lru
  BY Zenon, <1>1, <1>2, Rigid DEF ListOK
<1>3. ASSUME NEW p \in DiskProcs, brelse(p)  PROVE ListOK'
  <2>1. mybuf[p] \in Bufs
    BY Zenon DEF CacheTypeOK, FieldsOK
  <2>2. CASE lru' = ToFront(mybuf[p])
    BY <1>1, <2>1, <2>2, FrontEffect, Rigid, Zenon DEF ListOK
  <2>. QED
    BY Zenon, <1>2, <1>3, <2>2, BrelseEffect
<1>. QED
  BY Zenon, <1>2, <1>3, StepCases DEF acquiresleep, bread, Modify, bwrite, bpin, bunpin,
     releasesleep, bget, DiskActs, cache, cacheVars

(* Every field keeps its type.                                             *)
LEMMA HandStep ==
  ASSUME CacheTypeOK, HandOK, UseInv, [CacheNext]_cacheVars
  PROVE  HandOK'
<1>1. ASSUME NEW p \in DiskProcs, NEW k \in DiskBlocks, bget(p, k)  PROVE HandOK'
  BY <1>1, BgetCases, BgetEffect, Rigid DEF Found, Evicted, HandOK, Points
<1>2. ASSUME NEW p \in DiskProcs, acquiresleep(p)  PROVE HandOK'
  BY <1>2, AcquireCases, AcquireEffect, Rigid DEF Blocked, Hit, Miss, HandOK, Points
<1>3. ASSUME NEW p \in DiskProcs, bread(p)  PROVE HandOK'
  BY Zenon, <1>3, BreadEffect, Rigid DEF HandOK, Points
<1>4. ASSUME NEW p \in DiskProcs, Modify(p)  PROVE HandOK'
  BY Zenon, <1>4, ModifyEffect, Rigid DEF HandOK, Points
<1>5. ASSUME NEW p \in DiskProcs, bwrite(p)  PROVE HandOK'
  BY ZenonT(40), <1>5, BwriteEffect, Rigid DEF HandOK, Points
<1>6. ASSUME NEW p \in DiskProcs, bpin(p)  PROVE HandOK'
  BY Zenon, <1>6, BpinEffect, Rigid DEF HandOK, Points
<1>7. ASSUME NEW p \in DiskProcs, bunpin(p)  PROVE HandOK'
  BY Zenon, <1>7, BunpinEffect, Rigid DEF HandOK, Points
<1>8. ASSUME NEW p \in DiskProcs, releasesleep(p)  PROVE HandOK'
  BY Zenon, <1>8, ReleaseEffect, Rigid DEF HandOK
<1>9. ASSUME NEW p \in DiskProcs, brelse(p)  PROVE HandOK'
  BY Zenon, <1>9, BrelseEffect, Firsts, Rigid DEF HandOK, Points
<1>10. ASSUME NEW b \in Bufs, DiskActs(b)  PROVE HandOK'
  BY Zenon, <1>10, DiskEffect, Rigid DEF HandOK
<1>11. CASE UNCHANGED cacheVars
  BY Zenon, <1>11, IdleEffect, Rigid DEF HandOK
<1>. QED
  BY Zenon, StepCases, <1>1, <1>2, <1>3, <1>4, <1>5, <1>6, <1>7, <1>8, <1>9, <1>10, <1>11

LEMMA RequestStep ==
  ASSUME CacheTypeOK, PortOK, UseInv, [CacheNext]_cacheVars
  PROVE  PortOK'
<1>1. CASE port' = port
  BY Zenon, <1>1, Rigid DEF PortOK
<1>2. ASSUME NEW p \in DiskProcs, acquiresleep(p)  PROVE PortOK'
  BY ZenonT(40), <1>1, <1>2, AcquireCases, Rigid DEF Blocked, Hit, Miss, PortOK
<1>3. ASSUME NEW p \in DiskProcs, bread(p) \/ bwrite(p) \/ bunpin(p)  PROVE PortOK'
  BY <1>3, BreadEffect, BwriteEffect, BunpinEffect, Rigid DEF PortOK
<1>4. ASSUME NEW b \in Bufs, DiskActs(b)  PROVE PortOK'
  BY Zenon, <1>4, DiskEffect, Rigid DEF PortOK
<1>. QED
  BY Zenon, StepCases, <1>1, <1>2, <1>3, <1>4, BgetEffect, ModifyEffect, BpinEffect,
     ReleaseEffect, BrelseEffect, IdleEffect

LEMMA NumberStep ==
  ASSUME CacheTypeOK, NoOK, UseInv, [CacheNext]_cacheVars
  PROVE  NoOK'
<1>1. CASE UNCHANGED <<blockno, want>>
  BY Zenon, <1>1, Rigid DEF NoOK
<1>2. ASSUME NEW p \in DiskProcs, NEW k \in DiskBlocks, bget(p, k)  PROVE NoOK'
  BY <1>2, BgetCases, BgetEffect, Firsts, Rigid DEF Found, Evicted, NoOK
<1>3. ASSUME NEW p \in DiskProcs, brelse(p)  PROVE NoOK'
  BY <1>3, BrelseEffect, Firsts, Rigid DEF NoOK
<1>. QED
  BY Zenon, StepCases, <1>1, <1>2, <1>3, AcquireEffect, BreadEffect, ModifyEffect,
     BwriteEffect, BpinEffect, BunpinEffect, ReleaseEffect, DiskEffect, IdleEffect

LEMMA ValueStep ==
  ASSUME CacheTypeOK, DataOK, UseInv, LockInv, PortInv, OpInv, [CacheNext]_cacheVars
  PROVE  DataOK'
<1>1. CASE UNCHANGED <<bdata, pins, latest, platter>>
  BY Zenon, <1>1, Rigid DEF DataOK
<1>2. ASSUME NEW p \in DiskProcs, Modify(p)  PROVE DataOK'
  <2>1. PICK v \in Values : /\ bdata' = [bdata EXCEPT ![mybuf[p]] = v]
                            /\ latest' = [latest EXCEPT ![want[p]] = v]
    BY Zenon, <1>2, ModifyEffect
  <2>2. UNCHANGED <<pins, platter>>
    BY Zenon, <1>2, ModifyEffect
  <2>. QED
    BY Zenon, <2>1, <2>2, Rigid DEF DataOK
<1>3. ASSUME NEW p \in DiskProcs, bpin(p) \/ bunpin(p)  PROVE DataOK'
  <2>1. /\ UNCHANGED <<bdata, latest, platter>>
        /\ \/ pins' = pins
           \/ want[p] \in DiskBlocks /\ pins' = pins \cup {want[p]}
           \/ pins' = pins \ {want[p]}
    BY Zenon, <1>3, BpinEffect, BunpinEffect
  <2>. QED
    BY Zenon, <2>1, Rigid DEF DataOK
<1>4. ASSUME NEW b \in Bufs, DiskActs(b)  PROVE DataOK'
  BY <1>4, DiskCases, DiskEffect, Rigid DEF Reads, Writes, DataOK
<1>5. ASSUME NEW p \in DiskProcs, acquiresleep(p)  PROVE DataOK'
  BY Zenon, <1>1, <1>5, AcquireCases, AcquireEffect DEF Blocked, Hit, Miss
<1>. QED
  BY Zenon, StepCases, <1>1, <1>2, <1>3, <1>4, <1>5, BgetEffect, BreadEffect, BwriteEffect,
     ReleaseEffect, BrelseEffect, IdleEffect

LEMMA ReadsStep ==
  ASSUME CacheTypeOK, reads \in Nat, UseInv, [CacheNext]_cacheVars
  PROVE  reads' \in Nat
<1>1. ASSUME NEW p \in DiskProcs, NEW k \in DiskBlocks, bget(p, k)  PROVE reads' \in Nat
  <2>1. reads > 0 /\ reads' = reads - 1
    BY Zenon, <1>1 DEF bget
  <2>. QED
    BY <2>1
<1>. QED
  BY Zenon, StepCases, <1>1, AcquireEffect, BreadEffect, ModifyEffect, BwriteEffect,
     BpinEffect, BunpinEffect, ReleaseEffect, BrelseEffect, DiskEffect, IdleEffect

LEMMA FieldsStep ==
  ASSUME CacheTypeOK, FieldsOK, UseInv, LockInv, PortInv, OpInv, [CacheNext]_cacheVars
  PROVE  FieldsOK'
<1>1. FieldsOK' <=> HandOK' /\ PortOK' /\ NoOK' /\ DataOK' /\ reads' \in Nat
  BY Zenon DEF FieldsOK, HandOK, PortOK, NoOK, DataOK
<1>. QED
  BY Zenon, <1>1, TypesSplit, HandStep, RequestStep, NumberStep, ValueStep, ReadsStep

(* The lock of a buffer passes between the processes that use it.          *)
LEMMA LockStep ==
  ASSUME CacheTypeOK, HandOK, PortOK, NoOK, DataOK, UseInv, LockInv, PortInv, OpInv,
         [CacheNext]_cacheVars
  PROVE  LockInv'
<1>1. ASSUME NEW p \in DiskProcs, NEW k \in DiskBlocks, bget(p, k)  PROVE LockInv'
  <2>1. PICK b \in Bufs : Found(p, b, k) \/ Evicted(p, b, k)
    BY Zenon, <1>1, BgetCases
  <2>2. CASE Found(p, b, k)
    BY <1>1, <2>2, BgetEffect DEF Found, LockInv, HandOK, Holds
  <2>3. CASE Evicted(p, b, k)
    BY <1>1, <2>3, BgetEffect DEF Evicted, LockInv, HandOK, Holds
  <2>. QED
    BY Zenon, <2>1, <2>2, <2>3
<1>2. ASSUME NEW p \in DiskProcs, acquiresleep(p)  PROVE LockInv'
  <2>1. CASE Blocked(p)
    BY <1>2, <2>1, AcquireEffect DEF Blocked, LockInv, Holds
  <2>2. CASE Hit(p)
    BY <1>2, <2>2, AcquireEffect, CacheAssumption DEF Hit, LockInv, HandOK, Holds, Nobody
  <2>3. CASE Miss(p)
    BY <1>2, <2>3, AcquireEffect, CacheAssumption DEF Miss, LockInv, HandOK, Holds, Nobody
  <2>. QED
    BY Zenon, <1>2, AcquireCases, <2>1, <2>2, <2>3
<1>3. ASSUME NEW p \in DiskProcs, bread(p)  PROVE LockInv'
  BY <1>3, BreadEffect DEF LockInv, HandOK, Holds
<1>4. ASSUME NEW p \in DiskProcs, Modify(p)  PROVE LockInv'
  BY <1>4, ModifyEffect DEF LockInv, HandOK, Holds
<1>5. ASSUME NEW p \in DiskProcs, bwrite(p)  PROVE LockInv'
  BY <1>5, BwriteEffect DEF LockInv, HandOK, Holds
<1>6. ASSUME NEW p \in DiskProcs, bpin(p)  PROVE LockInv'
  BY <1>6, BpinEffect DEF LockInv, HandOK, Holds
<1>7. ASSUME NEW p \in DiskProcs, bunpin(p)  PROVE LockInv'
  BY <1>7, BunpinEffect DEF LockInv, HandOK, Holds
<1>8. ASSUME NEW p \in DiskProcs, releasesleep(p)  PROVE LockInv'
  BY <1>8, ReleaseEffect DEF LockInv, HandOK, Holds
<1>9. ASSUME NEW p \in DiskProcs, brelse(p)  PROVE LockInv'
  BY <1>9, BrelseEffect DEF LockInv, HandOK, Holds
<1>10. ASSUME NEW b \in Bufs, DiskActs(b)  PROVE LockInv'
  <2>1. PICK p \in DiskProcs :
          /\ locked[b] = p /\ mybuf[p] = b /\ want[p] \in DiskBlocks /\ blockno[b] = want[p]
          /\ Reads(b, p) \/ Writes(b, p)
    BY Zenon, <1>10, DiskCases
  <2>2. CASE Reads(b, p)
    BY Zenon, <1>10, DiskEffect DEF LockInv
  <2>3. CASE Writes(b, p)
    BY Zenon, <1>10, DiskEffect DEF LockInv
  <2>. QED
    BY Zenon, <2>1, <2>2, <2>3
<1>11. CASE UNCHANGED cacheVars
  BY Zenon, <1>11, IdleEffect DEF LockInv
<1>. QED
  BY Zenon, StepCases, <1>1, <1>2, <1>3, <1>4, <1>5, <1>6, <1>7, <1>8, <1>9, <1>10, <1>11

(* A buffer has a request only while its holder waits for the disk.        *)
LEMMA PortStep ==
  ASSUME CacheTypeOK, HandOK, PortOK, NoOK, DataOK, UseInv, LockInv, PortInv, OpInv,
         [CacheNext]_cacheVars
  PROVE  PortInv'
<1>1. ASSUME NEW p \in DiskProcs, NEW k \in DiskBlocks, bget(p, k)  PROVE PortInv'
  <2>1. PICK b \in Bufs : Found(p, b, k) \/ Evicted(p, b, k)
    BY Zenon, <1>1, BgetCases
  <2>2. CASE Found(p, b, k)
    BY <1>1, <2>2, BgetEffect DEF Found, PortInv, HandOK
  <2>3. CASE Evicted(p, b, k)
    BY <1>1, <2>3, BgetEffect DEF Evicted, PortInv, HandOK
  <2>. QED
    BY Zenon, <2>1, <2>2, <2>3
<1>2. ASSUME NEW p \in DiskProcs, acquiresleep(p)  PROVE PortInv'
  <2>1. CASE Blocked(p)
    BY <1>2, <2>1, AcquireEffect DEF Blocked, PortInv
  <2>2. CASE Hit(p)
    BY <1>2, <2>2, AcquireEffect DEF Hit, PortInv
  <2>3. CASE Miss(p)
    BY <1>2, <2>3, AcquireEffect, CacheAssumption DEF Miss, PortInv, HandOK, PortOK, Nobody
  <2>. QED
    BY Zenon, <1>2, AcquireCases, <2>1, <2>2, <2>3
<1>3. ASSUME NEW p \in DiskProcs, bread(p)  PROVE PortInv'
  BY <1>3, BreadEffect DEF PortInv, LockInv, HandOK, PortOK, Holds
<1>4. ASSUME NEW p \in DiskProcs, Modify(p)  PROVE PortInv'
  BY <1>4, ModifyEffect DEF PortInv, HandOK
<1>5. ASSUME NEW p \in DiskProcs, bwrite(p)  PROVE PortInv'
  BY <1>5, BwriteEffect, CacheAssumption DEF PortInv, HandOK, PortOK, Nobody
<1>6. ASSUME NEW p \in DiskProcs, bpin(p)  PROVE PortInv'
  BY <1>6, BpinEffect DEF PortInv, HandOK
<1>7. ASSUME NEW p \in DiskProcs, bunpin(p)  PROVE PortInv'
  BY <1>7, BunpinEffect DEF PortInv, LockInv, HandOK, PortOK, Holds
<1>8. ASSUME NEW p \in DiskProcs, releasesleep(p)  PROVE PortInv'
  BY <1>8, ReleaseEffect DEF PortInv, HandOK
<1>9. ASSUME NEW p \in DiskProcs, brelse(p)  PROVE PortInv'
  BY <1>9, BrelseEffect DEF PortInv, HandOK
<1>10. ASSUME NEW b \in Bufs, DiskActs(b)  PROVE PortInv'
  <2>1. PICK p \in DiskProcs :
          /\ locked[b] = p /\ mybuf[p] = b /\ want[p] \in DiskBlocks /\ blockno[b] = want[p]
          /\ Reads(b, p) \/ Writes(b, p)
    BY Zenon, <1>10, DiskCases
  <2>2. CASE Reads(b, p)
    BY <1>10, DiskEffect DEF PortInv, HandOK, PortOK
  <2>3. CASE Writes(b, p)
    BY <1>10, DiskEffect DEF PortInv, HandOK, PortOK
  <2>. QED
    BY Zenon, <2>1, <2>2, <2>3
<1>11. CASE UNCHANGED cacheVars
  BY Zenon, <1>11, IdleEffect DEF PortInv
<1>. QED
  BY Zenon, StepCases, <1>1, <1>2, <1>3, <1>4, <1>5, <1>6, <1>7, <1>8, <1>9, <1>10, <1>11

(* A buffer whose count is zero is in nobody's hands and not pinned.       *)
LEMMA EvictFree ==
  ASSUME CountInv, NEW b \in Bufs, refcnt[b] = 0
  PROVE  blockno[b] \notin pins /\ \A p \in DiskProcs : dpc[p] # "idle" => mybuf[p] # b
<1>1. IsFiniteSet(Users(b)) /\ 0 = Cardinality(Users(b)) + Pinned(b)
  BY Zenon DEF CountInv
<1>2. Cardinality(Users(b)) \in Nat
  BY Zenon, <1>1, FS_CardinalityType
<1>3. Cardinality(Users(b)) = 0 /\ blockno[b] \notin pins
  BY <1>1, <1>2 DEF Pinned
<1>4. Users(b) = {}
  BY Zenon, <1>1, <1>3, FS_EmptySet
<1>. QED
  BY Zenon, <1>3, <1>4 DEF Users

(* No two buffers have one block, and a buffer in use keeps its block.     *)
LEMMA UseStep ==
  ASSUME CacheTypeOK, HandOK, PortOK, NoOK, DataOK, UseInv, CountInv, LockInv, PortInv, OpInv,
         ValidInv, [CacheNext]_cacheVars
  PROVE  UseInv'
<1>1. ASSUME NEW p \in DiskProcs, NEW k \in DiskBlocks, bget(p, k)  PROVE UseInv'
  <2>1. PICK b \in Bufs : Found(p, b, k) \/ Evicted(p, b, k)
    BY Zenon, <1>1, BgetCases
  <2>2. CASE Found(p, b, k)
    BY <1>1, <2>2, BgetEffect DEF Found, UseInv, HandOK, NoOK
  <2>3. CASE Evicted(p, b, k)
    BY <1>1, <2>3, BgetEffect, EvictFree DEF Evicted, UseInv, HandOK, NoOK
  <2>. QED
    BY Zenon, <2>1, <2>2, <2>3
<1>2. ASSUME NEW p \in DiskProcs, acquiresleep(p)  PROVE UseInv'
  <2>1. CASE Blocked(p)
    BY <1>2, <2>1, AcquireEffect DEF Blocked, UseInv
  <2>2. CASE Hit(p)
    BY <1>2, <2>2, AcquireEffect DEF Hit, UseInv
  <2>3. CASE Miss(p)
    BY <1>2, <2>3, AcquireEffect DEF Miss, UseInv
  <2>. QED
    BY Zenon, <1>2, AcquireCases, <2>1, <2>2, <2>3
<1>3. ASSUME NEW p \in DiskProcs, bread(p)  PROVE UseInv'
  BY <1>3, BreadEffect DEF UseInv, HandOK
<1>4. ASSUME NEW p \in DiskProcs, Modify(p)  PROVE UseInv'
  BY <1>4, ModifyEffect DEF UseInv, HandOK
<1>5. ASSUME NEW p \in DiskProcs, bwrite(p)  PROVE UseInv'
  BY <1>5, BwriteEffect DEF UseInv, HandOK
<1>6. ASSUME NEW p \in DiskProcs, bpin(p)  PROVE UseInv'
  BY <1>6, BpinEffect DEF UseInv, HandOK, ValidInv
<1>7. ASSUME NEW p \in DiskProcs, bunpin(p)  PROVE UseInv'
  BY <1>7, BunpinEffect DEF UseInv, HandOK
<1>8. ASSUME NEW p \in DiskProcs, releasesleep(p)  PROVE UseInv'
  BY <1>8, ReleaseEffect DEF UseInv
<1>9. ASSUME NEW p \in DiskProcs, brelse(p)  PROVE UseInv'
  BY <1>9, BrelseEffect DEF UseInv, HandOK, NoOK
<1>10. ASSUME NEW b \in Bufs, DiskActs(b)  PROVE UseInv'
  <2>1. PICK p \in DiskProcs :
          /\ locked[b] = p /\ mybuf[p] = b /\ want[p] \in DiskBlocks /\ blockno[b] = want[p]
          /\ Reads(b, p) \/ Writes(b, p)
    BY Zenon, <1>10, DiskCases
  <2>2. CASE Reads(b, p)
    BY <1>10, DiskEffect DEF UseInv
  <2>3. CASE Writes(b, p)
    BY <1>10, DiskEffect DEF UseInv
  <2>. QED
    BY Zenon, <2>1, <2>2, <2>3
<1>11. CASE UNCHANGED cacheVars
  BY <1>11, IdleEffect DEF UseInv
<1>. QED
  BY Zenon, StepCases, <1>1, <1>2, <1>3, <1>4, <1>5, <1>6, <1>7, <1>8, <1>9, <1>10, <1>11

(* A holder past the read has a valid buffer.                              *)
LEMMA ValidStep ==
  ASSUME CacheTypeOK, HandOK, PortOK, NoOK, DataOK, UseInv, CountInv, LockInv, PortInv, OpInv,
         ValidInv, [CacheNext]_cacheVars
  PROVE  ValidInv'
<1>1. ASSUME NEW p \in DiskProcs, NEW k \in DiskBlocks, bget(p, k)  PROVE ValidInv'
  <2>1. PICK b \in Bufs : Found(p, b, k) \/ Evicted(p, b, k)
    BY Zenon, <1>1, BgetCases
  <2>2. CASE Found(p, b, k)
    BY <1>1, <2>2, BgetEffect DEF Found, ValidInv, HandOK
  <2>3. CASE Evicted(p, b, k)
    BY <1>1, <2>3, BgetEffect, EvictFree DEF Evicted, ValidInv, HandOK
  <2>. QED
    BY Zenon, <2>1, <2>2, <2>3
<1>2. ASSUME NEW p \in DiskProcs, acquiresleep(p)  PROVE ValidInv'
  <2>1. CASE Blocked(p)
    BY <1>2, <2>1, AcquireEffect DEF Blocked, ValidInv
  <2>2. CASE Hit(p)
    BY <1>2, <2>2, AcquireEffect DEF Hit, ValidInv
  <2>3. CASE Miss(p)
    BY <1>2, <2>3, AcquireEffect DEF Miss, ValidInv
  <2>. QED
    BY Zenon, <1>2, AcquireCases, <2>1, <2>2, <2>3
<1>3. ASSUME NEW p \in DiskProcs, bread(p)  PROVE ValidInv'
  BY <1>3, BreadEffect DEF ValidInv, LockInv, HandOK, Holds
<1>4. ASSUME NEW p \in DiskProcs, Modify(p)  PROVE ValidInv'
  BY Zenon, <1>4, ModifyEffect DEF ValidInv, HandOK
<1>5. ASSUME NEW p \in DiskProcs, bwrite(p)  PROVE ValidInv'
  BY <1>5, BwriteEffect DEF ValidInv, HandOK
<1>6. ASSUME NEW p \in DiskProcs, bpin(p)  PROVE ValidInv'
  BY Zenon, <1>6, BpinEffect DEF ValidInv, HandOK
<1>7. ASSUME NEW p \in DiskProcs, bunpin(p)  PROVE ValidInv'
  BY <1>7, BunpinEffect DEF ValidInv, HandOK
<1>8. ASSUME NEW p \in DiskProcs, releasesleep(p)  PROVE ValidInv'
  BY Zenon, <1>8, ReleaseEffect DEF ValidInv
<1>9. ASSUME NEW p \in DiskProcs, brelse(p)  PROVE ValidInv'
  BY <1>9, BrelseEffect DEF ValidInv, HandOK
<1>10. ASSUME NEW b \in Bufs, DiskActs(b)  PROVE ValidInv'
  <2>1. PICK p \in DiskProcs :
          /\ locked[b] = p /\ mybuf[p] = b /\ want[p] \in DiskBlocks /\ blockno[b] = want[p]
          /\ Reads(b, p) \/ Writes(b, p)
    BY Zenon, <1>10, DiskCases
  <2>2. CASE Reads(b, p)
    BY Zenon, <1>10, DiskEffect DEF ValidInv
  <2>3. CASE Writes(b, p)
    BY Zenon, <1>10, DiskEffect DEF ValidInv
  <2>. QED
    BY Zenon, <2>1, <2>2, <2>3
<1>11. CASE UNCHANGED cacheVars
  BY Zenon, <1>11, IdleEffect DEF ValidInv
<1>. QED
  BY Zenon, StepCases, <1>1, <1>2, <1>3, <1>4, <1>5, <1>6, <1>7, <1>8, <1>9, <1>10, <1>11

(* refcnt counts the users of a buffer and its pin.                        *)
LEMMA UsersSame ==
  ASSUME mybuf' = mybuf, \A q \in DiskProcs : dpc'[q] = "idle" <=> dpc[q] = "idle"
  PROVE  \A b : Users(b)' = Users(b)
  BY Zenon DEF Users

LEMMA CountSame ==
  ASSUME CountInv, mybuf' = mybuf, refcnt' = refcnt, pins' = pins, blockno' = blockno,
         \A q \in DiskProcs : dpc'[q] = "idle" <=> dpc[q] = "idle"
  PROVE  CountInv'
  BY Zenon, UsersSame, Rigid DEF CountInv, Pinned

(* A block in use is in one buffer.                                        *)
LEMMA OneBuffer ==
  ASSUME UseInv, HandOK, NoOK, NEW p \in DiskProcs, dpc[p] # "idle"
  PROVE  /\ mybuf[p] \in Bufs /\ want[p] \in DiskBlocks /\ blockno[mybuf[p]] = want[p]
         /\ \A c \in Bufs : c # mybuf[p] => blockno[c] # want[p]
         /\ \A q \in DiskProcs : dpc[q] # "idle" /\ want[q] = want[p] => mybuf[q] = mybuf[p]
<1>1. mybuf[p] \in Bufs /\ blockno[mybuf[p]] = want[p] /\ want[p] \in DiskBlocks
  BY Zenon DEF UseInv, HandOK
<1>2. want[p] # 0
  BY <1>1, CacheAssumption DEF DiskBlocks
<1>3. \A c \in Bufs : c # mybuf[p] => blockno[c] # want[p]
  BY Zenon, <1>1, <1>2 DEF UseInv
<1>. QED
  BY <1>1, <1>3 DEF UseInv, HandOK

(* bpin and bunpin change the count of the buffer of the block only.       *)
LEMMA CountPin ==
  ASSUME CountInv, UseInv, FieldsOK, NEW p \in DiskProcs, dpc[p] # "idle",
         mybuf' = mybuf, blockno' = blockno,
         \A q \in DiskProcs : dpc'[q] = "idle" <=> dpc[q] = "idle",
         refcnt \in [Bufs -> Nat],
         \/ /\ want[p] \notin pins /\ pins' = pins \cup {want[p]}
            /\ refcnt' = [refcnt EXCEPT ![mybuf[p]] = @ + 1]
         \/ /\ want[p] \in pins /\ pins' = pins \ {want[p]}
            /\ refcnt' = [refcnt EXCEPT ![mybuf[p]] = @ - 1]
  PROVE  CountInv'
<1>. DEFINE m == mybuf[p]
<1>1. m \in Bufs /\ blockno[m] = want[p] /\ want[p] \in DiskBlocks
  BY Zenon, TypesSplit, OneBuffer
<1>2. \A c \in Bufs : c # m => blockno[c] # want[p]
  BY Zenon, TypesSplit, OneBuffer
<1>. SUFFICES ASSUME NEW c \in Bufs
              PROVE  /\ IsFiniteSet(Users(c))'
                     /\ refcnt'[c] = Cardinality(Users(c))' + Pinned(c)'
  BY Zenon, Rigid DEF CountInv
<1>3. Users(c)' = Users(c)
  BY Zenon, UsersSame
<1>4. /\ IsFiniteSet(Users(c)) /\ Cardinality(Users(c)) \in Nat
      /\ refcnt[c] = Cardinality(Users(c)) + Pinned(c)
  BY Zenon, FS_CardinalityType DEF CountInv
<1>5. CASE c # m
  <2>1. Pinned(c)' = Pinned(c)
    BY Zenon, <1>2, <1>5 DEF Pinned
  <2>2. refcnt'[c] = refcnt[c]
    BY Zenon, <1>5
  <2>. QED
    BY Zenon, <1>3, <1>4, <2>1, <2>2
<1>6. CASE c = m
  <2>1. CASE want[p] \notin pins
    <3>1. Pinned(c) = 0 /\ Pinned(c)' = 1
      BY Zenon, <1>1, <1>6, <2>1 DEF Pinned
    <3>2. refcnt'[c] = refcnt[c] + 1
      BY Zenon, <1>1, <1>6, <2>1
    <3>. QED
      BY <1>3, <1>4, <3>1, <3>2
  <2>2. CASE want[p] \in pins
    <3>1. Pinned(c) = 1 /\ Pinned(c)' = 0
      BY Zenon, <1>1, <1>6, <2>2 DEF Pinned
    <3>2. refcnt'[c] = refcnt[c] - 1
      BY Zenon, <1>1, <1>6, <2>2
    <3>. QED
      BY <1>3, <1>4, <3>1, <3>2
  <2>. QED
    BY Zenon, <2>1, <2>2
<1>. QED
  BY Zenon, <1>5, <1>6

(* bget adds the process to the users of a buffer, brelse takes it away.   *)
LEMMA CountFound ==
  ASSUME CountInv, FieldsOK, NEW p \in DiskProcs, NEW b \in Bufs, NEW k,
         refcnt \in [Bufs -> Nat], Found(p, b, k), dpc[p] = "idle",
         dpc' = [dpc EXCEPT ![p] = "lock"], pins' = pins
  PROVE  CountInv'
<1>. SUFFICES ASSUME NEW c \in Bufs
              PROVE  /\ IsFiniteSet(Users(c))'
                     /\ refcnt'[c] = Cardinality(Users(c))' + Pinned(c)'
  BY Zenon, Rigid DEF CountInv
<1>1. /\ IsFiniteSet(Users(c)) /\ Cardinality(Users(c)) \in Nat
      /\ refcnt[c] = Cardinality(Users(c)) + Pinned(c)
  BY Zenon, FS_CardinalityType DEF CountInv
<1>2. Pinned(c)' = Pinned(c) /\ Pinned(c) \in Nat
  BY Zenon DEF Found, Pinned
<1>3. CASE c = b
  <2>1. Users(c)' = Users(c) \cup {p} /\ p \notin Users(c)
    BY Zenon, <1>3 DEF Users, Found, FieldsOK
  <2>2. /\ IsFiniteSet(Users(c) \cup {p})
        /\ Cardinality(Users(c) \cup {p}) = Cardinality(Users(c)) + 1
    BY Zenon, <1>1, <2>1, FS_AddElement
  <2>3. refcnt'[c] = refcnt[c] + 1
    BY Zenon, <1>3 DEF Found
  <2>. QED
    BY <1>1, <1>2, <2>1, <2>2, <2>3
<1>4. CASE c # b
  <2>1. Users(c)' = Users(c)
    BY Zenon, <1>4 DEF Users, Found, FieldsOK
  <2>2. refcnt'[c] = refcnt[c]
    BY Zenon, <1>4 DEF Found
  <2>. QED
    BY Zenon, <1>1, <1>2, <2>1, <2>2
<1>. QED
  BY Zenon, <1>3, <1>4

LEMMA CountEvicted ==
  ASSUME CountInv, UseInv, FieldsOK, NEW p \in DiskProcs, NEW b \in Bufs, NEW k,
         refcnt \in [Bufs -> Nat], Evicted(p, b, k), dpc[p] = "idle",
         dpc' = [dpc EXCEPT ![p] = "lock"], pins' = pins
  PROVE  CountInv'
<1>. SUFFICES ASSUME NEW c \in Bufs
              PROVE  /\ IsFiniteSet(Users(c))'
                     /\ refcnt'[c] = Cardinality(Users(c))' + Pinned(c)'
  BY Zenon, Rigid DEF CountInv
<1>1. IsFiniteSet(Users(c)) /\ refcnt[c] = Cardinality(Users(c)) + Pinned(c)
  BY Zenon DEF CountInv
<1>2. CASE c = b
  <2>1. Users(c) = {}
    <3>1. refcnt[b] = 0
      BY Zenon DEF Evicted
    <3>. QED
      BY Zenon, <1>2, <3>1, EvictFree DEF Users
  <2>2. Users(c)' = Users(c) \cup {p}
    BY Zenon, <1>2 DEF Users, Evicted, FieldsOK
  <2>3. IsFiniteSet({p}) /\ Cardinality({p}) = 1
    BY Zenon, FS_Singleton
  <2>4. k \notin pins
    BY Zenon DEF UseInv, ValidBufs, Evicted
  <2>5. Pinned(c)' = 0
    BY Zenon, <1>2, <2>4 DEF Pinned, Evicted, FieldsOK
  <2>6. refcnt'[c] = 1
    BY Zenon, <1>2 DEF Evicted
  <2>7. Users(c)' = {p}
    BY Zenon, <2>1, <2>2
  <2>. QED
    BY <2>3, <2>5, <2>6, <2>7
<1>3. CASE c # b
  <2>1. Users(c)' = Users(c)
    BY Zenon, <1>3 DEF Users, Evicted, FieldsOK
  <2>2. refcnt'[c] = refcnt[c] /\ blockno'[c] = blockno[c]
    BY Zenon, <1>3 DEF Evicted, FieldsOK
  <2>3. Pinned(c)' = Pinned(c)
    BY Zenon, <2>2 DEF Pinned
  <2>. QED
    BY Zenon, <1>1, <2>1, <2>2, <2>3
<1>. QED
  BY Zenon, <1>2, <1>3

LEMMA CountRelease ==
  ASSUME CountInv, CacheTypeOK, NEW p \in DiskProcs, brelse(p)
  PROVE  CountInv'
<1>. SUFFICES ASSUME NEW c \in Bufs
              PROVE  /\ IsFiniteSet(Users(c))'
                     /\ refcnt'[c] = Cardinality(Users(c))' + Pinned(c)'
  BY Zenon, Rigid DEF CountInv
<1>. DEFINE m == mybuf[p]
<1>1. FieldsOK /\ refcnt \in [Bufs -> Nat]
  BY Zenon DEF CacheTypeOK
<1>2. m \in Bufs
  BY Zenon, <1>1 DEF FieldsOK
<1>3. /\ IsFiniteSet(Users(c)) /\ Cardinality(Users(c)) \in Nat
      /\ refcnt[c] = Cardinality(Users(c)) + Pinned(c)
  BY Zenon, FS_CardinalityType DEF CountInv
<1>4. Pinned(c)' = Pinned(c) /\ Pinned(c) \in Nat
  BY Zenon, BrelseEffect DEF Pinned
<1>5. CASE c = m
  <2>1. Users(c)' = Users(c) \ {p} /\ p \in Users(c)
    BY <1>1, <1>5, BrelseEffect DEF Users, FieldsOK
  <2>2. /\ IsFiniteSet(Users(c) \ {p})
        /\ Cardinality(Users(c) \ {p}) = Cardinality(Users(c)) - 1
    BY Zenon, <1>3, <2>1, FS_RemoveElement
  <2>3. refcnt'[c] = refcnt[c] - 1
    BY Zenon, <1>1, <1>2, <1>5, BrelseEffect
  <2>. QED
    BY <1>3, <1>4, <2>1, <2>2, <2>3
<1>6. CASE c # m
  <2>1. Users(c)' = Users(c)
    BY <1>1, <1>6, BrelseEffect DEF Users, FieldsOK
  <2>2. refcnt'[c] = refcnt[c]
    BY <1>1, <1>6, BrelseEffect
  <2>. QED
    BY Zenon, <1>3, <1>4, <2>1, <2>2
<1>. QED
  BY Zenon, <1>5, <1>6

LEMMA CountStep ==
  ASSUME CacheTypeOK, FieldsOK, UseInv, CountInv, [CacheNext]_cacheVars
  PROVE  CountInv'
<1>1. refcnt \in [Bufs -> Nat]
  BY Zenon DEF CacheTypeOK
<1>. DEFINE Busy == \A q \in DiskProcs : dpc'[q] = "idle" <=> dpc[q] = "idle"
<1>2. ASSUME NEW p \in DiskProcs, NEW k \in DiskBlocks, bget(p, k)  PROVE CountInv'
  <2>1. PICK b \in Bufs : Found(p, b, k) \/ Evicted(p, b, k)
    BY Zenon, <1>2, BgetCases
  <2>. QED
    BY Zenon, <1>1, <1>2, <2>1, BgetEffect, CountFound, CountEvicted
<1>3. ASSUME NEW p \in DiskProcs, acquiresleep(p)  PROVE CountInv'
  <2>1. Busy
    BY <1>3, AcquireEffect, AcquireCases DEF FieldsOK, Blocked, Hit, Miss
  <2>. QED
    BY Zenon, <1>3, <2>1, AcquireEffect, CountSame
<1>4. ASSUME NEW p \in DiskProcs, bread(p)  PROVE CountInv'
  <2>1. Busy
    BY <1>4, BreadEffect DEF FieldsOK
  <2>. QED
    BY Zenon, <1>4, <2>1, BreadEffect, CountSame
<1>5. ASSUME NEW p \in DiskProcs, Modify(p)  PROVE CountInv'
  <2>1. Busy
    BY <1>5, ModifyEffect DEF FieldsOK
  <2>. QED
    BY Zenon, <1>5, <2>1, ModifyEffect, CountSame
<1>6. ASSUME NEW p \in DiskProcs, bwrite(p)  PROVE CountInv'
  <2>1. Busy
    BY <1>6, BwriteEffect DEF FieldsOK
  <2>. QED
    BY Zenon, <1>6, <2>1, BwriteEffect, CountSame
<1>7. ASSUME NEW p \in DiskProcs, bpin(p)  PROVE CountInv'
  <2>1. Busy
    BY Zenon, <1>7, BpinEffect DEF FieldsOK
  <2>2. CASE want[p] \in pins
    BY Zenon, <1>7, <2>1, <2>2, BpinEffect, CountSame
  <2>3. CASE want[p] \notin pins
    <3>1. dpc[p] # "idle"
      BY Zenon, <1>7, BpinEffect
    <3>. QED
      BY Zenon, <1>1, <1>7, <2>1, <2>3, <3>1, BpinEffect, CountPin
  <2>. QED
    BY Zenon, <2>2, <2>3
<1>8. ASSUME NEW p \in DiskProcs, bunpin(p)  PROVE CountInv'
  <2>1. Busy
    BY <1>8, BunpinEffect DEF FieldsOK
  <2>2. CASE want[p] \notin pins
    BY Zenon, <1>8, <2>1, <2>2, BunpinEffect, CountSame
  <2>3. CASE want[p] \in pins
    <3>1. dpc[p] # "idle"
      BY Zenon, <1>8, BunpinEffect
    <3>. QED
      BY Zenon, <1>1, <1>8, <2>1, <2>3, <3>1, BunpinEffect, CountPin
  <2>. QED
    BY Zenon, <2>2, <2>3
<1>9. ASSUME NEW p \in DiskProcs, releasesleep(p)  PROVE CountInv'
  <2>1. Busy
    BY Zenon, <1>9, ReleaseEffect DEF FieldsOK
  <2>. QED
    BY Zenon, <1>9, <2>1, ReleaseEffect, CountSame
<1>10. ASSUME NEW p \in DiskProcs, brelse(p)  PROVE CountInv'
  BY Zenon, <1>10, CountRelease
<1>11. ASSUME NEW b \in Bufs, DiskActs(b)  PROVE CountInv'
  <2>1. Busy
    BY Zenon, <1>11, DiskEffect
  <2>. QED
    BY Zenon, <1>11, <2>1, DiskEffect, CountSame
<1>12. CASE UNCHANGED cacheVars
  <2>1. Busy
    BY Zenon, <1>12, IdleEffect
  <2>. QED
    BY Zenon, <1>12, <2>1, IdleEffect, CountSame
<1>. QED
  BY Zenon, StepCases, <1>2, <1>3, <1>4, <1>5, <1>6, <1>7, <1>8, <1>9, <1>10, <1>11, <1>12

(* ... and so is never negative.                                           *)
LEMMA RefsStep ==
  ASSUME CacheTypeOK, UseInv, CountInv', [CacheNext]_cacheVars
  PROVE  (refcnt \in [Bufs -> Nat])'
<1>1. refcnt \in [Bufs -> Nat]
  BY Zenon DEF CacheTypeOK
<1>. DEFINE OneRef == refcnt' = [b \in Bufs |-> refcnt'[b]]
<1>2. OneRef
  <2>1. refcnt' = refcnt => OneRef
    BY Zenon, <1>1
  <2>2. ASSUME NEW p \in DiskProcs, NEW k \in DiskBlocks, bget(p, k)  PROVE OneRef
    BY Zenon, <1>1, <2>2, BgetCases DEF Found, Evicted
  <2>3. ASSUME NEW p \in DiskProcs, bpin(p) \/ bunpin(p) \/ brelse(p)  PROVE OneRef
    BY Zenon, <1>1, <2>3, BpinEffect, BunpinEffect, BrelseEffect
  <2>4. ASSUME NEW p \in DiskProcs,
               acquiresleep(p) \/ bread(p) \/ Modify(p) \/ bwrite(p) \/ releasesleep(p)
        PROVE  refcnt' = refcnt
    BY Zenon, <2>4, AcquireEffect, BreadEffect, ModifyEffect, BwriteEffect, ReleaseEffect
  <2>. QED
    BY Zenon, <2>1, <2>2, <2>3, <2>4, StepCases, DiskEffect, IdleEffect
<1>3. ASSUME NEW b \in Bufs  PROVE refcnt'[b] \in Nat
  <2>1. IsFiniteSet(Users(b)') /\ refcnt'[b] = Cardinality(Users(b)') + Pinned(b)'
    BY Zenon, Rigid DEF CountInv
  <2>2. Cardinality(Users(b)') \in Nat
    BY Zenon, <2>1, FS_CardinalityType
  <2>3. Pinned(b)' \in Nat
    BY Zenon DEF Pinned
  <2>. QED
    BY <2>1, <2>2, <2>3
<1>. QED
  BY Zenon, <1>2, <1>3, Rigid

(* The flags, which only need typing.                                      *)
LEMMA ValidType ==
  ASSUME CacheTypeOK, [CacheNext]_cacheVars
  PROVE  (valid \in [Bufs -> BOOLEAN])'
<1>1. /\ valid \in [Bufs -> BOOLEAN]
      /\ (valid \in [Bufs -> BOOLEAN])' = (valid' \in [Bufs -> BOOLEAN])
  BY Zenon, Rigid DEF CacheTypeOK
<1>. DEFINE Typed == valid' \in [Bufs -> BOOLEAN]
<1>2. valid' = valid => Typed
  BY Zenon, <1>1
<1>3. ASSUME NEW p \in DiskProcs, bread(p)  PROVE Typed
  BY Zenon, <1>1, <1>3 DEF bread
<1>4. ASSUME NEW p \in DiskProcs, NEW k \in DiskBlocks, bget(p, k)  PROVE Typed
  BY Zenon, <1>1, <1>2, <1>4 DEF bget
<1>. HIDE DEF Typed
<1>5. Typed
  BY Zenon, <1>2, <1>3, <1>4, StepCases DEF acquiresleep, Modify, bwrite, bpin, bunpin,
     releasesleep, brelse, DiskActs, cache, cacheVars
<1>. QED
  BY Zenon, <1>1, <1>5 DEF Typed

LEMMA OpType ==
  ASSUME CacheTypeOK, FieldsOK, [CacheNext]_cacheVars
  PROVE  (op \in [Bufs -> Ops])'
<1>1. op \in [Bufs -> Ops]
  BY Zenon DEF CacheTypeOK
<1>2. Ops' = Ops
  BY Zenon DEF Ops
<1>3. \A p \in DiskProcs : blockno[mybuf[p]] \in Nat
  <2>1. \A p \in DiskProcs : blockno[mybuf[p]] \in DiskBlocks \cup {0}
    BY Zenon DEF FieldsOK
  <2>2. \A n \in DiskBlocks \cup {0} : n \in Nat
    BY DEF DiskBlocks
  <2>. QED
    BY Zenon, <2>1, <2>2
<1>4. ASSUME NEW w \in BOOLEAN, NEW p \in DiskProcs  PROVE <<w, blockno[mybuf[p]]>> \in Ops
  BY Zenon, <1>3 DEF Ops
<1>5. <<FALSE, 0>> \in Ops
  BY Zenon DEF Ops
<1>. DEFINE Typed == op' \in [Bufs -> Ops]
<1>6. op' = op => Typed
  BY Zenon, <1>1
<1>7. ASSUME NEW p \in DiskProcs, acquiresleep(p)  PROVE Typed
  BY Zenon, <1>1, <1>4, <1>7 DEF acquiresleep, Ask, portVars
<1>8. ASSUME NEW p \in DiskProcs, bwrite(p)  PROVE Typed
  BY Zenon, <1>1, <1>4, <1>8 DEF bwrite, Ask
<1>9. ASSUME NEW p \in DiskProcs, bread(p) \/ bunpin(p)  PROVE Typed
  BY Zenon, <1>1, <1>5, <1>9 DEF bread, bunpin, Done
<1>. HIDE DEF Typed
<1>10. Typed
  BY <1>6, <1>7, <1>8, <1>9, StepCases, Zenon DEF bget, Modify, Fill, bpin, releasesleep,
     brelse, DiskActs, Serve, portVars, cacheVars
<1>. QED
  BY Zenon, <1>2, <1>10, Rigid DEF Typed

(* The requests: acquiresleep asks for a read of the block of the buffer,  *)
(* bwrite for a write, and no other process has a request for the buffer.  *)
LEMMA OpStep ==
  ASSUME CacheTypeOK, HandOK, PortOK, NoOK, DataOK, UseInv, LockInv, OpInv,
         op \in [Bufs -> Ops], [CacheNext]_cacheVars
  PROVE  OpInv'
<1>1. ASSUME NEW p \in DiskProcs, NEW k \in DiskBlocks, bget(p, k)  PROVE OpInv'
  <2>1. PICK b \in Bufs : Found(p, b, k) \/ Evicted(p, b, k)
    BY Zenon, <1>1, BgetCases
  <2>2. op' = op
    BY Zenon, <1>1 DEF bget, portVars
  <2>. QED
    BY <1>1, <2>1, <2>2, BgetEffect DEF Found, Evicted, OpInv, HandOK, NoOK
<1>2. ASSUME NEW p \in DiskProcs, acquiresleep(p)  PROVE OpInv'
  <2>1. mybuf[p] \in Bufs
    BY ZenonT(40) DEF HandOK
  <2>2. CASE Blocked(p)
    <3>1. op' = op
      BY Zenon, <1>2, <2>2 DEF acquiresleep, Blocked, portVars
    <3>. QED
      BY <1>2, <2>2, <3>1, AcquireEffect DEF Blocked, OpInv
  <2>3. CASE Hit(p)
    <3>1. op' = op
      BY Zenon, <1>2, <2>3 DEF acquiresleep, Hit, ValidBufs, portVars
    <3>. QED
      BY <1>2, <2>3, <3>1, AcquireEffect DEF Hit, OpInv
  <2>4. CASE Miss(p)
    <3>1. op' = [op EXCEPT ![mybuf[p]] = ReadOp(blockno[mybuf[p]])]
      BY Zenon, <1>2, <2>1, <2>4 DEF acquiresleep, Ask, Miss, ValidBufs, ReadOp
    <3>2. blockno[mybuf[p]] = want[p]
      BY Zenon, <1>2, AcquireEffect DEF UseInv
    <3>3. op' = [op EXCEPT ![mybuf[p]] = ReadOp(want[p])]
      BY Zenon, <3>1, <3>2
    <3>. QED
      BY <1>2, <2>4, <3>3, AcquireEffect, CacheAssumption DEF Miss, OpInv, LockInv, HandOK,
         Holds, Nobody
  <2>. QED
    BY Zenon, <1>2, <2>2, <2>3, <2>4, AcquireCases
<1>3. ASSUME NEW p \in DiskProcs, bread(p)  PROVE OpInv'
  <2>1. op' = [op EXCEPT ![mybuf[p]] = ReadOp(0)]
    BY Zenon, <1>3 DEF bread, Done, ReadOp
  <2>. QED
    BY <1>3, <2>1, BreadEffect DEF OpInv, LockInv, HandOK, Holds
<1>4. ASSUME NEW p \in DiskProcs, Modify(p)  PROVE OpInv'
  <2>1. op' = op
    BY Zenon, <1>4 DEF Modify, Fill
  <2>. QED
    BY <1>4, <2>1, ModifyEffect DEF OpInv, HandOK
<1>5. ASSUME NEW p \in DiskProcs, bwrite(p)  PROVE OpInv'
  <2>1. op' = [op EXCEPT ![mybuf[p]] = WriteOp(blockno[mybuf[p]])]
    BY Zenon, <1>5 DEF bwrite, Ask, WriteOp
  <2>2. blockno[mybuf[p]] = want[p]
    BY Zenon, <1>5, BwriteEffect DEF UseInv
  <2>3. op' = [op EXCEPT ![mybuf[p]] = WriteOp(want[p])]
    BY Zenon, <2>1, <2>2
  <2>. QED
    BY <1>5, <2>3, BwriteEffect DEF OpInv, LockInv, HandOK, Holds
<1>6. ASSUME NEW p \in DiskProcs, bpin(p)  PROVE OpInv'
  <2>1. op' = op
    BY Zenon, <1>6 DEF bpin, portVars
  <2>. QED
    BY Zenon, <1>6, <2>1, BpinEffect DEF OpInv, HandOK
<1>7. ASSUME NEW p \in DiskProcs, bunpin(p)  PROVE OpInv'
  <2>1. op' = [op EXCEPT ![mybuf[p]] = ReadOp(0)]
    BY Zenon, <1>7 DEF bunpin, Done, ReadOp
  <2>. QED
    BY <1>7, <2>1, BunpinEffect DEF OpInv, LockInv, HandOK, Holds
<1>8. ASSUME NEW p \in DiskProcs, releasesleep(p)  PROVE OpInv'
  <2>1. op' = op
    BY Zenon, <1>8 DEF releasesleep, portVars
  <2>. QED
    BY <1>8, <2>1, ReleaseEffect DEF OpInv
<1>9. ASSUME NEW p \in DiskProcs, brelse(p)  PROVE OpInv'
  <2>1. op' = op
    BY Zenon, <1>9 DEF brelse, portVars
  <2>. QED
    BY <1>9, <2>1, BrelseEffect DEF OpInv, HandOK, NoOK
<1>10. ASSUME NEW b \in Bufs, DiskActs(b)  PROVE OpInv'
  <2>1. op' = op
    BY Zenon, <1>10 DEF DiskActs, Serve
  <2>. QED
    BY Zenon, <1>10, <2>1, DiskEffect DEF OpInv
<1>11. CASE UNCHANGED cacheVars
  <2>1. op' = op
    BY Zenon, <1>11 DEF cacheVars, portVars
  <2>. QED
    BY Zenon, <1>11, <2>1, IdleEffect DEF OpInv
<1>. QED
  BY Zenon, StepCases, <1>1, <1>2, <1>3, <1>4, <1>5, <1>6, <1>7, <1>8, <1>9, <1>10, <1>11

(* A step that copies no data keeps the values when a buffer becomes valid *)
(* with the last value only, when no request is served, and when a block   *)
(* is neither unpinned nor left unwritten before the disk has its value.   *)
KeepsValid ==
  \A b \in ValidBufs' : \/ b \in ValidBufs /\ blockno'[b] = blockno[b]
                        \/ blockno'[b] \in DiskBlocks /\ bdata[b] = latest[blockno'[b]]

KeepsServed ==
  \A q \in DiskProcs :
    \/ dpc'[q] \notin {"reading", "writing"} \/ port'[mybuf'[q]] # "served"
    \/ /\ dpc'[q] = dpc[q] /\ want'[q] = want[q] /\ mybuf'[q] = mybuf[q]
       /\ port[mybuf[q]] = "served"

KeepsPinned == \A k \in pins : k \in pins' \/ platter[k] = latest[k]

KeepsUnwritten ==
  \A q \in DiskProcs :
    Unwritten(q) => want[q] \in pins' \/ (Unwritten(q)' /\ want'[q] = want[q])

LEMMA DataKept ==
  ASSUME DataInv, UNCHANGED <<bdata, latest, platter>>, KeepsValid, KeepsServed, KeepsPinned,
         KeepsUnwritten
  PROVE  DataInv'
<1>1. \A b \in ValidBufs' : blockno'[b] \in DiskBlocks /\ bdata'[b] = latest'[blockno'[b]]
  BY Zenon DEF DataInv, KeepsValid
<1>2. \A q \in DiskProcs :
        port'[mybuf'[q]] = "served" =>
          /\ dpc'[q] = "reading" => bdata'[mybuf'[q]] = latest'[want'[q]]
          /\ dpc'[q] = "writing" => platter'[want'[q]] = latest'[want'[q]]
  BY Zenon DEF DataInv, KeepsServed
<1>3. ASSUME NEW k \in DiskBlocks, platter'[k] # latest'[k]
      PROVE  k \in pins' \/ \E q \in DiskProcs : want'[q] = k /\ Unwritten(q)'
  <2>1. k \in pins \/ \E q \in DiskProcs : want[q] = k /\ Unwritten(q)
    BY Zenon, <1>3 DEF DataInv
  <2>. QED
    BY Zenon, <1>3, <2>1 DEF KeepsPinned, KeepsUnwritten
<1>. QED
  BY Zenon, <1>1, <1>2, <1>3, Rigid DEF DataInv

LEMMA PointMoves ==
  ASSUME HandOK, NEW p \in DiskProcs, NEW x, dpc' = [dpc EXCEPT ![p] = x]
  PROVE  dpc'[p] = x /\ \A q \in DiskProcs \ {p} : dpc'[q] = dpc[q]
  BY Zenon DEF HandOK

LEMMA PortMoves ==
  ASSUME PortOK, NEW b \in Bufs, NEW x, port' = [port EXCEPT ![b] = x]
  PROVE  port'[b] = x /\ \A c \in Bufs : c # b => port'[c] = port[c]
  BY Zenon DEF PortOK

(* One process moves on without a request that is served.                  *)
LEMMA DataMoves ==
  ASSUME DataInv, HandOK, NEW p \in DiskProcs, UNCHANGED <<bdata, latest, platter, pins>>, KeepsValid,
         \A q \in DiskProcs \ {p} : dpc'[q] = dpc[q] /\ want'[q] = want[q] /\ mybuf'[q] = mybuf[q],
         \A b \in Bufs : port'[b] = port[b] \/ (port'[b] # "served" /\ port[b] # "served"),
         dpc'[p] \notin {"reading", "writing"} \/ port'[mybuf'[p]] # "served",
         Unwritten(p) => Unwritten(p)' /\ want'[p] = want[p]
  PROVE  DataInv'
<1>1. \A q \in DiskProcs : mybuf[q] \in Bufs
  BY Zenon DEF HandOK
<1>2. KeepsServed
  BY Zenon, <1>1 DEF KeepsServed
<1>3. KeepsPinned
  BY Zenon DEF KeepsPinned
<1>4. KeepsUnwritten
  BY Zenon, <1>1 DEF KeepsUnwritten, Unwritten
<1>. QED
  BY Zenon, <1>2, <1>3, <1>4, DataKept

(* A valid buffer has the last value, and so has the disk but for a pinned *)
(* block and one about to be written.                                      *)
LEMMA DataStep ==
  ASSUME CacheTypeOK, HandOK, PortOK, NoOK, DataOK, UseInv, LockInv, PortInv, OpInv,
         ValidInv, DataInv, [CacheNext]_cacheVars
  PROVE  DataInv'
<1>1. ASSUME NEW p \in DiskProcs, NEW k \in DiskBlocks, bget(p, k)  PROVE DataInv'
  <2>1. PICK b \in Bufs : Found(p, b, k) \/ Evicted(p, b, k)
    BY Zenon, <1>1, BgetCases
  <2>2. /\ UNCHANGED <<bdata, latest, platter, pins, port>>
        /\ \A q \in DiskProcs \ {p} : dpc'[q] = dpc[q] /\ want'[q] = want[q]
        /\ dpc[p] = "idle" /\ dpc'[p] = "lock"
    BY Zenon, <1>1, BgetEffect DEF HandOK, NoOK
  <2>3. \A q \in DiskProcs \ {p} : mybuf'[q] = mybuf[q]
    BY Zenon, <2>1 DEF Found, Evicted, HandOK
  <2>4. KeepsValid
    BY Zenon, <2>1 DEF Found, Evicted, KeepsValid, NoOK, ValidBufs
  <2>5. ~Unwritten(p)
    BY Zenon, <2>2 DEF Unwritten
  <2>. QED
    BY Zenon, <2>2, <2>3, <2>4, <2>5, DataMoves
<1>2. ASSUME NEW p \in DiskProcs, acquiresleep(p)  PROVE DataInv'
  <2>1. dpc[p] = "lock" /\ UNCHANGED <<bdata, latest, platter, pins, blockno, mybuf, want>>
    BY Zenon, <1>2, AcquireEffect, AcquireCases DEF Blocked, Hit, Miss
  <2>2. KeepsValid
    BY Zenon, <1>2, <2>1, AcquireEffect DEF KeepsValid
  <2>3. /\ \A q \in DiskProcs \ {p} : dpc'[q] = dpc[q]
        /\ \A b \in Bufs : port'[b] = port[b] \/ (port'[b] # "served" /\ port[b] # "served")
        /\ dpc'[p] \notin {"reading", "writing"} \/ port'[mybuf[p]] # "served"
    <3>1. mybuf[p] \in Bufs
      BY Zenon DEF HandOK
    <3>2. CASE Blocked(p)
      BY Zenon, <3>2, PointMoves DEF Blocked
    <3>3. CASE Hit(p)
      BY Zenon, <3>3, PointMoves DEF Hit
    <3>4. CASE Miss(p)
      <4>1. dpc'[p] = "reading" /\ \A q \in DiskProcs \ {p} : dpc'[q] = dpc[q]
        BY Zenon, <3>4, PointMoves DEF Miss
      <4>2. port'[mybuf[p]] = "asked" /\ \A c \in Bufs : c # mybuf[p] => port'[c] = port[c]
        BY Zenon, <3>1, <3>4, PortMoves DEF Miss
      <4>3. port[mybuf[p]] = "idle"
        BY Zenon, <3>4 DEF Miss
      <4>. QED
        BY Zenon, <4>1, <4>2, <4>3
    <3>. QED
      BY Zenon, <1>2, <3>2, <3>3, <3>4, AcquireCases
  <2>4. ~Unwritten(p)
    BY Zenon, <2>1 DEF Unwritten
  <2>. QED
    BY Zenon, <2>1, <2>2, <2>3, <2>4, DataMoves
<1>3. ASSUME NEW p \in DiskProcs, bread(p)  PROVE DataInv'
  <2>1. /\ dpc[p] = "reading" /\ port[mybuf[p]] = "served" /\ mybuf[p] \in Bufs
        /\ UNCHANGED <<bdata, latest, platter, pins, blockno, mybuf, want>>
        /\ \A q \in DiskProcs \ {p} : dpc'[q] = dpc[q]
        /\ dpc'[p] = "hold"
    <3>1. mybuf[p] \in Bufs
      BY Zenon DEF HandOK
    <3>2. dpc'[p] = "hold" /\ \A q \in DiskProcs \ {p} : dpc'[q] = dpc[q]
      BY Zenon, <1>3, BreadEffect, PointMoves
    <3>. QED
      BY Zenon, <1>3, <3>1, <3>2, BreadEffect
  <2>2. \A b \in Bufs : port'[b] = port[b] \/ port'[b] # "served"
    <3>1. port' = [port EXCEPT ![mybuf[p]] = "idle"] /\ mybuf[p] \in Bufs
      BY Zenon, <1>3, <2>1, BreadEffect
    <3>2. port'[mybuf[p]] = "idle" /\ \A c \in Bufs : c # mybuf[p] => port'[c] = port[c]
      BY Zenon, <3>1, PortMoves
    <3>. QED
      BY Zenon, <3>2
  <2>3. bdata[mybuf[p]] = latest[want[p]] /\ blockno[mybuf[p]] = want[p] /\ want[p] \in DiskBlocks
    <3>1. dpc[p] # "idle"
      BY Zenon, <2>1
    <3>2. blockno[mybuf[p]] = want[p] /\ want[p] \in DiskBlocks
      BY Zenon, <3>1 DEF UseInv
    <3>3. bdata[mybuf[p]] = latest[want[p]]
      BY Zenon, <2>1 DEF DataInv
    <3>. QED
      BY Zenon, <3>2, <3>3
  <2>4. KeepsValid
    <3>1. ValidBufs' = ValidBufs \cup {mybuf[p]}
      BY Zenon, <1>3, BreadEffect
    <3>. QED
      BY Zenon, <2>1, <2>3, <3>1 DEF KeepsValid
  <2>5. \A q \in DiskProcs : mybuf[q] \in Bufs
    BY Zenon DEF HandOK
  <2>6. KeepsServed
    BY Zenon, <2>1, <2>2, <2>5 DEF KeepsServed
  <2>7. KeepsPinned
    BY Zenon, <2>1 DEF KeepsPinned
  <2>8. KeepsUnwritten
    BY Zenon, <2>1, <2>2, <2>5 DEF KeepsUnwritten, Unwritten
  <2>. QED
    BY Zenon, <2>1, <2>4, <2>6, <2>7, <2>8, DataKept
<1>4. ASSUME NEW p \in DiskProcs, Modify(p)  PROVE DataInv'
  <2>. DEFINE m == mybuf[p]
  <2>1. /\ m \in Bufs /\ want[p] \in DiskBlocks /\ blockno[m] = want[p]
        /\ \A c \in Bufs : c # m => blockno[c] # want[p]
        /\ \A q \in DiskProcs : dpc[q] # "idle" /\ want[q] = want[p] => mybuf[q] = m
    BY Zenon, <1>4, ModifyEffect, OneBuffer
  <2>2. \A q \in DiskProcs : q # p /\ dpc[q] \in Holds => mybuf[q] # m /\ want[q] # want[p]
    BY <1>4, <2>1, ModifyEffect DEF LockInv, Holds
  <2>3. PICK v \in Values : /\ bdata' = [bdata EXCEPT ![m] = v]
                            /\ latest' = [latest EXCEPT ![want[p]] = v]
    BY ZenonT(40), <1>4, ModifyEffect
  <2>. HIDE DEF m
  <2>4. /\ bdata'[m] = v /\ \A c \in Bufs : c # m => bdata'[c] = bdata[c]
        /\ latest'[want[p]] = v /\ \A k \in DiskBlocks : k # want[p] => latest'[k] = latest[k]
    BY Zenon, <2>1, <2>3 DEF DataOK
  <2>5. /\ UNCHANGED <<platter, pins, port, blockno, mybuf, want>> /\ ValidBufs' = ValidBufs
        /\ port[m] = "idle"
    BY Zenon, <1>4, ModifyEffect DEF m
  <2>6. dpc'[p] = "dirty" /\ \A q \in DiskProcs \ {p} : dpc'[q] = dpc[q]
    BY Zenon, <1>4, ModifyEffect, PointMoves
  <2>7. \A b \in ValidBufs' : blockno'[b] \in DiskBlocks /\ bdata'[b] = latest'[blockno'[b]]
    <3>1. \A b \in ValidBufs : blockno[b] \in DiskBlocks /\ bdata[b] = latest[blockno[b]]
      BY Zenon DEF DataInv
    <3>. QED
      BY Zenon, <2>1, <2>4, <2>5, <3>1 DEF ValidBufs
  <2>8. ASSUME NEW q \in DiskProcs, port'[mybuf'[q]] = "served"
        PROVE  /\ dpc'[q] = "reading" => bdata'[mybuf'[q]] = latest'[want'[q]]
               /\ dpc'[q] = "writing" => platter'[want'[q]] = latest'[want'[q]]
    <3>1. mybuf[q] \in Bufs /\ mybuf[q] # m /\ port[mybuf[q]] = "served"
      BY Zenon, <2>5, <2>8 DEF HandOK
    <3>2. CASE q # p /\ dpc[q] \in {"reading", "writing"}
      <4>1. dpc[q] # "idle"
        BY Zenon, <3>2
      <4>2. want[q] \in DiskBlocks /\ want[q] # want[p]
        BY Zenon, <2>1, <3>1, <4>1 DEF UseInv
      <4>3. /\ dpc[q] = "reading" => bdata[mybuf[q]] = latest[want[q]]
            /\ dpc[q] = "writing" => platter[want[q]] = latest[want[q]]
        BY Zenon, <3>1 DEF DataInv
      <4>. QED
        BY Zenon, <2>4, <2>5, <2>6, <3>1, <3>2, <4>2, <4>3
    <3>. QED
      BY Zenon, <2>6, <3>2
  <2>9. ASSUME NEW k \in DiskBlocks, platter'[k] # latest'[k]
        PROVE  k \in pins' \/ \E q \in DiskProcs : want'[q] = k /\ Unwritten(q)'
    <3>1. CASE k = want[p]
      BY Zenon, <2>5, <2>6, <3>1 DEF Unwritten
    <3>2. CASE k # want[p]
      <4>1. k \in pins \/ \E q \in DiskProcs : want[q] = k /\ Unwritten(q)
        BY Zenon, <2>4, <2>5, <2>9, <3>2 DEF DataInv
      <4>2. \A q \in DiskProcs \ {p} : Unwritten(q) => Unwritten(q)'
        BY Zenon, <2>5, <2>6 DEF Unwritten
      <4>. QED
        BY Zenon, <2>5, <3>2, <4>1, <4>2
    <3>. QED
      BY Zenon, <3>1, <3>2
  <2>. QED
    BY Zenon, <2>7, <2>8, <2>9, Rigid DEF DataInv
<1>5. ASSUME NEW p \in DiskProcs, bwrite(p)  PROVE DataInv'
  <2>1. /\ dpc[p] \in {"hold", "dirty"} /\ dpc'[p] = "writing" /\ port'[mybuf[p]] = "asked"
        /\ UNCHANGED <<bdata, latest, platter, pins, blockno, mybuf, want>>
        /\ \A q \in DiskProcs \ {p} : dpc'[q] = dpc[q]
        /\ \A b \in Bufs : port'[b] = port[b] \/ (port'[b] # "served" /\ port[b] # "served")
    <3>1. mybuf[p] \in Bufs
      BY Zenon DEF HandOK
    <3>2. dpc'[p] = "writing" /\ \A q \in DiskProcs \ {p} : dpc'[q] = dpc[q]
      BY Zenon, <1>5, BwriteEffect, PointMoves
    <3>3. port'[mybuf[p]] = "asked" /\ \A c \in Bufs : c # mybuf[p] => port'[c] = port[c]
      <4>1. port' = [port EXCEPT ![mybuf[p]] = "asked"]
        BY Zenon, <1>5, BwriteEffect
      <4>. QED
        BY Zenon, <3>1, <4>1, PortMoves
    <3>4. port[mybuf[p]] = "idle"
      BY Zenon, <1>5, BwriteEffect
    <3>5. dpc[p] \in {"hold", "dirty"}
      BY Zenon, <1>5, BwriteEffect
    <3>6. UNCHANGED <<bdata, latest, platter, pins, blockno, mybuf, want>>
      BY Zenon, <1>5, BwriteEffect
    <3>7. \A b \in Bufs : port'[b] = port[b] \/ (port'[b] # "served" /\ port[b] # "served")
      BY Zenon, <3>3, <3>4
    <3>. QED
      BY Zenon, <3>2, <3>3, <3>5, <3>6, <3>7
  <2>2. KeepsValid
    BY Zenon, <1>5, <2>1, BwriteEffect DEF KeepsValid
  <2>3. Unwritten(p)'
    BY Zenon, <2>1 DEF Unwritten
  <2>. QED
    BY Zenon, <2>1, <2>2, <2>3, DataMoves
<1>6. ASSUME NEW p \in DiskProcs, bpin(p)  PROVE DataInv'
  <2>1. /\ dpc'[p] = "done" /\ want[p] \in pins' /\ pins \subseteq pins'
        /\ UNCHANGED <<bdata, latest, platter, blockno, mybuf, want, port>>
        /\ \A q \in DiskProcs \ {p} : dpc'[q] = dpc[q]
    BY Zenon, <1>6, BpinEffect DEF HandOK
  <2>2. KeepsValid
    BY Zenon, <1>6, <2>1, BpinEffect DEF KeepsValid
  <2>3. KeepsServed /\ KeepsPinned
    BY Zenon, <2>1 DEF KeepsServed, KeepsPinned
  <2>4. KeepsUnwritten
    BY Zenon, <2>1 DEF KeepsUnwritten, Unwritten
  <2>. QED
    BY Zenon, <2>1, <2>2, <2>3, <2>4, DataKept
<1>7. ASSUME NEW p \in DiskProcs, bunpin(p)  PROVE DataInv'
  <2>1. /\ dpc[p] = "writing" /\ port[mybuf[p]] = "served" /\ dpc'[p] = "done"
        /\ pins \ {want[p]} \subseteq pins'
        /\ UNCHANGED <<bdata, latest, platter, blockno, mybuf, want>>
        /\ \A q \in DiskProcs \ {p} : dpc'[q] = dpc[q]
        /\ \A q \in DiskProcs : mybuf[q] \in Bufs
    <3>1. \A q \in DiskProcs : mybuf[q] \in Bufs
      BY Zenon DEF HandOK
    <3>2. dpc'[p] = "done" /\ \A q \in DiskProcs \ {p} : dpc'[q] = dpc[q]
      BY Zenon, <1>7, BunpinEffect, PointMoves
    <3>3. pins \ {want[p]} \subseteq pins'
      BY Zenon, <1>7, BunpinEffect
    <3>4. UNCHANGED <<bdata, latest, platter, blockno, mybuf, want>>
      BY Zenon, <1>7, BunpinEffect
    <3>5. dpc[p] = "writing" /\ port[mybuf[p]] = "served"
      BY Zenon, <1>7, BunpinEffect
    <3>. QED
      BY Zenon, <3>1, <3>2, <3>3, <3>4, <3>5
  <2>2. \A b \in Bufs : port'[b] = port[b] \/ port'[b] # "served"
    <3>1. port' = [port EXCEPT ![mybuf[p]] = "idle"] /\ mybuf[p] \in Bufs
      BY Zenon, <1>7, <2>1, BunpinEffect
    <3>2. port'[mybuf[p]] = "idle" /\ \A c \in Bufs : c # mybuf[p] => port'[c] = port[c]
      BY Zenon, <3>1, PortMoves
    <3>. QED
      BY Zenon, <3>2
  <2>3. platter[want[p]] = latest[want[p]]
    BY Zenon, <2>1 DEF DataInv
  <2>4. KeepsValid
    BY Zenon, <1>7, <2>1, BunpinEffect DEF KeepsValid
  <2>5. KeepsServed
    BY Zenon, <2>1, <2>2 DEF KeepsServed
  <2>6. KeepsPinned
    BY Zenon, <2>1, <2>3 DEF KeepsPinned
  <2>7. KeepsUnwritten
    BY Zenon, <2>1, <2>2 DEF KeepsUnwritten, Unwritten
  <2>. QED
    BY Zenon, <2>1, <2>4, <2>5, <2>6, <2>7, DataKept
<1>8. ASSUME NEW p \in DiskProcs, releasesleep(p)  PROVE DataInv'
  <2>1. /\ dpc[p] \in {"hold", "done"} /\ dpc'[p] = "brelse"
        /\ \A q \in DiskProcs \ {p} :
             dpc'[q] = dpc[q] \/ (dpc[q] = "lsleep" /\ dpc'[q] = "lock")
        /\ UNCHANGED <<bdata, latest, platter, pins, blockno, mybuf, want, port>>
    BY Zenon, <1>8, ReleaseEffect
  <2>2. KeepsValid
    BY Zenon, <1>8, <2>1, ReleaseEffect DEF KeepsValid
  <2>3. KeepsServed /\ KeepsPinned
    BY Zenon, <2>1 DEF KeepsServed, KeepsPinned
  <2>4. KeepsUnwritten
    BY Zenon, <2>1 DEF KeepsUnwritten, Unwritten
  <2>. QED
    BY Zenon, <2>1, <2>2, <2>3, <2>4, DataKept
<1>9. ASSUME NEW p \in DiskProcs, brelse(p)  PROVE DataInv'
  <2>1. /\ dpc[p] = "brelse" /\ dpc'[p] = "idle"
        /\ UNCHANGED <<bdata, latest, platter, pins, blockno, port>>
        /\ \A q \in DiskProcs \ {p} :
             dpc'[q] = dpc[q] /\ want'[q] = want[q] /\ mybuf'[q] = mybuf[q]
    <3>1. dpc'[p] = "idle" /\ \A q \in DiskProcs \ {p} : dpc'[q] = dpc[q]
      BY Zenon, <1>9, BrelseEffect, PointMoves
    <3>2. dpc[p] = "brelse" /\ UNCHANGED <<bdata, latest, platter, pins, blockno, port>>
      BY Zenon, <1>9, BrelseEffect
    <3>3. \A q \in DiskProcs \ {p} : want'[q] = want[q] /\ mybuf'[q] = mybuf[q]
      <4>1. mybuf' = [mybuf EXCEPT ![p] = 1] /\ want' = [want EXCEPT ![p] = 1]
        BY Zenon, <1>9, BrelseEffect
      <4>. QED
        BY Zenon, <4>1 DEF HandOK, NoOK
    <3>. QED
      BY Zenon, <3>1, <3>2, <3>3
  <2>2. KeepsValid
    BY Zenon, <1>9, <2>1, BrelseEffect DEF KeepsValid
  <2>3. ~Unwritten(p)
    BY Zenon, <2>1 DEF Unwritten
  <2>. QED
    BY Zenon, <2>1, <2>2, <2>3, DataMoves
<1>10. ASSUME NEW b \in Bufs, DiskActs(b)  PROVE DataInv'
  <2>1. PICK p \in DiskProcs :
          /\ locked[b] = p /\ mybuf[p] = b /\ want[p] \in DiskBlocks /\ blockno[b] = want[p]
          /\ Reads(b, p) \/ Writes(b, p)
    BY Zenon, <1>10, DiskCases
  <2>2. /\ UNCHANGED <<blockno, dpc, mybuf, want, latest, pins>> /\ ValidBufs' = ValidBufs
        /\ \A q \in DiskProcs : mybuf[q] \in Bufs
    BY Zenon, <1>10, DiskEffect DEF HandOK
  <2>3. \A c \in Bufs : c # b => port'[c] = port[c]
    BY Zenon, <1>10, DiskEffect, PortMoves
  <2>4. \A q \in DiskProcs \ {p} : dpc[q] \in Holds => mybuf[q] # b
    BY Zenon, <2>1 DEF LockInv
  <2>5. {"reading", "writing", "dirty"} \subseteq Holds
    BY Zenon DEF Holds
  <2>6. \A q \in DiskProcs \ {p} : Unwritten(q) => Unwritten(q)'
    BY Zenon, <2>2, <2>3, <2>4, <2>5 DEF Unwritten
  <2>7. ASSUME NEW q \in DiskProcs \ {p}, port'[mybuf[q]] = "served",
               dpc[q] \in {"reading", "writing"}
        PROVE  mybuf[q] # b /\ port[mybuf[q]] = "served"
    BY Zenon, <2>2, <2>3, <2>4, <2>5, <2>7
  <2>8. \A c \in ValidBufs : blockno[c] \in DiskBlocks /\ bdata[c] = latest[blockno[c]]
    BY Zenon DEF DataInv
  <2>9. CASE Reads(b, p)
    <3>1. \A c \in Bufs : c # b => blockno[c] # want[p]
      BY Zenon, <2>1, <2>9, OneBuffer DEF Reads
    <3>2. b \notin ValidBufs
      BY Zenon, <2>1, <2>9 DEF Reads, ValidInv
    <3>3. want[p] \notin pins
      BY Zenon, <3>1, <3>2 DEF UseInv, ValidBufs
    <3>4. ASSUME NEW q \in DiskProcs, want[q] = want[p], Unwritten(q)  PROVE FALSE
      <4>1. dpc[q] \in Holds /\ dpc[q] # "idle" /\ q # p
        BY Zenon, <2>5, <2>9, <3>4 DEF Unwritten, Reads
      <4>2. mybuf[q] = b
        BY Zenon, <2>2, <3>1, <3>4, <4>1 DEF UseInv
      <4>. QED
        BY Zenon, <2>4, <4>1, <4>2
    <3>5. platter[want[p]] = latest[want[p]]
      BY ZenonT(40), <2>1, <3>3, <3>4 DEF DataInv
    <3>6. platter' = platter /\ dpc[p] = "reading"
      BY Zenon, <2>9 DEF Reads
    <3>7. bdata'[b] = platter[want[p]] /\ \A c \in Bufs : c # b => bdata'[c] = bdata[c]
      BY Zenon, <2>9 DEF Reads, DataOK
    <3>8. \A c \in ValidBufs' : blockno'[c] \in DiskBlocks /\ bdata'[c] = latest'[blockno'[c]]
      BY Zenon, <2>2, <2>8, <3>2, <3>7 DEF ValidBufs
    <3>9. ASSUME NEW q \in DiskProcs, port'[mybuf'[q]] = "served"
          PROVE  /\ dpc'[q] = "reading" => bdata'[mybuf'[q]] = latest'[want'[q]]
                 /\ dpc'[q] = "writing" => platter'[want'[q]] = latest'[want'[q]]
      <4>1. CASE q = p
        BY Zenon, <2>1, <2>2, <3>5, <3>6, <3>7, <4>1
      <4>2. CASE q # p /\ dpc[q] = "reading"
        <5>1. mybuf[q] # b /\ port[mybuf[q]] = "served"
          BY Zenon, <2>2, <2>7, <3>9, <4>2
        <5>2. bdata[mybuf[q]] = latest[want[q]]
          BY Zenon, <4>2, <5>1 DEF DataInv
        <5>. QED
          BY Zenon, <2>2, <3>7, <4>2, <5>1, <5>2
      <4>3. CASE q # p /\ dpc[q] = "writing"
        <5>1. port[mybuf[q]] = "served"
          BY Zenon, <2>2, <2>7, <3>9, <4>3
        <5>2. platter[want[q]] = latest[want[q]]
          BY Zenon, <4>3, <5>1 DEF DataInv
        <5>. QED
          BY Zenon, <2>2, <3>6, <4>3, <5>2
      <4>. QED
        BY Zenon, <2>2, <4>1, <4>2, <4>3
    <3>10. ASSUME NEW k \in DiskBlocks, platter'[k] # latest'[k]
           PROVE  k \in pins' \/ \E q \in DiskProcs : want'[q] = k /\ Unwritten(q)'
      <4>1. k # want[p] /\ platter[k] # latest[k]
        BY Zenon, <2>2, <3>5, <3>6, <3>10
      <4>2. k \in pins \/ \E q \in DiskProcs : want[q] = k /\ Unwritten(q)
        BY Zenon, <4>1 DEF DataInv
      <4>. QED
        BY Zenon, <2>2, <2>6, <4>1, <4>2
    <3>. QED
      BY Zenon, <3>8, <3>9, <3>10, Rigid DEF DataInv
  <2>10. CASE Writes(b, p)
    <3>1. bdata' = bdata /\ dpc[p] = "writing"
      BY Zenon, <2>10 DEF Writes
    <3>2. /\ platter'[want[p]] = bdata[b]
          /\ \A k \in DiskBlocks : k # want[p] => platter'[k] = platter[k]
      BY Zenon, <2>1, <2>10 DEF Writes, DataOK
    <3>3. b \in ValidBufs
      BY Zenon, <2>1, <3>1 DEF ValidInv
    <3>4. platter'[want[p]] = latest[want[p]]
      BY Zenon, <2>1, <2>8, <3>2, <3>3
    <3>5. \A c \in ValidBufs' : blockno'[c] \in DiskBlocks /\ bdata'[c] = latest'[blockno'[c]]
      BY Zenon, <2>2, <2>8, <3>1
    <3>6. ASSUME NEW q \in DiskProcs, port'[mybuf'[q]] = "served"
          PROVE  /\ dpc'[q] = "reading" => bdata'[mybuf'[q]] = latest'[want'[q]]
                 /\ dpc'[q] = "writing" => platter'[want'[q]] = latest'[want'[q]]
      <4>1. CASE q = p
        BY Zenon, <2>2, <3>1, <3>4, <4>1
      <4>2. CASE q # p /\ dpc[q] = "reading"
        <5>1. port[mybuf[q]] = "served"
          BY Zenon, <2>2, <2>7, <3>6, <4>2
        <5>2. bdata[mybuf[q]] = latest[want[q]]
          BY Zenon, <4>2, <5>1 DEF DataInv
        <5>. QED
          BY Zenon, <2>2, <3>1, <4>2, <5>2
      <4>3. CASE q # p /\ dpc[q] = "writing"
        <5>1. port[mybuf[q]] = "served"
          BY Zenon, <2>2, <2>7, <3>6, <4>3
        <5>2. platter[want[q]] = latest[want[q]]
          BY Zenon, <4>3, <5>1 DEF DataInv
        <5>3. dpc[q] # "idle"
          BY Zenon, <4>3
        <5>4. want[q] \in DiskBlocks
          BY Zenon, <5>3 DEF UseInv
        <5>. QED
          BY Zenon, <2>2, <3>2, <3>4, <4>3, <5>2, <5>4
      <4>. QED
        BY Zenon, <2>2, <4>1, <4>2, <4>3
    <3>7. ASSUME NEW k \in DiskBlocks, platter'[k] # latest'[k]
          PROVE  k \in pins' \/ \E q \in DiskProcs : want'[q] = k /\ Unwritten(q)'
      <4>1. k # want[p] /\ platter[k] # latest[k]
        BY Zenon, <2>2, <3>2, <3>4, <3>7
      <4>2. k \in pins \/ \E q \in DiskProcs : want[q] = k /\ Unwritten(q)
        BY Zenon, <4>1 DEF DataInv
      <4>. QED
        BY Zenon, <2>2, <2>6, <4>1, <4>2
    <3>. QED
      BY Zenon, <3>5, <3>6, <3>7, Rigid DEF DataInv
  <2>. QED
    BY Zenon, <2>1, <2>9, <2>10
<1>11. CASE UNCHANGED cacheVars
  <2>1. /\ ValidBufs' = ValidBufs
        /\ UNCHANGED <<blockno, bdata, latest, port, mybuf, dpc, want, platter, pins>>
    BY Zenon, <1>11, IdleEffect
  <2>2. ASSUME NEW p \in DiskProcs  PROVE Unwritten(p)' = Unwritten(p)
    BY Zenon, <2>1 DEF Unwritten
  <2>. QED
    BY Zenon, <2>1, <2>2 DEF DataInv
<1>. QED
  BY Zenon, StepCases, <1>1, <1>2, <1>3, <1>4, <1>5, <1>6, <1>7, <1>8, <1>9, <1>10, <1>11

----------------------------------------------------------------------------
LEMMA CacheStart == CacheInit => CacheInv
<1>. SUFFICES ASSUME CacheInit  PROVE CacheInv
  OBVIOUS
<1>1. FieldsOK
  <2>1. /\ blockno = [b \in Bufs |-> 0] /\ bdata = [b \in Bufs |-> 0]
        /\ port = [b \in Bufs |-> "idle"] /\ locked = [b \in Bufs |-> Nobody]
        /\ dpc = [p \in DiskProcs |-> "idle"] /\ mybuf = [p \in DiskProcs |-> 1]
        /\ want = [p \in DiskProcs |-> 1] /\ reads = MaxReads /\ pins = {}
        /\ platter = [k \in DiskBlocks |-> 0] /\ latest = platter
    BY Zenon DEF CacheInit, PortInit
  <2>2. 0 \in Values /\ 1 \in Bufs /\ MaxReads \in Nat
    BY Firsts, CacheAssumption DEF Values
  <2>. QED
    BY Zenon, <2>1, <2>2 DEF FieldsOK, Points
<1>2. ListOK
  <2>1. lru = [i \in Bufs |-> NBUF + 1 - i]
    BY Zenon DEF CacheInit
  <2>2. ASSUME NEW b \in Bufs  PROVE NBUF + 1 - b \in Bufs /\ NBUF + 1 - (NBUF + 1 - b) = b
    BY CacheAssumption DEF Bufs
  <2>. QED
    BY Zenon, <2>1, <2>2 DEF ListOK
<1>3. CacheTypeOK
  <2>1. refcnt \in [Bufs -> Nat]
    BY Zenon DEF CacheInit
  <2>2. valid \in [Bufs -> BOOLEAN]
    BY Zenon DEF CacheInit
  <2>3. <<FALSE, 0>> \in Ops
    BY Zenon DEF Ops
  <2>4. op \in [Bufs -> Ops]
    BY Zenon, <2>3 DEF CacheInit, PortInit
  <2>. QED
    BY Zenon, <1>1, <1>2, <2>1, <2>2, <2>4 DEF CacheTypeOK
<1>4. ValidBufs = {}
  BY Zenon DEF CacheInit, ValidBufs
<1>5. \A p \in DiskProcs : dpc[p] = "idle"
  BY Zenon DEF CacheInit
<1>6. pins = {} /\ latest = platter
  BY Zenon DEF CacheInit
<1>7. CountInv
  <2>1. ASSUME NEW b \in Bufs  PROVE Users(b) = {} /\ Pinned(b) = 0 /\ refcnt[b] = 0
    BY Zenon, <1>5, <1>6 DEF CacheInit, Users, Pinned
  <2>. QED
    BY <2>1, FS_EmptySet DEF CountInv
<1>8. UseInv
  BY Zenon, <1>5, <1>6 DEF CacheInit, UseInv
<1>9. LockInv /\ PortInv /\ OpInv /\ ValidInv
  BY Zenon, <1>5 DEF CacheInit, PortInit, LockInv, Holds, PortInv, OpInv, ValidInv
<1>10. DataInv
  BY Zenon, <1>4, <1>5, <1>6 DEF DataInv
<1>. QED
  BY Zenon, <1>3, <1>7, <1>8, <1>9, <1>10 DEF CacheInv

LEMMA CacheStepInv == CacheInv /\ [CacheNext]_cacheVars => CacheInv'
<1>. SUFFICES ASSUME CacheInv, [CacheNext]_cacheVars  PROVE CacheInv'
  OBVIOUS
<1>1. /\ CacheTypeOK /\ FieldsOK /\ HandOK /\ PortOK /\ NoOK /\ DataOK
      /\ op \in [Bufs -> Ops] /\ UseInv /\ CountInv /\ LockInv /\ PortInv /\ OpInv
      /\ ValidInv /\ DataInv
  BY Zenon, TypesSplit DEF CacheInv, CacheTypeOK
<1>2. CountInv'
  BY Zenon, <1>1, CountStep
<1>3. CacheTypeOK'
  BY <1>1, <1>2, ListStep, FieldsStep, RefsStep, ValidType, OpType, Zenon DEF CacheTypeOK
<1>. QED
  BY Zenon, <1>1, <1>2, <1>3, UseStep, LockStep, PortStep, OpStep, ValidStep, DataStep DEF
     CacheInv

(* Together the conjuncts of CacheInv are inductive: bio.c's fields have   *)
(* their types, a locked buffer has one holder, refcnt counts the users of *)
(* a buffer and its pin, and the values in valid buffers are the last.     *)
THEOREM CacheSound == CacheSpec => []CacheInv
  BY CacheStart, CacheStepInv, PTL DEF CacheSpec

(* bread gives its caller the block's last value, and gives it to nobody   *)
(* else until brelse: for every number of buffers, blocks and processes.   *)
THEOREM BlocksCoherent == CacheSpec => []HolderSeesLatest
<1>1. CacheInv => HolderSeesLatest
  <2>1. SUFFICES ASSUME CacheInv, NEW p \in DiskProcs, dpc[p] \in {"hold", "dirty", "done"}
                 PROVE  /\ locked[mybuf[p]] = p /\ blockno[mybuf[p]] = want[p]
                        /\ valid[mybuf[p]] /\ bdata[mybuf[p]] = latest[want[p]]
    BY Zenon DEF HolderSeesLatest
  <2>2. UseInv /\ LockInv /\ ValidInv /\ DataInv
    BY Zenon, <2>1 DEF CacheInv
  <2>3. locked[mybuf[p]] = p /\ blockno[mybuf[p]] = want[p] /\ mybuf[p] \in ValidBufs
    BY Zenon, <2>1, <2>2 DEF UseInv, LockInv, ValidInv, Holds
  <2>4. bdata[mybuf[p]] = latest[want[p]]
    BY Zenon, <2>2, <2>3 DEF DataInv
  <2>. QED
    BY Zenon, <2>3, <2>4 DEF ValidBufs
<1>. QED
  BY <1>1, CacheSound, PTL

(* A buffer with references has a user or the pin: when the callers and    *)
(* the pins together are fewer than the buffers, one is free, and bget     *)
(* does not panic.                                                         *)
THEOREM BgetFindsBuffer == CacheSpec => []NoBufferPanic
<1>1. CacheInv => NoBufferPanic
  <2>. SUFFICES ASSUME CacheInv, Admitted, Unused = {}  PROVE FALSE
    BY Zenon DEF NoBufferPanic
  <2>1. FieldsOK /\ ListOK /\ UseInv /\ CountInv
    BY Zenon DEF CacheInv, CacheTypeOK
  <2>. DEFINE A == {p \in DiskProcs : dpc[p] # "idle"}
              B1 == {b \in Bufs : Users(b) # {}}
              f == [p \in A |-> mybuf[p]]
              g == [b \in Bufs \ B1 |-> blockno[b]]
  <2>2. IsFiniteSet(A)
    BY Zenon, CacheAssumption, FS_Subset
  <2>3. IsFiniteSet(Bufs) /\ Cardinality(Bufs) = NBUF
    BY CacheAssumption, FS_Interval DEF Bufs
  <2>4. IsFiniteSet(pins)
    <3>1. IsFiniteSet(DiskBlocks)
      BY CacheAssumption, FS_Interval DEF DiskBlocks
    <3>. QED
      BY Zenon, <2>1, <3>1, FS_Subset DEF FieldsOK
  <2>5. f \in Surjection(A, B1)
    BY Zenon, <2>1 DEF Surjection, Users, FieldsOK
  <2>6. Cardinality(B1) <= Cardinality(A)
    BY Zenon, <2>2, <2>5, FS_Surjection
  <2>7. ASSUME NEW b \in Bufs \ B1  PROVE blockno[b] \in pins
    <3>1. PICK i \in Bufs : lru[i] = b
      BY Zenon, <2>1 DEF ListOK
    <3>2. refcnt[b] # 0
      BY Zenon, <2>1, <3>1 DEF Unused, ListOK
    <3>3. Users(b) = {} /\ refcnt[b] = Cardinality(Users(b)) + Pinned(b)
      BY Zenon, <2>1 DEF CountInv
    <3>. QED
      BY <3>2, <3>3, FS_EmptySet DEF Pinned
  <2>8. g \in Injection(Bufs \ B1, pins)
    <3>1. ASSUME NEW b \in Bufs \ B1  PROVE blockno[b] # 0
      BY <2>1, <2>7, CacheAssumption DEF FieldsOK, DiskBlocks
    <3>. QED
      BY Zenon, <2>1, <2>7, <3>1 DEF Injection, IsInjective, UseInv
  <2>9. Cardinality(Bufs \ B1) <= Cardinality(pins)
    BY Zenon, <2>4, <2>8, FS_Injection
  <2>10. /\ Cardinality(Bufs \ B1) = NBUF - Cardinality(B1)
         /\ Cardinality(B1) \in Nat
    <3>1. Bufs \cap B1 = B1 /\ IsFiniteSet(B1)
      BY Zenon, <2>3, FS_Subset
    <3>2. Cardinality(Bufs \ B1) = Cardinality(Bufs) - Cardinality(Bufs \cap B1)
      BY Zenon, <2>3, FS_Difference
    <3>3. Cardinality(B1) \in Nat
      BY Zenon, <3>1, FS_CardinalityType
    <3>. QED
      BY Zenon, <2>3, <3>1, <3>2, <3>3
  <2>11. Cardinality(A) \in Nat /\ Cardinality(pins) \in Nat
    BY Zenon, <2>2, <2>4, FS_CardinalityType
  <2>. QED
    BY <2>6, <2>9, <2>10, <2>11, CacheAssumption DEF Admitted
<1>. QED
  BY <1>1, CacheSound, PTL
=============================================================================
