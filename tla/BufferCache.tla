---------------------------- MODULE BufferCache ----------------------------
(***************************************************************************)
(* The buffer cache (kernel/bio.c) and its sleep locks                     *)
(* (kernel/sleeplock.c), over the disk of DiskPort.                        *)
(*                                                                         *)
(* One hart: a section under bcache.lock or the lock of a sleep lock is    *)
(* one step, with the sleep that ends it.  A process reads a block, may    *)
(* change it, and releases it; as the log does, it writes a changed block  *)
(* at once or pins it, and unpins it when it is written.                   *)
(***************************************************************************)
EXTENDS DiskPort, Sequences, FiniteSets

CONSTANTS DiskProcs, MaxReads, MaxPins   \* bounds on bread calls, on pinned blocks

ASSUME CacheAssumption ==
  /\ NBUF \in Nat \ {0} /\ NumBlocks \in Nat /\ MaxReads \in Nat /\ MaxPins \in Nat
  /\ 0 \notin DiskProcs /\ IsFiniteSet(DiskProcs)

Nobody == 0

VARIABLES
  lru,                       \* the buffers, the most recently used first
  blockno, valid, refcnt,    \* fields of the buffers
  locked,                    \* owner of the sleep lock, or Nobody
  dpc, mybuf, want,          \* a process: control point, buffer, block
  reads,                     \* calls of bread left
  latest, pins               \* the last value stored in a block; the pinned blocks

cache == <<lru, blockno, valid, refcnt>>
cacheVars == <<portVars, cache, locked, dpc, mybuf, want, reads, latest, pins>>

Goes(p, at, to) == dpc[p] = at /\ dpc' = [dpc EXCEPT ![p] = to]

----------------------------------------------------------------------------
(* Mutant of Unused: references are not counted.                           *)
NotLocked == {i \in DOMAIN lru : locked[lru[i]] = Nobody}

(* bget: the buffer that caches the block, else the least recently used    *)
(* one that nobody refers to; none is a panic.                             *)
Cached(b, blk) == blockno[b] = blk
Unused == {i \in DOMAIN lru : refcnt[lru[i]] = 0}

(* Assumed of the callers: there is a buffer for each and for each pin.    *)
Admitted == Cardinality(pins) + Cardinality({p \in DiskProcs : dpc[p] # "idle"}) < NBUF

bget(p, blk) ==
  /\ Goes(p, "idle", "lock") /\ reads > 0 /\ Admitted
  /\ IF \E b \in Bufs : Cached(b, blk)
       THEN LET b == CHOOSE c \in Bufs : Cached(c, blk) IN
            /\ refcnt' = [refcnt EXCEPT ![b] = @ + 1]
            /\ mybuf' = [mybuf EXCEPT ![p] = b] /\ UNCHANGED <<blockno, valid>>
       ELSE /\ Unused # {}
            /\ LET b == lru[CHOOSE i \in Unused : \A j \in Unused : j <= i] IN
               /\ blockno' = [blockno EXCEPT ![b] = blk]
               /\ valid' = [valid EXCEPT ![b] = FALSE]
               /\ refcnt' = [refcnt EXCEPT ![b] = 1]
               /\ mybuf' = [mybuf EXCEPT ![p] = b]
  /\ want' = [want EXCEPT ![p] = blk] /\ reads' = reads - 1
  /\ UNCHANGED <<portVars, lru, locked, latest, pins>>

(* acquiresleep; then bread goes to the disk unless the buffer is valid.   *)
acquiresleep(p) ==
  /\ LET b == mybuf[p] IN
     IF locked[b] # Nobody
       THEN Goes(p, "lock", "lsleep") /\ UNCHANGED <<locked, portVars>>
       ELSE /\ locked' = [locked EXCEPT ![b] = p]
            /\ IF valid[b] THEN Goes(p, "lock", "hold") /\ UNCHANGED portVars
               ELSE Goes(p, "lock", "reading") /\ Ask(b, FALSE, blockno[b], bdata[b])
  /\ UNCHANGED <<cache, mybuf, want, reads, latest, pins>>

bread(p) ==
  /\ Goes(p, "reading", "hold") /\ Done(mybuf[p])
  /\ valid' = [valid EXCEPT ![mybuf[p]] = TRUE]
  /\ UNCHANGED <<lru, blockno, refcnt, locked, mybuf, want, reads, latest, pins>>

DiskActs(b) == Serve(b) /\ UNCHANGED <<cache, locked, dpc, mybuf, want, reads, latest, pins>>

(* The holder stores into the block ...                                    *)
Modify(p) ==
  /\ Goes(p, "hold", "dirty")
  /\ LET v == (latest[want[p]] + 1) % 2
     IN Fill(mybuf[p], v) /\ latest' = [latest EXCEPT ![want[p]] = v]
  /\ UNCHANGED <<cache, locked, mybuf, want, reads, pins>>

(* ... and pins it, as log_write does, or writes it, as install_trans does *)
(* with the blocks that log_write has pinned.                              *)
bpin(p) ==
  /\ Goes(p, "dirty", "done")
  /\ IF want[p] \in pins THEN UNCHANGED <<refcnt, pins>>
     ELSE /\ Cardinality(pins) < MaxPins /\ pins' = pins \cup {want[p]}
          /\ refcnt' = [refcnt EXCEPT ![mybuf[p]] = @ + 1]
  /\ UNCHANGED <<portVars, lru, blockno, valid, locked, mybuf, want, reads, latest>>

bwrite(p) ==
  /\ IF want[p] \in pins THEN Goes(p, "hold", "writing") ELSE Goes(p, "dirty", "writing")
  /\ locked[mybuf[p]] = p
  /\ Ask(mybuf[p], TRUE, blockno[mybuf[p]], bdata[mybuf[p]])
  /\ UNCHANGED <<cache, locked, mybuf, want, reads, latest, pins>>

bunpin(p) ==
  /\ Goes(p, "writing", "done") /\ Done(mybuf[p])
  /\ IF want[p] \in pins
       THEN pins' = pins \ {want[p]} /\ refcnt' = [refcnt EXCEPT ![mybuf[p]] = @ - 1]
       ELSE UNCHANGED <<refcnt, pins>>
  /\ UNCHANGED <<lru, blockno, valid, locked, mybuf, want, reads, latest>>

(* brelse: releasesleep, then the count and the list under bcache.lock.    *)
releasesleep(p) ==
  /\ dpc[p] \in {"hold", "done"} /\ locked[mybuf[p]] = p
  /\ locked' = [locked EXCEPT ![mybuf[p]] = Nobody]
  /\ dpc' = [q \in DiskProcs |->
               IF q = p THEN "brelse"
               ELSE IF dpc[q] = "lsleep" /\ mybuf[q] = mybuf[p] THEN "lock" ELSE dpc[q]]
  /\ UNCHANGED <<portVars, cache, mybuf, want, reads, latest, pins>>

(* The list with b moved to its head.                                      *)
ToFront(b) ==
  LET n == CHOOSE i \in Bufs : lru[i] = b
  IN [i \in Bufs |-> IF i = 1 THEN b ELSE IF i <= n THEN lru[i - 1] ELSE lru[i]]

brelse(p) ==
  /\ Goes(p, "brelse", "idle")
  /\ LET b == mybuf[p] IN
     /\ refcnt' = [refcnt EXCEPT ![b] = @ - 1]
     /\ lru' = IF refcnt[b] = 1 THEN ToFront(b) ELSE lru
  /\ mybuf' = [mybuf EXCEPT ![p] = 1] /\ want' = [want EXCEPT ![p] = 1]
  /\ UNCHANGED <<portVars, blockno, valid, locked, reads, latest, pins>>

----------------------------------------------------------------------------
(* binit links the buffers in front of each other.                         *)
CacheInit ==
  /\ PortInit
  /\ lru = [i \in Bufs |-> NBUF + 1 - i]
  /\ blockno = [b \in Bufs |-> 0] /\ valid = [b \in Bufs |-> FALSE]
  /\ refcnt = [b \in Bufs |-> 0] /\ locked = [b \in Bufs |-> Nobody]
  /\ dpc = [p \in DiskProcs |-> "idle"] /\ mybuf = [p \in DiskProcs |-> 1]
  /\ want = [p \in DiskProcs |-> 1] /\ reads = MaxReads
  /\ latest = platter /\ pins = {}

CacheStep(p) ==
  \/ acquiresleep(p) \/ bread(p) \/ Modify(p) \/ bwrite(p) \/ bpin(p) \/ bunpin(p)
  \/ releasesleep(p) \/ brelse(p)

CacheNext ==
  \/ \E p \in DiskProcs : CacheStep(p) \/ \E k \in DiskBlocks : bget(p, k)
  \/ \E b \in Bufs : DiskActs(b)

CacheFair ==
  /\ \A p \in DiskProcs : WF_cacheVars(CacheStep(p))
  /\ \A b \in Bufs : WF_cacheVars(DiskActs(b))

CacheSpec == CacheInit /\ [][CacheNext]_cacheVars

FairCacheSpec == CacheSpec /\ CacheFair

----------------------------------------------------------------------------
Points == {"idle", "lock", "lsleep", "reading", "hold", "dirty", "writing", "done", "brelse"}

ListOK == lru \in [Bufs -> Bufs] /\ \A b \in Bufs : \E i \in Bufs : lru[i] = b

FieldsOK ==
  /\ blockno \in [Bufs -> DiskBlocks \cup {0}] /\ bdata \in [Bufs -> Values]
  /\ port \in [Bufs -> {"idle", "asked", "served"}] /\ locked \in [Bufs -> DiskProcs \cup {Nobody}]
  /\ dpc \in [DiskProcs -> Points] /\ mybuf \in [DiskProcs -> Bufs]
  /\ want \in [DiskProcs -> Nat] /\ reads \in Nat /\ pins \in SUBSET DiskBlocks
  /\ latest \in [DiskBlocks -> Values] /\ platter \in [DiskBlocks -> Values]

Ops == BOOLEAN \X Nat

(* Every buffer stays in the list, and the fields keep their types.        *)
CacheTypeOK ==
  /\ ListOK /\ FieldsOK /\ refcnt \in [Bufs -> Nat]
  /\ valid \in [Bufs -> BOOLEAN] /\ op \in [Bufs -> Ops]

(* bget finds a buffer to use when the callers leave it one.               *)
NoBufferPanic == Admitted => Unused # {}

(* Who holds a block after bread sees the last value anybody stored in it, *)
(* alone: through eviction, pinning, and reads and writes that overlap.    *)
HolderSeesLatest ==
  \A p \in DiskProcs :
    dpc[p] \in {"hold", "dirty", "done"} =>
      /\ locked[mybuf[p]] = p /\ blockno[mybuf[p]] = want[p]
      /\ valid[mybuf[p]] /\ bdata[mybuf[p]] = latest[want[p]]
=============================================================================
