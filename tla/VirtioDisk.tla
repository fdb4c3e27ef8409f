----------------------------- MODULE VirtioDisk -----------------------------
(***************************************************************************)
(* The virtio disk driver, kernel/virtio_disk.c, with the device.  A       *)
(* request is made by the holder of a buffer, so requests are named by     *)
(* their buffers; the cache keeps a block in one buffer, here buffer b     *)
(* holds block b.                                                          *)
(*                                                                         *)
(* One hart: a section under vdisk_lock is one step, with the sleep that   *)
(* ends it; the interrupt handler lets only the device move.               *)
(***************************************************************************)
EXTENDS Integers, Sequences, FiniteSets, SequencesExt

CONSTANTS
  Requesters,    \* the buffers
  NUM,           \* descriptors, and entries of a ring
  IDX,           \* the ring indices are 16 bits: they wrap at IDX
  MaxRequests    \* bound on the requests

ASSUME VirtioAssumption ==
  /\ Requesters \subseteq Nat \ {0} /\ MaxRequests \in Nat
  /\ NUM \in Nat /\ NUM >= 3 /\ IDX \in Nat \ {0} /\ IDX % NUM = 0

Descs == 0 .. NUM - 1

VARIABLES
  vpc, idx0, vwrite,                 \* a request: control point, first descriptor, direction
  busy, vdata,                       \* b->disk, the data of the buffer
  free, next, info, ops,             \* descriptors: free ones, links; disk.info, disk.ops
  avail, availIdx, used, usedIdx,    \* the rings
  seen, taken, inflight,             \* disk.used_idx; the device's position and work
  dirq, handler,                     \* interrupt pending; virtio_disk_intr is running
  sectors, requests                  \* the disk; requests made

descs == <<free, next, info, ops>>
clients == <<vpc, idx0, vwrite, vdata, requests>>
rings == <<avail, availIdx, used, usedIdx, seen, taken, inflight>>
virtioVars == <<clients, busy, descs, rings, dirq, handler, sectors>>

(* Mutant of Awake: nobody is woken.                                       *)
Asleep(S, to) == vpc

(* wakeup: the requests S that sleep there run again.                      *)
Awake(S, to) == [b \in Requesters |-> IF b \in S THEN to ELSE vpc[b]]

----------------------------------------------------------------------------
(* The holder of a buffer calls virtio_disk_rw; what it wants to write it  *)
(* has stored in the buffer.                                               *)
CallRw(b) ==
  /\ vpc[b] = "idle" /\ ~handler /\ requests < MaxRequests /\ requests' = requests + 1
  /\ \E w \in BOOLEAN, v \in {vdata[b], 1 - sectors[b]} :
       /\ v # vdata[b] => w
       /\ vwrite' = [vwrite EXCEPT ![b] = w] /\ vdata' = [vdata EXCEPT ![b] = v]
  /\ vpc' = [vpc EXCEPT ![b] = "alloc"]
  /\ UNCHANGED <<idx0, busy, descs, rings, dirq, handler, sectors>>

(* virtio_disk_rw up to its second sleep: three descriptors, a request in  *)
(* the avail ring, a notification.  With fewer than three free descriptors *)
(* alloc3_desc gives back what it took, which wakes the other sleepers.    *)
Sleepers == {b \in Requesters : vpc[b] = "fsleep"}
Lowest3 == CHOOSE T \in SUBSET free : Cardinality(T) = 3 /\ \A i \in T, j \in free \ T : i < j

virtio_disk_rw(b) ==
  /\ vpc[b] = "alloc" /\ ~handler
  /\ IF Cardinality(free) < 3
       THEN /\ vpc' = [IF free = {} THEN vpc ELSE Awake(Sleepers, "alloc") EXCEPT ![b] = "fsleep"]
            /\ UNCHANGED <<busy, idx0, descs, avail, availIdx>>
       ELSE LET c == SetToSortSeq(Lowest3, <)
            IN /\ free' = free \ {c[1], c[2], c[3]}
               /\ next' = [next EXCEPT ![c[1]] = c[2], ![c[2]] = c[3], ![c[3]] = NUM]
               /\ info' = [info EXCEPT ![c[1]] = b]
               /\ ops' = [ops EXCEPT ![c[1]] = vwrite[b]]
               /\ busy' = [busy EXCEPT ![b] = TRUE]
               /\ idx0' = [idx0 EXCEPT ![b] = c[1]]
               /\ avail' = [avail EXCEPT ![availIdx % NUM] = c[1]]
               /\ availIdx' = (availIdx + 1) % IDX
               /\ vpc' = [vpc EXCEPT ![b] = "bsleep"]
  /\ UNCHANGED <<vwrite, vdata, requests, used, usedIdx, seen, taken, inflight, dirq, handler,
                 sectors>>

(* free_chain follows next from the head; NUM: no VRING_DESC_F_NEXT.       *)
ChainOf(i) ==
  LET j == next[i]
      k == IF j = NUM THEN NUM ELSE next[j]
  IN {i, j, k} \ {NUM}

(* The rest, after a wakeup.                                               *)
virtio_done(b) ==
  /\ vpc[b] = "wait" /\ ~handler
  /\ IF busy[b]
       THEN vpc' = [vpc EXCEPT ![b] = "bsleep"] /\ UNCHANGED descs
       ELSE /\ info' = [info EXCEPT ![idx0[b]] = 0]
            /\ free' = free \cup ChainOf(idx0[b])
            /\ next' = [i \in Descs |-> IF i \in ChainOf(idx0[b]) THEN 0 ELSE next[i]]
            /\ vpc' = [Awake(Sleepers, "alloc") EXCEPT ![b] = "idle"]
            /\ UNCHANGED ops
  /\ UNCHANGED <<idx0, vwrite, vdata, requests, busy, rings, dirq, handler, sectors>>

----------------------------------------------------------------------------
(* The device takes requests in order and completes them in any order.     *)
DeviceTakes ==
  /\ taken # availIdx
  /\ inflight' = inflight \cup {avail[taken % NUM]} /\ taken' = (taken + 1) % IDX
  /\ UNCHANGED <<clients, busy, descs, avail, availIdx, used, usedIdx, seen, dirq, handler,
                 sectors>>

DeviceCompletes(i) ==
  /\ i \in inflight /\ inflight' = inflight \ {i}
  /\ LET b == info[i] IN
     IF ops[i] THEN sectors' = [sectors EXCEPT ![b] = vdata[b]] /\ UNCHANGED vdata
     ELSE vdata' = [vdata EXCEPT ![b] = sectors[b]] /\ UNCHANGED sectors
  /\ used' = [used EXCEPT ![usedIdx % NUM] = i] /\ usedIdx' = (usedIdx + 1) % IDX
  /\ dirq' = TRUE
  /\ UNCHANGED <<vpc, idx0, vwrite, requests, busy, descs, avail, availIdx, seen, taken, handler>>

(* virtio_disk_intr acknowledges first; what the device completes while    *)
(* the loop runs is served by this interrupt and raises another.           *)
virtio_disk_intr ==
  /\ dirq /\ ~handler /\ handler' = TRUE /\ dirq' = FALSE
  /\ UNCHANGED <<clients, busy, descs, rings, sectors>>

(* Mutant of Completed: the newest entry of the ring.                      *)
Newest == used[((usedIdx - 1) % IDX) % NUM]

Completed == used[seen % NUM]

IntrLoop ==
  /\ handler
  /\ IF seen = usedIdx THEN handler' = FALSE /\ UNCHANGED <<seen, busy, vpc>>
     ELSE LET b == info[Completed] IN
          /\ busy' = [busy EXCEPT ![b] = FALSE]
          /\ vpc' = Awake({c \in Requesters : vpc[c] = "bsleep" /\ c = b}, "wait")
          /\ seen' = (seen + 1) % IDX /\ UNCHANGED handler
  /\ UNCHANGED <<idx0, vwrite, vdata, requests, descs, avail, availIdx, used, usedIdx, taken,
                 inflight, dirq, sectors>>

----------------------------------------------------------------------------
(* virtio_disk_init; the rings may have turned before.                     *)
VirtioInit ==
  /\ vpc = [b \in Requesters |-> "idle"] /\ idx0 = [b \in Requesters |-> 0]
  /\ vwrite = [b \in Requesters |-> FALSE] /\ busy = [b \in Requesters |-> FALSE]
  /\ vdata = [b \in Requesters |-> 0] /\ sectors = [b \in Requesters |-> 0] /\ requests = 0
  /\ free = Descs /\ next = [i \in Descs |-> 0] /\ info = [i \in Descs |-> 0]
  /\ ops = [i \in Descs |-> FALSE]
  /\ avail = [i \in Descs |-> 0] /\ used = [i \in Descs |-> 0]
  /\ availIdx = IDX - 1 /\ usedIdx = IDX - 1 /\ seen = IDX - 1 /\ taken = IDX - 1
  /\ inflight = {} /\ dirq = FALSE /\ handler = FALSE

Driver(b) == virtio_disk_rw(b) \/ virtio_done(b)
Device == DeviceTakes \/ \E i \in Descs : DeviceCompletes(i)
DiskIntr == virtio_disk_intr \/ IntrLoop

VirtioNext ==
  \/ \E b \in Requesters : CallRw(b) \/ Driver(b)
  \/ Device \/ DiskIntr

VirtioFair ==
  /\ \A b \in Requesters : WF_virtioVars(Driver(b))
  /\ WF_virtioVars(Device) /\ WF_virtioVars(DiskIntr)

FairVirtioSpec == VirtioInit /\ [][VirtioNext]_virtioVars /\ VirtioFair

----------------------------------------------------------------------------
VirtioTypeOK ==
  /\ vpc \in [Requesters -> {"idle", "alloc", "fsleep", "bsleep", "wait"}]
  /\ busy \in [Requesters -> BOOLEAN] /\ idx0 \in [Requesters -> Descs]
  /\ free \subseteq Descs /\ inflight \subseteq Descs /\ next \in [Descs -> 0 .. NUM]
  /\ info \in [Descs -> Requesters \cup {0}]
  /\ {availIdx, usedIdx, seen, taken} \subseteq 0 .. IDX - 1

(* Requests that overlap, complete in any order and share interrupts are   *)
(* each performed once, before they return: the driver is the disk that    *)
(* the buffer cache assumes.                                               *)
Served(b) ==
  vpc[b] \in {"bsleep", "wait"} /\ (busy[b] => \E n \in 1 .. NUM :
    /\ n <= (usedIdx - seen) % IDX /\ used[(seen + n - 1) % NUM] = idx0[b])

Port == INSTANCE DiskPort WITH
  NBUF <- Cardinality(Requesters), NumBlocks <- Cardinality(Requesters),
  port <- [b \in Requesters |->
             CASE vpc[b] = "idle" -> "idle" [] Served(b) -> "served" [] OTHER -> "asked"],
  op <- [b \in Requesters |-> IF vpc[b] = "idle" THEN <<FALSE, 0>> ELSE <<vwrite[b], b>>],
  bdata <- vdata, platter <- sectors

DriverIsDisk == Port!PortSpec

(* Every request ends, whoever else waits for descriptors.                 *)
VirtioServes == <>[](\A b \in Requesters : vpc[b] = "idle")
=============================================================================
