-------------------------------- MODULE Log --------------------------------
(***************************************************************************)
(* The redo log of kernel/log.c, with crashes.  System calls bracket their *)
(* updates with begin_op and end_op; the last one to end copies the blocks *)
(* they changed to the log, writes the header, copies the log to the home  *)
(* locations and erases the header.  A crash loses everything that is not  *)
(* on disk; initlog then replays the log.                                  *)
(*                                                                         *)
(* A block's contents are a number, the serial number of the write that    *)
(* made them.  The write of one block to the disk is atomic.               *)
(***************************************************************************)
EXTENDS Integers, Sequences, FiniteSets

CONSTANTS
  Blocks,       \* the blocks of the file system
  Ops,          \* the processes that make system calls
  MAXOPBLOCKS,
  LOGSIZE,
  LogBlocks,    \* log.size, the blocks of the log with its header
  OpBlocks,     \* the number of blocks a system call really writes
  MaxWrites, MaxCrashes   \* bounds

ASSUME LogAssumption ==
  /\ IsFiniteSet(Ops)
  /\ MAXOPBLOCKS \in Nat \ {0} /\ LOGSIZE \in Nat
  /\ LogBlocks \in Nat \ {0} /\ OpBlocks \in Nat
  /\ MaxWrites \in Nat /\ MaxCrashes \in Nat

VARIABLES
  disk,         \* the home locations on disk
  hdr, logged,  \* the log on disk: block numbers of the header, log blocks
  cache,        \* the contents of the cached blocks
  lh,           \* log.lh: the blocks of the current transaction
  outstanding, committing,
  pc,           \* of each process: idle, begin, asleep, in, commit
  wrote,        \* the blocks each process has written in its system call
  step, tail,   \* the step of commit or of recovery, and its loop counter
  writes, crashes, panicked

ondisk == <<disk, hdr, logged>>
vars   == <<ondisk, cache, lh, outstanding, committing, pc, wrote, step, tail,
            writes, crashes, panicked>>

LogSlots == 1 .. LogBlocks - 1
Logged   == {lh[i] : i \in 1 .. Len(lh)}

Init ==
  /\ disk = [b \in Blocks |-> 0]
  /\ hdr = <<>> /\ logged = [i \in LogSlots |-> 0]
  /\ cache = disk /\ lh = <<>> /\ outstanding = 0 /\ committing = FALSE
  /\ pc = [p \in Ops |-> "idle"] /\ wrote = [p \in Ops |-> {}]
  /\ step = "none" /\ tail = 1
  /\ writes = 0 /\ crashes = 0 /\ panicked = FALSE

(* The steps of recover_from_log, before any process runs.                 *)
Booting == step \in {"boot", "replay", "clear"}
Running == ~panicked /\ ~Booting

Goto(p, l) == pc' = [pc EXCEPT ![p] = l]

(* wakeup(&log), after pc has become f.                                    *)
Wake(f) == [p \in Ops |-> IF f[p] = "asleep" THEN "begin" ELSE f[p]]

----------------------------------------------------------------------------
(* begin_op, log_write and end_op.                                         *)

Call(p) ==
  /\ Running /\ pc[p] = "idle"
  /\ Goto(p, "begin")
  /\ UNCHANGED <<ondisk, cache, lh, outstanding, committing, wrote, step, tail,
                 writes, crashes, panicked>>

(* Mutant of MayBegin: the space of the call itself is not counted.        *)
BeginOneMore == ~committing /\ Len(lh) + outstanding * MAXOPBLOCKS <= LOGSIZE

MayBegin == ~committing /\ Len(lh) + (outstanding + 1) * MAXOPBLOCKS <= LOGSIZE

begin_op(p) ==
  /\ Running /\ pc[p] = "begin"
  /\ IF MayBegin THEN Goto(p, "in") /\ outstanding' = outstanding + 1
                 ELSE Goto(p, "asleep") /\ UNCHANGED outstanding
  /\ wrote' = [wrote EXCEPT ![p] = {}]
  /\ UNCHANGED <<ondisk, cache, lh, committing, step, tail, writes, crashes,
                 panicked>>

(* A system call changes block b in the cache and calls log_write, which   *)
(* absorbs the write if b is in the transaction already.                   *)
log_write(p, b) ==
  /\ Running /\ pc[p] = "in"
  /\ Cardinality(wrote[p] \cup {b}) <= OpBlocks
  /\ writes < MaxWrites /\ writes' = writes + 1
  /\ cache' = [cache EXCEPT ![b] = writes + 1]
  /\ IF Len(lh) >= LOGSIZE \/ Len(lh) >= LogBlocks - 1 \/ outstanding < 1
       THEN panicked' = TRUE /\ UNCHANGED <<lh, wrote>>
       ELSE /\ lh' = IF b \in Logged THEN lh ELSE Append(lh, b)
            /\ wrote' = [wrote EXCEPT ![p] = @ \cup {b}]
            /\ UNCHANGED panicked
  /\ UNCHANGED <<ondisk, outstanding, committing, pc, step, tail, crashes>>

(* end_op as the last call makes it, with a commit that begins at step s   *)
(* and log block t.                                                        *)
LastEnd(p, s, t) ==
  /\ Running /\ pc[p] = "in" /\ outstanding = 1 /\ ~committing
  /\ outstanding' = 0 /\ committing' = TRUE /\ Goto(p, "commit")
  /\ step' = s /\ tail' = t
  /\ UNCHANGED <<ondisk, cache, lh, wrote, writes, crashes, panicked>>

(* Mutant of end_op: the header is written before the log.                 *)
end_op_head_first(p) == LastEnd(p, "head", 1)

end_op(p) ==
  /\ Running /\ pc[p] = "in"
  /\ outstanding' = outstanding - 1
  /\ IF committing
       THEN panicked' = TRUE /\ UNCHANGED <<committing, pc, step, tail>>
       ELSE /\ UNCHANGED panicked
            /\ IF outstanding' = 0
                 THEN /\ committing' = TRUE /\ Goto(p, "commit")
                      /\ step' = IF Len(lh) > 0 THEN "log" ELSE "done"
                      /\ tail' = 1
                 ELSE /\ pc' = Wake([pc EXCEPT ![p] = "idle"])
                      /\ UNCHANGED <<committing, step, tail>>
  /\ UNCHANGED <<ondisk, cache, lh, wrote, writes, crashes>>

----------------------------------------------------------------------------
(* commit.                                                                 *)

write_log ==
  /\ ~panicked /\ step = "log"
  /\ logged' = [logged EXCEPT ![tail] = cache[lh[tail]]]
  /\ IF tail = Len(lh) THEN step' = "head" /\ tail' = 1
                       ELSE tail' = tail + 1 /\ UNCHANGED step
  /\ UNCHANGED <<disk, hdr, cache, lh, outstanding, committing, pc, wrote,
                 writes, crashes, panicked>>

write_head ==
  /\ ~panicked /\ step = "head"
  /\ hdr' = lh
  /\ step' = "install"
  /\ UNCHANGED <<disk, logged, cache, lh, outstanding, committing, pc, wrote,
                 tail, writes, crashes, panicked>>

(* A block of the log is copied to its home; the loop ends after the last. *)
Install(from, to) ==
  /\ ~panicked /\ step = from
  /\ IF tail <= Len(lh)
       THEN /\ disk' = [disk EXCEPT ![lh[tail]] = logged[tail]]
            /\ cache' = [cache EXCEPT ![lh[tail]] = logged[tail]]
            /\ tail' = tail + 1 /\ UNCHANGED step
       ELSE step' = to /\ UNCHANGED <<disk, cache, tail>>
  /\ UNCHANGED <<hdr, logged, lh, outstanding, committing, pc, wrote, writes,
                 crashes, panicked>>

install_trans == Install("install", "erase")

(* log.lh.n = 0; write_head().                                             *)
Erase(from, to) ==
  /\ ~panicked /\ step = from
  /\ lh' = <<>> /\ hdr' = <<>>
  /\ step' = to
  /\ UNCHANGED <<disk, logged, outstanding, committing, pc, wrote, tail, writes,
                 crashes, panicked>>

erase_log == Erase("erase", "done") /\ UNCHANGED cache

(* Mutant of EndCommit: no wakeup.                                         *)
EndCommitSilent(p) ==
  /\ ~panicked /\ step = "done" /\ pc[p] = "commit"
  /\ committing' = FALSE /\ Goto(p, "idle") /\ step' = "none"
  /\ UNCHANGED <<ondisk, cache, lh, outstanding, wrote, tail, writes, crashes,
                 panicked>>

(* The end of end_op.                                                      *)
EndCommit(p) ==
  /\ ~panicked /\ step = "done" /\ pc[p] = "commit"
  /\ committing' = FALSE
  /\ pc' = Wake([pc EXCEPT ![p] = "idle"])
  /\ step' = "none"
  /\ UNCHANGED <<ondisk, cache, lh, outstanding, wrote, tail, writes, crashes,
                 panicked>>

----------------------------------------------------------------------------
(* Crash and recovery.                                                     *)

Crash ==
  /\ crashes < MaxCrashes /\ crashes' = crashes + 1
  /\ lh' = <<>> /\ outstanding' = 0 /\ committing' = FALSE
  /\ pc' = [p \in Ops |-> "idle"] /\ wrote' = [p \in Ops |-> {}]
  /\ step' = "boot" /\ tail' = 1 /\ panicked' = FALSE
  /\ cache' = disk
  /\ UNCHANGED <<ondisk, writes>>

read_head ==
  /\ step = "boot"
  /\ lh' = hdr /\ tail' = 1 /\ step' = "replay"
  /\ UNCHANGED <<ondisk, cache, outstanding, committing, pc, wrote, writes,
                 crashes, panicked>>

replay == Install("replay", "clear")

clear_log == Erase("clear", "none") /\ UNCHANGED cache

recover_from_log == read_head \/ replay \/ clear_log

----------------------------------------------------------------------------
Op(p) == Call(p) \/ begin_op(p) \/ end_op(p) \/ EndCommit(p)

commit == write_log \/ write_head \/ install_trans \/ erase_log

Next == \/ \E p \in Ops : Op(p) \/ \E b \in Blocks : log_write(p, b)
        \/ commit \/ recover_from_log \/ Crash

Spec == Init /\ [][Next]_vars

FairSpec == /\ Spec
            /\ \A p \in Ops : WF_vars(begin_op(p) \/ end_op(p) \/ EndCommit(p))
            /\ WF_vars(commit) /\ WF_vars(recover_from_log)

----------------------------------------------------------------------------
(* Properties.                                                             *)

Steps == {"none", "log", "head", "install", "erase", "done",
          "boot", "replay", "clear"}

BlocksOK ==
  /\ disk \in [Blocks -> Nat] /\ cache \in [Blocks -> Nat]
  /\ logged \in [LogSlots -> Nat]
  /\ hdr \in Seq(Blocks) /\ lh \in Seq(Blocks)

OpsOK ==
  /\ pc \in [Ops -> {"idle", "begin", "asleep", "in", "commit"}]
  /\ wrote \in [Ops -> SUBSET Blocks]

LogTypeOK ==
  /\ BlocksOK /\ OpsOK
  /\ outstanding \in Int /\ committing \in BOOLEAN
  /\ step \in Steps /\ tail \in Nat \ {0}
  /\ writes \in Nat /\ crashes \in Nat /\ panicked \in BOOLEAN

Active == {p \in Ops : pc[p] = "in"}

(* The disk that recovery would leave: the log over the home locations.    *)
Recovered ==
  [b \in Blocks |->
     IF \E i \in 1 .. Len(hdr) : hdr[i] = b
       THEN logged[CHOOSE i \in 1 .. Len(hdr) : hdr[i] = b] ELSE disk[b]]

(* The disk that system calls see.                                         *)
Visible == IF Booting THEN Recovered ELSE cache

Atomic == INSTANCE AtomicDisk
  WITH Values <- 0 .. MaxWrites, stable <- Recovered, volatile <- Visible, active <- Active

(* The log implements a disk that is updated atomically: whenever the      *)
(* machine crashes, in a commit or in a recovery too, the disk after       *)
(* recovery is the one at the last commit, with all updates of the system  *)
(* calls that ended before it and none of those that were still active.    *)
AtomicUpdates == Atomic!Spec

(* "There is never any reasoning required about whether a commit might     *)
(* write an uncommitted system call's updates to disk": while a commit     *)
(* runs no system call is between begin_op and end_op.                     *)
CommitAlone == committing => Active = {} /\ outstanding = 0

(* A cached block that differs from its home on disk is in the log header, *)
(* so that commit writes it and its buffer is pinned until then.           *)
DirtyIsLogged ==
  Running =>
    \A b \in Blocks : cache[b] # disk[b] => b \in Logged

(* log_write does not run out of log: the space begin_op reserves for each *)
(* system call is enough.                                                  *)
NoLogPanic == ~panicked

(* A process that sleeps in begin_op is woken: each commit and each end_op *)
(* that frees space wakes it.                                              *)
SleepersWake == \A p \in Ops : pc[p] = "asleep" ~> pc[p] # "asleep" \/ panicked
=============================================================================
