------------------------------ MODULE Process ------------------------------
(***************************************************************************)
(* Processes of kernel/proc.c: fork, exit, wait, kill, sleep, wakeup and   *)
(* the scheduler, on any number of harts.                                  *)
(*                                                                         *)
(* proc[i] is slot i.  A section under one p->lock that touches nothing    *)
(* but that slot is a single step, which waits for the lock to be free;    *)
(* wait_lock, and a p->lock that is kept over several steps, are held by   *)
(* the process that took them.  The scheduler's loop over the table is a   *)
(* choice among the runnable slots.                                        *)
(***************************************************************************)
EXTENDS Naturals, FiniteSets

CONSTANTS
  NPROC,     \* size of the process table
  NCPU,      \* harts
  MaxPid,    \* bound on the pids given out
  KillPids,  \* pids that kill is called with
  None       \* the null pointer

Slots == 0 .. NPROC - 1
initproc == 0

ASSUME ProcAssumption ==
  /\ NPROC \in Nat \ {0} /\ NCPU \in Nat \ {0} /\ MaxPid \in Nat \ {0}
  /\ KillPids \subseteq 2 .. MaxPid
  /\ None \notin Slots

VARIABLES
  state, pid, parent, chan, killed,  \* the fields of proc[i]
  nextpid,
  lock,       \* the holder of each p->lock
  wait_lock,  \* the holder of wait_lock
  cpus, idle, \* harts on the kernel stack of each process, and in scheduler
  pc,         \* control point of each process, and its locals:
  k, j,       \* indices of the loops over the table, j that of wakeup
  havekids, arg,
  back,       \* where the process goes on when it is scheduled again
  sh,         \* init's pid: the shell it waits for, 0 for none
  panicked

tab == <<state, pid, parent, chan, killed, nextpid>>
loc == <<k, j, havekids, arg, back, sh>>
vars == <<tab, lock, wait_lock, cpus, idle, pc, loc, panicked>>

At(i, l) == cpus[i] > 0 /\ ~panicked /\ pc[i] = l
Goto(i, l) == pc' = [pc EXCEPT ![i] = l]
Free(i) == lock[i] = None

(* The end of a call, with which its locals are gone.                      *)
Return(i, l) ==
  /\ Goto(i, l)
  /\ k' = [k EXCEPT ![i] = 0] /\ j' = [j EXCEPT ![i] = 0]
  /\ havekids' = [havekids EXCEPT ![i] = FALSE] /\ arg' = [arg EXCEPT ![i] = 0]

(* scheduler: an idle hart takes a runnable process and hands it the lock. *)
scheduler(i) ==
  /\ ~panicked /\ idle > 0 /\ Free(i) /\ state[i] = "RUNNABLE"
  /\ state' = [state EXCEPT ![i] = "RUNNING"]
  /\ lock' = [lock EXCEPT ![i] = i]
  /\ cpus' = [cpus EXCEPT ![i] = @ + 1] /\ idle' = idle - 1
  /\ UNCHANGED <<pid, parent, chan, killed, nextpid, wait_lock, pc, loc, panicked>>

(* The way back out of swtch in yield, sleep and forkret.  Only sleep has  *)
(* a chan to clear.                                                        *)
Resume(i) ==
  /\ At(i, "resume")
  /\ chan' = [chan EXCEPT ![i] = None]
  /\ lock' = [lock EXCEPT ![i] = None]
  /\ Goto(i, back[i])
  /\ back' = [back EXCEPT ![i] = "user"]
  /\ UNCHANGED <<state, pid, parent, killed, nextpid, wait_lock, cpus, idle, k, j,
                 havekids, arg, sh, panicked>>

(* sched: its checks, then the switch to the scheduler, which releases the *)
(* lock of the process it was switched from.                               *)
sched(i) ==
  /\ At(i, "switch")
  /\ IF lock[i] # i \/ wait_lock = i \/ state[i] = "RUNNING"
       THEN panicked' = TRUE /\ UNCHANGED <<lock, cpus, idle, pc>>
       ELSE /\ cpus' = [cpus EXCEPT ![i] = @ - 1] /\ idle' = idle + 1
            /\ lock' = [lock EXCEPT ![i] = None]
            /\ Goto(i, "resume")
            /\ UNCHANGED panicked
  /\ UNCHANGED <<tab, wait_lock, loc>>

(* yield, on a timer interrupt in user mode.  One in the kernel is left    *)
(* out: nothing but the scheduler tells RUNNABLE from RUNNING, so to the   *)
(* others a process that is preempted there is one that is slow.           *)
yield(i) ==
  /\ At(i, "user") /\ Free(i)
  /\ state' = [state EXCEPT ![i] = "RUNNABLE"]
  /\ lock' = [lock EXCEPT ![i] = i]
  /\ Goto(i, "switch")
  /\ UNCHANGED <<pid, parent, chan, killed, nextpid, wait_lock, cpus, idle, loc,
                 panicked>>

freeproc(n) ==
  /\ state' = [state EXCEPT ![n] = "UNUSED"]
  /\ pid' = [pid EXCEPT ![n] = 0]
  /\ parent' = [parent EXCEPT ![n] = None]
  /\ chan' = [chan EXCEPT ![n] = None]
  /\ killed' = [killed EXCEPT ![n] = FALSE]

----------------------------------------------------------------------------
(* User programs.  initproc runs user/init.c: it starts a shell and waits  *)
(* until that shell is gone; the others call what they like.  A trap of a  *)
(* killed process ends in exit, as does that of one that faults (exit in   *)
(* Program).                                                               *)

Enter(i, l) ==
  /\ Goto(i, l)
  /\ k' = [k EXCEPT ![i] = 0]
  /\ UNCHANGED <<tab, lock, wait_lock, cpus, idle, j, havekids, back, sh, panicked>>

Trap(i) == At(i, "user") /\ killed[i] /\ Enter(i, "exit") /\ UNCHANGED arg

InitProgram(i) ==
  /\ At(i, "user") /\ ~killed[i] /\ i = initproc
  /\ \/ sh = 0 /\ nextpid <= MaxPid /\ Enter(i, "alloc")
     \/ sh # 0 /\ Enter(i, "wait")
  /\ UNCHANGED arg

Program(i) ==
  /\ At(i, "user") /\ ~killed[i] /\ i # initproc
  /\ \/ nextpid <= MaxPid /\ Enter(i, "alloc") /\ UNCHANGED arg
     \/ Enter(i, "wait") /\ UNCHANGED arg
     \/ Enter(i, "exit") /\ UNCHANGED arg
     \/ \E v \in KillPids : Enter(i, "kill") /\ arg' = [arg EXCEPT ![i] = v]

(* Where a call that fails goes: init exits.                               *)
Failed(i) == IF i = initproc THEN "exit" ELSE "user"

----------------------------------------------------------------------------
(* fork.                                                                   *)

(* allocproc looks at one slot.  When it takes it, the memory for the      *)
(* trap frame or the page table may be lacking.                            *)
allocproc(i) ==
  /\ At(i, "alloc")
  /\ IF k[i] = NPROC
       THEN Return(i, Failed(i)) /\ UNCHANGED <<tab, lock, back>>
       ELSE /\ Free(k[i])
            /\ \/ /\ state[k[i]] # "UNUSED"
                  /\ k' = [k EXCEPT ![i] = @ + 1]
                  /\ UNCHANGED <<tab, lock, pc, j, havekids, arg, back>>
               \/ /\ state[k[i]] = "UNUSED"
                  /\ nextpid' = nextpid + 1
                  /\ pid' = [pid EXCEPT ![k[i]] = nextpid]
                  /\ state' = [state EXCEPT ![k[i]] = "USED"]
                  /\ lock' = [lock EXCEPT ![k[i]] = i]
                  /\ pc' = [pc EXCEPT ![i] = "copy", ![k[i]] = "resume"]
                  /\ back' = [back EXCEPT ![k[i]] = "user"]
                  /\ UNCHANGED <<parent, chan, killed, k, j, havekids, arg>>
               \/ /\ state[k[i]] = "UNUSED"
                  /\ nextpid' = nextpid + 1
                  /\ freeproc(k[i])
                  /\ Return(i, Failed(i))
                  /\ UNCHANGED <<lock, back>>
  /\ UNCHANGED <<wait_lock, cpus, idle, sh, panicked>>

(* uvmcopy, which may fail, and the end of the first locked section.       *)
ForkCopy(i) ==
  /\ At(i, "copy")
  /\ lock' = [lock EXCEPT ![k[i]] = None]
  /\ \/ Goto(i, "parent") /\ UNCHANGED <<tab, k, j, havekids, arg>>
     \/ Return(i, Failed(i)) /\ freeproc(k[i]) /\ UNCHANGED nextpid
  /\ UNCHANGED <<wait_lock, cpus, idle, back, sh, panicked>>

ForkParent(i) ==
  /\ At(i, "parent") /\ wait_lock = None
  /\ parent' = [parent EXCEPT ![k[i]] = i]
  /\ Goto(i, "ready")
  /\ UNCHANGED <<state, pid, chan, killed, nextpid, lock, wait_lock, cpus, idle, loc,
                 panicked>>

ForkReady(i) ==
  /\ At(i, "ready") /\ Free(k[i])
  /\ state' = [state EXCEPT ![k[i]] = "RUNNABLE"]
  /\ sh' = IF i = initproc THEN pid[k[i]] ELSE sh
  /\ Return(i, "user")
  /\ UNCHANGED <<pid, parent, chan, killed, nextpid, lock, wait_lock, cpus, idle, back,
                 panicked>>

----------------------------------------------------------------------------
(* exit.                                                                   *)

exit(i) ==
  /\ At(i, "exit")
  /\ IF i = initproc
       THEN panicked' = TRUE /\ UNCHANGED <<wait_lock, pc, k>>
       ELSE /\ wait_lock = None
            /\ wait_lock' = i
            /\ k' = [k EXCEPT ![i] = 0]
            /\ Goto(i, "reparent")
            /\ UNCHANGED panicked
  /\ UNCHANGED <<tab, lock, cpus, idle, j, havekids, arg, back, sh>>

(* Mutant of reparent: the last slot is left out.                          *)
reparentShort(i) ==
  /\ At(i, "reparent")
  /\ j' = [j EXCEPT ![i] = 0]
  /\ IF k[i] = NPROC - 1
       THEN Goto(i, "wakeparent") /\ UNCHANGED <<parent, k>>
       ELSE /\ k' = [k EXCEPT ![i] = @ + 1]
            /\ IF parent[k[i]] = i
                 THEN /\ parent' = [parent EXCEPT ![k[i]] = initproc]
                      /\ Goto(i, "wakeinit")
                 ELSE UNCHANGED <<parent, pc>>
  /\ UNCHANGED <<state, pid, chan, killed, nextpid, lock, wait_lock, cpus, idle,
                 havekids, arg, back, sh, panicked>>

(* One turn of reparent, up to its call of wakeup(initproc); after the     *)
(* last, exit calls wakeup(p->parent).                                     *)
reparent(i) ==
  /\ At(i, "reparent")
  /\ j' = [j EXCEPT ![i] = 0]
  /\ IF k[i] = NPROC
       THEN Goto(i, "wakeparent") /\ UNCHANGED <<parent, k>>
       ELSE /\ k' = [k EXCEPT ![i] = @ + 1]
            /\ IF parent[k[i]] = i
                 THEN /\ parent' = [parent EXCEPT ![k[i]] = initproc]
                      /\ Goto(i, "wakeinit")
                 ELSE UNCHANGED <<parent, pc>>
  /\ UNCHANGED <<state, pid, chan, killed, nextpid, lock, wait_lock, cpus, idle,
                 havekids, arg, back, sh, panicked>>

(* One turn of wakeup(c); ret is where the caller goes on.                 *)
wakeup(i, c, ret) ==
  /\ IF j[i] = NPROC
       THEN Goto(i, ret) /\ UNCHANGED <<state, j>>
       ELSE /\ j[i] # i => Free(j[i])
            /\ j' = [j EXCEPT ![i] = @ + 1]
            /\ state' = IF j[i] # i /\ state[j[i]] = "SLEEPING" /\ chan[j[i]] = c
                          THEN [state EXCEPT ![j[i]] = "RUNNABLE"] ELSE state
            /\ UNCHANGED pc
  /\ UNCHANGED <<pid, parent, chan, killed, nextpid, lock, wait_lock, cpus, idle, k,
                 havekids, arg, back, sh, panicked>>

ReparentWakes(i) == At(i, "wakeinit") /\ wakeup(i, initproc, "reparent")

(* Mutant of ExitWakes: the channel of the process itself.                 *)
ExitWakesSelf(i) == At(i, "wakeparent") /\ wakeup(i, i, "zombie")

ExitWakes(i) == At(i, "wakeparent") /\ wakeup(i, parent[i], "zombie")

ExitZombie(i) ==
  /\ At(i, "zombie") /\ Free(i)
  /\ lock' = [lock EXCEPT ![i] = i]
  /\ state' = [state EXCEPT ![i] = "ZOMBIE"]
  /\ Return(i, "letgo")
  /\ UNCHANGED <<pid, parent, chan, killed, nextpid, wait_lock, cpus, idle, back, sh,
                 panicked>>

ExitLetGo(i) ==
  /\ At(i, "letgo")
  /\ wait_lock' = None
  /\ Goto(i, "switch")
  /\ UNCHANGED <<tab, lock, cpus, idle, loc, panicked>>

----------------------------------------------------------------------------
(* wait, with the sleep in it.                                             *)

wait(i) ==
  /\ At(i, "wait") /\ wait_lock = None
  /\ wait_lock' = i
  /\ k' = [k EXCEPT ![i] = 0]
  /\ havekids' = [havekids EXCEPT ![i] = FALSE]
  /\ Goto(i, "scan")
  /\ UNCHANGED <<tab, lock, cpus, idle, j, arg, back, sh, panicked>>

(* A zombie is freed, unless the status cannot be copied out (init passes  *)
(* no address).                                                            *)
Reap(i, n) ==
  /\ state[n] = "ZOMBIE"
  /\ wait_lock' = None
  /\ Return(i, "user")
  /\ \/ /\ freeproc(n)
        /\ sh' = IF i = initproc /\ pid[n] = sh THEN 0 ELSE sh
     \/ i # initproc /\ UNCHANGED <<state, pid, parent, chan, killed, sh>>

(* Mutant of WaitScan: the child's lock is not taken.                      *)
WaitNoLock(i) ==
  /\ At(i, "scan") /\ k[i] < NPROC
  /\ \/ /\ parent[k[i]] # i
        /\ k' = [k EXCEPT ![i] = @ + 1]
        /\ UNCHANGED <<state, pid, parent, chan, killed, wait_lock, pc, j, havekids, arg, sh>>
     \/ /\ parent[k[i]] = i
        /\ \/ Reap(i, k[i])
           \/ /\ state[k[i]] # "ZOMBIE"
              /\ k' = [k EXCEPT ![i] = @ + 1]
              /\ havekids' = [havekids EXCEPT ![i] = TRUE]
              /\ UNCHANGED <<state, pid, parent, chan, killed, wait_lock, pc, j, arg, sh>>
  /\ UNCHANGED <<nextpid, lock, cpus, idle, back, panicked>>

WaitScan(i) ==
  /\ At(i, "scan") /\ k[i] < NPROC
  /\ \/ /\ parent[k[i]] # i
        /\ k' = [k EXCEPT ![i] = @ + 1]
        /\ UNCHANGED <<state, pid, parent, chan, killed, wait_lock, pc, j, havekids, arg, sh>>
     \/ /\ parent[k[i]] = i /\ Free(k[i])
        /\ \/ Reap(i, k[i])
           \/ /\ state[k[i]] # "ZOMBIE"
              /\ k' = [k EXCEPT ![i] = @ + 1]
              /\ havekids' = [havekids EXCEPT ![i] = TRUE]
              /\ UNCHANGED <<state, pid, parent, chan, killed, wait_lock, pc, j, arg, sh>>
  /\ UNCHANGED <<nextpid, lock, cpus, idle, back, panicked>>

(* Mutant of WaitDecide: killed is not looked at.                          *)
WaitDeaf(i) ==
  /\ At(i, "scan") /\ k[i] = NPROC
  /\ IF ~havekids[i]
       THEN wait_lock' = None /\ Return(i, Failed(i))
       ELSE Return(i, "sleep") /\ UNCHANGED wait_lock
  /\ UNCHANGED <<tab, lock, cpus, idle, back, sh, panicked>>

WaitDecide(i) ==
  /\ At(i, "scan") /\ k[i] = NPROC
  /\ IF ~havekids[i] \/ killed[i]
       THEN wait_lock' = None /\ Return(i, Failed(i))
       ELSE Return(i, "sleep") /\ UNCHANGED wait_lock
  /\ UNCHANGED <<tab, lock, cpus, idle, back, sh, panicked>>

(* sleep: p->lock is taken before the caller's lock is given up.           *)
SleepLock(i) ==
  /\ At(i, "sleep") /\ Free(i)
  /\ lock' = [lock EXCEPT ![i] = i]
  /\ Goto(i, "release")
  /\ UNCHANGED <<tab, wait_lock, cpus, idle, loc, panicked>>

SleepRelease(i) ==
  /\ At(i, "release")
  /\ wait_lock' = None
  /\ Goto(i, "asleep")
  /\ UNCHANGED <<tab, lock, cpus, idle, loc, panicked>>

sleep(i) ==
  /\ At(i, "asleep")
  /\ chan' = [chan EXCEPT ![i] = i]
  /\ state' = [state EXCEPT ![i] = "SLEEPING"]
  /\ back' = [back EXCEPT ![i] = "wait"]
  /\ Goto(i, "switch")
  /\ UNCHANGED <<pid, parent, killed, nextpid, lock, wait_lock, cpus, idle, k, j,
                 havekids, arg, sh, panicked>>

----------------------------------------------------------------------------
(* kill looks at one slot.                                                 *)
kill(i) ==
  /\ At(i, "kill")
  /\ IF k[i] = NPROC
       THEN Return(i, "user") /\ UNCHANGED <<state, killed>>
       ELSE /\ Free(k[i])
            /\ IF pid[k[i]] = arg[i]
                 THEN /\ killed' = [killed EXCEPT ![k[i]] = TRUE]
                      /\ state' = IF state[k[i]] = "SLEEPING"
                                    THEN [state EXCEPT ![k[i]] = "RUNNABLE"] ELSE state
                      /\ Return(i, "user")
                 ELSE /\ k' = [k EXCEPT ![i] = @ + 1]
                      /\ UNCHANGED <<state, killed, pc, j, havekids, arg>>
  /\ UNCHANGED <<pid, parent, chan, nextpid, lock, wait_lock, cpus, idle, back, sh,
                 panicked>>

----------------------------------------------------------------------------
(* userinit has made the first process; it has not run yet.                *)
Init ==
  /\ state = [i \in Slots |-> IF i = initproc THEN "RUNNABLE" ELSE "UNUSED"]
  /\ pid = [i \in Slots |-> IF i = initproc THEN 1 ELSE 0]
  /\ parent = [i \in Slots |-> None] /\ chan = [i \in Slots |-> None]
  /\ killed = [i \in Slots |-> FALSE] /\ nextpid = 2
  /\ lock = [i \in Slots |-> None] /\ wait_lock = None
  /\ cpus = [i \in Slots |-> 0] /\ idle = NCPU
  /\ pc = [i \in Slots |-> "resume"]
  /\ k = [i \in Slots |-> 0] /\ j = [i \in Slots |-> 0]
  /\ havekids = [i \in Slots |-> FALSE] /\ arg = [i \in Slots |-> 0]
  /\ back = [i \in Slots |-> "user"] /\ sh = 0 /\ panicked = FALSE

Switch(i) == scheduler(i) \/ Resume(i) \/ sched(i) \/ yield(i)

Call(i) ==
  \/ Trap(i) \/ InitProgram(i)
  \/ allocproc(i) \/ ForkCopy(i) \/ ForkParent(i) \/ ForkReady(i)
  \/ exit(i) \/ reparent(i) \/ ReparentWakes(i) \/ ExitWakes(i) \/ ExitZombie(i)
  \/ ExitLetGo(i) \/ wait(i) \/ WaitScan(i) \/ WaitDecide(i) \/ SleepLock(i)
  \/ SleepRelease(i) \/ sleep(i) \/ kill(i)

Next == \E i \in Slots : Switch(i) \/ Call(i) \/ Program(i)

Spec == Init /\ [][Next]_vars

(* The timer takes a process off its hart, the scheduler's loop comes to   *)
(* every slot, and a process that runs again and again gets on with its    *)
(* call; a lock that is released again and again is acquired in the end.   *)
(* What programs call is up to them, init's apart.                         *)
FairSpec ==
  /\ Spec
  /\ \A i \in Slots : /\ WF_vars(yield(i)) /\ WF_vars(Resume(i) \/ sched(i))
                        /\ SF_vars(scheduler(i)) /\ SF_vars(Call(i))

----------------------------------------------------------------------------
(* The fields of the table, the locks and the locals have their types.     *)
Labels == {"user", "resume", "switch", "alloc", "copy", "parent", "ready", "exit",
           "reparent", "wakeinit", "wakeparent", "zombie", "letgo", "wait", "scan",
           "sleep", "release", "asleep", "kill"}

TableOK ==
  /\ state \in [Slots -> {"UNUSED", "USED", "SLEEPING", "RUNNABLE", "RUNNING", "ZOMBIE"}]
  /\ pid \in [Slots -> Nat] /\ nextpid \in Nat /\ sh \in Nat
  /\ parent \in [Slots -> Slots \cup {None}] /\ chan \in [Slots -> Slots \cup {None}]

HartsOK ==
  /\ lock \in [Slots -> Slots \cup {None}] /\ wait_lock \in Slots \cup {None}
  /\ cpus \in [Slots -> Nat] /\ idle \in Nat

ControlOK ==
  /\ pc \in [Slots -> Labels] /\ back \in [Slots -> {"user", "wait"}]
  /\ k \in [Slots -> 0 .. NPROC] /\ j \in [Slots -> 0 .. NPROC] /\ arg \in [Slots -> Nat]

FlagsOK ==
  killed \in [Slots -> BOOLEAN] /\ havekids \in [Slots -> BOOLEAN] /\ panicked \in BOOLEAN

ProcTypeOK == TableOK /\ HartsOK /\ ControlOK /\ FlagsOK

(* No kernel stack is used by two harts, and none of a process that was    *)
(* freed: a process is not run again, nor freed by wait, before it has     *)
(* left its stack in sched.                                                *)
OneStack ==
  \A i \in Slots : /\ cpus[i] <= 1
                   /\ state[i] \in {"UNUSED", "USED"} => cpus[i] = 0

(* When nobody is in the middle of exit or wait, no parent is asleep in    *)
(* wait while a child of it is a zombie.                                   *)
NoMissedExit ==
  wait_lock = None =>
    \A i, c \in Slots : state[i] = "SLEEPING" /\ parent[c] = i => state[c] # "ZOMBIE"

(* When nobody is in the middle of exit, every process that was started    *)
(* has a parent that can still wait for it.                                *)
NoOrphan ==
  wait_lock = None =>
    \A c \in Slots \ {initproc} :
      state[c] \in {"SLEEPING", "RUNNABLE", "RUNNING", "ZOMBIE"} =>
        parent[c] # None /\ state[parent[c]] \notin {"UNUSED", "USED", "ZOMBIE"}

(* init has no shell and no pid is left in the model to start one.         *)
OutOfPids == sh = 0 /\ nextpid > MaxPid

(* A zombie that belongs to init, born or orphaned, is collected.          *)
ZombiesCollected ==
  \A c \in Slots \ {initproc} :
    state[c] = "ZOMBIE" /\ parent[c] = initproc
      ~> state[c] = "UNUSED" \/ panicked \/ OutOfPids

(* A killed process exits, unless the kill came between the test of killed *)
(* in wait and the sleep after it.                                         *)
KilledExits ==
  \A i \in Slots \ {initproc} :
    /\ killed[i] /\ state[i] # "SLEEPING"
    /\ pc[i] \notin {"sleep", "release", "asleep"}
    ~> state[i] \in {"ZOMBIE", "UNUSED"} \/ panicked
=============================================================================
