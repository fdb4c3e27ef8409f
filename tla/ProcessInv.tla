---------------------------- MODULE ProcessInv -----------------------------
(***************************************************************************)
(* The inductive invariant ProcInv of Process, which says what each        *)
(* control point of a process implies for its slot, its locks and its      *)
(* family, and that every step keeps the parts of it about types, stacks,  *)
(* wait_lock, the slots of forks and the channels of sleepers.             *)
(***************************************************************************)
EXTENDS Process, TLAPS

(* The stack of a process is in use exactly while pc is not at "resume" or *)
(* the scheduler has handed the process its lock; it is RUNNING then, but  *)
(* from the change of state before sched to the switch, where the lock is  *)
(* held.                                                                   *)
OwnLock == {"switch", "letgo", "release", "asleep"}

StackInv ==
  \A i \in Slots :
    /\ cpus[i] \in {0, 1}
    /\ cpus[i] = 0 => pc[i] = "resume" /\ state[i] # "RUNNING"
    /\ cpus[i] = 1 => IF pc[i] \in {"switch", "letgo"}
                        THEN state[i] \in {"RUNNABLE", "SLEEPING", "ZOMBIE"}
                        ELSE state[i] = "RUNNING"
    /\ pc[i] \in OwnLock \/ (pc[i] = "resume" /\ cpus[i] = 1) => lock[i] = i

(* wait_lock is held by the process that is in the middle of exit or wait. *)
Holding == {"reparent", "wakeinit", "wakeparent", "zombie", "letgo", "scan", "sleep",
            "release"}

WaitInv ==
  /\ \A i \in Slots : pc[i] \in Holding => wait_lock = i
  /\ wait_lock # None => pc[wait_lock] \in Holding

(* The slot a fork has taken is its own until it is RUNNABLE.              *)
Forking == {"copy", "parent", "ready"}

ForkInv ==
  \A i \in Slots :
    pc[i] \in Forking =>
      /\ k[i] \in Slots /\ state[k[i]] = "USED"
      /\ pc[i] = "copy" => lock[k[i]] = i
      /\ pc[i] = "ready" => parent[k[i]] = i
      /\ \A m \in Slots \ {i} : pc[m] \in Forking => k[m] # k[i]

(* Every process but init has a parent; nobody is the child of a slot that *)
(* is not in use or of a zombie; exit has given away the children in the   *)
(* slots below k, all of them once reparent is over.                       *)
Started == {"SLEEPING", "RUNNABLE", "RUNNING", "ZOMBIE"}
Gone == {"UNUSED", "USED", "ZOMBIE"}
Exiting == {"reparent", "wakeinit", "wakeparent", "zombie", "letgo"}

FamilyInv ==
  /\ state[initproc] \notin Gone
  /\ \A c \in Slots \ {initproc} : state[c] \in Started => parent[c] # None
  /\ \A i, c \in Slots : state[i] \in Gone => parent[c] # i
  /\ \A i \in Slots : pc[i] \in Exiting => i # initproc
  /\ \A i, c \in Slots :
       /\ pc[i] \in {"reparent", "wakeinit"} /\ c < k[i] => parent[c] # i
       /\ pc[i] \in {"wakeparent", "zombie"} => parent[c] # i

(* A sleeper in wait sleeps on its own address.                            *)
ChanInv == \A i \in Slots : state[i] = "SLEEPING" => chan[i] = i

(* A process that sleeps in wait, or has decided to, has no zombie for a   *)
(* child: the scan that came before found none, and a child that exits     *)
(* passes wakeup, which needs the lock of the sleeper, before it becomes   *)
(* one.  Only init may have inherited one a moment ago, from a process     *)
(* that is about to wake it.                                               *)
Dozing(i) == pc[i] = "asleep" \/ state[i] = "SLEEPING"
Inherits(i) == i = initproc /\ \E x \in Slots : pc[x] = "wakeinit" /\ j[x] = 0

MissInv ==
  \A i, c \in Slots :
    parent[c] = i =>
      /\ pc[i] = "scan" /\ c < k[i] => state[c] # "ZOMBIE"
      /\ pc[i] \in {"sleep", "release"} => state[c] # "ZOMBIE"
      /\ Dozing(i) => /\ state[c] = "ZOMBIE" => Inherits(i)
                      /\ pc[c] # "zombie"
                      /\ pc[c] = "wakeparent" => j[c] <= i

ProcInv == ProcTypeOK /\ StackInv /\ WaitInv /\ ForkInv /\ FamilyInv /\ ChanInv /\ MissInv
----------------------------------------------------------------------------
(* A step is one of the actions of some slot.                              *)
LEMMA StepCases ==
  ASSUME NEW i \in Slots, Switch(i) \/ Call(i) \/ Program(i)
  PROVE  \/ scheduler(i) \/ Resume(i) \/ sched(i) \/ yield(i)
         \/ Trap(i) \/ InitProgram(i) \/ Program(i)
         \/ allocproc(i) \/ ForkCopy(i) \/ ForkParent(i) \/ ForkReady(i)
         \/ exit(i) \/ reparent(i) \/ ReparentWakes(i) \/ ExitWakes(i) \/ ExitZombie(i)
         \/ ExitLetGo(i) \/ wait(i) \/ WaitScan(i) \/ WaitDecide(i) \/ SleepLock(i)
         \/ SleepRelease(i) \/ sleep(i) \/ kill(i)
  BY Zenon DEF Switch, Call

(* Slots is 0 .. NPROC - 1 and None is none of them.                       *)
LEMMA SlotFacts ==
  /\ NPROC \in Nat \ {0} /\ initproc \in Slots /\ None \notin Slots
  /\ \A n \in 0 .. NPROC : n # NPROC \/ n < NPROC => n \in Slots /\ n + 1 \in 0 .. NPROC
  /\ \A n \in Slots : n \in Nat /\ n < NPROC
  BY ProcAssumption DEF Slots, initproc

(* The index of a loop over the table is one of a slot until it is NPROC.  *)
LEMMA IndexFacts ==
  ASSUME ControlOK, NEW i \in Slots
  PROVE  /\ k[i] \in Nat /\ (k[i] # NPROC \/ k[i] < NPROC => k[i] \in Slots)
         /\ j[i] \in Nat /\ (j[i] # NPROC \/ j[i] < NPROC => j[i] \in Slots)
  BY Zenon, SlotFacts DEF ControlOK

(* The same of all processes, without the bounds.                          *)
LEMMA ControlFacts ==
  ASSUME ControlOK
  PROVE  /\ pc \in [Slots -> Labels] /\ back \in [Slots -> {"user", "wait"}]
         /\ k \in [Slots -> Nat] /\ j \in [Slots -> Nat]
  BY ZenonT(40), SlotFacts DEF ControlOK

(* The ways a step that also sets a flag changes the other variables: the  *)
(* end of a call, freeproc, and the next turn of a loop over the table.    *)
Ends(i, l) ==
  /\ pc' = [pc EXCEPT ![i] = l] /\ k' = [k EXCEPT ![i] = 0]
  /\ j' = [j EXCEPT ![i] = 0] /\ arg' = [arg EXCEPT ![i] = 0]

Frees(n) ==
  /\ state' = [state EXCEPT ![n] = "UNUSED"] /\ pid' = [pid EXCEPT ![n] = 0]
  /\ parent' = [parent EXCEPT ![n] = None] /\ chan' = [chan EXCEPT ![n] = None]

Advances(i) == k' = [k EXCEPT ![i] = @ + 1] /\ UNCHANGED <<pc, j, arg>>

table == <<state, pid, parent, chan>>

(* What a turn of allocproc does, the flags apart.                         *)
LEMMA AllocEffect ==
  ASSUME NEW i, allocproc(i)
  PROVE  /\ At(i, "alloc") /\ UNCHANGED <<wait_lock, cpus, idle, sh>>
         /\ \/ /\ k[i] = NPROC
               /\ Ends(i, Failed(i)) /\ UNCHANGED <<table, nextpid, lock, back>>
            \/ /\ k[i] # NPROC /\ state[k[i]] # "UNUSED"
               /\ Advances(i) /\ UNCHANGED <<table, nextpid, lock, back>>
            \/ /\ k[i] # NPROC /\ Free(k[i]) /\ state[k[i]] = "UNUSED"
               /\ nextpid' = nextpid + 1 /\ pid' = [pid EXCEPT ![k[i]] = nextpid]
               /\ state' = [state EXCEPT ![k[i]] = "USED"]
               /\ lock' = [lock EXCEPT ![k[i]] = i]
               /\ pc' = [pc EXCEPT ![i] = "copy", ![k[i]] = "resume"]
               /\ back' = [back EXCEPT ![k[i]] = "user"]
               /\ UNCHANGED <<parent, chan, k, j, arg>>
            \/ /\ k[i] # NPROC /\ Free(k[i]) /\ state[k[i]] = "UNUSED"
               /\ nextpid' = nextpid + 1 /\ Frees(k[i]) /\ Ends(i, Failed(i))
               /\ UNCHANGED <<lock, back>>
  BY ZenonT(40) DEF allocproc, Ends, Frees, Advances, Return, Goto, freeproc, tab, table

(* The same for the first locked section of fork.                          *)
LEMMA CopyEffect ==
  ASSUME NEW i, ForkCopy(i)
  PROVE  /\ At(i, "copy") /\ lock' = [lock EXCEPT ![k[i]] = None]
         /\ UNCHANGED <<nextpid, wait_lock, cpus, idle, back, sh>>
         /\ \/ pc' = [pc EXCEPT ![i] = "parent"] /\ UNCHANGED <<table, k, j, arg>>
            \/ Ends(i, Failed(i)) /\ Frees(k[i])
  BY Zenon DEF ForkCopy, Ends, Frees, Return, Goto, freeproc, tab, table

(* The same for a turn of wait.                                            *)
LEMMA ScanEffect ==
  ASSUME NEW i, WaitScan(i)
  PROVE  /\ At(i, "scan") /\ k[i] < NPROC
         /\ UNCHANGED <<nextpid, lock, cpus, idle, back>>
         /\ \/ /\ parent[k[i]] # i \/ state[k[i]] # "ZOMBIE"
               /\ Advances(i) /\ UNCHANGED <<table, wait_lock, sh>>
            \/ /\ parent[k[i]] = i /\ Free(k[i]) /\ state[k[i]] = "ZOMBIE"
               /\ wait_lock' = None /\ Ends(i, "user")
               /\ \/ Frees(k[i]) /\ (sh' = 0 \/ sh' = sh)
                  \/ UNCHANGED <<table, sh>>
  BY Zenon DEF WaitScan, Reap, Ends, Frees, Advances, Return, Goto, freeproc, table

(* The same for a turn of kill.                                            *)
LEMMA KillEffect ==
  ASSUME NEW i, kill(i)
  PROVE  /\ At(i, "kill")
         /\ UNCHANGED <<pid, parent, chan, nextpid, lock, wait_lock, cpus, idle, back, sh>>
         /\ \/ k[i] = NPROC /\ Ends(i, "user") /\ UNCHANGED state
            \/ /\ k[i] # NPROC /\ Free(k[i]) /\ Ends(i, "user")
               /\ state' = IF state[k[i]] = "SLEEPING"
                             THEN [state EXCEPT ![k[i]] = "RUNNABLE"] ELSE state
            \/ k[i] # NPROC /\ Advances(i) /\ UNCHANGED state
  BY Zenon DEF kill, Ends, Advances, Return, Goto

(* The table keeps its types.                                              *)
LEMMA TableStep ==
  ASSUME TableOK, ControlOK, ForkInv, NEW i \in Slots,
         Switch(i) \/ Call(i) \/ Program(i)
  PROVE  TableOK'
<1>1. CASE scheduler(i)
  BY Zenon, <1>1 DEF scheduler, TableOK, loc
<1>2. CASE Resume(i)
  BY Zenon, <1>2 DEF Resume, TableOK
<1>3. CASE sched(i)
  BY Zenon, <1>3 DEF sched, TableOK, tab, loc
<1>4. CASE yield(i)
  BY Zenon, <1>4 DEF yield, TableOK, loc
<1>5. CASE Trap(i)
  BY Zenon, <1>5 DEF Trap, TableOK, Enter, tab
<1>6. CASE InitProgram(i)
  BY Zenon, <1>6 DEF InitProgram, TableOK, Enter, tab
<1>7. CASE Program(i)
  BY Zenon, <1>7 DEF Program, TableOK, Enter, tab
<1>8. CASE allocproc(i)
  BY SMTT(60), <1>8, AllocEffect DEF Frees, table, TableOK
<1>9. CASE ForkCopy(i)
  BY SMTT(60), <1>9, CopyEffect DEF Frees, table, TableOK
<1>10. CASE ForkParent(i)
  BY Zenon, <1>10 DEF ForkParent, TableOK, ForkInv, Forking, At, loc
<1>11. CASE ForkReady(i)
  BY Zenon, <1>11 DEF ForkReady, TableOK, ForkInv, Forking, At
<1>12. CASE exit(i)
  BY Zenon, <1>12 DEF exit, TableOK, tab
<1>13. CASE reparent(i)
  BY SMTT(60), <1>13, SlotFacts DEF reparent, TableOK
<1>14. CASE ReparentWakes(i)
  BY Zenon, <1>14 DEF ReparentWakes, wakeup, TableOK
<1>15. CASE ExitWakes(i)
  BY Zenon, <1>15 DEF ExitWakes, wakeup, TableOK
<1>16. CASE ExitZombie(i)
  BY Zenon, <1>16 DEF ExitZombie, TableOK
<1>17. CASE ExitLetGo(i)
  BY Zenon, <1>17 DEF ExitLetGo, TableOK, tab, loc
<1>18. CASE wait(i)
  BY Zenon, <1>18 DEF wait, TableOK, tab
<1>19. CASE WaitScan(i)
  BY SMTT(60), <1>19, ScanEffect DEF Frees, table, TableOK
<1>20. CASE WaitDecide(i)
  BY Zenon, <1>20 DEF WaitDecide, TableOK, tab
<1>21. CASE SleepLock(i)
  BY Zenon, <1>21 DEF SleepLock, TableOK, tab, loc
<1>22. CASE SleepRelease(i)
  BY Zenon, <1>22 DEF SleepRelease, TableOK, tab, loc
<1>23. CASE sleep(i)
  BY Zenon, <1>23 DEF sleep, TableOK
<1>24. CASE kill(i)
  BY SMTT(60), <1>24, KillEffect DEF TableOK
<1>. QED
  BY ZenonT(40), StepCases, <1>1, <1>2, <1>3, <1>4, <1>5, <1>6, <1>7, <1>8, <1>9, <1>10, <1>11,
     <1>12, <1>13, <1>14, <1>15, <1>16, <1>17, <1>18, <1>19, <1>20, <1>21, <1>22, <1>23, <1>24

(* The locks and the harts keep their types.                               *)
LEMMA HartsStep ==
  ASSUME HartsOK, StackInv, ControlOK, ForkInv, NEW i \in Slots,
         Switch(i) \/ Call(i) \/ Program(i)
  PROVE  HartsOK'
<1>1. CASE scheduler(i)
  BY SMTT(60), <1>1 DEF scheduler, HartsOK
<1>2. CASE Resume(i)
  BY Zenon, <1>2 DEF Resume, HartsOK
<1>3. CASE sched(i)
  BY SMTT(60), <1>3 DEF sched, HartsOK, At
<1>4. CASE yield(i)
  BY Zenon, <1>4 DEF yield, HartsOK
<1>5. CASE Trap(i)
  BY Zenon, <1>5 DEF Trap, HartsOK, Enter
<1>6. CASE InitProgram(i)
  BY Zenon, <1>6 DEF InitProgram, HartsOK, Enter
<1>7. CASE Program(i)
  BY Zenon, <1>7 DEF Program, HartsOK, Enter
<1>8. CASE allocproc(i)
  BY SMTT(60), <1>8, AllocEffect DEF HartsOK
<1>9. CASE ForkCopy(i)
  BY Zenon, <1>9, CopyEffect DEF HartsOK
<1>10. CASE ForkParent(i)
  BY Zenon, <1>10 DEF ForkParent, HartsOK
<1>11. CASE ForkReady(i)
  BY Zenon, <1>11 DEF ForkReady, HartsOK
<1>12. CASE exit(i)
  BY Zenon, <1>12 DEF exit, HartsOK
<1>13. CASE reparent(i)
  BY Zenon, <1>13 DEF reparent, HartsOK
<1>14. CASE ReparentWakes(i)
  BY Zenon, <1>14 DEF ReparentWakes, wakeup, HartsOK
<1>15. CASE ExitWakes(i)
  BY Zenon, <1>15 DEF ExitWakes, wakeup, HartsOK
<1>16. CASE ExitZombie(i)
  BY Zenon, <1>16 DEF ExitZombie, HartsOK
<1>17. CASE ExitLetGo(i)
  BY Zenon, <1>17 DEF ExitLetGo, HartsOK
<1>18. CASE wait(i)
  BY Zenon, <1>18 DEF wait, HartsOK
<1>19. CASE WaitScan(i)
  BY Zenon, <1>19, ScanEffect DEF HartsOK
<1>20. CASE WaitDecide(i)
  BY Zenon, <1>20 DEF WaitDecide, HartsOK
<1>21. CASE SleepLock(i)
  BY Zenon, <1>21 DEF SleepLock, HartsOK
<1>22. CASE SleepRelease(i)
  BY Zenon, <1>22 DEF SleepRelease, HartsOK
<1>23. CASE sleep(i)
  BY Zenon, <1>23 DEF sleep, HartsOK
<1>24. CASE kill(i)
  BY Zenon, <1>24, KillEffect DEF HartsOK
<1>. QED
  BY ZenonT(40), StepCases, <1>1, <1>2, <1>3, <1>4, <1>5, <1>6, <1>7, <1>8, <1>9, <1>10, <1>11,
     <1>12, <1>13, <1>14, <1>15, <1>16, <1>17, <1>18, <1>19, <1>20, <1>21, <1>22, <1>23, <1>24

(* The control points and the locals keep their types.                     *)
LEMMA ControlStep ==
  ASSUME ControlOK, ForkInv, NEW i \in Slots,
         Switch(i) \/ Call(i) \/ Program(i)
  PROVE  ControlOK'
<1>0. /\ 0 \in 0 .. NPROC /\ 0 \in Nat /\ KillPids \subseteq Nat
      /\ k[i] # NPROC \/ k[i] < NPROC => k[i] + 1 \in 0 .. NPROC
      /\ j[i] # NPROC \/ j[i] < NPROC => j[i] + 1 \in 0 .. NPROC
  <2>1. 0 \in 0 .. NPROC /\ 0 \in Nat /\ KillPids \subseteq Nat
    BY ProcAssumption
  <2>. QED
    BY Zenon, <2>1, SlotFacts DEF ControlOK
<1>1. CASE scheduler(i)
  BY Zenon, <1>1 DEF scheduler, ControlOK, loc
<1>2. CASE Resume(i)
  BY Zenon, <1>2 DEF Resume, ControlOK, Labels, Goto
<1>3. CASE sched(i)
  BY Zenon, <1>3 DEF sched, ControlOK, Labels, Goto, loc
<1>4. CASE yield(i)
  BY Zenon, <1>4 DEF yield, ControlOK, Labels, Goto, loc
<1>5. CASE Trap(i)
  BY Zenon, <1>5, <1>0 DEF Trap, ControlOK, Labels, Goto, Enter
<1>6. CASE InitProgram(i)
  BY SMTT(60), <1>6, <1>0 DEF InitProgram, ControlOK, Labels, Goto, Enter
<1>7. CASE Program(i)
  BY SMTT(60), <1>7, <1>0 DEF Program, ControlOK, Labels, Goto, Enter
<1>8. CASE allocproc(i)
  BY SMTT(60), <1>8, AllocEffect, <1>0 DEF Ends, Advances, ControlOK, Labels,
     Failed
<1>9. CASE ForkCopy(i)
  BY SMTT(60), <1>9, CopyEffect, <1>0 DEF Ends, ControlOK, Labels, Failed
<1>10. CASE ForkParent(i)
  BY Zenon, <1>10 DEF ForkParent, ControlOK, Labels, Goto, loc
<1>11. CASE ForkReady(i)
  BY Zenon, <1>11, <1>0 DEF ForkReady, ControlOK, Labels, Goto, Return
<1>12. CASE exit(i)
  BY Zenon, <1>12, <1>0 DEF exit, ControlOK, Labels, Goto
<1>13. CASE reparent(i)
  BY Zenon, <1>13, <1>0 DEF reparent, ControlOK, Labels, Goto
<1>14. CASE ReparentWakes(i)
  BY Zenon, <1>14, <1>0 DEF ReparentWakes, wakeup, ControlOK, Labels, Goto
<1>15. CASE ExitWakes(i)
  BY Zenon, <1>15, <1>0 DEF ExitWakes, wakeup, ControlOK, Labels, Goto
<1>16. CASE ExitZombie(i)
  BY Zenon, <1>16, <1>0 DEF ExitZombie, ControlOK, Labels, Goto, Return
<1>17. CASE ExitLetGo(i)
  BY Zenon, <1>17 DEF ExitLetGo, ControlOK, Labels, Goto, loc
<1>18. CASE wait(i)
  BY Zenon, <1>18, <1>0 DEF wait, ControlOK, Labels, Goto
<1>19. CASE WaitScan(i)
  BY SMTT(60), <1>19, ScanEffect, <1>0 DEF Ends, Frees, Advances, ControlOK,
     Labels
<1>20. CASE WaitDecide(i)
  BY SMTT(60), <1>20, <1>0 DEF WaitDecide, ControlOK, Labels, Failed, Goto, Return
<1>21. CASE SleepLock(i)
  BY Zenon, <1>21 DEF SleepLock, ControlOK, Labels, Goto, loc
<1>22. CASE SleepRelease(i)
  BY Zenon, <1>22 DEF SleepRelease, ControlOK, Labels, Goto, loc
<1>23. CASE sleep(i)
  BY Zenon, <1>23 DEF sleep, ControlOK, Labels, Goto
<1>24. CASE kill(i)
  BY SMTT(60), <1>24, KillEffect, <1>0 DEF Ends, Advances, ControlOK, Labels
<1>. QED
  BY Zenon, StepCases, <1>1, <1>2, <1>3, <1>4, <1>5, <1>6, <1>7, <1>8, <1>9, <1>10, <1>11,
     <1>12, <1>13, <1>14, <1>15, <1>16, <1>17, <1>18, <1>19, <1>20, <1>21, <1>22, <1>23, <1>24

(* The flags stay Boolean.                                                 *)
LEMMA FlagsStep ==
  ASSUME FlagsOK, NEW i \in Slots, Switch(i) \/ Call(i) \/ Program(i)
  PROVE  FlagsOK'
<1>. USE DEF FlagsOK, Goto, Return, Enter, tab, loc, Failed, freeproc
<1>1. CASE scheduler(i)
  BY ZenonT(60), <1>1 DEF scheduler
<1>2. CASE Resume(i)
  BY ZenonT(60), <1>2 DEF Resume
<1>3. CASE sched(i)
  BY ZenonT(60), <1>3 DEF sched
<1>4. CASE yield(i)
  BY ZenonT(60), <1>4 DEF yield
<1>5. CASE Trap(i)
  BY ZenonT(60), <1>5 DEF Trap
<1>6. CASE InitProgram(i)
  BY ZenonT(60), <1>6 DEF InitProgram
<1>7. CASE Program(i)
  BY ZenonT(60), <1>7 DEF Program
<1>8. CASE allocproc(i)
  BY ZenonT(60), <1>8 DEF allocproc
<1>9. CASE ForkCopy(i)
  BY ZenonT(60), <1>9 DEF ForkCopy
<1>10. CASE ForkParent(i)
  BY ZenonT(60), <1>10 DEF ForkParent
<1>11. CASE ForkReady(i)
  BY ZenonT(60), <1>11 DEF ForkReady
<1>12. CASE exit(i)
  BY ZenonT(60), <1>12 DEF exit
<1>13. CASE reparent(i)
  BY ZenonT(60), <1>13 DEF reparent
<1>14. CASE ReparentWakes(i)
  BY ZenonT(60), <1>14 DEF ReparentWakes, wakeup
<1>15. CASE ExitWakes(i)
  BY ZenonT(60), <1>15 DEF ExitWakes, wakeup
<1>16. CASE ExitZombie(i)
  BY ZenonT(60), <1>16 DEF ExitZombie
<1>17. CASE ExitLetGo(i)
  BY ZenonT(60), <1>17 DEF ExitLetGo
<1>18. CASE wait(i)
  BY ZenonT(60), <1>18 DEF wait
<1>19. CASE WaitScan(i)
  BY ZenonT(60), <1>19 DEF WaitScan, Reap
<1>20. CASE WaitDecide(i)
  BY ZenonT(60), <1>20 DEF WaitDecide
<1>21. CASE SleepLock(i)
  BY ZenonT(60), <1>21 DEF SleepLock
<1>22. CASE SleepRelease(i)
  BY ZenonT(60), <1>22 DEF SleepRelease
<1>23. CASE sleep(i)
  BY ZenonT(60), <1>23 DEF sleep
<1>24. CASE kill(i)
  BY ZenonT(60), <1>24 DEF kill
<1>. QED
  BY Zenon, StepCases, <1>1, <1>2, <1>3, <1>4, <1>5, <1>6, <1>7, <1>8, <1>9, <1>10, <1>11,
     <1>12, <1>13, <1>14, <1>15, <1>16, <1>17, <1>18, <1>19, <1>20, <1>21, <1>22, <1>23, <1>24

(* The scheduler takes a process whose lock is free, so one that has left  *)
(* its stack; a slot in use has its lock with the fork that took it, and a *)
(* process between its change of state and the switch holds its own.       *)
LEMMA StackStep ==
  ASSUME TableOK, HartsOK, ControlOK, StackInv, WaitInv, ForkInv, NEW i \in Slots,
         Switch(i) \/ Call(i) \/ Program(i)
  PROVE  StackInv'
<1>1. CASE scheduler(i)
  BY SMTT(60), <1>1, SlotFacts DEF scheduler, TableOK, HartsOK, StackInv, OwnLock, Free
<1>2. CASE Resume(i)
  BY SMTT(60), <1>2 DEF Resume, ControlOK, StackInv, OwnLock, At, Goto
<1>3. CASE sched(i)
  BY SMTT(60), <1>3 DEF sched, HartsOK, ControlOK, StackInv, OwnLock, At, Goto, tab
<1>4. CASE yield(i)
  BY ZenonT(40), <1>4 DEF yield, TableOK, HartsOK, ControlOK, StackInv, At, Goto
<1>5. CASE Trap(i)
  BY ZenonT(40), <1>5 DEF Trap, StackInv, OwnLock, At, Goto, Enter, tab, ControlOK
<1>6. CASE InitProgram(i)
  BY SMTT(60), <1>6 DEF InitProgram, ControlOK, StackInv, OwnLock, At, Goto, Enter, tab
<1>7. CASE Program(i)
  BY SMTT(60), <1>7 DEF Program, ControlOK, StackInv, OwnLock, At, Goto, Enter, tab
<1>8. CASE allocproc(i)
  BY SMTT(60), <1>8, AllocEffect, SlotFacts DEF Ends, Frees, Advances, table, TableOK,
     HartsOK, ControlOK, StackInv, OwnLock, Forking, Failed, At
<1>9. CASE ForkCopy(i)
  BY SMTT(60), <1>9, CopyEffect DEF Ends, Frees, table, TableOK, HartsOK, ControlOK,
     StackInv, OwnLock, ForkInv, Forking, Failed, At
<1>10. CASE ForkParent(i)
  BY Zenon, <1>10 DEF ForkParent, StackInv, OwnLock, At, Goto, ControlOK
<1>11. CASE ForkReady(i)
  BY SMTT(60), <1>11 DEF ForkReady, StackInv, OwnLock, ForkInv, Forking, At, Goto, Return
<1>12. CASE exit(i)
  BY SMTT(60), <1>12 DEF exit, ControlOK, StackInv, OwnLock, At, Goto, tab
<1>13. CASE reparent(i)
  BY SMTT(60), <1>13 DEF reparent, ControlOK, StackInv, OwnLock, At, Goto
<1>14. CASE ReparentWakes(i)
  BY SMTT(60), <1>14 DEF ReparentWakes, wakeup, TableOK, ControlOK, StackInv, OwnLock, At,
     Goto
<1>15. CASE ExitWakes(i)
  BY SMTT(60), <1>15 DEF ExitWakes, wakeup, TableOK, ControlOK, StackInv, OwnLock, At, Goto
<1>16. CASE ExitZombie(i)
  BY Zenon, <1>16 DEF ExitZombie, TableOK, HartsOK, ControlOK, StackInv, At, Goto, Return
<1>17. CASE ExitLetGo(i)
  BY Zenon, <1>17 DEF ExitLetGo, StackInv, OwnLock, At, Goto, tab, ControlOK
<1>18. CASE wait(i)
  BY ZenonT(40), <1>18 DEF wait, StackInv, OwnLock, At, Goto, tab, ControlOK
<1>19. CASE WaitScan(i)
  BY SMTT(60), <1>19, ScanEffect, SlotFacts DEF Ends, Frees, Advances, table, TableOK,
     ControlOK, StackInv, OwnLock, At, Free
<1>20. CASE WaitDecide(i)
  BY SMTT(60), <1>20 DEF WaitDecide, ControlOK, StackInv, OwnLock, Failed, At, Goto, Return,
     tab
<1>21. CASE SleepLock(i)
  BY Zenon, <1>21 DEF SleepLock, HartsOK, StackInv, At, Goto, tab, ControlOK
<1>22. CASE SleepRelease(i)
  BY Zenon, <1>22 DEF SleepRelease, StackInv, OwnLock, At, Goto, tab, ControlOK
<1>23. CASE sleep(i)
  BY ZenonT(40), <1>23 DEF sleep, TableOK, ControlOK, StackInv, OwnLock, At, Goto
<1>24. CASE kill(i)
  BY SMTT(60), <1>24, KillEffect DEF Ends, Advances, TableOK, ControlOK, StackInv, OwnLock,
     At
<1>. QED
  BY ZenonT(40), StepCases, <1>1, <1>2, <1>3, <1>4, <1>5, <1>6, <1>7, <1>8, <1>9, <1>10, <1>11,
     <1>12, <1>13, <1>14, <1>15, <1>16, <1>17, <1>18, <1>19, <1>20, <1>21, <1>22, <1>23, <1>24

(* wait_lock is taken where exit and wait begin and given up where they    *)
(* end; a slot that allocproc takes is of a process that holds nothing.    *)
LEMMA WaitStep ==
  ASSUME TableOK, HartsOK, ControlOK, StackInv, WaitInv, NEW i \in Slots,
         Switch(i) \/ Call(i) \/ Program(i)
  PROVE  WaitInv'
<1>1. CASE scheduler(i)
  BY Zenon, <1>1 DEF scheduler, WaitInv
<1>2. CASE Resume(i)
  BY Zenon, <1>2 DEF Resume, ControlOK, WaitInv, Holding, At, Goto, HartsOK
<1>3. CASE sched(i)
  BY Zenon, <1>3 DEF sched, HartsOK, ControlOK, WaitInv, Holding, Goto
<1>4. CASE yield(i)
  BY Zenon, <1>4 DEF yield, WaitInv, Holding, At, Goto, ControlOK, HartsOK
<1>5. CASE Trap(i)
  BY Zenon, <1>5 DEF Trap, WaitInv, Holding, At, Goto, Enter, ControlOK, HartsOK
<1>6. CASE InitProgram(i)
  BY SMTT(60), <1>6 DEF InitProgram, HartsOK, ControlOK, WaitInv, Holding, At, Goto, Enter
<1>7. CASE Program(i)
  BY SMTT(60), <1>7 DEF Program, HartsOK, ControlOK, WaitInv, Holding, At, Goto, Enter
<1>8. CASE allocproc(i)
  BY SMTT(60), <1>8, AllocEffect DEF Ends, Advances, HartsOK, ControlOK, StackInv, WaitInv,
     Holding, Failed, At
<1>9. CASE ForkCopy(i)
  BY SMTT(60), <1>9, CopyEffect DEF Ends, HartsOK, ControlOK, WaitInv, Holding, Failed, At
<1>10. CASE ForkParent(i)
  BY Zenon, <1>10 DEF ForkParent, WaitInv, Holding, Goto, ControlOK
<1>11. CASE ForkReady(i)
  BY Zenon, <1>11 DEF ForkReady, WaitInv, Holding, At, Goto, Return, ControlOK, HartsOK
<1>12. CASE exit(i)
  BY Zenon, <1>12, SlotFacts DEF exit, ControlOK, WaitInv, Holding, Goto
<1>13. CASE reparent(i)
  BY Zenon, <1>13 DEF reparent, ControlOK, WaitInv, Holding, At, Goto, HartsOK
<1>14. CASE ReparentWakes(i)
  BY Zenon, <1>14 DEF ReparentWakes, wakeup, ControlOK, WaitInv, Holding, At, Goto
<1>15. CASE ExitWakes(i)
  BY Zenon, <1>15 DEF ExitWakes, wakeup, ControlOK, WaitInv, Holding, At, Goto
<1>16. CASE ExitZombie(i)
  BY Zenon, <1>16 DEF ExitZombie, WaitInv, Holding, At, Goto, Return, ControlOK
<1>17. CASE ExitLetGo(i)
  BY Zenon, <1>17 DEF ExitLetGo, ControlOK, WaitInv, Holding, At, Goto
<1>18. CASE wait(i)
  BY Zenon, <1>18, SlotFacts DEF wait, ControlOK, WaitInv, Holding, Goto
<1>19. CASE WaitScan(i)
  BY SMTT(60), <1>19, ScanEffect DEF Ends, Advances, ControlOK, WaitInv, Holding, At
<1>20. CASE WaitDecide(i)
  BY SMTT(60), <1>20 DEF WaitDecide, ControlOK, WaitInv, Holding, Failed, At, Goto, Return
<1>21. CASE SleepLock(i)
  BY Zenon, <1>21 DEF SleepLock, WaitInv, Holding, At, Goto, ControlOK
<1>22. CASE SleepRelease(i)
  BY Zenon, <1>22 DEF SleepRelease, ControlOK, WaitInv, Holding, At, Goto
<1>23. CASE sleep(i)
  BY Zenon, <1>23 DEF sleep, WaitInv, Holding, At, Goto, ControlOK, HartsOK
<1>24. CASE kill(i)
  BY SMTT(60), <1>24, KillEffect DEF Ends, Advances, HartsOK, ControlOK, WaitInv, Holding,
     At
<1>. QED
  BY Zenon, StepCases, <1>1, <1>2, <1>3, <1>4, <1>5, <1>6, <1>7, <1>8, <1>9, <1>10, <1>11,
     <1>12, <1>13, <1>14, <1>15, <1>16, <1>17, <1>18, <1>19, <1>20, <1>21, <1>22, <1>23, <1>24

(* A step that starts no fork and leaves alone the slots that are USED     *)
(* keeps what is known of the forks.                                       *)
LEMMA ForkFrame ==
  ASSUME ForkInv,
         \A m \in Slots : pc'[m] \in Forking => pc'[m] = pc[m] /\ k'[m] = k[m],
         \A m \in Slots : state[m] = "USED" =>
           state'[m] = "USED" /\ lock'[m] = lock[m] /\ parent'[m] = parent[m]
  PROVE  ForkInv'
  BY DEF ForkInv

(* allocproc takes a slot that is UNUSED, so none that another fork is     *)
(* still filling, and nobody else changes a slot that is USED.             *)
LEMMA ForkStep ==
  ASSUME TableOK, HartsOK, ControlOK, StackInv, ForkInv, NEW i \in Slots,
         Switch(i) \/ Call(i) \/ Program(i)
  PROVE  ForkInv'
<1>1. CASE scheduler(i)
  BY Zenon, <1>1 DEF scheduler, ForkInv, loc, HartsOK, TableOK
<1>2. CASE Resume(i)
  BY SMTT(60), <1>2 DEF Resume, ControlOK, StackInv, ForkInv, Forking, At, Goto
<1>3. CASE sched(i)
  BY SMTT(60), <1>3 DEF sched, HartsOK, ControlOK, ForkInv, Forking, Goto, tab, loc
<1>4. CASE yield(i)
  BY ZenonT(40), ForkFrame, <1>4 DEF yield, StackInv, Forking, At, Goto, loc, TableOK, HartsOK,
     ControlOK
<1>5. CASE Trap(i)
  BY Zenon, ForkFrame, <1>5 DEF Trap, Forking, At, Goto, Enter, tab, ControlOK
<1>6. CASE InitProgram(i)
  BY SMTT(60), <1>6 DEF InitProgram, ControlOK, ForkInv, Forking, Goto, Enter, tab
<1>7. CASE Program(i)
  BY SMTT(60), <1>7 DEF Program, ControlOK, ForkInv, Forking, Goto, Enter, tab
<1>8. CASE allocproc(i)
  BY SMTT(60), <1>8, AllocEffect, SlotFacts DEF Ends, Frees, Advances, table, TableOK,
     HartsOK, ControlOK, StackInv, ForkInv, Forking, Failed, At
<1>9. CASE ForkCopy(i)
  BY SMTT(60), <1>9, CopyEffect DEF Ends, Frees, table, TableOK, HartsOK, ControlOK,
     StackInv, ForkInv, Forking, Failed, At
<1>10. CASE ForkParent(i)
  BY SMTT(60), <1>10 DEF ForkParent, TableOK, ForkInv, Forking, At, Goto, loc
<1>11. CASE ForkReady(i)
  BY SMTT(60), <1>11 DEF ForkReady, ControlOK, ForkInv, Forking, At, Goto, Return
<1>12. CASE exit(i)
  BY SMTT(60), <1>12 DEF exit, ControlOK, ForkInv, Forking, Goto, tab
<1>13. CASE reparent(i)
  BY SMTT(60), <1>13 DEF reparent, TableOK, ControlOK, ForkInv, Forking, At, Goto
<1>14. CASE ReparentWakes(i)
  BY SMTT(60), <1>14 DEF ReparentWakes, wakeup, TableOK, ControlOK, ForkInv, Forking, Goto
<1>15. CASE ExitWakes(i)
  BY SMTT(60), <1>15 DEF ExitWakes, wakeup, TableOK, ControlOK, ForkInv, Forking, Goto
<1>16. CASE ExitZombie(i)
  BY ZenonT(40), ForkFrame, <1>16 DEF ExitZombie, StackInv, Forking, At, Goto, Return, TableOK,
     HartsOK, ControlOK
<1>17. CASE ExitLetGo(i)
  BY Zenon, ForkFrame, <1>17 DEF ExitLetGo, Forking, Goto, tab, loc, ControlOK
<1>18. CASE wait(i)
  BY Zenon, ForkFrame, <1>18 DEF wait, Forking, At, Goto, tab, ControlOK
<1>19. CASE WaitScan(i)
  BY SMTT(60), <1>19, ScanEffect DEF Ends, Frees, Advances, table, TableOK, ControlOK,
     ForkInv, Forking, At
<1>20. CASE WaitDecide(i)
  BY SMTT(60), <1>20 DEF WaitDecide, ControlOK, ForkInv, Forking, Failed, Goto, Return, tab
<1>21. CASE SleepLock(i)
  BY Zenon, ForkFrame, <1>21 DEF SleepLock, StackInv, Forking, At, Goto, tab, loc, HartsOK,
     ControlOK
<1>22. CASE SleepRelease(i)
  BY Zenon, ForkFrame, <1>22 DEF SleepRelease, Forking, Goto, tab, loc, ControlOK
<1>23. CASE sleep(i)
  BY Zenon, ForkFrame, <1>23 DEF sleep, StackInv, Forking, At, Goto, TableOK, ControlOK
<1>24. CASE kill(i)
  BY SMTT(60), <1>24, KillEffect DEF Ends, Advances, TableOK, ControlOK, ForkInv, Forking,
     At
<1>. QED
  BY ZenonT(40), StepCases, <1>1, <1>2, <1>3, <1>4, <1>5, <1>6, <1>7, <1>8, <1>9, <1>10, <1>11,
     <1>12, <1>13, <1>14, <1>15, <1>16, <1>17, <1>18, <1>19, <1>20, <1>21, <1>22, <1>23, <1>24

(* A sleeper keeps its channel until it runs.                              *)
LEMMA ChanStep ==
  ASSUME TableOK, ControlOK, StackInv, ForkInv, ChanInv, NEW i \in Slots,
         Switch(i) \/ Call(i) \/ Program(i)
  PROVE  ChanInv'
<1>1. CASE scheduler(i)
  BY ZenonT(40), <1>1 DEF scheduler, ChanInv, TableOK
<1>2. CASE Resume(i)
  BY SMTT(60), <1>2 DEF Resume, StackInv, ChanInv, At
<1>3. CASE sched(i)
  BY Zenon, <1>3 DEF sched, ChanInv, tab
<1>4. CASE yield(i)
  BY Zenon, <1>4 DEF yield, ChanInv, TableOK
<1>5. CASE Trap(i)
  BY Zenon, <1>5 DEF Trap, ChanInv, Enter, tab
<1>6. CASE InitProgram(i)
  BY Zenon, <1>6 DEF InitProgram, ChanInv, Enter, tab
<1>7. CASE Program(i)
  BY Zenon, <1>7 DEF Program, ChanInv, Enter, tab
<1>8. CASE allocproc(i)
  <2>1. \/ UNCHANGED <<state, chan>>
        \/ state' = [state EXCEPT ![k[i]] = "USED"] /\ UNCHANGED chan
        \/ state' = [state EXCEPT ![k[i]] = "UNUSED"] /\ chan' = [chan EXCEPT ![k[i]] = None]
    BY Zenon, <1>8, AllocEffect DEF Frees, table
  <2>. QED
    BY <2>1 DEF TableOK, ChanInv
<1>9. CASE ForkCopy(i)
  BY SMTT(60), <1>9, CopyEffect DEF Frees, table, TableOK, ChanInv
<1>10. CASE ForkParent(i)
  BY Zenon, <1>10 DEF ForkParent, ChanInv
<1>11. CASE ForkReady(i)
  BY Zenon, <1>11 DEF ForkReady, ChanInv, TableOK
<1>12. CASE exit(i)
  BY Zenon, <1>12 DEF exit, ChanInv, tab
<1>13. CASE reparent(i)
  BY Zenon, <1>13 DEF reparent, ChanInv
<1>14. CASE ReparentWakes(i)
  BY Zenon, <1>14 DEF ReparentWakes, wakeup, TableOK, ChanInv
<1>15. CASE ExitWakes(i)
  BY Zenon, <1>15 DEF ExitWakes, wakeup, TableOK, ChanInv
<1>16. CASE ExitZombie(i)
  BY Zenon, <1>16 DEF ExitZombie, ChanInv, TableOK
<1>17. CASE ExitLetGo(i)
  BY Zenon, <1>17 DEF ExitLetGo, ChanInv, tab
<1>18. CASE wait(i)
  BY ZenonT(40), <1>18 DEF wait, ChanInv, tab
<1>19. CASE WaitScan(i)
  BY SMTT(60), <1>19, ScanEffect DEF Frees, table, TableOK, ChanInv
<1>20. CASE WaitDecide(i)
  BY Zenon, <1>20 DEF WaitDecide, ChanInv, tab
<1>21. CASE SleepLock(i)
  BY Zenon, <1>21 DEF SleepLock, ChanInv, tab
<1>22. CASE SleepRelease(i)
  BY Zenon, <1>22 DEF SleepRelease, ChanInv, tab
<1>23. CASE sleep(i)
  BY Zenon, <1>23 DEF sleep, TableOK, ChanInv
<1>24. CASE kill(i)
  BY Zenon, <1>24, KillEffect DEF TableOK, ChanInv
<1>. QED
  BY Zenon, StepCases, <1>1, <1>2, <1>3, <1>4, <1>5, <1>6, <1>7, <1>8, <1>9, <1>10, <1>11,
     <1>12, <1>13, <1>14, <1>15, <1>16, <1>17, <1>18, <1>19, <1>20, <1>21, <1>22, <1>23, <1>24
=============================================================================
