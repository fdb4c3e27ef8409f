--------------------------- MODULE ProcessProofs ---------------------------
(***************************************************************************)
(* The rest of the proof that ProcInv is inductive, for any number of      *)
(* slots, harts and pids: the families, and the parents that sleep in      *)
(* wait; and what follows from it for every run of the processes.          *)
(***************************************************************************)
EXTENDS ProcessInv

(* Only fork makes children, of a process that runs; exit gives its own to *)
(* init, slot by slot, before it is a zombie, and only wait frees a        *)
(* zombie.                                                                 *)
LEMMA FamilyStep ==
  ASSUME TableOK, HartsOK, ControlOK, StackInv, WaitInv, ForkInv, FamilyInv, NEW i \in Slots,
         Switch(i) \/ Call(i) \/ Program(i)
  PROVE  FamilyInv'
<1>1. CASE scheduler(i)
  BY SMTT(60), <1>1 DEF scheduler, FamilyInv, Gone, Started, loc
<1>2. CASE Resume(i)
  BY Zenon, <1>2, ControlFacts DEF Resume, FamilyInv, Exiting, Goto
<1>3. CASE sched(i)
  BY SMTT(60), <1>3, ControlFacts DEF sched, FamilyInv, Exiting, Goto, tab, loc
<1>4. CASE yield(i)
  BY SMTT(60), <1>4 DEF yield, StackInv, FamilyInv, Gone, Started, Exiting, At, Goto, loc
<1>5. CASE Trap(i)
  BY ZenonT(40), <1>5 DEF Trap, FamilyInv, Exiting, At, Goto, Enter, tab, ControlOK
<1>6. CASE InitProgram(i)
  BY SMTT(60), <1>6, ControlFacts DEF InitProgram, FamilyInv, Exiting, Goto, Enter, tab
<1>7. CASE Program(i)
  BY SMTT(60), <1>7, ControlFacts DEF Program, FamilyInv, Goto, Enter, tab
<1>8. CASE allocproc(i)
  BY SMTT(60), <1>8, AllocEffect, SlotFacts, IndexFacts, ControlFacts DEF Ends, Frees,
     Advances, table, TableOK, HartsOK, StackInv, WaitInv, Holding, FamilyInv, Gone,
     Started, Exiting, Failed, At, Free
<1>9. CASE ForkCopy(i)
  <2>1. CASE Ends(i, Failed(i)) /\ Frees(k[i])
    <3>1. state[k[i]] = "USED" /\ k[i] \in Slots /\ k[i] # i /\ k[i] # initproc
      BY <1>9, CopyEffect DEF StackInv, ForkInv, Forking, FamilyInv, Gone, At
    <3>. QED
      BY SMTT(60), <2>1, <3>1, SlotFacts DEF Ends, Frees, FamilyInv, Gone, Started, Exiting,
         Failed
  <2>2. CASE pc' = [pc EXCEPT ![i] = "parent"] /\ UNCHANGED <<table, k, j, arg>>
    BY Zenon, <2>2 DEF table, FamilyInv, Exiting, ControlOK
  <2>. QED
    BY Zenon, <1>9, <2>1, <2>2, CopyEffect
<1>10. CASE ForkParent(i)
  BY SMTT(60), <1>10, SlotFacts DEF ForkParent, StackInv, FamilyInv, Gone, Exiting, At,
     Goto, loc
<1>11. CASE ForkReady(i)
  BY SMTT(60), <1>11, SlotFacts DEF ForkReady, ForkInv, Forking, FamilyInv, Gone, Exiting,
     At, Goto, Return
<1>12. CASE exit(i)
  BY SMTT(60), <1>12, SlotFacts, ControlFacts DEF exit, FamilyInv, Goto, tab
<1>13. CASE reparent(i)
  <2>0. /\ i # initproc /\ \A m \in Slots \ {i} : pc[m] \notin Holding
        /\ \A c \in Slots : c < k[i] => parent[c] # i
    BY Zenon, <1>13 DEF reparent, WaitInv, Holding, FamilyInv, Exiting, At
  <2>1. CASE k[i] = NPROC
    BY ZenonT(40), <1>13, <2>1, SlotFacts, ControlFacts DEF reparent, FamilyInv, Exiting, At,
       Goto
  <2>2. CASE k[i] # NPROC /\ parent[k[i]] # i
    <3>1. \A c \in Slots : c < k'[i] => parent'[c] # i
      <4>1. k'[i] = k[i] + 1 /\ parent' = parent
        BY Zenon, <1>13, <2>2, ControlFacts DEF reparent
      <4>2. k[i] \in Nat
        BY Zenon, IndexFacts
      <4>3. \A c \in Slots : c < k[i] + 1 => c < k[i] \/ c = k[i]
        BY <4>2, SlotFacts
      <4>. QED
        BY Zenon, <2>0, <2>2, <4>1, <4>3
    <3>. QED
      BY Zenon, <1>13, <2>2, <3>1, ControlFacts DEF reparent, FamilyInv
  <2>3. CASE k[i] # NPROC /\ parent[k[i]] = i
    <3>1. /\ parent' = [parent EXCEPT ![k[i]] = initproc] /\ UNCHANGED state
          /\ pc' = [pc EXCEPT ![i] = "wakeinit"] /\ k' = [k EXCEPT ![i] = k[i] + 1]
      BY Zenon, <1>13, <2>3 DEF reparent, Goto
    <3>2. \A c \in Slots : c < k'[i] => parent'[c] # i
      BY SMTT(60), <2>0, <2>3, <3>1, SlotFacts, IndexFacts, ControlFacts DEF TableOK,
         HartsOK, StackInv, ForkInv, Forking, Holding, FamilyInv, Gone
    <3>. QED
      BY SMTT(60), <2>0, <3>1, <3>2, SlotFacts DEF Holding, FamilyInv
  <2>. QED
    BY Zenon, <2>1, <2>2, <2>3
<1>14. CASE ReparentWakes(i)
  BY SMTT(60), <1>14, SlotFacts, ControlFacts DEF ReparentWakes, wakeup, TableOK, FamilyInv,
     Gone, Started, Exiting, At, Goto
<1>15. CASE ExitWakes(i)
  BY SMTT(60), <1>15, SlotFacts, ControlFacts DEF ExitWakes, wakeup, TableOK, FamilyInv,
     Gone, Started, Exiting, At, Goto
<1>16. CASE ExitZombie(i)
  BY SMTT(60), <1>16 DEF ExitZombie, StackInv, FamilyInv, Started, Exiting, At, Goto, Return
<1>17. CASE ExitLetGo(i)
  BY Zenon, <1>17 DEF ExitLetGo, FamilyInv, Exiting, Goto, tab, loc, ControlOK
<1>18. CASE wait(i)
  BY Zenon, <1>18 DEF wait, FamilyInv, Exiting, At, Goto, tab, ControlOK
<1>19. CASE WaitScan(i)
  <2>1. CASE UNCHANGED table
    BY SMTT(60), <1>19, <2>1, ScanEffect, ControlFacts DEF Ends, Advances, table, FamilyInv,
       Exiting, At
  <2>2. CASE ~UNCHANGED table
    <3>1. k[i] \in Slots /\ state[k[i]] = "ZOMBIE" /\ Frees(k[i]) /\ Ends(i, "user")
      BY Zenon, <1>19, <2>2, ScanEffect, IndexFacts
    <3>. QED
      BY SMTT(60), <3>1, SlotFacts DEF Ends, Frees, TableOK, FamilyInv, Gone, Started,
         Exiting
  <2>. QED
    BY Zenon, <2>1, <2>2
<1>20. CASE WaitDecide(i)
  BY SMTT(60), <1>20, ControlFacts DEF WaitDecide, FamilyInv, Exiting, Failed, Goto, Return,
     tab
<1>21. CASE SleepLock(i)
  BY Zenon, <1>21 DEF SleepLock, FamilyInv, Exiting, Goto, tab, loc, ControlOK
<1>22. CASE SleepRelease(i)
  BY Zenon, <1>22 DEF SleepRelease, FamilyInv, Exiting, Goto, tab, loc, ControlOK
<1>23. CASE sleep(i)
  BY SMTT(60), <1>23 DEF sleep, StackInv, FamilyInv, Gone, Started, Exiting, At, Goto
<1>24. CASE kill(i)
  BY SMTT(60), <1>24, KillEffect, SlotFacts, IndexFacts, ControlFacts DEF Ends, Advances,
     TableOK, WaitInv, FamilyInv, Gone, Started, Exiting, At
<1>. QED
  BY ZenonT(40), StepCases, <1>1, <1>2, <1>3, <1>4, <1>5, <1>6, <1>7, <1>8, <1>9, <1>10, <1>11,
     <1>12, <1>13, <1>14, <1>15, <1>16, <1>17, <1>18, <1>19, <1>20, <1>21, <1>22, <1>23, <1>24

(* What wait has seen stays true while it holds wait_lock; then the wakeup *)
(* of an exiting child needs the lock of the sleeper, which is free only   *)
(* when the sleeper is SLEEPING.                                           *)
LEMMA MissStep ==
  ASSUME TableOK, HartsOK, ControlOK, StackInv, WaitInv, ForkInv, FamilyInv, ChanInv, MissInv,
         NEW i \in Slots, Switch(i) \/ Call(i) \/ Program(i)
  PROVE  MissInv'
<1>1. CASE scheduler(i)
  BY SMTT(60), <1>1 DEF scheduler, MissInv, Dozing, Inherits, loc
<1>2. CASE Resume(i)
  BY SMTT(60), <1>2, ControlFacts DEF Resume, MissInv, Dozing, Inherits, At, Goto
<1>3. CASE sched(i)
  BY SMTT(60), <1>3, ControlFacts DEF sched, MissInv, Dozing, Inherits, At, Goto, tab, loc
<1>4. CASE yield(i)
  BY SMTT(60), <1>4 DEF yield, MissInv, Dozing, Inherits, At, Goto, loc
<1>5. CASE Trap(i)
  BY SMTT(60), <1>5 DEF Trap, MissInv, Dozing, Inherits, At, Goto, Enter, tab
<1>6. CASE InitProgram(i)
  BY SMTT(60), <1>6, ControlFacts DEF InitProgram, MissInv, Dozing, Inherits, At, Goto,
     Enter, tab
<1>7. CASE Program(i)
  BY SMTT(60), <1>7, ControlFacts DEF Program, MissInv, Dozing, Inherits, At, Goto, Enter,
     tab
<1>8. CASE allocproc(i)
  <2>0. At(i, "alloc")
    BY Zenon, <1>8, AllocEffect
  <2>1. CASE UNCHANGED table /\ (Ends(i, Failed(i)) \/ Advances(i))
    BY <2>0, <2>1, ControlFacts DEF Ends, Advances, table, MissInv, Dozing, Inherits,
       Failed, At
  <2>2. CASE /\ k[i] # NPROC /\ state[k[i]] = "UNUSED"
             /\ UNCHANGED <<parent, chan, k, j>>
             /\ state' = [state EXCEPT ![k[i]] = "USED"]
             /\ pc' = [pc EXCEPT ![i] = "copy", ![k[i]] = "resume"]
    BY SMTT(60), <2>0, <2>2, IndexFacts, ControlFacts DEF TableOK, StackInv, ChanInv,
       MissInv, Dozing, Inherits, At
  <2>3. CASE /\ k[i] # NPROC /\ state[k[i]] = "UNUSED"
             /\ Frees(k[i]) /\ Ends(i, Failed(i))
    BY SMTT(60), <2>0, <2>3, IndexFacts, ControlFacts DEF Ends, Frees, TableOK, StackInv,
       ChanInv, MissInv, Dozing, Inherits, Failed, At
  <2>. QED
    BY Zenon, <1>8, <2>1, <2>2, <2>3, AllocEffect
<1>9. CASE ForkCopy(i)
  BY SMTT(60), <1>9, CopyEffect, SlotFacts, ControlFacts DEF Ends, Frees, table, TableOK,
     ChanInv, MissInv, Dozing, Inherits, Failed, At
<1>10. CASE ForkParent(i)
  BY SMTT(60), <1>10, SlotFacts DEF ForkParent, ForkInv, Forking, WaitInv, Holding, MissInv,
     Dozing, Inherits, At, Goto
<1>11. CASE ForkReady(i)
  BY SMTT(60), <1>11 DEF ForkReady, MissInv, Dozing, Inherits, At, Goto, Return
<1>12. CASE exit(i)
  BY SMTT(60), <1>12, ControlFacts DEF exit, MissInv, Dozing, Inherits, At, Goto, tab
<1>13. CASE reparent(i)
  BY SMTT(60), <1>13, SlotFacts, ControlFacts DEF reparent, TableOK, WaitInv, Holding,
     MissInv, Dozing, Inherits, At, Goto
<1>14. CASE ReparentWakes(i)
  <2>1. i # initproc /\ (pc[initproc] = "asleep" => lock[initproc] # None)
    BY SMTT(30), <1>14, SlotFacts DEF ReparentWakes, FamilyInv, Exiting, StackInv, OwnLock, At
  <2>2. CASE j[i] = NPROC
    BY SMTT(60), <1>14, <2>2, SlotFacts, ControlFacts DEF ReparentWakes, wakeup, MissInv,
       Dozing, Inherits, Goto
  <2>3. CASE j[i] # NPROC
    BY SMTT(60), <1>14, <2>1, <2>3 DEF ReparentWakes, wakeup, initproc, TableOK, WaitInv,
       Holding, ChanInv, MissInv, Dozing, Inherits, At, Free
  <2>. QED
    BY Zenon, <2>2, <2>3
<1>15. CASE ExitWakes(i)
  <2>1. CASE j[i] = NPROC
    BY SMTT(30), <1>15, <2>1, SlotFacts, ControlFacts DEF ExitWakes, wakeup, TableOK, MissInv,
       Dozing, Inherits, At, Goto
  <2>2. CASE j[i] # NPROC
    BY SMTT(60), <1>15, <2>2, SlotFacts, IndexFacts, ControlFacts DEF ExitWakes, wakeup,
       TableOK, StackInv, OwnLock, WaitInv, ChanInv, MissInv, Dozing, Inherits, At, Free
  <2>. QED
    BY ZenonT(40), <2>1, <2>2
<1>16. CASE ExitZombie(i)
  BY SMTT(60), <1>16 DEF ExitZombie, WaitInv, Holding, MissInv, Dozing, Inherits, At, Goto,
     Return
<1>17. CASE ExitLetGo(i)
  BY SMTT(60), <1>17 DEF ExitLetGo, WaitInv, Holding, MissInv, Dozing, Inherits, At, Goto,
     tab
<1>18. CASE wait(i)
  BY SMTT(60), <1>18, SlotFacts, ControlFacts DEF wait, MissInv, Dozing, Inherits, At, Goto,
     tab
<1>19. CASE WaitScan(i)
  BY SMTT(60), <1>19, ScanEffect, SlotFacts, ControlFacts DEF Ends, Frees, Advances, table,
     TableOK, StackInv, OwnLock, ForkInv, Forking, WaitInv, Holding, ChanInv, MissInv,
     Dozing, Inherits, At
<1>20. CASE WaitDecide(i)
  BY SMTT(60), <1>20, SlotFacts, ControlFacts DEF WaitDecide, WaitInv, ChanInv, MissInv,
     Dozing, Inherits, Failed, At, Goto, Return, tab
<1>21. CASE SleepLock(i)
  BY SMTT(60), <1>21 DEF SleepLock, WaitInv, Holding, MissInv, Dozing, Inherits, At, Goto,
     tab
<1>22. CASE SleepRelease(i)
  BY SMTT(60), <1>22 DEF SleepRelease, WaitInv, Holding, MissInv, Dozing, Inherits, At,
     Goto, tab
<1>23. CASE sleep(i)
  BY SMTT(60), <1>23 DEF sleep, MissInv, Dozing, Inherits, At, Goto
<1>24. CASE kill(i)
  <2>0. At(i, "kill") /\ UNCHANGED <<parent, chan>>
    BY Zenon, <1>24, KillEffect
  <2>1. CASE UNCHANGED state /\ (Ends(i, "user") \/ Advances(i))
    BY SMTT(30), <2>0, <2>1, ControlFacts DEF Ends, Advances, MissInv, Dozing, Inherits, At
  <2>2. CASE /\ k[i] # NPROC /\ Free(k[i]) /\ Ends(i, "user")
             /\ state' = IF state[k[i]] = "SLEEPING"
                           THEN [state EXCEPT ![k[i]] = "RUNNABLE"] ELSE state
    BY SMTT(60), <2>0, <2>2, IndexFacts, ControlFacts DEF Ends, TableOK, ChanInv, MissInv,
       Dozing, Inherits, At
  <2>. QED
    BY Zenon, <1>24, <2>1, <2>2, KillEffect
<1>. QED
  BY Zenon, StepCases, <1>1, <1>2, <1>3, <1>4, <1>5, <1>6, <1>7, <1>8, <1>9, <1>10, <1>11,
     <1>12, <1>13, <1>14, <1>15, <1>16, <1>17, <1>18, <1>19, <1>20, <1>21, <1>22, <1>23, <1>24

----------------------------------------------------------------------------
(* The first process satisfies the invariant.                              *)
LEMMA ProcInit == Init => ProcInv
<1>. SUFFICES ASSUME Init PROVE ProcInv
  OBVIOUS
<1>. USE SlotFacts, ProcAssumption DEF Init
<1>1. TableOK /\ HartsOK
  BY Zenon DEF TableOK, HartsOK
<1>2. ControlOK
  BY DEF ControlOK, Labels
<1>3. FlagsOK
  BY Zenon DEF FlagsOK
<1>4. StackInv /\ WaitInv /\ ForkInv
  BY DEF StackInv, OwnLock, WaitInv, Holding, ForkInv, Forking
<1>5. FamilyInv /\ ChanInv /\ MissInv
  BY Zenon DEF FamilyInv, Started, Gone, Exiting, ChanInv, MissInv, Dozing
<1>. QED
  BY Zenon, <1>1, <1>2, <1>3, <1>4, <1>5 DEF ProcInv, ProcTypeOK

(* Every step keeps it.                                                    *)
LEMMA ProcStep == ProcInv /\ [Next]_vars => ProcInv'
<1>. SUFFICES ASSUME ProcInv, [Next]_vars PROVE ProcInv'
  OBVIOUS
<1>0. /\ TableOK /\ HartsOK /\ ControlOK /\ FlagsOK
      /\ StackInv /\ WaitInv /\ ForkInv /\ FamilyInv /\ ChanInv /\ MissInv
  BY Zenon DEF ProcInv, ProcTypeOK
<1>1. CASE UNCHANGED vars
  <2>1. ProcTypeOK'
    BY Zenon, <1>0, <1>1 DEF ProcTypeOK, TableOK, HartsOK, ControlOK, FlagsOK, vars, tab, loc
  <2>2. StackInv' /\ WaitInv' /\ ForkInv'
    BY ZenonT(40), <1>0, <1>1 DEF StackInv, WaitInv, ForkInv, vars, tab, loc
  <2>3. FamilyInv' /\ ChanInv' /\ MissInv'
    BY ZenonT(40), <1>0, <1>1 DEF FamilyInv, ChanInv, MissInv, Dozing, Inherits, vars, tab, loc
  <2>. QED
    BY Zenon, <2>1, <2>2, <2>3 DEF ProcInv
<1>2. ASSUME NEW i \in Slots, Switch(i) \/ Call(i) \/ Program(i) PROVE ProcInv'
  BY Zenon, <1>0, <1>2, TableStep, HartsStep, ControlStep, FlagsStep, StackStep, WaitStep,
     ForkStep, FamilyStep, ChanStep, MissStep DEF ProcInv, ProcTypeOK
<1>. QED
  BY Zenon, <1>1, <1>2 DEF Next

(* The inductive invariant holds in every reachable state.                 *)
THEOREM ProcSafe == Spec => []ProcInv
  BY ProcInit, ProcStep, PTL DEF Spec

(* The table of processes, the locks and the locals of every call keep     *)
(* their types; in particular no loop runs past the end of the table.      *)
THEOREM ProcTypes == Spec => []ProcTypeOK
<1>1. ProcInv => ProcTypeOK
  BY Zenon DEF ProcInv
<1>. QED
  BY <1>1, ProcSafe, PTL

(* For any table and any number of harts: no kernel stack is used by two   *)
(* harts, and none that belongs to a slot that was freed.  scheduler takes *)
(* p->lock before it looks at the state, and sched gives it up only after  *)
(* the switch.                                                             *)
THEOREM StacksApart == Spec => []OneStack
<1>1. ProcInv => OneStack
  BY DEF ProcInv, StackInv, OneStack
<1>. QED
  BY <1>1, ProcSafe, PTL

(* For any table and any number of harts: no parent sleeps in wait over a  *)
(* zombie of its own once wait_lock is free.  wait keeps wait_lock from    *)
(* the scan to the moment it has p->lock, and exit holds wait_lock from    *)
(* before wakeup(p->parent) until it is a ZOMBIE.                          *)
THEOREM ExitNotMissed == Spec => []NoMissedExit
<1>1. ProcInv => NoMissedExit
  BY ZenonT(40), SlotFacts DEF ProcInv, ProcTypeOK, ControlOK, WaitInv, Holding, MissInv, Dozing,
     Inherits, NoMissedExit
<1>. QED
  BY <1>1, ProcSafe, PTL

(* For any table and any number of harts: every process that was started   *)
(* has a parent that can still wait for it, once wait_lock is free.        *)
THEOREM NeverOrphan == Spec => []NoOrphan
<1>1. ProcInv => NoOrphan
  BY Zenon, SlotFacts DEF ProcInv, ProcTypeOK, TableOK, FamilyInv, Started, Gone, NoOrphan
<1>. QED
  BY <1>1, ProcSafe, PTL

(* What sched checks of the locks and of the state before it switches.     *)
SchedSound ==
  \A i \in Slots : pc[i] = "switch" => lock[i] = i /\ wait_lock # i /\ state[i] # "RUNNING"

(* sched never panics: a process that comes to its checks holds its own    *)
(* lock, does not hold wait_lock and is not RUNNING.                       *)
THEOREM SchedNeverPanics == Spec => []SchedSound
<1>1. ProcInv => SchedSound
  BY SlotFacts DEF ProcInv, StackInv, OwnLock, WaitInv, Holding, SchedSound
<1>. QED
  BY <1>1, ProcSafe, PTL

=============================================================================
