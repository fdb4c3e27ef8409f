------------------------------- MODULE Clock --------------------------------
(***************************************************************************)
(* sleep(n) for user programs: sys_sleep of kernel/sysproc.c and clockintr *)
(* of kernel/trap.c, with kill.  ticks is a uint and wraps around.         *)
(*                                                                         *)
(* tickslock keeps interrupts off, so a test of the loop with the sleep    *)
(* that follows it is one step.                                            *)
(***************************************************************************)
EXTENDS Integers

CONSTANTS
  Sleepers,
  TickUint,     \* uint is 0 .. TickUint - 1
  Naps,         \* arguments of sleep: from TickUint \div 2 on they are negative ints
  FirstTick,    \* ticks at the start
  MaxNow        \* bound: clock interrupts

ASSUME ClockAssumption ==
  TickUint \in Nat /\ Naps \cup {FirstTick} \subseteq 0 .. TickUint - 1 /\ MaxNow \in Nat

VARIABLES
  ticks,
  nap,       \* of each process: where it is, n, ticks0, killed
  now, since \* interrupts so far, and when each call was made

clockVars == <<ticks, nap, now, since>>

Elapsed(r) == (ticks - r.ticks0) % TickUint

(* The while loop of sys_sleep, from where tickslock is held to the sleep  *)
(* or the return: n is converted to unsigned.                              *)
Loop(p, r) ==
  nap' = [nap EXCEPT ![p] =
    [r EXCEPT !.at = CASE ~(Elapsed(r) < r.n) -> "slept"
                       [] Elapsed(r) < r.n /\ r.killed -> "killed"
                       [] OTHER -> "asleep"]]

sys_sleep(p) ==
  /\ nap[p].at = "user"
  /\ \E n \in Naps : Loop(p, [nap[p] EXCEPT !.n = n, !.ticks0 = ticks])
  /\ since' = [since EXCEPT ![p] = now] /\ UNCHANGED <<ticks, now>>

(* sleep has returned.                                                     *)
Awake(p) == nap[p].at = "awake" /\ Loop(p, nap[p]) /\ UNCHANGED <<ticks, now, since>>

Wakened ==
  [p \in Sleepers |-> [nap[p] EXCEPT !.at = IF @ = "asleep" THEN "awake" ELSE @]]

(* Mutant of clockintr: nobody is woken.                                   *)
NoWakeup ==
  /\ now < MaxNow /\ now' = now + 1 /\ ticks' = (ticks + 1) % TickUint
  /\ UNCHANGED <<nap, since>>

clockintr ==
  /\ now < MaxNow /\ now' = now + 1 /\ ticks' = (ticks + 1) % TickUint
  /\ nap' = Wakened /\ UNCHANGED since

KillSleeper(p) ==
  /\ ~nap[p].killed /\ nap[p].at \in {"user", "awake", "asleep"}
  /\ nap' = [nap EXCEPT ![p].killed = TRUE, ![p].at = IF @ = "asleep" THEN "awake" ELSE @]
  /\ UNCHANGED <<ticks, now, since>>

ClockInit ==
  /\ ticks = FirstTick /\ now = 0 /\ since = [p \in Sleepers |-> 0]
  /\ nap = [p \in Sleepers |-> [at |-> "user", n |-> 0, ticks0 |-> 0, killed |-> FALSE]]

ClockNext == clockintr \/ \E p \in Sleepers : sys_sleep(p) \/ Awake(p) \/ KillSleeper(p)

ClockSpec == ClockInit /\ [][ClockNext]_clockVars

----------------------------------------------------------------------------
(* sleep(n) lasts n interrupts, although ticks may wrap around: a process  *)
(* it lets go has slept that long unless it was killed, and one that still *)
(* sleeps has not, and is not killed, so that no interrupt and no kill     *)
(* that should have ended the sleep was missed.                            *)
SleepExact ==
  \A p \in Sleepers :
    /\ nap[p].at = "slept" => now - since[p] >= nap[p].n
    /\ nap[p].at = "asleep" => now - since[p] < nap[p].n /\ ~nap[p].killed
=============================================================================
