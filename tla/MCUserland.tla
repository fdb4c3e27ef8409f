----------------------------- MODULE MCUserland -----------------------------
(***************************************************************************)
(* What user programs see of the system, for TLC: the shell over files and *)
(* pipes, the console, sleep, copies from and to user memory, and the      *)
(* programs and library routines.  The parts share no state, so each runs  *)
(* alone, and part says which.                                             *)
(***************************************************************************)
EXTENDS Shell, Console, Clock, UserHeap, UserCopy, Filters, Library, AudioControl

VARIABLE part

sysVars == <<part, shellVars, consVars, clockVars, heapVars, copyVars, filterVars, libVars, controlVars>>

Parts == {"shell", "console", "clock", "heap", "copy", "filter", "library", "control"}

Small == <<clockVars, heapVars, copyVars, filterVars, libVars, controlVars>>

SysInit ==
  /\ part \in Parts /\ ShellInit /\ ConsInit /\ ClockInit /\ HeapInit /\ CopyInit /\ FilterInit
  /\ LibInit /\ ControlInit

SmallNext ==
  \/ part = "clock" /\ ClockNext
       /\ UNCHANGED <<heapVars, copyVars, filterVars, libVars, controlVars>>
  \/ part = "heap" /\ HeapNext
       /\ UNCHANGED <<clockVars, copyVars, filterVars, libVars, controlVars>>
  \/ part = "copy" /\ CopyNext
       /\ UNCHANGED <<clockVars, heapVars, filterVars, libVars, controlVars>>
  \/ part = "filter" /\ FilterNext
       /\ UNCHANGED <<clockVars, heapVars, copyVars, libVars, controlVars>>
  \/ part = "library" /\ LibNext
       /\ UNCHANGED <<clockVars, heapVars, copyVars, filterVars, controlVars>>
  \/ part = "control" /\ ControlNext
       /\ UNCHANGED <<clockVars, heapVars, copyVars, filterVars, libVars>>

SysNext ==
  \/ part = "shell" /\ ShellNext /\ UNCHANGED <<part, consVars, Small>>
  \/ part = "console" /\ ConsNext /\ UNCHANGED <<part, shellVars, Small>>
  \/ SmallNext /\ UNCHANGED <<part, shellVars, consVars>>

(* The kernel goes on as long as a process or a device has something to    *)
(* do; typing, killing and making calls are up to the user.                *)
Work ==
  \/ part = "shell" /\ (main \/ \E p \in Procs : ShellStep(p)) /\ UNCHANGED <<part, consVars, Small>>
  \/ part = "console" /\ (DeviceSends \/ Handler \/ \E u \in Users : UserIO(u))
       /\ UNCHANGED <<part, shellVars, Small>>

SysSpec == SysInit /\ [][SysNext]_sysVars /\ WF_sysVars(Work)

----------------------------------------------------------------------------
(* Instances.  "any" makes calls in any order; "b" stands for a space in   *)
(* the input of wc.                                                        *)
MCLines == {<<"echo", "|", "(", "cat", ";", "echo", ">", "f", ")">>,
            <<"cat", "&", ";", "echo", ">", "f">>, <<"any">>}
MCNuls == SUBSET {1, 3, 4}
MCPatterns == UNION {[1 .. n -> {"a", ".", "*", "^", "$"}] : n \in 0 .. 2}
              \cup {<<"^", "a", "$">>, <<"a", "*", "a">>, <<".", "*", "$">>, <<"^", "*", "a">>}
MCInputs == UNION {[1 .. n -> {"a", "b", "n"}] : n \in 0 .. 3}
            \cup {<<"a", "n", "b", "a", "n">>, <<"b", "a", "b", "n", "a", "n">>}
=============================================================================
