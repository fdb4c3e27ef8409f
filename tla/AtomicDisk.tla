----------------------------- MODULE AtomicDisk -----------------------------
(***************************************************************************)
(* What the log promises the file system: a disk that takes the updates of *)
(* the system calls between begin_op and end_op all or not at all.  volatile*)
(* is the disk as system calls see it, stable the disk that a crash leaves. *)
(* stable moves only when no system call is active, so it never has a part *)
(* of one.                                                                 *)
(***************************************************************************)
CONSTANTS Blocks, Ops, Values

VARIABLES stable, volatile, active

Init == /\ stable \in [Blocks -> Values]
        /\ volatile = stable
        /\ active = {}

Begin(p) == active' = active \cup {p} /\ UNCHANGED <<stable, volatile>>

Write(p, b, v) == /\ p \in active
                  /\ volatile' = [volatile EXCEPT ![b] = v]
                  /\ UNCHANGED <<stable, active>>

End(p) == active' = active \ {p} /\ UNCHANGED <<stable, volatile>>

Commit == /\ active = {}
          /\ stable' = volatile
          /\ UNCHANGED <<volatile, active>>

Crash == volatile' = stable /\ active' = {} /\ UNCHANGED stable

Next == \/ \E p \in Ops : Begin(p) \/ End(p)
        \/ \E p \in Ops, b \in Blocks, v \in Values : Write(p, b, v)
        \/ Commit \/ Crash

Spec == Init /\ [][Next]_<<stable, volatile, active>>
=============================================================================
