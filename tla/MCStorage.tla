----------------------------- MODULE MCStorage -----------------------------
(***************************************************************************)
(* Storage and memory for TLC: directories and inodes, the contents of     *)
(* files, mkfs, the buffer cache, the disk driver and the address spaces.  *)
(* Each is modelled on the interface of the one below it, so each runs     *)
(* alone, and part says which.                                             *)
(***************************************************************************)
EXTENDS MCFs, MkFs, Memory, BufferCache, VirtioDisk

VARIABLE part

sysVars == <<part, fsVars, dataVars, mkfsVars, memVars, cacheVars, virtioVars>>

Parts == {"fs", "data", "mkfs", "memory", "cache", "virtio"}

(* Fs has an initial state for each tree, Memory one for each number of    *)
(* free pages.                                                             *)
SysInit ==
  /\ part \in Parts /\ DataInit /\ MkFsInit /\ CacheInit /\ VirtioInit
  /\ IF part = "fs" THEN FsInit ELSE FsBoot("dir")
  /\ IF part = "memory" THEN MemInit ELSE MemBoot(CHOOSE n \in PageCounts : TRUE)

Only(p) == part = p /\ UNCHANGED part

FilesUnchanged == UNCHANGED <<fsVars, dataVars, mkfsVars>>
BelowUnchanged == UNCHANGED <<memVars, cacheVars, virtioVars>>

SysNext ==
  \/ Only("fs") /\ FsNext /\ UNCHANGED <<dataVars, mkfsVars>> /\ BelowUnchanged
  \/ Only("data") /\ DataNext /\ UNCHANGED <<fsVars, mkfsVars>> /\ BelowUnchanged
  \/ Only("mkfs") /\ MkFsNext /\ UNCHANGED <<fsVars, dataVars>> /\ BelowUnchanged
  \/ Only("memory") /\ MemNext /\ UNCHANGED <<cacheVars, virtioVars>> /\ FilesUnchanged
  \/ Only("cache") /\ CacheNext /\ UNCHANGED <<memVars, virtioVars>> /\ FilesUnchanged
  \/ Only("virtio") /\ VirtioNext /\ UNCHANGED <<memVars, cacheVars>> /\ FilesUnchanged

(* A system call that has begun goes on.  The driver has the fairness of   *)
(* VirtioFair, since its processes may wake each other for ever.           *)
FsWork ==
  /\ Only("fs") /\ (\E p \in FsProcs : FsStep(p))
  /\ UNCHANGED <<dataVars, mkfsVars>> /\ BelowUnchanged

DriverWork(b) ==
  Only("virtio") /\ Driver(b) /\ UNCHANGED <<memVars, cacheVars>> /\ FilesUnchanged

DiskWork ==
  Only("virtio") /\ Device /\ UNCHANGED <<memVars, cacheVars>> /\ FilesUnchanged

IntrWork ==
  Only("virtio") /\ DiskIntr /\ UNCHANGED <<memVars, cacheVars>> /\ FilesUnchanged

SysFair ==
  /\ WF_sysVars(FsWork) /\ WF_sysVars(DiskWork) /\ WF_sysVars(IntrWork)
  /\ \A b \in Requesters : WF_sysVars(DriverWork(b))

SysSpec == SysInit /\ [][SysNext]_sysVars /\ SysFair

----------------------------------------------------------------------------
(* Instances.  The inode each open file is of.                             *)
MCInodeOf == [f \in Opens |-> IF f = 3 THEN 2 ELSE 1]
=============================================================================
