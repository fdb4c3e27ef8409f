--------------------------------- MODULE Fs ---------------------------------
(***************************************************************************)
(* Inodes, directories and path names: the upper half of kernel/fs.c, and  *)
(* the calls of kernel/sysfile.c on paths, made by processes that run at   *)
(* the same time inside transactions of the log.                           *)
(*                                                                         *)
(* A section under itable.lock is one step; so is what a process does      *)
(* between ilock and iunlock to the one inode it has locked, since nobody  *)
(* else can see it.  Where a call holds one inode and locks another, each  *)
(* ilock is a step.  An inode in memory and on disk are one: iupdate       *)
(* follows every change before the unlock.                                 *)
(***************************************************************************)
EXTENDS Integers, Sequences, FiniteSets

CONSTANTS
  FsProcs, NINODE,
  FsCalls,      \* the calls that processes make
  Inside,       \* the processes that do not start in the root
  MaxCallsFs    \* bound on the calls made

ASSUME FsAssumption == NINODE \in Nat /\ NINODE >= 4 /\ MaxCallsFs \in Nat /\ Inside \subseteq FsProcs

Inums == 1 .. NINODE     \* 1 is the root; 0 is no inode
ROOTINO == 1
Names == {"a", "b", ".", ".."}

VARIABLES
  type, nlink, ents,       \* the inodes: "free", "dir" or "file"; links; entries
  ivalid, iref, ilk,        \* the inode table: in memory, references, owner of the lock
  cwd, openf,              \* of each process: its directory, a file it has open
  fpc, call, path, after,  \* control point, call, rest of the path, what namex returns to
  ip, dp, puts,            \* locals; inodes to iput before going on
  made, lost,              \* calls made; inodes that leaked
  stray                    \* calls that have left a removed directory by its ".."

inodes == <<type, nlink, ents>>
procFs == <<cwd, openf, call, path, after, ip, dp>>
fsVars == <<inodes, ivalid, iref, ilk, procFs, fpc, puts, made, lost, stray>>

NoCall == [op |-> "none"]
NoEnts == [n \in Names |-> 0]
LastName(p) == call[p].path[Len(call[p].path)]
Busy(p) == fpc[p] # "idle"

At(p, pc) == fpc[p] = pc /\ puts[p] = <<>>
Go(p, pc) == fpc' = [fpc EXCEPT ![p] = pc]
Put(p, s) == puts' = [puts EXCEPT ![p] = s]
Same == UNCHANGED <<made, lost, stray>>

(* iget and idup count one more reference; an entry taken afresh is not    *)
(* ivalid.                                                                 *)
Ref(i) == [iref EXCEPT ![i] = @ + 1]

(* ilock on a free lock reads the inode: free there, it panics, and the    *)
(* process takes no other step: its call would never end.                  *)
Lockable(i) == ilk[i] = 0
NoType(i) == ~ivalid[i] /\ type[i] = "free"
Load(i) == ivalid' = [ivalid EXCEPT ![i] = TRUE]

----------------------------------------------------------------------------
(* A call begins.                                                          *)
StartNamex(p, pth, abs, then) ==
  /\ Go(p, "namex")
  /\ path' = [path EXCEPT ![p] = pth] /\ after' = [after EXCEPT ![p] = then]
  /\ LET start == IF abs THEN ROOTINO ELSE cwd[p]
     IN ip' = [ip EXCEPT ![p] = start] /\ iref' = Ref(start)

BeginCall(p) ==
  /\ At(p, "idle") /\ made < MaxCallsFs /\ made' = made + 1
  /\ \E c \in FsCalls :
       /\ c.op = "close" => openf[p] # 0
       /\ c.op = "open" => openf[p] = 0
       /\ call' = [call EXCEPT ![p] = c]
       /\ IF c.op = "close"
            THEN /\ Put(p, <<openf[p]>>) /\ openf' = [openf EXCEPT ![p] = 0]
                 /\ Go(p, "end") /\ UNCHANGED <<path, after, ip, iref>>
            ELSE /\ StartNamex(p, IF c.op = "link" THEN c.old ELSE c.path, c.abs,
                               IF c.op = "link" THEN "link1" ELSE c.op)
                 /\ UNCHANGED <<puts, openf>>
  /\ UNCHANGED <<inodes, ivalid, ilk, cwd, dp, lost, stray>>

(* end_op, and the return.                                                 *)
EndCall(p) ==
  /\ At(p, "end") /\ Go(p, "idle")
  /\ call' = [call EXCEPT ![p] = NoCall]
  /\ path' = [path EXCEPT ![p] = <<>>] /\ after' = [after EXCEPT ![p] = "end"]
  /\ ip' = [ip EXCEPT ![p] = 0] /\ dp' = [dp EXCEPT ![p] = 0]
  /\ stray' = stray \ {p}
  /\ UNCHANGED <<inodes, ivalid, iref, ilk, cwd, openf, puts, made, lost>>

(* One turn of namex: it locks ip, finds the next inode, unlocks and puts  *)
(* ip.  For nameiparent it stops one level early.                          *)
WantsParent(p) == after[p] \in {"unlink", "create", "mkdir", "link2"}

Found(p) ==
  /\ At(p, "namex") /\ path[p] = <<>>
  /\ IF WantsParent(p)
       THEN /\ Put(p, <<ip[p]>>) /\ Go(p, IF after[p] = "link2" THEN "linkbad" ELSE "end")
            /\ ip' = [ip EXCEPT ![p] = IF after[p] = "link2" THEN dp[p] ELSE 0]
            /\ dp' = [dp EXCEPT ![p] = 0]
       ELSE Go(p, after[p]) /\ UNCHANGED <<puts, ip, dp>>
  /\ UNCHANGED <<inodes, ivalid, iref, ilk, cwd, openf, call, path, after>> /\ Same

namex(p) ==
  LET i == ip[p]
      next == ents[i][Head(path[p])]
      fail == IF after[p] = "link2" THEN "linkbad" ELSE "end"
  IN
  /\ At(p, "namex") /\ path[p] # <<>> /\ Lockable(i) /\ ~NoType(i) /\ Load(i)
  /\ CASE type[i] # "dir" \/ (next = 0 /\ ~(WantsParent(p) /\ Len(path[p]) = 1)) ->
            /\ Put(p, <<i>>) /\ Go(p, fail)
            /\ ip' = [ip EXCEPT ![p] = IF after[p] = "link2" THEN dp[p] ELSE 0]
            /\ dp' = [dp EXCEPT ![p] = 0] /\ UNCHANGED <<path, iref, stray>>
       [] type[i] = "dir" /\ WantsParent(p) /\ Len(path[p]) = 1 ->
            Go(p, after[p]) /\ UNCHANGED <<puts, ip, dp, path, iref, stray>>
       [] OTHER ->
            /\ iref' = Ref(next) /\ ip' = [ip EXCEPT ![p] = next]
            /\ Put(p, <<i>>) /\ path' = [path EXCEPT ![p] = Tail(@)]
            /\ stray' = IF Head(path[p]) = ".." /\ nlink[i] = 0 THEN stray \cup {p} ELSE stray
            /\ UNCHANGED <<fpc, dp>>
  /\ UNCHANGED <<inodes, ilk, cwd, openf, call, after, made, lost>>

(* The inode a process is about to lock.                                   *)
Locks(p) ==
  CASE puts[p] # <<>> -> {}
    [] fpc[p] = "namex" -> IF path[p] = <<>> THEN {} ELSE {ip[p]}
    [] fpc[p] \in {"idle", "end", "unlink3", "created"} -> {}
    [] OTHER -> {ip[p]}

----------------------------------------------------------------------------

(* iput: the last reference to an inode without links frees it, under its  *)
(* lock but not under itable.lock; then the reference is dropped without   *)
(* another look at the links (puts holds -i by then).                      *)
Doomed(i) == iref[i] = 1 /\ ivalid[i] /\ nlink[i] = 0

Free(p, i) ==
  /\ type' = [type EXCEPT ![i] = "free"] /\ ents' = [ents EXCEPT ![i] = NoEnts]
  /\ ivalid' = [ivalid EXCEPT ![i] = FALSE] /\ ilk' = [ilk EXCEPT ![i] = 0]
  /\ Put(p, <<-i>> \o Tail(puts[p])) /\ UNCHANGED <<nlink, iref, lost>>

DropRef(p, i) ==
  /\ iref' = [iref EXCEPT ![i] = @ - 1] /\ Put(p, Tail(puts[p]))
  /\ ivalid' = [ivalid EXCEPT ![i] = @ /\ iref[i] > 1]
  /\ lost' = IF Doomed(i) THEN lost \cup {i} ELSE lost
  /\ UNCHANGED <<inodes, ilk>>

iput(p) ==
  /\ puts[p] # <<>>
  /\ LET i == Head(puts[p]) IN
     IF i < 0 THEN DropRef(p, -i)
     ELSE IF ilk[i] = p THEN Free(p, i)
     ELSE IF Doomed(i)
       THEN Lockable(i) /\ ilk' = [ilk EXCEPT ![i] = p] /\ UNCHANGED <<iref, puts, inodes, ivalid, lost>>
       ELSE DropRef(p, i)
  /\ UNCHANGED <<procFs, fpc, made, stray>>

----------------------------------------------------------------------------
(* The calls, from the return of namex on.  Finish puts the inodes s and   *)
(* ends the call.                                                          *)
Finish(p, s) ==
  Put(p, s) /\ Go(p, "end") /\ ip' = [ip EXCEPT ![p] = 0] /\ dp' = [dp EXCEPT ![p] = 0]
CanLock(p, pc) == At(p, pc) /\ Lockable(ip[p]) /\ ~NoType(ip[p]) /\ Load(ip[p])

(* The end of sys_open: a file and a descriptor, or none.                  *)
GetFile(p, i) ==
  \/ openf[p] = 0 /\ openf' = [openf EXCEPT ![p] = i] /\ Finish(p, <<>>)
  \/ Finish(p, <<i>>) /\ UNCHANGED openf

sys_open(p) ==
  /\ CanLock(p, "open")
  /\ IF type[ip[p]] = "dir" /\ call[p].write
       THEN Finish(p, <<ip[p]>>) /\ UNCHANGED openf
       ELSE GetFile(p, ip[p])
  /\ UNCHANGED <<inodes, iref, ilk, cwd, call, path, after>> /\ Same

sys_chdir(p) ==
  /\ CanLock(p, "chdir")
  /\ IF type[ip[p]] # "dir"
       THEN Finish(p, <<ip[p]>>) /\ UNCHANGED cwd
       ELSE Finish(p, <<cwd[p]>>) /\ cwd' = [cwd EXCEPT ![p] = ip[p]]
  /\ UNCHANGED <<inodes, iref, ilk, openf, call, path, after>> /\ Same

(* unlink holds the directory while it locks the entry, and keeps the      *)
(* entry locked while it puts the directory.                               *)
sys_unlink(p) ==
  /\ CanLock(p, "unlink")
  /\ LET d == ip[p]
         i == ents[d][LastName(p)]
     IN IF LastName(p) \in {".", ".."} \/ i = 0
          THEN Finish(p, <<d>>) /\ UNCHANGED <<iref, ilk>>
          ELSE /\ ilk' = [ilk EXCEPT ![d] = p] /\ iref' = Ref(i)
               /\ dp' = [dp EXCEPT ![p] = d] /\ ip' = [ip EXCEPT ![p] = i]
               /\ Go(p, "unlink2") /\ UNCHANGED puts
  /\ UNCHANGED <<inodes, cwd, openf, call, path, after>> /\ Same

(* Mutant of isdirempty: any directory will do.                            *)
AnyDir(i) == TRUE

isdirempty(i) == \A n \in Names \ {".", ".."} : ents[i][n] = 0

unlink2(p) ==
  LET i == ip[p]
      d == dp[p]
  IN
  /\ CanLock(p, "unlink2") /\ nlink[i] >= 1
  /\ IF type[i] = "dir" /\ ~isdirempty(i)
       THEN /\ Finish(p, <<i, d>>) /\ ilk' = [ilk EXCEPT ![d] = 0]
            /\ UNCHANGED inodes
       ELSE /\ ents' = [ents EXCEPT ![d][LastName(p)] = 0]
            /\ nlink' = [nlink EXCEPT ![d] = IF type[i] = "dir" THEN @ - 1 ELSE @]
            /\ ilk' = [ilk EXCEPT ![d] = 0, ![i] = p]
            /\ Put(p, <<d>>) /\ Go(p, "unlink3") /\ UNCHANGED <<type, ip>>
            /\ dp' = [dp EXCEPT ![p] = 0]
  /\ UNCHANGED <<iref, cwd, openf, call, path, after>> /\ Same

unlink3(p) ==
  /\ At(p, "unlink3")
  /\ nlink' = [nlink EXCEPT ![ip[p]] = @ - 1] /\ ilk' = [ilk EXCEPT ![ip[p]] = 0]
  /\ Finish(p, <<ip[p]>>)
  /\ UNCHANGED <<type, ents, ivalid, iref, cwd, openf, call, path, after>> /\ Same

(* create, for open with O_CREATE and for mkdir.  ialloc takes the first   *)
(* free inode, of which there is one (or it panics); the table may still   *)
(* hold it for the process that freed it.                                  *)
Wanted(p) == IF call[p].op = "mkdir" THEN "dir" ELSE "file"
FreeInums == {i \in Inums : type[i] = "free"}

create(p) ==
  /\ CanLock(p, call[p].op) /\ call[p].op \in {"create", "mkdir"}
  /\ LET d == ip[p]
         i == ents[d][LastName(p)]
         k == CHOOSE k \in FreeInums : \A l \in FreeInums : k <= l
     IN IF i # 0
          THEN /\ iref' = Ref(i) /\ ip' = [ip EXCEPT ![p] = i] /\ Put(p, <<d>>)
               /\ Go(p, "create2") /\ UNCHANGED <<inodes, ilk, dp>>
          ELSE /\ FreeInums # {}
               /\ type' = [type EXCEPT ![k] = Wanted(p)] /\ nlink' = [nlink EXCEPT ![k] = 0]
               /\ iref' = Ref(k) /\ ilk' = [ilk EXCEPT ![d] = p]
               /\ dp' = [dp EXCEPT ![p] = d] /\ ip' = [ip EXCEPT ![p] = k]
               /\ Go(p, "create3") /\ UNCHANGED <<ents, puts>>
  /\ UNCHANGED <<cwd, openf, call, path, after>> /\ Same

create2(p) ==
  /\ CanLock(p, "create2")
  /\ IF Wanted(p) = "file" /\ type[ip[p]] = "file"
       THEN /\ ilk' = [ilk EXCEPT ![ip[p]] = p] /\ Go(p, "created") /\ UNCHANGED <<puts, ip, dp>>
       ELSE Finish(p, <<ip[p]>>) /\ UNCHANGED ilk
  /\ UNCHANGED <<inodes, iref, cwd, openf, call, path, after>> /\ Same

(* An entry made in a directory that has been removed meanwhile is lost; a *)
(* new subdirectory counts a link to its parent, which is lost with it.    *)
Orphan(d, i) ==
  IF nlink[d] > 0 THEN lost ELSE lost \cup {i} \cup (IF type[i] = "dir" THEN {d} ELSE {})

create3(p) ==
  LET i == ip[p]
      d == dp[p]
      dots == [NoEnts EXCEPT !["."] = i, ![".."] = d]
  IN
  /\ CanLock(p, "create3")
  /\ nlink' = [nlink EXCEPT ![i] = 1, ![d] = IF Wanted(p) = "dir" THEN @ + 1 ELSE @]
  /\ ents' = [ents EXCEPT ![i] = IF Wanted(p) = "dir" THEN dots ELSE NoEnts,
                          ![d][LastName(p)] = i]
  /\ ilk' = [ilk EXCEPT ![d] = 0, ![i] = p]
  /\ Put(p, <<d>>) /\ dp' = [dp EXCEPT ![p] = 0] /\ Go(p, "created")
  /\ UNCHANGED <<type, ip, iref, cwd, openf, call, path, after, made, stray>>
  /\ lost' = Orphan(d, i)

(* Mutant of created: the new inode stays locked.                          *)
StaysLocked(p) ==
  /\ At(p, "created")
  /\ IF call[p].op = "mkdir" THEN Finish(p, <<ip[p]>>) /\ UNCHANGED openf
     ELSE GetFile(p, ip[p])
  /\ UNCHANGED <<ilk, inodes, ivalid, iref, cwd, call, path, after>> /\ Same

created(p) ==
  /\ At(p, "created") /\ ilk' = [ilk EXCEPT ![ip[p]] = 0]
  /\ IF call[p].op = "mkdir" THEN Finish(p, <<ip[p]>>) /\ UNCHANGED openf
     ELSE GetFile(p, ip[p])
  /\ UNCHANGED <<inodes, ivalid, iref, cwd, call, path, after>> /\ Same

(* link counts the new link first, finds the directory, and takes the link *)
(* back when it cannot make the entry.  dp keeps the inode meanwhile.      *)
sys_link(p) ==
  /\ CanLock(p, "link1")
  /\ IF type[ip[p]] = "dir"
       THEN Finish(p, <<ip[p]>>) /\ UNCHANGED <<nlink, path, after, iref>>
       ELSE /\ nlink' = [nlink EXCEPT ![ip[p]] = @ + 1]
            /\ dp' = [dp EXCEPT ![p] = ip[p]]
            /\ StartNamex(p, call[p].path, call[p].abs, "link2") /\ UNCHANGED puts
  /\ UNCHANGED <<type, ents, ilk, cwd, openf, call>> /\ Same

link2(p) ==
  LET d == ip[p]
      old == ents[d][LastName(p)]
  IN
  /\ CanLock(p, "link2")
  /\ IF old # 0
       THEN /\ iref' = Ref(old) /\ Put(p, <<old, d>>) /\ Go(p, "linkbad")
            /\ ip' = [ip EXCEPT ![p] = dp[p]] /\ dp' = [dp EXCEPT ![p] = 0] /\ UNCHANGED <<ents, lost>>
       ELSE /\ ents' = [ents EXCEPT ![d][LastName(p)] = dp[p]]
            /\ Finish(p, <<d, dp[p]>>) /\ lost' = Orphan(d, dp[p]) /\ UNCHANGED iref
  /\ UNCHANGED <<type, nlink, ilk, cwd, openf, call, path, after, made, stray>>

linkbad(p) ==
  /\ CanLock(p, "linkbad") /\ nlink' = [nlink EXCEPT ![ip[p]] = @ - 1]
  /\ Finish(p, <<ip[p]>>)
  /\ UNCHANGED <<type, ents, iref, ilk, cwd, openf, call, path, after>> /\ Same

----------------------------------------------------------------------------
(* The tree at the start: /a, a directory, and in it b, an empty directory *)
(* or a file.  The processes of Inside are in b, or in /a if b is a file.  *)
FsTree(b) ==
  LET home == IF b = "dir" THEN 3 ELSE 2 IN
  /\ type = [i \in Inums |-> CASE i < 3 -> "dir" [] i = 3 -> b [] OTHER -> "free"]
  /\ nlink = [i \in Inums |-> CASE i = 1 -> 2 [] i = 2 -> home - 1 [] i = 3 -> 1 [] OTHER -> 0]
  /\ ents = [i \in Inums |->
               CASE i = 1 -> [NoEnts EXCEPT !["."] = 1, ![".."] = 1, !["a"] = 2]
                 [] i = 2 -> [NoEnts EXCEPT !["."] = 2, ![".."] = 1, !["b"] = 3]
                 [] i = 3 /\ b = "dir" -> [NoEnts EXCEPT !["."] = 3, ![".."] = 2]
                 [] OTHER -> NoEnts]
  /\ ivalid = [i \in Inums |-> i = home /\ Inside # {}] /\ ilk = [i \in Inums |-> 0]
  /\ iref = [i \in Inums |-> CASE i = 1 -> Cardinality(FsProcs \ Inside)
                              [] i = home -> Cardinality(Inside) [] OTHER -> 0]
  /\ cwd = [p \in FsProcs |-> IF p \in Inside THEN home ELSE 1]

FsBoot(b) ==
  /\ FsTree(b)
  /\ openf = [p \in FsProcs |-> 0]
  /\ fpc = [p \in FsProcs |-> "idle"] /\ call = [p \in FsProcs |-> NoCall]
  /\ path = [p \in FsProcs |-> <<>>] /\ after = [p \in FsProcs |-> "end"]
  /\ ip = [p \in FsProcs |-> 0] /\ dp = [p \in FsProcs |-> 0]
  /\ puts = [p \in FsProcs |-> <<>>] /\ made = 0 /\ lost = {} /\ stray = {}

FsInit == \E b \in {"dir", "file"} : FsBoot(b)

FsStep(p) ==
  \/ EndCall(p) \/ Found(p) \/ namex(p) \/ iput(p)
  \/ sys_open(p) \/ sys_chdir(p) \/ sys_unlink(p) \/ unlink2(p) \/ unlink3(p)
  \/ create(p) \/ create2(p) \/ create3(p) \/ created(p)
  \/ sys_link(p) \/ link2(p) \/ linkbad(p)

FsNext == \E p \in FsProcs : BeginCall(p) \/ FsStep(p)

FsSpec == FsInit /\ [][FsNext]_fsVars
FairFsSpec == FsSpec /\ \A p \in FsProcs : WF_fsVars(FsStep(p))

----------------------------------------------------------------------------
FsTypeOK ==
  /\ type \in [Inums -> {"free", "dir", "file"}] /\ nlink \in [Inums -> Nat]
  /\ ents \in [Inums -> [Names -> Inums \cup {0}]] /\ ivalid \in [Inums -> BOOLEAN]
  /\ iref \in [Inums -> Nat] /\ ilk \in [Inums -> FsProcs \cup {0}]
  /\ cwd \in [FsProcs -> Inums] /\ openf \in [FsProcs -> Inums \cup {0}]
  /\ \A p \in FsProcs : {ip[p], dp[p]} \subseteq Inums \cup {0}

(* A commit of the log happens when no call is inside a transaction.  The  *)
(* tree is what can be reached from the root then; Naming(tree, i) are the *)
(* entries of the tree that name i.                                        *)
NoTransaction == \A p \in FsProcs : ~Busy(p)
Under(d) == IF type[d] = "dir" THEN {ents[d][n] : n \in Names \ {".", ".."}} \ {0} ELSE {}
Depth[n \in 0 .. NINODE] ==
  IF n = 0 THEN {ROOTINO} ELSE LET S == Depth[n - 1] IN S \cup UNION {Under(d) : d \in S}
Tree == Depth[NINODE]
Naming(tree, i) == {x \in tree \X (Names \ {"."}) : type[x[1]] = "dir" /\ ents[x[1]][x[2]] = i}
Holders(i) == {x \in {"cwd", "openf"} \X FsProcs : i = IF x[1] = "cwd" THEN cwd[x[2]] ELSE openf[x[2]]}

(* What a commit makes durable is a file system: an inode in the tree is   *)
(* in use and has at least as many links as entries that name it, so that  *)
(* it is never freed under a name; the .. of a directory is where it is    *)
(* found; references are the open files and current directories.  No inode *)
(* is left with a link too many, or in use for nothing, but by one of two  *)
(* races (lost; LinksExact says what they break): it was created or linked *)
(* in a directory that has been removed since namex left it, or removed    *)
(* again while iput was on its way to drop a reference to its predecessor. *)
TreeSound ==
  NoTransaction => LET tree == Tree IN
    /\ \A i \in tree :
         /\ type[i] # "free" /\ nlink[i] >= Cardinality(Naming(tree, i))
         /\ \A j \in Under(i) : type[j] = "dir" => ents[j][".."] = i
    /\ \A i \in Inums :
         /\ iref[i] = Cardinality(Holders(i))
         /\ type[i] = "free" => nlink[i] = 0 /\ iref[i] = 0
         /\ type[i] # "free" /\ i \notin lost =>
              nlink[i] = Cardinality(Naming(tree, i)) /\ (nlink[i] > 0 \/ iref[i] > 0)

(* nlink is the "number of links to inode in file system", and "iput()     *)
(* frees if the reference and link counts have fallen to zero": an inode   *)
(* in use has as many links as entries of the tree name it, and one with   *)
(* no links is referenced.                                                 *)
LinksExact ==
  NoTransaction => \A i \in Inums : type[i] # "free" =>
    nlink[i] = Cardinality(Naming(Tree, i)) /\ (nlink[i] > 0 \/ iref[i] > 0)

(* A process is about to lock an inode that is free on disk, the panic of  *)
(* ilock ("ilock: no type").                                               *)
NoTypeAt(p) == \E i \in Locks(p) : Lockable(i) /\ NoType(i)

(* Every call on paths returns: the locks are taken from a directory to    *)
(* its entry, so no two calls wait for each other, and no call ends in the *)
(* panic of ilock, but in one case: its path leads out of a removed        *)
(* directory through "..", and the parent has been removed as well.        *)
FsCallsEnd == <>[](NoTransaction \/ \E p \in stray : NoTypeAt(p))
=============================================================================
