------------------------------- MODULE Memory -------------------------------
(***************************************************************************)
(* Physical pages and the address spaces of processes: kernel/kalloc.c,    *)
(* kernel/vm.c, and the parts of fork, exec, growproc and freeproc (in     *)
(* kernel/proc.c and kernel/exec.c) that take and give back memory.        *)
(*                                                                         *)
(* Only the free list is shared, so a step is one kalloc with the use that *)
(* is made of the page, or the giving back of many; processes interleave   *)
(* between the steps, and whoever comes last finds no page.  An address    *)
(* space has eight pages, two entries in a page table, and the three       *)
(* levels of Sv39.                                                         *)
(***************************************************************************)
EXTENDS Integers, Sequences, FiniteSets

CONSTANTS
  Slots,        \* the process table; 1 is init, which runs at the start
  PageCounts,   \* numbers of physical pages to try
  PGSIZE,       \* bytes of a page
  SegSizes,     \* bytes of the programs exec loads
  Grows,        \* arguments of sbrk, and
  Shrinks,      \* its negative arguments, negated
  UINT32,       \* uint is 0 .. UINT32 - 1
  MaxMemCalls   \* bound on the calls made

ASSUME MemAssumption ==
  /\ PGSIZE \in Nat \ {0} /\ UINT32 > 4 * PGSIZE /\ MaxMemCalls \in Nat
  /\ \A n \in PageCounts : n \in Nat /\ n >= 7
  /\ \A n \in SegSizes : n \in 1 .. 2 * PGSIZE

TRAMPOLINE == 7              \* the top two pages
TRAPFRAME == 6
MaxUser == 4                 \* bound: pages of user memory
Vas == 0 .. 7
KTEXT == -1                  \* the page of the trampoline, in the kernel's text
ZERO == 0                    \* contents of a page: zeros, a program, what p stored
PROG == 10
JUNK == 11

VARIABLES
  freepg,                  \* kmem.freelist
  contents,                \* of each physical page
  pgt, tf, psz, mst,       \* of each slot: page table, trapframe, size, state
  mjob, build,             \* the call a process is in, the page table it works on
  img, wrong, mcalls       \* what user memory should hold; a panic; calls made

memVars == <<freepg, contents, pgt, tf, psz, mst, mjob, build, img, wrong, mcalls>>

NoPt == [root |-> 0, mid |-> [x \in 0 .. 1 |-> 0], low |-> [x \in 0 .. 3 |-> 0],
         leaf |-> [v \in Vas |-> 0]]
NoMemJob == [op |-> "none"]
PGROUNDUP(sz) == (sz + PGSIZE - 1) \div PGSIZE      \* in pages
Idle(p) == mst[p] = "running" /\ mjob[p] = NoMemJob /\ mcalls < MaxMemCalls

(* uvmunmap of the pages vas: the pages it frees, the table it leaves; a   *)
(* page that is not mapped is a panic.                                     *)
Pages(pt, vas) == {pt.leaf[v] : v \in vas} \ {0}
uvmunmap(pt, vas) == [pt EXCEPT !.leaf = [v \in Vas |-> IF v \in vas THEN 0 ELSE @[v]]]
NotMapped(pt, vas) == \E v \in vas : pt.leaf[v] = 0

(* Mutant of Tables: the lowest level is forgotten.                        *)
NotLowest(pt) == ({pt.root} \cup {pt.mid[x] : x \in 0 .. 1}) \ {0}

(* freewalk: the pages of the table itself; a leaf that is left, a panic.  *)
Tables(pt) == ({pt.root} \cup {pt.mid[x] : x \in 0 .. 1} \cup {pt.low[x] : x \in 0 .. 3}) \ {0}
LeafLeft(pt) == \E v \in Vas : pt.leaf[v] # 0

(* Mutant of Top: the trapframe stays mapped.                              *)
TrampolineOnly == {TRAMPOLINE}

(* proc_freepagetable(pt, sz), with n the pages of sz: what it frees, and  *)
(* whether it panics.                                                      *)
Top == {TRAMPOLINE, TRAPFRAME}
User(n) == 0 .. n - 1
proc_freepagetable(pt, n) ==
  [pages |-> Pages(pt, User(n)) \cup Tables(pt),
   panics |-> NotMapped(pt, User(n) \cup Top) \/ LeafLeft(uvmunmap(pt, User(n) \cup Top))]

(* kfree fills the pages with junk.                                        *)
kfree(pages) ==
  /\ freepg' = freepg \cup pages
  /\ contents' = [x \in DOMAIN contents |-> IF x \in pages THEN JUNK ELSE contents[x]]
Panics(c) == wrong' = (wrong \/ c)

----------------------------------------------------------------------------
(* A call begins: the virtual pages to map, todo, and base, the pages that *)
(* were there before the uvmalloc or uvmcopy at work.                      *)
Run(a, b) == [k \in 1 .. b - a |-> a + k - 1]
StartJob(p, op, np, todo, base, size) ==
  /\ mjob' = [mjob EXCEPT ![p] = [op |-> op, np |-> np, todo |-> todo, base |-> base,
                                  seg |-> 0, size |-> size, page |-> 0]]
  /\ mcalls' = mcalls + 1

fork(p) ==
  LET unused == {s \in Slots : mst[s] = "unused"}
      np == CHOOSE s \in unused : \A t \in unused : s <= t
  IN
  /\ Idle(p) /\ unused # {}
  /\ StartJob(p, "fork", np, <<TRAMPOLINE, TRAPFRAME>> \o Run(0, PGROUNDUP(psz[p])), 0, psz[p])
  /\ mst' = [mst EXCEPT ![np] = "used"] /\ build' = [build EXCEPT ![p] = NoPt]
  /\ UNCHANGED <<freepg, contents, pgt, tf, psz, img, wrong>>

exec(p) ==
  \E seg \in SegSizes :
    LET n == PGROUNDUP(seg) IN
    /\ Idle(p)
    /\ mjob' = [mjob EXCEPT ![p] =
         [op |-> "exec", np |-> p, todo |-> <<TRAMPOLINE, TRAPFRAME>> \o Run(0, n + 2),
          base |-> 0, seg |-> n, size |-> (n + 2) * PGSIZE, page |-> 0]]
    /\ mcalls' = mcalls + 1 /\ build' = [build EXCEPT ![p] = NoPt]
    /\ UNCHANGED <<freepg, contents, pgt, tf, psz, mst, img, wrong>>

SizeLeft(new, old) == IF new >= old THEN old ELSE new

(* growproc computes in 32 bits: a shrink below zero wraps around, and     *)
(* uvmdealloc leaves the size alone.                                       *)
growproc(p) ==
  \E n \in Grows \cup {-k : k \in Shrinks} :
    LET new == (psz[p] + n) % UINT32
        from == PGROUNDUP(psz[p])
        gone == IF new >= psz[p] THEN {} ELSE PGROUNDUP(new) .. from - 1
    IN
    /\ Idle(p)
    /\ IF n > 0
         THEN /\ PGROUNDUP(new) <= MaxUser
              /\ StartJob(p, "sbrk", p, Run(from, PGROUNDUP(new)), from, new)
              /\ build' = [build EXCEPT ![p] = pgt[p]]
              /\ UNCHANGED <<freepg, contents, pgt, psz, img, wrong>>
         ELSE /\ kfree(Pages(pgt[p], gone)) /\ Panics(NotMapped(pgt[p], gone))
              /\ pgt' = [pgt EXCEPT ![p] = uvmunmap(@, gone)]
              /\ psz' = [psz EXCEPT ![p] = SizeLeft(new, @)]
              /\ img' = [img EXCEPT ![p] = SubSeq(@, 1, Len(@) - Cardinality(gone))]
              /\ mcalls' = mcalls + 1 /\ UNCHANGED <<mjob, build>>
    /\ UNCHANGED <<tf, mst>>

----------------------------------------------------------------------------
(* What the call of p needs next: a trapframe (allocproc), a root          *)
(* (uvmcreate), the page itself, or a page-table page (walk).              *)
Needs(p) ==
  LET j == mjob[p]
      va == Head(j.todo)
      pt == build[p]
  IN CASE j.todo = <<>> -> "done"
       [] j.op = "fork" /\ tf[j.np] = 0 -> "tf"
       [] pt.root = 0 -> "root"
       [] va < TRAPFRAME /\ j.page = 0 -> "page"
       [] pt.mid[va \div 4] = 0 -> "mid"
       [] pt.low[va \div 2] = 0 -> "low"
       [] OTHER -> "leaf"

kalloc(p) ==
  LET j == mjob[p]
      va == Head(j.todo)
      pg == CHOOSE x \in freepg : \A y \in freepg : x <= y
      need == Needs(p)
  IN
  /\ j # NoMemJob /\ need \notin {"done", "leaf"} /\ freepg # {}
  /\ freepg' = freepg \ {pg}
  /\ tf' = IF need = "tf" THEN [tf EXCEPT ![j.np] = pg] ELSE tf
  /\ build' = [build EXCEPT ![p] =
       CASE need = "root" -> [@ EXCEPT !.root = pg]
         [] need = "mid" -> [@ EXCEPT !.mid[va \div 4] = pg]
         [] need = "low" -> [@ EXCEPT !.low[va \div 2] = pg]
         [] OTHER -> @]
  /\ mjob' = IF need = "page" THEN [mjob EXCEPT ![p].page = pg] ELSE mjob
  /\ contents' = [contents EXCEPT ![pg] =
       CASE need = "page" /\ j.op = "fork" -> contents[pgt[p].leaf[va]]
         [] need = "page" /\ va < j.seg -> PROG
         [] OTHER -> ZERO]
  /\ UNCHANGED <<pgt, psz, mst, img, wrong, mcalls>>

(* mappages sets the leaf; exec begins a second uvmalloc for the stack.    *)
mappages(p) ==
  LET j == mjob[p]
      va == Head(j.todo)
      pa == CASE va = TRAMPOLINE -> KTEXT [] va = TRAPFRAME -> tf[j.np] [] OTHER -> j.page
  IN
  /\ j # NoMemJob /\ Needs(p) = "leaf"
  /\ Panics(build[p].leaf[va] # 0)
  /\ build' = [build EXCEPT ![p].leaf[va] = pa]
  /\ mjob' = [mjob EXCEPT ![p].todo = Tail(@), ![p].page = 0,
                          ![p].base = IF j.op = "exec" /\ va = j.seg - 1 THEN j.seg ELSE @]
  /\ UNCHANGED <<freepg, contents, pgt, tf, psz, mst, img, mcalls>>

----------------------------------------------------------------------------
(* kalloc finds no page (or exec finds a bad file or too many arguments):  *)
(* the call undoes what it did.  Of the pages from base on uvmalloc, or    *)
(* uvmcopy, unmaps those it has mapped; the rest is for the caller.        *)
EndJob(p) == mjob' = [mjob EXCEPT ![p] = NoMemJob] /\ build' = [build EXCEPT ![p] = NoPt]

(* Mutant of uvmdealloc: the last page stays.                              *)
OneKept(p) ==
  LET j == mjob[p] IN
  j.base .. (IF j.todo = <<>> THEN 0 ELSE IF Head(j.todo) \in Top THEN 0 ELSE Head(j.todo)) - 2

uvmdealloc(p) ==
  LET j == mjob[p]
      a == IF j.todo = <<>> THEN j.size \div PGSIZE
           ELSE IF Head(j.todo) \in Top THEN 0 ELSE Head(j.todo)
  IN j.base .. a - 1

Undo(p, gone) ==
  LET j == mjob[p]
      pt == uvmunmap(build[p], gone)
      mapped == Pages(build[p], gone) \cup ({j.page} \ {0})
      \* proc_pagetable failed: it unmapped what it had, and freewalk took the tables
      early == {v \in Top : pt.leaf[v] = 0} # {}
      whole == IF early THEN [pages |-> Tables(pt), panics |-> \E v \in User(6) : pt.leaf[v] # 0]
               ELSE proc_freepagetable(pt, IF j.op = "exec" THEN j.base ELSE 0)
  IN
  /\ CASE j.op = "sbrk" ->
            /\ kfree(mapped) /\ Panics(NotMapped(build[p], gone))
            /\ pgt' = [pgt EXCEPT ![p] = pt] /\ UNCHANGED <<tf, mst>>
       [] j.op = "fork" ->
            /\ kfree(mapped \cup whole.pages \cup ({tf[j.np]} \ {0}))
            /\ Panics(NotMapped(build[p], gone) \/ whole.panics)
            /\ tf' = [tf EXCEPT ![j.np] = 0] /\ mst' = [mst EXCEPT ![j.np] = "unused"]
            /\ UNCHANGED pgt
       [] j.op = "exec" ->
            /\ kfree(mapped \cup whole.pages)
            /\ Panics(NotMapped(build[p], gone) \/ whole.panics) /\ UNCHANGED <<pgt, tf, mst>>
  /\ EndJob(p) /\ UNCHANGED <<psz, img, mcalls>>

NoMemory(p) ==
  /\ mjob[p] # NoMemJob /\ Needs(p) \notin {"done", "leaf"} /\ freepg = {}
  /\ Undo(p, uvmdealloc(p))

(* Between the parts of exec: before the segment, after it, and at the end *)
(* with the stack, when sz counts everything that is mapped.               *)
BadExec(p) ==
  LET j == mjob[p]
      n == IF j.todo = <<>> THEN j.seg + 2 ELSE Head(j.todo)
      whole == proc_freepagetable(build[p], n)
  IN
  /\ j.op = "exec" /\ j.page = 0 /\ n \in {0, j.seg, j.seg + 2}
  /\ kfree(whole.pages) /\ Panics(whole.panics)
  /\ EndJob(p) /\ UNCHANGED <<pgt, tf, mst, psz, img, mcalls>>

(* The call has all its pages.                                             *)
Commit(p) ==
  LET j == mjob[p]
      n == PGROUNDUP(j.size)
      old == proc_freepagetable(pgt[p], PGROUNDUP(psz[p]))
  IN
  /\ j # NoMemJob /\ Needs(p) = "done"
  /\ pgt' = [pgt EXCEPT ![j.np] = build[p]] /\ psz' = [psz EXCEPT ![j.np] = j.size]
  /\ img' = [img EXCEPT ![j.np] =
       CASE j.op = "fork" -> img[p]
         [] j.op = "exec" -> [k \in 1 .. n |-> IF k <= j.seg THEN PROG ELSE ZERO]
         [] j.op = "sbrk" -> img[p] \o [k \in 1 .. n - Len(img[p]) |-> ZERO]]
  /\ mst' = [mst EXCEPT ![j.np] = "running"]
  /\ IF j.op = "exec" THEN kfree(old.pages) /\ Panics(old.panics)
     ELSE UNCHANGED <<freepg, contents, wrong>>
  /\ EndJob(p) /\ UNCHANGED <<tf, mcalls>>

(* exit leaves a zombie; its parent frees it (freeproc).                   *)
exit(p) ==
  /\ Idle(p) /\ p # 1 /\ mst' = [mst EXCEPT ![p] = "zombie"]
  /\ UNCHANGED <<freepg, contents, pgt, tf, psz, mjob, build, img, wrong, mcalls>>

freeproc(p) ==
  LET f == proc_freepagetable(pgt[p], PGROUNDUP(psz[p])) IN
  /\ mst[p] = "zombie"
  /\ kfree(f.pages \cup {tf[p]}) /\ Panics(f.panics)
  /\ pgt' = [pgt EXCEPT ![p] = NoPt] /\ tf' = [tf EXCEPT ![p] = 0]
  /\ psz' = [psz EXCEPT ![p] = 0] /\ mst' = [mst EXCEPT ![p] = "unused"]
  /\ img' = [img EXCEPT ![p] = <<>>]
  /\ UNCHANGED <<mjob, build, mcalls>>

(* A process stores into its last page.                                    *)
StorePage(p) ==
  LET n == Len(img[p]) IN
  /\ Idle(p) /\ n > 0 /\ img[p][n] # p
  /\ contents' = [contents EXCEPT ![pgt[p].leaf[n - 1]] = p]
  /\ img' = [img EXCEPT ![p][n] = p]
  /\ UNCHANGED <<freepg, pgt, tf, psz, mst, mjob, build, wrong, mcalls>>

----------------------------------------------------------------------------
(* userinit: the first process, with one page.                             *)
InitPt == [root |-> 2, mid |-> [x \in 0 .. 1 |-> 3 + x],
           low |-> [x \in 0 .. 3 |-> CASE x = 0 -> 5 [] x = 3 -> 6 [] OTHER -> 0],
           leaf |-> [v \in Vas |-> CASE v = 0 -> 7 [] v = TRAPFRAME -> 1
                                     [] v = TRAMPOLINE -> KTEXT [] OTHER -> 0]]

MemBoot(n) ==
  /\ freepg = 8 .. n /\ contents = [x \in 1 .. n |-> IF x = 7 THEN PROG ELSE ZERO]
  /\ pgt = [s \in Slots |-> IF s = 1 THEN InitPt ELSE NoPt]
  /\ tf = [s \in Slots |-> IF s = 1 THEN 1 ELSE 0]
  /\ psz = [s \in Slots |-> IF s = 1 THEN PGSIZE ELSE 0]
  /\ mst = [s \in Slots |-> IF s = 1 THEN "running" ELSE "unused"]
  /\ mjob = [s \in Slots |-> NoMemJob] /\ build = [s \in Slots |-> NoPt]
  /\ img = [s \in Slots |-> IF s = 1 THEN <<PROG>> ELSE <<>>]
  /\ wrong = FALSE /\ mcalls = 0

MemInit == \E n \in PageCounts : MemBoot(n)

MemNext ==
  \E p \in Slots :
    \/ fork(p) \/ exec(p) \/ growproc(p) \/ kalloc(p) \/ mappages(p) \/ NoMemory(p)
    \/ BadExec(p) \/ Commit(p) \/ exit(p) \/ freeproc(p) \/ StorePage(p)

MemSpec == MemInit /\ [][MemNext]_memVars

----------------------------------------------------------------------------
MemTypeOK ==
  /\ freepg \subseteq DOMAIN contents /\ mst \in [Slots -> {"unused", "used", "running", "zombie"}]
  /\ \A s \in Slots : psz[s] \in 0 .. MaxUser * PGSIZE /\ tf[s] \in {0} \cup DOMAIN contents

(* Every physical page is on the free list or has exactly one owner, at    *)
(* every moment and after every failure: none leaks, none is shared.       *)
PtOwns(pt) ==
  LET mids == {x \in 0 .. 1 : pt.mid[x] # 0}
      lows == {x \in 0 .. 3 : pt.low[x] # 0}
      leaves == {v \in User(6) : pt.leaf[v] # 0}
  IN {<<"root", pt.root, 0>>} \cup {<<"mid", pt.mid[x], x>> : x \in mids}
     \cup {<<"low", pt.low[x], x>> : x \in lows} \cup {<<"leaf", pt.leaf[v], v>> : v \in leaves}

PagesExact ==
  LET own(s) == IF mjob[s].op = "sbrk" THEN {} ELSE PtOwns(pgt[s])
      hand(s) == IF mjob[s] = NoMemJob THEN 0 ELSE mjob[s].page
      owners == UNION {{<<s, "own", x>> : x \in own(s) \cup {<<"tf", tf[s], 0>>}}
                       \cup {<<s, "new", x>> : x \in PtOwns(build[s]) \cup {<<"hand", hand(s), 0>>}}
                       : s \in Slots}
      used == {o \in owners : o[3][2] # 0}
  IN /\ {o[3][2] : o \in used} = DOMAIN contents \ freepg
     /\ Cardinality(used) = Cardinality(DOMAIN contents \ freepg)

(* User memory is what the process made it: its own stores, the parent's   *)
(* memory after fork, the program after exec, zeros after sbrk; below the  *)
(* size every page is mapped and nothing above.  A call that fails leaves  *)
(* it as it was.                                                           *)
ImageRight ==
  \A s \in Slots :
    mst[s] \in {"running", "zombie"} =>
      /\ Len(img[s]) = PGROUNDUP(psz[s])
      /\ \A v \in User(6) : IF v < Len(img[s]) THEN contents[pgt[s].leaf[v]] = img[s][v + 1]
                            ELSE pgt[s].leaf[v] = 0

(* None of the panics of uvmunmap, mappages and freewalk is reached.       *)
NoVmPanic == ~wrong
=============================================================================
