------------------------------ MODULE UserCopy ------------------------------
(***************************************************************************)
(* Copies between the kernel and a user address space: walkaddr, copyout,  *)
(* copyin and copyinstr of kernel/vm.c, the guard page of uvmclear, and    *)
(* fetchstr of kernel/syscall.c.                                           *)
(*                                                                         *)
(* One step is one turn of the loop, a page.  An address counts bytes; the *)
(* byte at user address a is named a; it is 0 if a is in nuls.             *)
(***************************************************************************)
EXTENDS Integers, Sequences

CONSTANTS
  PAGE, MAXVA,     \* PGSIZE; the first address beyond those Sv39 has
  UINT64,          \* uint64 is 0 .. UINT64 - 1
  Lengths,         \* lengths asked for
  Starts,          \* user addresses given
  Nuls             \* the sets of addresses that hold '\0'

ASSUME CopyAssumption ==
  /\ PAGE \in Nat \ {0} /\ MAXVA % PAGE = 0 /\ MAXVA < UINT64 /\ Lengths \subseteq Nat
  /\ Starts \subseteq 0 .. UINT64 - 1 /\ UINT64 % PAGE = 0

VPages == 0 .. MAXVA \div PAGE - 1

VARIABLES
  cpt,        \* what each page is: "none", "guard" (no PTE_U) or "user"
  nuls,       \* addresses that hold '\0'
  req,        \* the call: which function, address, length
  va, togo,   \* srcva or dstva; len or max
  moved,      \* copyin, copyinstr: the bytes at dst.  copyout: user addresses written
  rv          \* "idle", "run", then 0 or -1

copyVars == <<cpt, nuls, req, va, togo, moved, rv>>

walkaddr(a) == a < MAXVA /\ cpt[a \div PAGE] = "user"
RoundDown(a) == a - (a % PAGE)
PageLeft == PAGE - (va % PAGE)
Turn(n) == [k \in 1 .. n |-> va + k - 1]

(* Mutant of InPage: max is not looked at.                                 *)
NoMax == PageLeft

(* The bytes of a turn: to the end of the page or of the request.          *)
InPage == IF PageLeft > togo THEN togo ELSE PageLeft

(* copyin and copyout: the same loop, towards the kernel or the user.      *)
CopyTurn(op) ==
  LET n == InPage IN
  /\ req.op = op /\ rv = "run" /\ togo > 0 /\ walkaddr(RoundDown(va))
  /\ moved' = moved \o Turn(n) /\ togo' = togo - n
  /\ va' = (RoundDown(va) + PAGE) % UINT64 /\ UNCHANGED <<cpt, nuls, req, rv>>

copyin == CopyTurn("in")
copyout == CopyTurn("out")

(* copyinstr: the inner loop stops at the '\0', which is copied too.       *)
copyinstr ==
  LET n == InPage
      zeros == {k \in 1 .. n : va + k - 1 \in nuls}
      stop == CHOOSE k \in zeros : \A l \in zeros : k <= l
  IN
  /\ req.op = "str" /\ rv = "run" /\ togo > 0 /\ walkaddr(RoundDown(va))
  /\ IF zeros # {}
       THEN moved' = moved \o Turn(stop) /\ rv' = "0" /\ togo' = togo - stop + 1
       ELSE moved' = moved \o Turn(n) /\ rv' = "run" /\ togo' = togo - n
  /\ va' = (RoundDown(va) + PAGE) % UINT64 /\ UNCHANGED <<cpt, nuls, req>>

(* The ends of the three loops.                                            *)
Faulty(op) == req.op = op /\ togo > 0 /\ ~walkaddr(RoundDown(va))
CopyReturns ==
  /\ rv = "run"
  /\ \/ (\E op \in {"in", "out", "str"} : Faulty(op)) /\ rv' = "-1"
     \/ togo = 0 /\ rv' = IF req.op = "str" THEN "-1" ELSE "0"
  /\ UNCHANGED <<cpt, nuls, req, va, togo, moved>>

CopyInit ==
  /\ cpt = [v \in VPages |-> "none"] /\ nuls = {} /\ req = [op |-> "none", va |-> 0, len |-> 0]
  /\ va = 0 /\ togo = 0 /\ moved = <<>> /\ rv = "idle"

(* A system call hands an address and a length to one of the functions.    *)
CallCopy ==
  /\ rv = "idle" /\ rv' = "run" /\ cpt' \in [VPages -> {"none", "guard", "user"}]
  /\ \E op \in {"in", "out", "str"}, a \in Starts, n \in Lengths :
       /\ req' = [op |-> op, va |-> a, len |-> n] /\ va' = a /\ togo' = n
       /\ nuls' \in IF op = "str" THEN Nuls ELSE {{}}
  /\ UNCHANGED moved

CopyNext == CallCopy \/ copyin \/ copyout \/ copyinstr \/ CopyReturns

CopySpec == CopyInit /\ [][CopyNext]_copyVars

----------------------------------------------------------------------------
(* The addresses the call is about; beyond UINT64 there are none.          *)
Wanted(n) == req.va .. req.va + n - 1
Mapped(a) == a < MAXVA /\ cpt[a \div PAGE] = "user"

(* The three functions touch only the bytes asked for, each once and in    *)
(* order, and only bytes of user pages; 0 means all of them, and -1 that   *)
(* one of them has no user page (or that no '\0' came before max).  This   *)
(* holds for addresses up to the last one, where dstva + len wraps.  A     *)
(* string that was fetched ends with the only '\0' of it, within max       *)
(* bytes, so that the strlen of fetchstr stays in the buffer.              *)
CopiesRight ==
  /\ moved = [k \in 1 .. Len(moved) |-> req.va + k - 1]
  /\ \A k \in 1 .. Len(moved) : Mapped(moved[k])
  /\ rv = "0" /\ req.op # "str" => Len(moved) = req.len
  /\ rv = "-1" /\ req.op # "str" => \E a \in Wanted(req.len) : ~Mapped(a)
  /\ req.op = "str" =>
       LET ends == {n \in 1 .. req.len :
                      /\ \A a \in Wanted(n) : Mapped(a)
                      /\ {k \in 1 .. n : req.va + k - 1 \in nuls} = {n}}
       IN /\ rv = "0" => ends = {Len(moved)}
          /\ rv = "-1" => ends = {}
=============================================================================
