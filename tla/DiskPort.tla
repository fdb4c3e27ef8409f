------------------------------ MODULE DiskPort ------------------------------
(***************************************************************************)
(* The disk as the buffer cache uses it: a request made for a buffer is    *)
(* performed once, at any moment before it returns.                        *)
(***************************************************************************)
EXTENDS Integers

CONSTANTS NBUF, NumBlocks

Bufs == 1 .. NBUF
DiskBlocks == 1 .. NumBlocks      \* 0: a buffer never used
Values == 0 .. 1

VARIABLES port, op, bdata, platter  \* request of each buffer, its data; blocks on the disk

portVars == <<port, op, bdata, platter>>

PortInit ==
  /\ port = [b \in Bufs |-> "idle"] /\ op = [b \in Bufs |-> <<FALSE, 0>>]
  /\ bdata = [b \in Bufs |-> 0] /\ platter = [k \in DiskBlocks |-> 0]

(* The holder of the buffer stores into it; it makes a request.            *)
Fill(b, v) ==
  port[b] = "idle" /\ bdata' = [bdata EXCEPT ![b] = v] /\ UNCHANGED <<port, op, platter>>

Ask(b, write, blk, v) ==
  /\ port[b] = "idle" /\ port' = [port EXCEPT ![b] = "asked"]
  /\ op' = [op EXCEPT ![b] = <<write, blk>>] /\ bdata' = [bdata EXCEPT ![b] = v]
  /\ UNCHANGED platter

Serve(b) ==
  /\ port[b] = "asked" /\ port' = [port EXCEPT ![b] = "served"]
  /\ IF op[b][1] THEN platter' = [platter EXCEPT ![op[b][2]] = bdata[b]] /\ UNCHANGED bdata
     ELSE bdata' = [bdata EXCEPT ![b] = platter[op[b][2]]] /\ UNCHANGED platter
  /\ UNCHANGED op

Done(b) ==
  /\ port[b] = "served" /\ port' = [port EXCEPT ![b] = "idle"]
  /\ op' = [op EXCEPT ![b] = <<FALSE, 0>>] /\ UNCHANGED <<bdata, platter>>

PortNext ==
  \E b \in Bufs : \/ (\E v \in Values : Fill(b, v)) \/ Serve(b) \/ Done(b)
                  \/ \E w \in BOOLEAN, k \in DiskBlocks, v \in Values : Ask(b, w, k, v)

PortSpec == PortInit /\ [][PortNext]_portVars
=============================================================================
