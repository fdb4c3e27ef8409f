------------------------------- MODULE Fifo -------------------------------
(***************************************************************************)
(* What a pipe promises: bytes leave in the order in which they entered,   *)
(* at most Size of them wait, nothing enters once the reading end is       *)
(* closed, and nothing is left when both ends are.                         *)
(***************************************************************************)
EXTENDS Naturals, Sequences

CONSTANTS Size, Bytes

VARIABLES q, reading, writing

FifoInit == q = <<>> /\ ~reading /\ ~writing

Open == ~reading /\ ~writing /\ reading' /\ writing' /\ q' = <<>>

Put ==
  /\ reading /\ writing
  /\ \E n \in 1 .. Size - Len(q) : \E s \in [1 .. n -> Bytes] : q' = q \o s
  /\ UNCHANGED <<reading, writing>>

Get ==
  /\ reading
  /\ \E n \in 1 .. Len(q) : q' = SubSeq(q, n + 1, Len(q))
  /\ UNCHANGED <<reading, writing>>

CloseEnd ==
  /\ \/ reading /\ ~reading' /\ UNCHANGED writing
     \/ writing /\ ~writing' /\ UNCHANGED reading
  /\ q' = IF reading' \/ writing' THEN q ELSE <<>>

fifoVars == <<q, reading, writing>>

FifoNext == Open \/ Put \/ Get \/ CloseEnd

FifoSpec == FifoInit /\ [][FifoNext]_fifoVars
=============================================================================
