----------------------------- MODULE LogProofs -----------------------------
(***************************************************************************)
(* The log, for every set of blocks and processes, every size of log and   *)
(* any number of crashes: its types, what commit() may rely on, the space  *)
(* that begin_op reserves, and that it implements an atomic disk.          *)
(***************************************************************************)
EXTENDS Log, FiniteSetTheorems, TLAPS

(* The blocks of a header are distinct and fit in the log.                 *)
IsHeader(h) ==
  /\ Len(h) <= LogBlocks - 1
  /\ \A i, j \in 1 .. Len(h) : h[i] = h[j] => i = j

(* The first n log blocks are copies of the cached, or of the home, blocks.*)
CopiedFrom(f, n) == \A i \in 1 .. Len(lh) : i <= n => logged[i] = f[lh[i]]

(* How far a commit or a recovery is, at each of its steps.                *)
StepInv ==
  /\ IsHeader(lh) /\ IsHeader(hdr)
  /\ step \in {"none", "log", "head", "done"} => hdr = <<>>
  /\ step \in {"install", "erase", "replay", "clear"} => hdr = lh
  /\ step = "log" => tail \in 1 .. Len(lh) /\ CopiedFrom(cache, tail - 1)
  /\ step \in {"head", "install", "erase"} => CopiedFrom(cache, Len(lh))
  /\ step = "head" => tail = 1
  /\ step \in {"install", "replay"} => CopiedFrom(disk, tail - 1)
  /\ step \in {"erase", "clear"} => CopiedFrom(disk, Len(lh))
  /\ step = "done" => lh = <<>>
  /\ Booting => cache = disk
  /\ ~Booting /\ ~panicked => \A b \in Blocks : b \notin Logged => cache[b] = disk[b]

(* Who is active.                                                          *)
OpInv ==
  /\ ~panicked => outstanding = Cardinality(Active)
  /\ committing => Active = {} /\ outstanding = 0
  /\ step \in {"log", "head", "install", "erase", "done"} <=> committing
  /\ Booting => Active = {} /\ ~panicked

LogInv == LogTypeOK /\ StepInv /\ OpInv

----------------------------------------------------------------------------
(* Types.                                                                  *)

LEMMA LogStepCases ==
  ASSUME [Next]_vars
  PROVE  \/ \E p \in Ops : Call(p) \/ begin_op(p) \/ end_op(p) \/ EndCommit(p)
         \/ \E p \in Ops, b \in Blocks : log_write(p, b)
         \/ write_log \/ write_head \/ install_trans \/ erase_log
         \/ read_head \/ replay \/ clear_log \/ Crash \/ UNCHANGED vars
  BY Zenon DEF Next, Op, commit, recover_from_log

LEMMA HeaderSlots ==
  ASSUME BlocksOK, StepInv
  PROVE  /\ Len(lh) \in Nat /\ Len(hdr) \in Nat
         /\ \A i \in 1 .. Len(lh) : lh[i] \in Blocks /\ i \in LogSlots
         /\ \A i \in 1 .. Len(hdr) : hdr[i] \in Blocks /\ i \in LogSlots
         /\ (lh = <<>> <=> Len(lh) = 0) /\ (hdr = <<>> <=> Len(hdr) = 0)
<1>1. lh \in Seq(Blocks) /\ hdr \in Seq(Blocks)
  BY Zenon DEF BlocksOK
<1>2. Len(lh) <= LogBlocks - 1 /\ Len(hdr) <= LogBlocks - 1
  BY Zenon DEF StepInv, IsHeader
<1>. QED
  BY <1>1, <1>2, LogAssumption DEF LogSlots

LEMMA BlocksStep ==
  ASSUME BlocksOK, StepInv, writes \in Nat, tail \in Nat \ {0}, [Next]_vars
  PROVE  BlocksOK'
<1> USE LogAssumption DEF ondisk
<1>1. CASE UNCHANGED <<disk, logged, hdr, cache, lh>>
  BY Zenon, <1>1 DEF BlocksOK
<1>2. ASSUME NEW p \in Ops, NEW b \in Blocks, log_write(p, b) PROVE BlocksOK'
  <2>1. lh' = lh \/ lh' = Append(lh, b)
    BY Zenon, <1>2, Zenon DEF log_write
  <2>2. lh' \in Seq(Blocks)
    <3>1. lh \in Seq(Blocks)
      BY Zenon DEF BlocksOK
    <3>2. Append(lh, b) \in Seq(Blocks)
      BY <3>1
    <3>. QED
      BY Zenon, <2>1, <3>1, <3>2, Zenon
  <2>3. writes + 1 \in Nat /\ cache' = [cache EXCEPT ![b] = writes + 1]
    BY <1>2 DEF log_write
  <2>4. cache' \in [Blocks -> Nat]
    BY Zenon, <2>3 DEF BlocksOK
  <2>. QED
    BY Zenon, <1>2, <2>2, <2>4 DEF log_write, BlocksOK
<1>3. CASE write_log
  <2>1. cache[lh[tail]] \in Nat
    BY ZenonT(40), <1>3, HeaderSlots DEF write_log, StepInv, BlocksOK
  <2>. QED
    BY Zenon, <1>3, <2>1 DEF write_log, BlocksOK
<1>4. CASE write_head
  BY Zenon, <1>4 DEF write_head, BlocksOK
<1>5. CASE install_trans \/ replay
  <2>1. CASE tail <= Len(lh)
    <3>1. lh[tail] \in Blocks /\ tail \in LogSlots
      BY <2>1, HeaderSlots
    <3>. QED
      BY Zenon, <1>5, <2>1, <3>1 DEF install_trans, replay, Install, BlocksOK
  <2>2. CASE ~(tail <= Len(lh))
    BY Zenon, <1>5, <2>2 DEF install_trans, replay, Install, BlocksOK
  <2>. QED
    BY Zenon, <2>1, <2>2
<1>6. CASE erase_log \/ clear_log
  <2>1. <<>> \in Seq(Blocks)
    OBVIOUS
  <2>. QED
    BY Zenon, <1>6, <2>1 DEF erase_log, clear_log, Erase, BlocksOK
<1>7. CASE Crash
  <2>1. <<>> \in Seq(Blocks)
    OBVIOUS
  <2>. QED
    BY Zenon, <1>7, <2>1 DEF Crash, BlocksOK
<1>8. CASE read_head
  BY Zenon, <1>8 DEF read_head, BlocksOK
<1>. QED
  BY Zenon, LogStepCases, <1>1, <1>2, <1>3, <1>4, <1>5, <1>6, <1>7, <1>8
  DEF Call, begin_op, end_op, EndCommit, vars

LEMMA OpsStep ==
  ASSUME OpsOK, [Next]_vars
  PROVE  OpsOK'
<1> USE DEF Goto, Wake
<1>1. CASE UNCHANGED <<pc, wrote>>
  BY Zenon, <1>1 DEF OpsOK
<1>2. ASSUME NEW p \in Ops, Call(p) \/ begin_op(p) PROVE OpsOK'
  BY Zenon, <1>2 DEF Call, begin_op, OpsOK
<1>3. ASSUME NEW p \in Ops, NEW b \in Blocks, log_write(p, b) PROVE OpsOK'
  BY <1>3 DEF log_write, OpsOK
<1>4. ASSUME NEW p \in Ops, end_op(p) PROVE OpsOK'
  BY Zenon, <1>4 DEF end_op, OpsOK
<1>5. ASSUME NEW p \in Ops, EndCommit(p) PROVE OpsOK'
  BY Zenon, <1>5 DEF EndCommit, OpsOK
<1>6. CASE Crash
  BY Zenon, <1>6 DEF Crash, OpsOK
<1>. QED
  BY ZenonT(40), LogStepCases, <1>1, <1>2, <1>3, <1>4, <1>5, <1>6
  DEF write_log, write_head, install_trans, erase_log, read_head, replay,
      clear_log, Install, Erase, vars

LEMMA LogTypeStep ==
  ASSUME LogTypeOK, StepInv, [Next]_vars
  PROVE  LogTypeOK'
<1>1. BlocksOK' /\ OpsOK'
  BY Zenon, BlocksStep, OpsStep DEF LogTypeOK
<1> DEFINE Rest == /\ outstanding \in Int /\ committing \in BOOLEAN
                   /\ step \in Steps /\ tail \in Nat \ {0}
                   /\ writes \in Nat /\ crashes \in Nat /\ panicked \in BOOLEAN
<1> SUFFICES Rest'
  BY Zenon, <1>1 DEF LogTypeOK
<1>2. Rest
  BY Zenon DEF LogTypeOK
<1>3. ASSUME NEW p \in Ops, Call(p) \/ begin_op(p) PROVE Rest'
  BY <1>2, <1>3 DEF Call, begin_op
<1>4. ASSUME NEW p \in Ops, end_op(p) PROVE Rest'
  <2>1. outstanding - 1 \in Int
    BY <1>2
  <2>2. /\ outstanding' = outstanding - 1
        /\ panicked' = TRUE \/ panicked' = panicked
        /\ committing' = TRUE \/ committing' = committing
        /\ step' \in {step, "log", "done"} /\ tail' \in {tail, 1}
        /\ UNCHANGED <<writes, crashes>>
    BY Zenon, <1>4 DEF end_op
  <2>3. panicked' \in BOOLEAN /\ committing' \in BOOLEAN
    BY Zenon, <1>2, <2>2, Zenon
  <2>. QED
    BY <1>2, <2>1, <2>2, <2>3 DEF Steps
<1>5. ASSUME NEW p \in Ops, EndCommit(p) PROVE Rest'
  BY Zenon, <1>2, <1>5 DEF EndCommit, Steps
<1>6. ASSUME NEW p \in Ops, NEW b \in Blocks, log_write(p, b) PROVE Rest'
  <2>1. panicked' = TRUE \/ panicked' = panicked
    BY Zenon, <1>6, Zenon DEF log_write
  <2>2. writes' = writes + 1
       /\ UNCHANGED <<outstanding, committing, step, tail, crashes>>
    BY Zenon, <1>6 DEF log_write
  <2>3. panicked' \in BOOLEAN
    BY Zenon, <1>2, <2>1, Zenon
  <2>. QED
    BY <1>2, <2>2, <2>3
<1>7. CASE write_log
  BY <1>2, <1>7 DEF write_log, Steps
<1>8. CASE write_head
  BY Zenon, <1>2, <1>8 DEF write_head, Steps
<1>9. CASE install_trans \/ replay
  BY SMTT(30), <1>2, <1>9 DEF install_trans, replay, Install, Steps
<1>10. CASE erase_log \/ clear_log
  BY Zenon, <1>2, <1>10 DEF erase_log, clear_log, Erase, Steps
<1>11. CASE read_head
  BY <1>2, <1>11 DEF read_head, Steps
<1>13. CASE Crash
  <2>1. /\ crashes' = crashes + 1 /\ outstanding' = 0 /\ step' = "boot"
        /\ tail' = 1 /\ writes' = writes
    BY Zenon, <1>13 DEF Crash
  <2>2. committing' \in BOOLEAN /\ panicked' \in BOOLEAN
    BY Zenon, <1>13 DEF Crash
  <2>. QED
    BY <1>2, <2>1, <2>2 DEF Steps
<1>12. CASE UNCHANGED vars
  BY Zenon, <1>2, <1>12 DEF vars
<1> HIDE DEF Rest
<1>. QED
  BY ZenonT(40), LogStepCases, <1>3, <1>4, <1>5, <1>6, <1>7, <1>8, <1>9, <1>10, <1>11, <1>12,
     <1>13

----------------------------------------------------------------------------
(* The steps of commit and recovery.                                       *)

LEMMA InsideIsNone ==
  ASSUME LogTypeOK, OpInv, NEW p \in Ops, pc[p] = "in"
  PROVE  step = "none" /\ ~committing /\ ~Booting
<1>1. p \in Active
  BY Zenon DEF Active
<1>2. ~committing /\ ~Booting
  BY Zenon, <1>1 DEF OpInv
<1>. QED
  BY Zenon, <1>2 DEF OpInv, LogTypeOK, Steps, Booting

LEMMA LogWriteStep ==
  ASSUME LogTypeOK, StepInv, OpInv, NEW p \in Ops, NEW b \in Blocks,
         log_write(p, b)
  PROVE  StepInv'
<1>1. step = "none" /\ ~Booting
  BY Zenon, InsideIsNone DEF log_write
<1>2. step' = "none" /\ hdr' = hdr /\ disk' = disk /\ UNCHANGED tail
  BY Zenon, <1>1 DEF log_write, ondisk
<1>3. hdr = <<>> /\ ~panicked
  BY Zenon, <1>1 DEF StepInv, log_write, Running
<1>4. lh \in Seq(Blocks) /\ Len(lh) \in Nat
  BY DEF LogTypeOK, BlocksOK
<1>5. IsHeader(lh)' /\ (~panicked' => Logged' = Logged \cup {b})
  <2>1. CASE lh' = lh /\ (~panicked' => b \in Logged)
    BY <2>1 DEF StepInv, IsHeader, Logged
  <2>2. CASE lh' = Append(lh, b) /\ b \notin Logged /\ Len(lh) < LogBlocks - 1
    <3>1. /\ Len(lh') = Len(lh) + 1 /\ lh'[Len(lh) + 1] = b
          /\ \A i \in 1 .. Len(lh) : lh'[i] = lh[i]
      BY <2>2, <1>4
    <3>2. \A i \in 1 .. Len(lh) : lh[i] # b
      BY Zenon, <2>2 DEF Logged
    <3>3. \A i, j \in 1 .. Len(lh') : lh'[i] = lh'[j] => i = j
      <4>. SUFFICES ASSUME NEW i \in 1 .. Len(lh'), NEW j \in 1 .. Len(lh'),
                           lh'[i] = lh'[j]
                    PROVE  i = j
        OBVIOUS
      <4>1. i \in 1 .. Len(lh) \/ i = Len(lh) + 1
        BY SMTT(30), <3>1, <1>4
      <4>2. j \in 1 .. Len(lh) \/ j = Len(lh) + 1
        BY <3>1, <1>4
      <4>. QED
        BY <3>1, <3>2, <4>1, <4>2 DEF StepInv, IsHeader
    <3>4. Len(lh') <= LogBlocks - 1
      BY SMTT(30), <3>1, <2>2, <1>4, LogAssumption
    <3>5. Logged' = Logged \cup {b}
      BY <3>1, <1>4 DEF Logged
    <3>. QED
      BY Zenon, <3>3, <3>4, <3>5 DEF IsHeader
  <2>. QED
    BY <2>1, <2>2, <1>4, LogAssumption DEF log_write
<1>6. \A c \in Blocks : c # b => cache'[c] = cache[c]
  BY Zenon DEF log_write, LogTypeOK, BlocksOK
<1>7. ~panicked' => \A c \in Blocks : c \notin Logged' => cache'[c] = disk'[c]
  BY Zenon, <1>1, <1>2, <1>3, <1>5, <1>6 DEF StepInv
<1>8. IsHeader(hdr)'
  BY <1>2 DEF StepInv, IsHeader
<1>. QED
  BY Zenon, <1>2, <1>3, <1>5, <1>7, <1>8 DEF StepInv, Booting

LEMMA InstallStep ==
  ASSUME LogTypeOK, StepInv, install_trans \/ replay
  PROVE  StepInv'
<1>0. /\ UNCHANGED <<hdr, logged, lh, panicked>>
      /\ hdr = lh /\ CopiedFrom(disk, tail - 1) /\ tail \in Nat \ {0}
      /\ step = "install" => CopiedFrom(cache, Len(lh))
      /\ step \in {"install", "replay"}
      /\ step = "replay" => cache = disk
      /\ step = "install" /\ ~panicked
           => \A b \in Blocks : b \notin Logged => cache[b] = disk[b]
  BY Zenon DEF install_trans, replay, Install, StepInv, LogTypeOK, Booting
<1>1. IsHeader(lh)' /\ IsHeader(hdr)' /\ Logged' = Logged
  BY <1>0 DEF StepInv, IsHeader, Logged
<1>2. CASE tail <= Len(lh)
  <2>1. /\ lh[tail] \in Blocks /\ tail \in LogSlots /\ tail \in 1 .. Len(lh)
        /\ Len(lh) \in Nat
    BY <1>0, <1>2, HeaderSlots DEF LogTypeOK
  <2>2. /\ disk' = [disk EXCEPT ![lh[tail]] = logged[tail]]
        /\ cache' = [cache EXCEPT ![lh[tail]] = logged[tail]]
        /\ tail' = tail + 1 /\ step' = step
    BY Zenon, <1>2 DEF install_trans, replay, Install
  <2>3. \A b \in Blocks :
          /\ disk'[b] = IF b = lh[tail] THEN logged[tail] ELSE disk[b]
          /\ cache'[b] = IF b = lh[tail] THEN logged[tail] ELSE cache[b]
    BY Zenon, <2>2, <2>1 DEF LogTypeOK, BlocksOK
  <2>4. \A i \in 1 .. Len(lh) : lh[i] \in Blocks
    BY Zenon, HeaderSlots DEF LogTypeOK
  <2>5. \A i \in 1 .. Len(lh) : lh[i] = lh[tail] => i = tail
    BY Zenon, <2>1 DEF StepInv, IsHeader
  <2>6. CopiedFrom(disk, tail - 1)'
    <3>. SUFFICES ASSUME NEW i \in 1 .. Len(lh), i <= tail
                  PROVE  logged[i] = disk'[lh[i]]
      BY <1>0, <2>2 DEF CopiedFrom
    <3>1. CASE i = tail
      BY Zenon, <3>1, <2>3, <2>4
    <3>2. CASE i # tail
      BY SMTT(30), <3>2, <2>3, <2>4, <2>5, <1>0 DEF CopiedFrom
    <3>. QED
      BY Zenon, <3>1, <3>2
  <2>7. step' = "install" => CopiedFrom(cache, Len(lh))'
    BY <1>0, <2>2, <2>3, <2>4, <2>5 DEF CopiedFrom
  <2>8. step' = "replay" => cache' = disk'
    BY Zenon, <1>0, <2>2
  <2>9. step' = "install" /\ ~panicked'
          => \A b \in Blocks : b \notin Logged' => cache'[b] = disk'[b]
    BY <1>0, <1>1, <2>2, <2>3
  <2>. QED
    BY Zenon, <1>0, <1>1, <2>2, <2>6, <2>7, <2>8, <2>9 DEF StepInv, Booting
<1>3. CASE ~(tail <= Len(lh))
  <2>1. /\ UNCHANGED <<disk, cache, tail>>
        /\ \/ step = "install" /\ step' = "erase"
           \/ step = "replay" /\ step' = "clear"
    BY Zenon, <1>3 DEF install_trans, replay, Install
  <2>2. CopiedFrom(disk, Len(lh))'
    BY <1>0, <1>3, <2>1, HeaderSlots DEF CopiedFrom, LogTypeOK
  <2>3. step' = "erase" => CopiedFrom(cache, Len(lh))'
    BY Zenon, <1>0, <2>1 DEF CopiedFrom
  <2>. QED
    BY Zenon, <1>0, <1>1, <2>1, <2>2, <2>3 DEF StepInv, Booting
<1>. QED
  BY Zenon, <1>2, <1>3

LEMMA CommitSteps ==
  ASSUME LogTypeOK, StepInv, write_log \/ write_head \/ erase_log \/ clear_log
  PROVE  StepInv'
<1>0. Len(lh) \in Nat /\ tail \in Nat \ {0}
  BY Zenon, HeaderSlots DEF LogTypeOK
<1>1. CASE write_log
  <2>1. /\ step = "log" /\ hdr = <<>> /\ tail \in 1 .. Len(lh)
        /\ CopiedFrom(cache, tail - 1)
        /\ UNCHANGED <<disk, hdr, cache, lh, panicked>>
    BY Zenon, <1>1 DEF write_log, StepInv
  <2>2. tail \in LogSlots
    BY Zenon, <2>1, HeaderSlots DEF LogTypeOK
  <2>3. \A i \in 1 .. Len(lh) :
          logged'[i] = IF i = tail THEN cache[lh[tail]] ELSE logged[i]
    BY Zenon, <1>1, <2>2, HeaderSlots DEF write_log, LogTypeOK, BlocksOK
  <2>4. \A i \in 1 .. Len(lh) : i <= tail => logged'[i] = cache[lh[i]]
    BY <2>1, <2>3, <1>0 DEF CopiedFrom
  <2>5. IsHeader(lh)' /\ IsHeader(hdr)' /\ Logged' = Logged
    BY <2>1 DEF StepInv, IsHeader, Logged
  <2>6. ~panicked' => \A b \in Blocks : b \notin Logged' => cache'[b] = disk'[b]
    BY Zenon, <2>1, <2>5 DEF StepInv, Booting
  <2>7. CASE tail = Len(lh)
    <3>1. step' = "head" /\ tail' = 1
      BY Zenon, <1>1, <2>7 DEF write_log
    <3>2. CopiedFrom(cache, Len(lh))'
      BY Zenon, <2>1, <2>4, <2>7 DEF CopiedFrom
    <3>. QED
      BY Zenon, <2>1, <2>5, <2>6, <3>1, <3>2 DEF StepInv, Booting
  <2>8. CASE tail # Len(lh)
    <3>1. step' = "log" /\ tail' = tail + 1
      BY Zenon, <1>1, <2>1, <2>8 DEF write_log
    <3>2. CopiedFrom(cache, tail - 1)'
      BY <2>1, <2>4, <3>1, <1>0 DEF CopiedFrom
    <3>3. tail' \in 1 .. Len(lh')
      BY <2>1, <2>8, <3>1, <1>0
    <3>. QED
      BY Zenon, <2>1, <2>5, <2>6, <3>1, <3>2, <3>3 DEF StepInv, Booting
  <2>. QED
    BY Zenon, <2>7, <2>8
<1>2. CASE write_head
  <2>1. /\ step = "head" /\ step' = "install" /\ hdr' = lh
        /\ tail = 1 /\ UNCHANGED <<disk, logged, cache, lh, tail, panicked>>
    BY Zenon, <1>2 DEF write_head, StepInv
  <2>2. IsHeader(lh)' /\ IsHeader(hdr)' /\ Logged' = Logged
    BY <2>1 DEF StepInv, IsHeader, Logged
  <2>3. CopiedFrom(cache, Len(lh))' /\ CopiedFrom(disk, tail - 1)'
    BY <2>1 DEF StepInv, CopiedFrom
  <2>4. ~panicked' => \A b \in Blocks : b \notin Logged' => cache'[b] = disk'[b]
    BY Zenon, <2>1, <2>2 DEF StepInv, Booting
  <2>. QED
    BY Zenon, <2>1, <2>2, <2>3, <2>4 DEF StepInv, Booting
<1>3. CASE erase_log \/ clear_log
  <2>1. /\ lh' = <<>> /\ hdr' = <<>> /\ UNCHANGED <<disk, cache>>
        /\ \/ step = "erase" /\ step' = "done"
           \/ step = "clear" /\ step' = "none"
        /\ ~panicked
    BY Zenon, <1>3 DEF erase_log, clear_log, Erase
  <2>2. IsHeader(lh)' /\ IsHeader(hdr)'
    BY <2>1, LogAssumption DEF IsHeader
  <2>3. ASSUME NEW b \in Blocks PROVE cache'[b] = disk'[b]
    <3>1. CASE step = "clear"
      BY Zenon, <3>1, <2>1 DEF StepInv, Booting
    <3>2. CASE step = "erase" /\ b \in Logged
      BY <3>2, <2>1, <1>0 DEF StepInv, CopiedFrom, Logged
    <3>3. CASE step = "erase" /\ b \notin Logged
      BY Zenon, <3>3, <2>1 DEF StepInv, Booting
    <3>. QED
      BY Zenon, <2>1, <3>1, <3>2, <3>3
  <2>. QED
    BY Zenon, <2>1, <2>2, <2>3 DEF StepInv, Booting
<1>. QED
  BY Zenon, <1>1, <1>2, <1>3

LEMMA StepPreserved ==
  ASSUME LogTypeOK, StepInv, OpInv, [Next]_vars
  PROVE  StepInv'
<1>1. CASE UNCHANGED <<ondisk, cache, lh, step, tail, panicked>>
  BY <1>1 DEF StepInv, IsHeader, CopiedFrom, Booting, Logged, ondisk
<1>2. ASSUME NEW p \in Ops, end_op(p) PROVE StepInv'
  <2>0. step = "none" /\ ~committing /\ ~Booting
    BY Zenon, <1>2, InsideIsNone DEF end_op
  <2>1. /\ UNCHANGED <<disk, hdr, logged, cache, lh, panicked>>
        /\ \/ step' = "none" /\ tail' = tail
           \/ step' = "log" /\ Len(lh) > 0 /\ tail' = 1
           \/ step' = "done" /\ ~(Len(lh) > 0) /\ tail' = 1
    BY Zenon, <1>2, <2>0 DEF end_op, ondisk
  <2>2. IsHeader(lh)' /\ IsHeader(hdr)' /\ Logged' = Logged
    BY <2>1 DEF StepInv, IsHeader, Logged
  <2>3. hdr' = <<>>
    BY Zenon, <2>0, <2>1 DEF StepInv
  <2>4. step' = "log" => tail' \in 1 .. Len(lh') /\ CopiedFrom(cache, tail - 1)'
    BY SMTT(30), <2>1, HeaderSlots DEF CopiedFrom, LogTypeOK
  <2>5. step' = "done" => lh' = <<>>
    BY <2>1, HeaderSlots DEF LogTypeOK
  <2>6. ~panicked' => \A b \in Blocks : b \notin Logged' => cache'[b] = disk'[b]
    BY Zenon, <2>0, <2>1, <2>2 DEF StepInv
  <2>. QED
    BY Zenon, <2>1, <2>2, <2>3, <2>4, <2>5, <2>6 DEF StepInv, Booting
<1>3. ASSUME NEW p \in Ops, EndCommit(p) PROVE StepInv'
  <2>1. step = "done" /\ step' = "none"
        /\ UNCHANGED <<disk, hdr, logged, cache, lh, tail, panicked>>
    BY Zenon, <1>3 DEF EndCommit, ondisk
  <2>. QED
    BY <2>1 DEF StepInv, IsHeader, CopiedFrom, Booting, Logged
<1>4. CASE Crash
  <2>1. lh' = <<>> /\ step' = "boot" /\ UNCHANGED <<disk, hdr, logged>> /\ cache' = disk
    BY Zenon, <1>4 DEF Crash, ondisk
  <2>2. IsHeader(lh)' /\ IsHeader(hdr)'
    BY <2>1, LogAssumption DEF IsHeader, StepInv
  <2>. QED
    BY Zenon, <2>1, <2>2 DEF StepInv, Booting
<1>5. CASE read_head
  <2>1. /\ step = "boot" /\ lh' = hdr /\ tail' = 1 /\ step' = "replay"
        /\ UNCHANGED <<disk, hdr, logged, cache>>
    BY Zenon, <1>5 DEF read_head, ondisk
  <2>2. IsHeader(lh)' /\ IsHeader(hdr)' /\ CopiedFrom(disk, tail - 1)'
    BY <2>1 DEF IsHeader, StepInv, CopiedFrom
  <2>. QED
    BY Zenon, <2>1, <2>2 DEF StepInv, Booting
<1>. QED
  BY ZenonT(40), LogStepCases, <1>1, <1>2, <1>3, <1>4, <1>5, LogWriteStep, InstallStep,
     CommitSteps
  DEF Call, begin_op, vars

----------------------------------------------------------------------------
(* Who is active.                                                          *)

LEMMA ActiveFinite == IsFiniteSet(Active) /\ Cardinality(Active) \in Nat
<1>1. IsFiniteSet(Active)
  BY Zenon, FS_Subset, LogAssumption DEF Active
<1>. QED
  BY Zenon, <1>1, FS_CardinalityType

LEMMA OpPreserved ==
  ASSUME LogTypeOK, OpInv, [Next]_vars
  PROVE  OpInv'
<1> USE DEF OpInv
<1>0. pc \in [Ops -> {"idle", "begin", "asleep", "in", "commit"}]
  BY Zenon DEF LogTypeOK, OpsOK
<1>1. CASE Active' = Active /\ UNCHANGED <<outstanding, committing, step, panicked>>
  BY Zenon, <1>1 DEF Booting
<1>2. ASSUME NEW p \in Ops, Call(p) PROVE OpInv'
  <2>1. Active' = Active
    BY Zenon, <1>0, <1>2 DEF Call, Goto, Active
  <2>. QED
    BY Zenon, <2>1, <1>1, <1>2 DEF Call
<1>3. ASSUME NEW p \in Ops, begin_op(p) PROVE OpInv'
  <2>1. CASE MayBegin
    <3>1. Active' = Active \cup {p} /\ p \notin Active
      BY Zenon, <1>0, <1>3, <2>1 DEF begin_op, Goto, Active
    <3>2. Cardinality(Active') = Cardinality(Active) + 1
      BY Zenon, <3>1, ActiveFinite, FS_AddElement
    <3>3. ~committing /\ ~panicked /\ ~Booting
      BY Zenon, <1>3, <2>1 DEF begin_op, MayBegin, Running
    <3>. QED
      BY Zenon, <1>3, <2>1, <3>2, <3>3 DEF begin_op, Booting
  <2>2. CASE ~MayBegin
    <3>1. Active' = Active
      BY Zenon, <1>0, <1>3, <2>2 DEF begin_op, Goto, Active
    <3>. QED
      BY Zenon, <3>1, <1>1, <1>3, <2>2 DEF begin_op
  <2>. QED
    BY Zenon, <2>1, <2>2
<1>4. ASSUME NEW p \in Ops, end_op(p) PROVE OpInv'
  <2>0. step = "none" /\ ~committing /\ ~Booting /\ ~panicked
    BY Zenon, <1>4, InsideIsNone DEF end_op, Running
  <2>1. Active' = Active \ {p} /\ p \in Active
    BY Zenon, <1>0, <1>4, <2>0 DEF end_op, Goto, Wake, Active
  <2>2. Cardinality(Active') = Cardinality(Active) - 1 /\ IsFiniteSet(Active')
    BY Zenon, <2>1, ActiveFinite, FS_RemoveElement
  <2>3. outstanding' = Cardinality(Active') /\ panicked' = panicked
    BY Zenon, <1>4, <2>0, <2>2 DEF end_op
  <2>4. CASE outstanding' = 0
    <3>1. Active' = {}
      BY Zenon, <2>2, <2>3, <2>4, FS_EmptySet
    <3>2. committing' /\ step' \in {"log", "done"}
      BY Zenon, <1>4, <2>0, <2>4 DEF end_op
    <3>. QED
      BY Zenon, <2>0, <2>3, <2>4, <3>1, <3>2 DEF Booting
  <2>5. CASE outstanding' # 0
    <3>1. committing' = committing /\ step' = step
      BY Zenon, <1>4, <2>0, <2>5 DEF end_op
    <3>. QED
      BY Zenon, <2>0, <2>3, <3>1 DEF Booting
  <2>. QED
    BY Zenon, <2>4, <2>5
<1>5. ASSUME NEW p \in Ops, EndCommit(p) PROVE OpInv'
  <2>1. Active' = Active
    BY Zenon, <1>0, <1>5 DEF EndCommit, Wake, Active
  <2>. QED
    BY Zenon, <2>1, <1>5 DEF EndCommit, Booting
<1>6. CASE Crash
  <2>1. Active' = {} /\ outstanding' = 0 /\ ~committing' /\ step' = "boot" /\ ~panicked'
    BY Zenon, <1>6 DEF Crash, Active
  <2>2. Cardinality(Active') = 0
    BY Zenon, <2>1, FS_EmptySet
  <2>. QED
    BY Zenon, <2>1, <2>2 DEF Booting
<1>7. ASSUME NEW p \in Ops, NEW b \in Blocks, log_write(p, b) PROVE OpInv'
  <2>1. Active' = Active /\ UNCHANGED <<outstanding, committing, step>>
        /\ ~panicked /\ ~Booting
    BY Zenon, <1>7 DEF log_write, Active, Running
  <2>. QED
    BY Zenon, <2>1 DEF Booting
<1>8. CASE write_log \/ write_head \/ install_trans \/ erase_log \/ read_head
           \/ replay \/ clear_log
  <2>1. Active' = Active /\ UNCHANGED <<outstanding, committing, panicked>>
    BY Zenon, <1>8 DEF write_log, write_head, install_trans, erase_log, read_head,
                replay, clear_log, Install, Erase, Active
  <2>2. \/ /\ step \in {"log", "head", "install", "erase", "done"}
           /\ step' \in {"log", "head", "install", "erase", "done"}
        \/ step \in {"boot", "replay", "clear"} /\ step' \in {"none", "replay", "clear"}
    BY Zenon, <1>8 DEF write_log, write_head, install_trans, erase_log, read_head,
                replay, clear_log, Install, Erase
  <2>. QED
    BY Zenon, <2>1, <2>2 DEF Booting
<1>9. CASE UNCHANGED vars
  BY Zenon, <1>9, <1>1 DEF vars, Active
<1>. QED
  BY Zenon, LogStepCases, <1>2, <1>3, <1>4, <1>5, <1>6, <1>7, <1>8, <1>9

LEMMA LogInit == Init => LogInv
<1>. SUFFICES ASSUME Init PROVE LogInv
  OBVIOUS
<1>1. LogTypeOK
  <2>1. BlocksOK
    BY DEF Init, BlocksOK
  <2>2. OpsOK
    BY Zenon DEF Init, OpsOK
  <2>3. committing \in BOOLEAN /\ panicked \in BOOLEAN
    BY Zenon DEF Init
  <2>4. /\ outstanding \in Int /\ step \in Steps /\ tail \in Nat \ {0}
        /\ writes \in Nat /\ crashes \in Nat
    BY DEF Init, Steps
  <2>. QED
    BY Zenon, <2>1, <2>2, <2>3, <2>4 DEF LogTypeOK
<1>2. StepInv
  BY LogAssumption DEF Init, StepInv, IsHeader, Booting
<1>3. OpInv
  <2>1. Active = {}
    BY Zenon DEF Init, Active
  <2>. QED
    BY Zenon, <2>1, FS_EmptySet DEF Init, OpInv, Booting
<1>. QED
  BY Zenon, <1>1, <1>2, <1>3 DEF LogInv

LEMMA LogInductive == Spec => []LogInv
<1>1. LogInv /\ [Next]_vars => LogInv'
  BY Zenon, LogTypeStep, StepPreserved, OpPreserved DEF LogInv
<1>. QED
  BY <1>1, LogInit, PTL DEF Spec

(* Every variable of the log of log.c stays in its type, through commits,  *)
(* crashes in the middle of them, and recoveries.                          *)
THEOREM LogTypes == Spec => []LogTypeOK
  BY LogInductive, PTL DEF LogInv

(* While commit() copies blocks without log.lock, no system call is        *)
(* between begin_op and end_op: end_op sets committing only when it was    *)
(* the last one, and begin_op admits none until committing is cleared.     *)
THEOREM CommitsAlone == Spec => []CommitAlone
<1>1. LogInv => CommitAlone
  BY Zenon DEF LogInv, OpInv, CommitAlone
<1>. QED
  BY <1>1, LogInductive, PTL

(* Every block that log_write has changed in the cache and that is not yet *)
(* at its home on disk is in the header of the current transaction.        *)
THEOREM DirtyBlocksLogged == Spec => []DirtyIsLogged
<1>1. LogInv => DirtyIsLogged
  BY Zenon DEF LogInv, StepInv, DirtyIsLogged, Running
<1>. QED
  BY <1>1, LogInductive, PTL
----------------------------------------------------------------------------
(* A call writes fewer blocks than begin_op reserves for it and than the   *)
(* log holds, and a log that is full but for what two calls leave of their *)
(* reserves has a block left.  With a log of LOGSIZE blocks, its header    *)
(* included, a call may write all but one of the blocks reserved for it.   *)
Room ==
  /\ OpBlocks < MAXOPBLOCKS /\ OpBlocks < LOGSIZE /\ OpBlocks < LogBlocks - 1
  /\ LOGSIZE - 2 * (MAXOPBLOCKS - OpBlocks) < LogBlocks - 1

(* The writes of the calls in S.                                           *)
WrittenBy(w, S) == {x \in S \X Blocks : x[2] \in w[x[1]]}

(* A call has written at most OpBlocks blocks, which are in the header; so *)
(* the calls of every set S have written at most OpBlocks for each.  What  *)
(* the header holds beyond those writes leaves room for the reserves.      *)
SpaceInv ==
  /\ ~panicked
  /\ \A p \in Active : /\ IsFiniteSet(wrote[p]) /\ Cardinality(wrote[p]) <= OpBlocks
                       /\ wrote[p] \subseteq Logged
  /\ \A S \in SUBSET Active :
       /\ IsFiniteSet(WrittenBy(wrote, S))
       /\ Cardinality(WrittenBy(wrote, S)) <= Cardinality(S) * OpBlocks
  /\ ~Booting /\ ~committing =>
       Len(lh) + outstanding * MAXOPBLOCKS
         <= LOGSIZE + Cardinality(WrittenBy(wrote, Active))

(* A call that is alone has been alone since the log was empty, and the    *)
(* header holds its blocks only; or another has ended since, which left at *)
(* least the difference of MAXOPBLOCKS and OpBlocks of its reserve.        *)
AloneInv ==
  ~Booting /\ ~committing =>
    /\ outstanding = 0 => lh = <<>>
    /\ outstanding = 1 =>
         \/ Len(lh) <= Cardinality(WrittenBy(wrote, Active))
         \/ Len(lh) + 2 * MAXOPBLOCKS
              <= LOGSIZE + OpBlocks + Cardinality(WrittenBy(wrote, Active))

(* The writes of S are those of p and those of the others.                 *)
LEMMA WrittenSplit ==
  ASSUME NEW w \in [Ops -> SUBSET Blocks], NEW S \in SUBSET Ops, NEW p \in S,
         IsFiniteSet(w[p]), IsFiniteSet(WrittenBy(w, S \ {p}))
  PROVE  /\ IsFiniteSet(WrittenBy(w, S))
         /\ Cardinality(WrittenBy(w, S)) = Cardinality(WrittenBy(w, S \ {p})) + Cardinality(w[p])
<1>. DEFINE A == WrittenBy(w, S \ {p})
            B == {p} \X w[p]
<1>1. WrittenBy(w, S) = A \cup B /\ A \cap B = {}
  BY Zenon DEF WrittenBy
<1>2. IsFiniteSet({p}) /\ Cardinality({p}) = 1
  BY Zenon, FS_Singleton
<1>3. IsFiniteSet(B) /\ Cardinality(B) = 1 * Cardinality(w[p])
  BY <1>2, FS_Product
<1>4. Cardinality(w[p]) \in Nat /\ Cardinality(A) \in Nat
  BY Zenon, FS_CardinalityType
<1>5. Cardinality(A \cap B) = 0
  BY Zenon, <1>1, FS_EmptySet
<1>6. /\ IsFiniteSet(A \cup B)
      /\ Cardinality(A \cup B) = Cardinality(A) + Cardinality(B) - Cardinality(A \cap B)
  BY Zenon, <1>3, FS_Union
<1>7. Cardinality(A \cup B) = Cardinality(A) + Cardinality(w[p])
  <2>. HIDE DEF A, B
  <2>. QED
    BY <1>3, <1>4, <1>5, <1>6
<1>. QED
  BY Zenon, <1>1, <1>6, <1>7

(* The writes of S depend on what the calls in S have written.             *)
LEMMA WrittenSame ==
  ASSUME NEW v, NEW w, NEW S, \A p \in S : v[p] = w[p]
  PROVE  WrittenBy(v, S) = WrittenBy(w, S)
  BY Zenon DEF WrittenBy

(* One more call, which has written the blocks w[p].                       *)
LEMMA WrittenBound ==
  ASSUME NEW w \in [Ops -> SUBSET Blocks], NEW S \in SUBSET Ops, NEW p \in S,
         IsFiniteSet(w[p]), Cardinality(w[p]) <= OpBlocks,
         IsFiniteSet(WrittenBy(w, S \ {p})),
         Cardinality(WrittenBy(w, S \ {p})) <= Cardinality(S \ {p}) * OpBlocks
  PROVE  /\ IsFiniteSet(WrittenBy(w, S))
         /\ Cardinality(WrittenBy(w, S)) <= Cardinality(S) * OpBlocks
<1>1. IsFiniteSet(S)
  BY Zenon, FS_Subset, LogAssumption
<1>2. /\ IsFiniteSet(S \ {p}) /\ Cardinality(S \ {p}) = Cardinality(S) - 1
      /\ Cardinality(S) \in Nat
  BY Zenon, <1>1, FS_RemoveElement, FS_CardinalityType
<1>3. /\ IsFiniteSet(WrittenBy(w, S))
      /\ Cardinality(WrittenBy(w, S)) = Cardinality(WrittenBy(w, S \ {p})) + Cardinality(w[p])
  BY Zenon, WrittenSplit
<1>4. Cardinality(w[p]) \in Nat /\ Cardinality(WrittenBy(w, S \ {p})) \in Nat
  BY Zenon, FS_CardinalityType
<1>5. (Cardinality(S) - 1) * OpBlocks + OpBlocks = Cardinality(S) * OpBlocks
  BY <1>2, LogAssumption
<1>6. Cardinality(S \ {p}) * OpBlocks = (Cardinality(S) - 1) * OpBlocks /\ OpBlocks \in Nat
      /\ (Cardinality(S) - 1) * OpBlocks \in Int
  BY <1>2, LogAssumption
<1>. QED
  BY <1>3, <1>4, <1>5, <1>6
----------------------------------------------------------------------------
(* The calls of a set that leaves p out have written what they had.        *)
LEMMA OthersSpace ==
  ASSUME LogTypeOK, SpaceInv, NEW p \in Ops, NEW S \in SUBSET Ops,
         \A q \in S : q # p => q \in Active /\ wrote'[q] = wrote[q]
  PROVE  /\ IsFiniteSet(WrittenBy(wrote', S \ {p}))
         /\ Cardinality(WrittenBy(wrote', S \ {p})) <= Cardinality(S \ {p}) * OpBlocks
<1>1. S \ {p} \in SUBSET Active
  OBVIOUS
<1>2. WrittenBy(wrote', S \ {p}) = WrittenBy(wrote, S \ {p})
  BY WrittenSame
<1>. QED
  BY Zenon, <1>1, <1>2 DEF SpaceInv

(* begin_op reserves the space of a call.                                  *)
LEMMA BeginSpace ==
  ASSUME Room, LogInv, LogTypeOK', SpaceInv, NEW p \in Ops, begin_op(p)
  PROVE  SpaceInv'
<1>0. /\ pc \in [Ops -> {"idle", "begin", "asleep", "in", "commit"}]
      /\ wrote \in [Ops -> SUBSET Blocks] /\ wrote' \in [Ops -> SUBSET Blocks]
      /\ LogTypeOK /\ OpInv /\ Len(lh) \in Nat
  BY SMTT(30) DEF LogInv, LogTypeOK, OpsOK, BlocksOK
<1>1. /\ pc[p] = "begin" /\ p \notin Active /\ wrote' = [wrote EXCEPT ![p] = {}]
      /\ UNCHANGED <<lh, committing, step, panicked>>
  BY Zenon DEF begin_op, Active
<1>2. /\ wrote'[p] = {} /\ IsFiniteSet({}) /\ Cardinality({}) = 0
      /\ \A q \in Ops \ {p} : wrote'[q] = wrote[q]
  BY Zenon, <1>0, <1>1, FS_EmptySet
<1>3. IsFiniteSet(wrote'[p]) /\ Cardinality(wrote'[p]) <= OpBlocks
  BY <1>2, LogAssumption
<1>4. Active' \subseteq Active \cup {p} /\ Active' \subseteq Ops /\ Active \subseteq Ops
  BY Zenon, <1>0 DEF begin_op, Goto, Active
<1>5. ASSUME NEW S \in SUBSET Active'
      PROVE  /\ IsFiniteSet(WrittenBy(wrote', S))
             /\ Cardinality(WrittenBy(wrote', S)) <= Cardinality(S) * OpBlocks
  <2>1. /\ IsFiniteSet(WrittenBy(wrote', S \ {p}))
        /\ Cardinality(WrittenBy(wrote', S \ {p})) <= Cardinality(S \ {p}) * OpBlocks
    BY Zenon, <1>0, <1>2, <1>4, OthersSpace
  <2>2. S \in SUBSET Ops
    BY Zenon, <1>4
  <2>3. CASE p \in S
    BY Zenon, <1>0, <1>4, <1>3, <2>1, <2>3, <2>2, WrittenBound
  <2>4. CASE p \notin S
    <3>1. S \ {p} = S
      BY Zenon, <2>4
    <3>. QED
      BY Zenon, <2>1, <3>1
  <2>. QED
    BY Zenon, <2>3, <2>4
<1>6. \A q \in Active' : /\ IsFiniteSet(wrote'[q]) /\ Cardinality(wrote'[q]) <= OpBlocks
                         /\ wrote'[q] \subseteq Logged'
  <2>. SUFFICES ASSUME NEW q \in Active'
                PROVE  /\ IsFiniteSet(wrote'[q]) /\ Cardinality(wrote'[q]) <= OpBlocks
                       /\ wrote'[q] \subseteq Logged'
    OBVIOUS
  <2>1. CASE q = p
    BY Zenon, <1>2, <1>3, <2>1
  <2>2. CASE q # p
    BY <1>1, <1>2, <1>4, <2>2 DEF SpaceInv, Logged
  <2>. QED
    BY Zenon, <2>1, <2>2
<1>7. CASE MayBegin
  <2>1. /\ Len(lh) + (outstanding + 1) * MAXOPBLOCKS <= LOGSIZE /\ outstanding' = outstanding + 1
    BY Zenon, <1>7 DEF begin_op, MayBegin
  <2>2. Cardinality(WrittenBy(wrote', Active')) \in Nat
    BY ZenonT(40), <1>5, FS_CardinalityType
  <2>3. Len(lh') + outstanding' * MAXOPBLOCKS <= LOGSIZE + Cardinality(WrittenBy(wrote', Active'))
    BY SMTT(30), <1>0, <1>1, <2>1, <2>2, LogAssumption DEF LogTypeOK
  <2>. QED
    BY Zenon, <1>1, <1>5, <1>6, <2>3 DEF SpaceInv
<1>8. CASE ~MayBegin
  <2>1. outstanding' = outstanding /\ Active' = Active
    BY Zenon, <1>0, <1>8 DEF begin_op, Goto, Active
  <2>2. WrittenBy(wrote', Active) = WrittenBy(wrote, Active)
    <3>1. \A q \in Active : wrote'[q] = wrote[q]
      BY Zenon, <1>1, <1>2, <1>4
    <3>. QED
      BY ZenonT(40), <3>1, WrittenSame
  <2>. QED
    BY Zenon, <1>1, <1>5, <1>6, <2>1, <2>2 DEF SpaceInv, Booting
<1>. QED
  BY Zenon, <1>7, <1>8

(* log_write finds room in the header, and takes it from the reserve.      *)
LEMMA WriteSpace ==
  ASSUME Room, LogInv, LogTypeOK', SpaceInv, AloneInv,
         NEW p \in Ops, NEW b \in Blocks, log_write(p, b)
  PROVE  SpaceInv' /\ AloneInv'
<1>0. /\ wrote \in [Ops -> SUBSET Blocks] /\ wrote' \in [Ops -> SUBSET Blocks]
      /\ LogTypeOK /\ OpInv /\ lh \in Seq(Blocks) /\ Len(lh) \in Nat /\ outstanding \in Int
  <2>1. /\ wrote \in [Ops -> SUBSET Blocks] /\ wrote' \in [Ops -> SUBSET Blocks]
        /\ LogTypeOK /\ OpInv /\ lh \in Seq(Blocks) /\ outstanding \in Int
    BY Zenon DEF LogInv, LogTypeOK, OpsOK, BlocksOK
  <2>2. Len(lh) \in Nat
    BY <2>1
  <2>. QED
    BY Zenon, <2>1, <2>2
<1>1. /\ p \in Active /\ Active \subseteq Ops /\ ~committing /\ ~Booting
      /\ Cardinality(wrote[p] \cup {b}) <= OpBlocks
  BY Zenon, <1>0, InsideIsNone DEF log_write, Active
<1>2. /\ outstanding = Cardinality(Active) /\ outstanding >= 1
  <2>1. outstanding = Cardinality(Active)
    BY Zenon, <1>0 DEF OpInv, SpaceInv
  <2>2. Cardinality(Active) # 0
    BY Zenon, <1>1, ActiveFinite, FS_EmptySet
  <2>. QED
    BY <2>1, <2>2, ActiveFinite
<1>3. /\ IsFiniteSet(wrote[p]) /\ IsFiniteSet(WrittenBy(wrote, Active)) /\ wrote[p] \subseteq Logged
      /\ Cardinality(WrittenBy(wrote, Active)) <= outstanding * OpBlocks
      /\ Len(lh) + outstanding * MAXOPBLOCKS <= LOGSIZE + Cardinality(WrittenBy(wrote, Active))
  BY Zenon, <1>1, <1>2 DEF SpaceInv
<1>4. Len(lh) <= OpBlocks \/ Len(lh) <= LOGSIZE - 2 * (MAXOPBLOCKS - OpBlocks)
  <2>1. Cardinality(WrittenBy(wrote, Active)) \in Nat
    BY Zenon, <1>3, FS_CardinalityType
  <2>. DEFINE W == Cardinality(WrittenBy(wrote, Active))
              d == MAXOPBLOCKS - OpBlocks
  <2>2. CASE outstanding = 1
    <3>1. Len(lh) <= W \/ Len(lh) + 2 * MAXOPBLOCKS <= LOGSIZE + OpBlocks + W
      BY Zenon, <1>1, <2>2 DEF AloneInv
    <3>2. W <= OpBlocks /\ W \in Nat
      BY <1>3, <2>1, <2>2, LogAssumption
    <3>. HIDE DEF W
    <3>. QED
      BY <1>0, <3>1, <3>2, LogAssumption
  <2>3. CASE outstanding # 1
    <3>1. d \in Nat /\ outstanding \in Nat /\ outstanding * MAXOPBLOCKS = outstanding * OpBlocks + outstanding * d
      BY <1>0, <1>2, LogAssumption DEF Room
    <3>2. outstanding * d >= 2 * d
      BY <1>2, <2>3, <3>1
    <3>3. outstanding * OpBlocks \in Int /\ outstanding * d \in Int
      BY <3>1, LogAssumption
    <3>. QED
      BY <1>0, <1>3, <2>1, <3>1, <3>2, <3>3, LogAssumption
  <2>. QED
    BY Zenon, <2>2, <2>3
<1>5. ~(Len(lh) >= LOGSIZE \/ Len(lh) >= LogBlocks - 1 \/ outstanding < 1)
  BY <1>0, <1>2, <1>4, LogAssumption DEF Room
<1>6. /\ lh' = IF b \in Logged THEN lh ELSE Append(lh, b)
      /\ wrote' = [wrote EXCEPT ![p] = wrote[p] \cup {b}]
      /\ UNCHANGED <<outstanding, committing, pc, step, panicked>>
  BY Zenon, <1>5 DEF log_write
<1>7. /\ wrote'[p] = wrote[p] \cup {b} /\ \A q \in Ops \ {p} : wrote'[q] = wrote[q]
      /\ Active' = Active
  BY Zenon, <1>0, <1>6 DEF Active
<1>8. IsFiniteSet(wrote'[p]) /\ Cardinality(wrote'[p]) <= OpBlocks
  BY ZenonT(40), <1>1, <1>3, <1>7, FS_AddElement
<1>9. Logged' = Logged \cup {b} /\ Len(lh') = Len(lh) + (IF b \in Logged THEN 0 ELSE 1)
  BY <1>0, <1>6 DEF Logged
<1>10. ASSUME NEW S \in SUBSET Active
       PROVE  /\ IsFiniteSet(WrittenBy(wrote', S))
              /\ Cardinality(WrittenBy(wrote', S)) <= Cardinality(S) * OpBlocks
  <2>1. /\ IsFiniteSet(WrittenBy(wrote', S \ {p}))
        /\ Cardinality(WrittenBy(wrote', S \ {p})) <= Cardinality(S \ {p}) * OpBlocks
    BY Zenon, <1>0, <1>1, <1>7, OthersSpace
  <2>2. CASE p \in S
    BY Zenon, <1>0, <1>1, <1>8, <2>1, <2>2, WrittenBound
  <2>3. CASE p \notin S
    <3>1. S \ {p} = S
      BY Zenon, <2>3
    <3>. QED
      BY Zenon, <2>1, <3>1
  <2>. QED
    BY Zenon, <2>2, <2>3
<1>11. Cardinality(WrittenBy(wrote', Active)) - Cardinality(WrittenBy(wrote, Active))
         >= Len(lh') - Len(lh)
  <2>1. WrittenBy(wrote', Active \ {p}) = WrittenBy(wrote, Active \ {p})
    BY <1>1, <1>7, WrittenSame
  <2>2. IsFiniteSet(WrittenBy(wrote, Active \ {p}))
    BY Zenon DEF SpaceInv
  <2>3. /\ Cardinality(WrittenBy(wrote, Active))
             = Cardinality(WrittenBy(wrote, Active \ {p})) + Cardinality(wrote[p])
        /\ Cardinality(WrittenBy(wrote', Active))
             = Cardinality(WrittenBy(wrote, Active \ {p})) + Cardinality(wrote'[p])
    BY SMTT(30), <1>0, <1>1, <1>3, <1>8, <2>1, <2>2, WrittenSplit
  <2>4. /\ Cardinality(wrote'[p]) = Cardinality(wrote[p]) + (IF b \in wrote[p] THEN 0 ELSE 1)
        /\ Cardinality(wrote[p]) \in Nat /\ Cardinality(WrittenBy(wrote, Active \ {p})) \in Nat
    <3>1. CASE b \in wrote[p]
      <4>1. wrote'[p] = wrote[p]
        BY ZenonT(40), <1>7, <3>1
      <4>. QED
        BY <1>3, <2>2, <3>1, <4>1, FS_CardinalityType
    <3>2. CASE b \notin wrote[p]
      BY SMTT(30), <1>3, <1>7, <2>2, <3>2, FS_AddElement, FS_CardinalityType
    <3>. QED
      BY ZenonT(40), <3>1, <3>2
  <2>5. b \in wrote[p] => b \in Logged
    BY Zenon, <1>3
  <2>. QED
    BY SMTT(30), <1>0, <1>9, <2>3, <2>4, <2>5
<1>12. \A q \in Active : /\ IsFiniteSet(wrote'[q]) /\ Cardinality(wrote'[q]) <= OpBlocks
                         /\ wrote'[q] \subseteq Logged'
  BY ZenonT(40), <1>1, <1>3, <1>7, <1>8, <1>9 DEF SpaceInv
<1>13. Len(lh') + outstanding' * MAXOPBLOCKS <= LOGSIZE + Cardinality(WrittenBy(wrote', Active))
  <2>1. /\ Cardinality(WrittenBy(wrote', Active)) \in Nat
        /\ Cardinality(WrittenBy(wrote, Active)) \in Nat
        /\ outstanding * MAXOPBLOCKS \in Int /\ Len(lh') \in Int
    BY <1>0, <1>3, <1>9, <1>10, FS_CardinalityType, LogAssumption
  <2>2. outstanding' * MAXOPBLOCKS = outstanding * MAXOPBLOCKS /\ Len(lh) \in Nat
    BY Zenon, <1>0, <1>6
  <2>. QED
    BY SMTT(30), <1>3, <1>11, <2>1, <2>2, LogAssumption
<1>14. SpaceInv'
  BY Zenon, <1>6, <1>7, <1>10, <1>12, <1>13 DEF SpaceInv
<1>15. AloneInv'
  <2>. DEFINE W == Cardinality(WrittenBy(wrote, Active))
              V == Cardinality(WrittenBy(wrote', Active))
  <2>1. V - W >= Len(lh') - Len(lh) /\ V \in Nat /\ W \in Nat /\ Len(lh') \in Int
    BY <1>0, <1>3, <1>9, <1>10, <1>11, FS_CardinalityType
  <2>2. outstanding = 1 => Len(lh) <= W \/ Len(lh) + 2 * MAXOPBLOCKS <= LOGSIZE + OpBlocks + W
    BY Zenon, <1>1 DEF AloneInv
  <2>3. outstanding = 1 => Len(lh') <= V \/ Len(lh') + 2 * MAXOPBLOCKS <= LOGSIZE + OpBlocks + V
    <3>. HIDE DEF V, W
    <3>. QED
      BY <1>0, <2>1, <2>2, LogAssumption
  <2>4. outstanding # 0
    BY <1>2
  <2>. QED
    BY Zenon, <1>6, <1>7, <2>3, <2>4 DEF AloneInv
<1>. QED
  BY Zenon, <1>14, <1>15

(* The end of a call gives back at least as much as it has written.        *)
LEMMA EndSpace ==
  ASSUME Room, LogInv, SpaceInv, NEW p \in Ops, end_op(p)
  PROVE  SpaceInv'
<1>0. /\ pc \in [Ops -> {"idle", "begin", "asleep", "in", "commit"}]
      /\ wrote \in [Ops -> SUBSET Blocks] /\ LogTypeOK /\ OpInv
      /\ Len(lh) \in Nat /\ outstanding \in Int
  BY DEF LogInv, LogTypeOK, OpsOK, BlocksOK
<1>1. p \in Active /\ Active \in SUBSET Ops /\ ~committing /\ ~Booting
  BY Zenon, <1>0, InsideIsNone DEF end_op, Active
<1>2. Active' = Active \ {p}
  BY Zenon, <1>0, <1>1 DEF end_op, Goto, Wake, Active
<1>3. UNCHANGED <<lh, wrote, panicked>> /\ outstanding' = outstanding - 1
  BY Zenon, <1>1 DEF end_op
<1>4. \A S \in SUBSET Active' : S \in SUBSET Active
  BY Zenon, <1>2
<1>5. /\ IsFiniteSet(wrote[p]) /\ IsFiniteSet(WrittenBy(wrote, Active \ {p}))
      /\ Cardinality(wrote[p]) <= OpBlocks
      /\ Len(lh) + outstanding * MAXOPBLOCKS <= LOGSIZE + Cardinality(WrittenBy(wrote, Active))
  BY Zenon, <1>1 DEF SpaceInv
<1>6. Len(lh) + (outstanding - 1) * MAXOPBLOCKS
        <= LOGSIZE + Cardinality(WrittenBy(wrote, Active \ {p}))
  <2>1. Cardinality(WrittenBy(wrote, Active))
          = Cardinality(WrittenBy(wrote, Active \ {p})) + Cardinality(wrote[p])
    BY Zenon, <1>0, <1>1, <1>5, WrittenSplit
  <2>2. Cardinality(wrote[p]) \in Nat /\ Cardinality(WrittenBy(wrote, Active \ {p})) \in Nat
    BY Zenon, <1>5, FS_CardinalityType
  <2>3. /\ (outstanding - 1) * MAXOPBLOCKS = outstanding * MAXOPBLOCKS - MAXOPBLOCKS
        /\ outstanding * MAXOPBLOCKS \in Int
    BY <1>0, LogAssumption
  <2>. QED
    BY <1>0, <1>5, <2>1, <2>2, <2>3, LogAssumption DEF Room
<1>7. outstanding' * MAXOPBLOCKS = (outstanding - 1) * MAXOPBLOCKS
  BY Zenon, <1>3
<1>8. Logged' = Logged
  BY Zenon, <1>3 DEF Logged
<1>. QED
  BY Zenon, <1>2, <1>3, <1>4, <1>6, <1>7, <1>8 DEF SpaceInv

(* A call begins alone on an empty header.                                 *)
LEMMA BeginAlone ==
  ASSUME LogInv, SpaceInv, SpaceInv', AloneInv, NEW p \in Ops, begin_op(p)
  PROVE  AloneInv'
<1>0. /\ pc \in [Ops -> {"idle", "begin", "asleep", "in", "commit"}]
      /\ wrote \in [Ops -> SUBSET Blocks] /\ outstanding \in Nat
  BY Zenon, ActiveFinite DEF LogInv, LogTypeOK, OpsOK, OpInv, SpaceInv
<1>1. UNCHANGED <<lh, committing, step>> /\ wrote' = [wrote EXCEPT ![p] = {}] /\ p \notin Active
  BY Zenon DEF begin_op, Active
<1>2. CASE MayBegin
  <2>1. outstanding' = outstanding + 1
    BY Zenon, <1>2 DEF begin_op
  <2>2. outstanding' # 0 /\ (outstanding' = 1 => outstanding = 0)
    BY <1>0, <2>1
  <2>3. Cardinality(WrittenBy(wrote', Active')) \in Nat
    BY Zenon, FS_CardinalityType DEF SpaceInv
  <2>4. lh = <<>> => Len(lh) <= Cardinality(WrittenBy(wrote', Active'))
    BY <2>3
  <2>. QED
    BY Zenon, <1>1, <2>2, <2>4 DEF AloneInv, Booting
<1>3. CASE ~MayBegin
  <2>1. outstanding' = outstanding /\ Active' = Active
    BY Zenon, <1>0, <1>3 DEF begin_op, Goto, Active
  <2>2. \A q \in Active : wrote'[q] = wrote[q]
    BY Zenon, <1>0, <1>1 DEF Active
  <2>3. WrittenBy(wrote', Active) = WrittenBy(wrote, Active)
    BY ZenonT(40), <2>2, WrittenSame
  <2>. QED
    BY Zenon, <1>1, <2>1, <2>3 DEF AloneInv, Booting
<1>. QED
  BY Zenon, <1>2, <1>3

(* The last but one to end has written at most OpBlocks blocks.            *)
LEMMA EndAlone ==
  ASSUME LogInv, SpaceInv, NEW p \in Ops, end_op(p)
  PROVE  AloneInv'
<1>0. /\ pc \in [Ops -> {"idle", "begin", "asleep", "in", "commit"}]
      /\ wrote \in [Ops -> SUBSET Blocks] /\ LogTypeOK /\ OpInv
      /\ Len(lh) \in Nat /\ outstanding \in Int
  BY DEF LogInv, LogTypeOK, OpsOK, BlocksOK
<1>1. p \in Active /\ Active \in SUBSET Ops /\ ~committing /\ ~Booting
  BY Zenon, <1>0, InsideIsNone DEF end_op, Active
<1>2. /\ Active' = Active \ {p} /\ UNCHANGED <<lh, wrote>> /\ outstanding' = outstanding - 1
      /\ outstanding' = 0 => committing'
  BY Zenon, <1>0, <1>1 DEF end_op, Goto, Wake, Active
<1>3. /\ IsFiniteSet(wrote[p]) /\ IsFiniteSet(WrittenBy(wrote, Active \ {p}))
      /\ Cardinality(wrote[p]) <= OpBlocks
      /\ Len(lh) + outstanding * MAXOPBLOCKS <= LOGSIZE + Cardinality(WrittenBy(wrote, Active))
  BY Zenon, <1>1 DEF SpaceInv
<1>4. Cardinality(WrittenBy(wrote, Active))
        = Cardinality(WrittenBy(wrote, Active \ {p})) + Cardinality(wrote[p])
  BY Zenon, <1>0, <1>1, <1>3, WrittenSplit
<1>5. Cardinality(wrote[p]) \in Nat /\ Cardinality(WrittenBy(wrote, Active \ {p})) \in Nat
  BY Zenon, <1>3, FS_CardinalityType
<1>6. outstanding' = 1 =>
        Len(lh) + 2 * MAXOPBLOCKS
          <= LOGSIZE + OpBlocks + Cardinality(WrittenBy(wrote, Active \ {p}))
  <2>1. outstanding' = 1 => outstanding = 2
    BY <1>0, <1>2
  <2>. QED
    BY <1>0, <1>3, <1>4, <1>5, <2>1, LogAssumption
<1>. QED
  BY Zenon, <1>2, <1>6 DEF AloneInv

(* While a commit or a recovery runs nobody holds a reserve.               *)
LEMMA IdleSpace ==
  ASSUME SpaceInv, UNCHANGED wrote, ~panicked', Active = {}, Active' = {},
         committing' \/ Booting' \/ (lh' = <<>> /\ outstanding' = 0)
  PROVE  SpaceInv'
<1>1. /\ IsFiniteSet(WrittenBy(wrote, {}))
      /\ Cardinality(WrittenBy(wrote, {})) <= Cardinality({}) * OpBlocks
  BY Zenon DEF SpaceInv
<1>2. Cardinality(WrittenBy(wrote, {})) \in Nat
  BY Zenon, <1>1, FS_CardinalityType
<1>3. Len(<<>>) + 0 * MAXOPBLOCKS <= LOGSIZE + Cardinality(WrittenBy(wrote, {}))
  BY <1>2, LogAssumption
<1>. QED
  BY Zenon, <1>1, <1>3 DEF SpaceInv

(* A crash ends every call.                                                *)
LEMMA CrashSpace ==
  ASSUME Crash
  PROVE  SpaceInv'
<1>1. Active' = {} /\ ~panicked' /\ Booting'
  BY Zenon DEF Crash, Active, Booting
<1>2. WrittenBy(wrote', {}) = {}
  BY Zenon DEF WrittenBy
<1>3. IsFiniteSet({}) /\ Cardinality({}) = 0
  BY Zenon, FS_EmptySet
<1>4. Cardinality({}) <= Cardinality({}) * OpBlocks
  BY <1>3, LogAssumption
<1>. QED
  BY Zenon, <1>1, <1>2, <1>3, <1>4 DEF SpaceInv

(* Every step keeps room for the calls that are inside.                    *)
LEMMA SpaceStep ==
  ASSUME Room, LogInv, LogInv', SpaceInv, AloneInv, [Next]_vars
  PROVE  SpaceInv'
<1>0. LogTypeOK /\ OpInv /\ StepInv /\ LogTypeOK' /\ OpInv' /\ StepInv' /\ ~panicked
  BY Zenon DEF LogInv, SpaceInv
<1>1. CASE UNCHANGED <<wrote, panicked, outstanding, lh, committing, step>> /\ Active' = Active
  BY <1>1 DEF SpaceInv, Logged, Booting
<1>2. ASSUME NEW p \in Ops, Call(p) PROVE SpaceInv'
  <2>1. Active' = Active
    BY Zenon, <1>0, <1>2 DEF Call, Goto, Active, LogTypeOK, OpsOK
  <2>. QED
    BY Zenon, <1>1, <1>2, <2>1 DEF Call
<1>3. CASE write_log \/ write_head \/ install_trans \/ erase_log
  <2>1. committing /\ UNCHANGED <<wrote, panicked, committing, pc>>
    BY Zenon, <1>0, <1>3 DEF write_log, write_head, install_trans, erase_log, Install, Erase, OpInv
  <2>. QED
    BY Zenon, <1>0, <2>1, IdleSpace DEF OpInv, Active
<1>4. CASE read_head \/ replay \/ clear_log
  <2>1. /\ Booting /\ UNCHANGED <<wrote, panicked, pc>>
        /\ step' \in {"replay", "clear"} \/ lh' = <<>>
    BY Zenon, <1>4 DEF read_head, replay, clear_log, Install, Erase, Booting
  <2>2. Active = {} /\ Active' = {} /\ outstanding' = 0
    <3>1. Active = {} /\ Active' = {} /\ outstanding' = Cardinality(Active')
      BY Zenon, <1>0, <2>1 DEF OpInv, Active
    <3>. QED
      BY Zenon, <3>1, FS_EmptySet
  <2>. QED
    BY Zenon, <1>0, <2>1, <2>2, IdleSpace DEF Booting
<1>5. ASSUME NEW p \in Ops, EndCommit(p) PROVE SpaceInv'
  <2>1. /\ step = "done" /\ committing /\ UNCHANGED <<wrote, panicked, lh, outstanding>>
        /\ pc' = Wake([pc EXCEPT ![p] = "idle"])
    BY Zenon, <1>0, <1>5 DEF EndCommit, OpInv
  <2>2. lh = <<>> /\ Active = {} /\ outstanding = 0
    BY Zenon, <1>0, <2>1 DEF StepInv, OpInv
  <2>3. Active' = {}
    BY Zenon, <1>0, <2>1, <2>2 DEF Active, Wake, LogTypeOK, OpsOK
  <2>. QED
    BY Zenon, <1>0, <2>1, <2>2, <2>3, IdleSpace
<1>6. CASE UNCHANGED vars
  BY Zenon, <1>1, <1>6 DEF vars, Active
<1>. QED
  BY Zenon, <1>0, <1>2, <1>3, <1>4, <1>5, <1>6, LogStepCases, BeginSpace, WriteSpace, EndSpace,
     CrashSpace

LEMMA AloneStep ==
  ASSUME Room, LogInv, LogInv', SpaceInv, SpaceInv', AloneInv, [Next]_vars
  PROVE  AloneInv'
<1>0. /\ pc \in [Ops -> {"idle", "begin", "asleep", "in", "commit"}] /\ LogTypeOK'
      /\ OpInv /\ StepInv
  BY Zenon DEF LogInv, LogTypeOK, OpsOK
<1>1. CASE UNCHANGED <<wrote, outstanding, lh, committing, step>> /\ Active' = Active
  BY Zenon, <1>1 DEF AloneInv, Booting
<1>2. ASSUME NEW p \in Ops, Call(p) PROVE AloneInv'
  <2>1. Active' = Active
    BY Zenon, <1>0, <1>2 DEF Call, Goto, Active
  <2>. QED
    BY Zenon, <1>1, <1>2, <2>1 DEF Call
<1>3. CASE write_log \/ write_head \/ install_trans \/ erase_log
  <2>1. committing'
    BY Zenon, <1>0, <1>3 DEF write_log, write_head, install_trans, erase_log, Install, Erase, OpInv
  <2>. QED
    BY Zenon, <2>1 DEF AloneInv
<1>4. CASE read_head \/ replay \/ clear_log
  <2>1. Booting /\ (Booting' \/ lh' = <<>>) /\ UNCHANGED <<outstanding, committing>>
    BY Zenon, <1>4 DEF read_head, replay, clear_log, Install, Erase, Booting
  <2>2. Active = {} /\ outstanding = Cardinality(Active)
    BY Zenon, <1>0, <2>1 DEF OpInv
  <2>3. outstanding' # 1
    BY <2>1, <2>2, FS_EmptySet
  <2>. QED
    BY Zenon, <2>1, <2>3 DEF AloneInv
<1>5. ASSUME NEW p \in Ops, EndCommit(p) PROVE AloneInv'
  <2>1. step = "done" /\ UNCHANGED <<lh, outstanding>>
    BY Zenon, <1>5 DEF EndCommit
  <2>2. lh' = <<>> /\ outstanding' = 0
    BY Zenon, <1>0, <2>1 DEF StepInv, OpInv
  <2>3. outstanding' # 1
    BY <2>2
  <2>. QED
    BY Zenon, <2>2, <2>3 DEF AloneInv
<1>6. CASE Crash
  BY Zenon, <1>6 DEF Crash, AloneInv, Booting
<1>7. CASE UNCHANGED vars
  BY Zenon, <1>1, <1>7 DEF vars, Active
<1>. QED
  BY Zenon, <1>0, <1>2, <1>3, <1>4, <1>5, <1>6, <1>7, LogStepCases, BeginAlone, WriteSpace, EndAlone

(* The space that begin_op reserves for each system call is enough: when   *)
(* a call writes fewer than MAXOPBLOCKS blocks, and the log device has a   *)
(* block more than the header then holds (Room), neither log_write nor     *)
(* end_op panics, whatever the number of calls, of blocks and of crashes.  *)
THEOREM LogHasRoom ==
  ASSUME Room
  PROVE  Spec => []NoLogPanic
<1>1. Init => SpaceInv /\ AloneInv
  <2>. SUFFICES ASSUME Init PROVE SpaceInv /\ AloneInv
    OBVIOUS
  <2>1. Active = {} /\ ~panicked /\ lh = <<>> /\ outstanding = 0
    BY Zenon DEF Init, Active
  <2>2. WrittenBy(wrote, {}) = {}
    BY Zenon DEF WrittenBy
  <2>3. IsFiniteSet({}) /\ Cardinality({}) = 0
    BY Zenon, FS_EmptySet
  <2>4. /\ Cardinality({}) <= Cardinality({}) * OpBlocks
        /\ Len(<<>>) + 0 * MAXOPBLOCKS <= LOGSIZE + Cardinality({})
    BY <2>3, LogAssumption
  <2>5. outstanding # 1
    BY <2>1
  <2>. QED
    BY Zenon, <2>1, <2>2, <2>3, <2>4, <2>5 DEF SpaceInv, AloneInv
<1>2. LogInv /\ LogInv' /\ SpaceInv /\ AloneInv /\ [Next]_vars => SpaceInv' /\ AloneInv'
  BY Zenon, SpaceStep, AloneStep
<1>3. SpaceInv => NoLogPanic
  BY Zenon DEF SpaceInv, NoLogPanic
<1>. QED
  BY <1>1, <1>2, <1>3, LogInductive, PTL DEF Spec

----------------------------------------------------------------------------
(* The log implements the atomic disk.                                     *)

(* What recovery makes of a block.                                         *)
LEMMA RecoveredBlock ==
  ASSUME StepInv, NEW b \in Blocks
  PROVE  /\ \A i \in 1 .. Len(hdr) : hdr[i] = b => Recovered[b] = logged[i]
         /\ (\A i \in 1 .. Len(hdr) : hdr[i] # b) => Recovered[b] = disk[b]
<1>1. ASSUME NEW i \in 1 .. Len(hdr), hdr[i] = b PROVE Recovered[b] = logged[i]
  <2> DEFINE k == CHOOSE j \in 1 .. Len(hdr) : hdr[j] = b
  <2>1. k \in 1 .. Len(hdr) /\ hdr[k] = b
    BY Zenon, <1>1
  <2>2. k = i
    BY Zenon, <1>1, <2>1 DEF StepInv, IsHeader
  <2>3. Recovered[b] = logged[k]
    BY Zenon, <1>1 DEF Recovered
  <2>. QED
    BY Zenon, <2>2, <2>3
<1>2. (\A i \in 1 .. Len(hdr) : hdr[i] # b) => Recovered[b] = disk[b]
  BY Zenon DEF Recovered
<1>. QED
  BY Zenon, <1>1, <1>2

LEMMA RecoveredIsDisk ==
  ASSUME LogTypeOK, StepInv,
         \A i \in 1 .. Len(hdr) : logged[i] = disk[hdr[i]]
  PROVE  Recovered = disk
<1>1. ASSUME NEW b \in Blocks PROVE Recovered[b] = disk[b]
  BY Zenon, RecoveredBlock
<1>2. disk = [b \in Blocks |-> disk[b]]
  BY Zenon DEF LogTypeOK, BlocksOK
<1>3. Recovered = [b \in Blocks |-> Recovered[b]]
  BY Zenon DEF Recovered
<1>. QED
  BY Zenon, <1>1, <1>2, <1>3

LEMMA OpsRefine ==
  ASSUME LogInv, LogInv', NEW p \in Ops,
         \/ Call(p) \/ begin_op(p) \/ end_op(p) \/ EndCommit(p)
         \/ \E b \in Blocks : log_write(p, b)
  PROVE  Atomic!Next \/ UNCHANGED <<Recovered, Visible, Active>>
<1>0. pc \in [Ops -> {"idle", "begin", "asleep", "in", "commit"}]
  BY Zenon DEF LogInv, LogTypeOK, OpsOK
<1>1. UNCHANGED ondisk /\ ~Booting /\ ~Booting'
  <2>1. CASE Call(p) \/ begin_op(p) \/ \E b \in Blocks : log_write(p, b)
    BY Zenon, <2>1 DEF Call, begin_op, log_write, Running, Booting
  <2>2. CASE end_op(p)
    BY Zenon, <2>2 DEF end_op, Running, Booting
  <2>3. CASE EndCommit(p)
    BY Zenon, <2>3 DEF EndCommit, Booting
  <2>. QED
    BY Zenon, <2>1, <2>2, <2>3
<1>2. Recovered' = Recovered /\ Visible = cache /\ Visible' = cache'
  BY Zenon, <1>1 DEF Recovered, Visible, ondisk
<1>3. CASE Call(p) \/ EndCommit(p)
  BY Zenon, <1>0, <1>2, <1>3 DEF Call, EndCommit, Goto, Wake, Active
<1>4. CASE begin_op(p)
  <2>1. Active' = Active \cup {p} \/ Active' = Active
    BY Zenon, <1>0, <1>4 DEF begin_op, Goto, Active
  <2>2. cache' = cache
    BY Zenon, <1>4 DEF begin_op
  <2>. QED
    BY Zenon, <1>2, <2>1, <2>2 DEF Atomic!Next, Atomic!Begin
<1>5. CASE end_op(p)
  <2>0. ~committing
    BY Zenon, <1>5, InsideIsNone DEF end_op, LogInv
  <2>1. Active' = Active \ {p}
    BY Zenon, <1>0, <1>5, <2>0 DEF end_op, Goto, Wake, Active
  <2>2. cache' = cache
    BY Zenon, <1>5 DEF end_op
  <2>. QED
    BY Zenon, <1>2, <2>1, <2>2 DEF Atomic!Next, Atomic!End
<1>6. ASSUME NEW b \in Blocks, log_write(p, b) PROVE Atomic!Next
  <2>1. /\ p \in Active /\ Active' = Active
        /\ cache' = [cache EXCEPT ![b] = writes + 1]
    BY Zenon, <1>6 DEF log_write, Active
  <2>2. writes + 1 \in 0 .. MaxWrites
    BY <1>6, LogAssumption DEF log_write, LogInv, LogTypeOK
  <2>3. Atomic!Write(p, b, writes + 1)
    BY Zenon, <1>2, <2>1 DEF Atomic!Write
  <2>. QED
    BY Zenon, <2>2, <2>3 DEF Atomic!Next
<1>. QED
  BY Zenon, <1>3, <1>4, <1>5, <1>6

LEMMA CommitRefines ==
  ASSUME LogInv, LogInv', write_log \/ write_head \/ install_trans \/ erase_log
  PROVE  Atomic!Next \/ UNCHANGED <<Recovered, Visible, Active>>
<1>0. /\ Active' = Active /\ ~Booting /\ ~Booting' /\ ~panicked
      /\ committing /\ LogTypeOK /\ StepInv /\ LogTypeOK' /\ StepInv'
  BY Zenon DEF write_log, write_head, install_trans, erase_log, Install, Erase,
         Active, Booting, LogInv, OpInv
<1>1. Visible = cache /\ Visible' = cache'
  BY Zenon, <1>0 DEF Visible
<1>2. CASE write_log
  <2>1. hdr = <<>> /\ hdr' = <<>> /\ UNCHANGED <<disk, cache>>
    BY Zenon, <1>0, <1>2 DEF write_log, StepInv
  <2>2. Recovered = disk /\ Recovered' = disk'
    BY <1>0, <2>1 DEF Recovered, LogTypeOK, BlocksOK
  <2>. QED
    BY Zenon, <1>0, <1>1, <2>1, <2>2
<1>3. CASE write_head
  <2>1. /\ step = "head" /\ hdr' = lh /\ UNCHANGED <<disk, logged, cache, lh>>
    BY Zenon, <1>3 DEF write_head
  <2>2. ASSUME NEW b \in Blocks PROVE Recovered'[b] = cache[b]
    <3>1. CASE \E i \in 1 .. Len(lh) : lh[i] = b
      <4> DEFINE k == CHOOSE i \in 1 .. Len(lh) : lh[i] = b
      <4>1. k \in 1 .. Len(lh) /\ lh[k] = b
        BY Zenon, <3>1
      <4>2. Recovered'[b] = logged'[k]
        BY ZenonT(40), <2>1, <3>1 DEF Recovered
      <4> HIDE DEF k
      <4>3. logged[k] = cache[b]
        BY <1>0, <2>1, <4>1, HeaderSlots DEF StepInv, CopiedFrom, LogTypeOK
      <4>. QED
        BY Zenon, <2>1, <4>2, <4>3
    <3>2. CASE \A i \in 1 .. Len(lh) : lh[i] # b
      <4>1. Recovered'[b] = disk'[b]
        BY Zenon, <2>1, <3>2 DEF Recovered
      <4>2. cache[b] = disk[b]
        BY Zenon, <1>0, <3>2 DEF StepInv, Logged
      <4>. QED
        BY Zenon, <2>1, <4>1, <4>2
    <3>. QED
      BY Zenon, <3>1, <3>2
  <2>3. Recovered' = cache
    <3>1. cache = [b \in Blocks |-> cache[b]]
      BY Zenon, <1>0 DEF LogTypeOK, BlocksOK
    <3>2. Recovered' = [b \in Blocks |-> Recovered'[b]]
      BY Zenon DEF Recovered
    <3>. QED
      BY Zenon, <2>2, <3>1, <3>2
  <2>4. Active = {}
    BY Zenon, <1>0 DEF LogInv, OpInv
  <2>5. Atomic!Commit
    BY Zenon, <1>0, <1>1, <2>1, <2>3, <2>4 DEF Atomic!Commit
  <2>. QED
    BY Zenon, <2>5 DEF Atomic!Next
<1>4. CASE install_trans
  <2>1. hdr = lh /\ UNCHANGED <<hdr, logged, lh>> /\ CopiedFrom(cache, Len(lh))
    BY Zenon, <1>0, <1>4 DEF install_trans, Install, StepInv
  <2>2. /\ \A b \in Blocks : b \notin Logged => disk'[b] = disk[b]
        /\ cache' = cache
    <3>1. CASE tail <= Len(lh)
      <4>1. lh[tail] \in Blocks /\ tail \in 1 .. Len(lh)
        BY <1>0, <3>1, HeaderSlots DEF LogTypeOK
      <4>2. logged[tail] = cache[lh[tail]] /\ lh[tail] \in Logged
        BY <2>1, <4>1 DEF CopiedFrom, Logged
      <4>3. /\ disk' = [disk EXCEPT ![lh[tail]] = logged[tail]]
            /\ cache' = [cache EXCEPT ![lh[tail]] = logged[tail]]
        BY Zenon, <1>4, <3>1 DEF install_trans, Install
      <4>. QED
        BY Zenon, <1>0, <4>1, <4>2, <4>3 DEF LogTypeOK, BlocksOK
    <3>2. CASE ~(tail <= Len(lh))
      BY Zenon, <1>4, <3>2 DEF install_trans, Install
    <3>. QED
      BY Zenon, <3>1, <3>2
  <2>3. Recovered' = Recovered
    BY Zenon, <2>1, <2>2 DEF Recovered, Logged
  <2>. QED
    BY Zenon, <1>0, <1>1, <2>2, <2>3
<1>5. CASE erase_log
  <2>1. /\ hdr = lh /\ CopiedFrom(disk, Len(lh)) /\ hdr' = <<>>
        /\ UNCHANGED <<disk, cache>>
    BY Zenon, <1>0, <1>5 DEF erase_log, Erase, StepInv
  <2>2. Recovered = disk
    BY <1>0, <2>1, RecoveredIsDisk, HeaderSlots DEF CopiedFrom, LogTypeOK
  <2>3. Recovered' = disk'
    BY <1>0, <2>1 DEF Recovered, LogTypeOK, BlocksOK
  <2>. QED
    BY Zenon, <1>0, <1>1, <2>1, <2>2, <2>3
<1>. QED
  BY Zenon, <1>2, <1>3, <1>4, <1>5

LEMMA RecoveryRefines ==
  ASSUME LogInv, LogInv', read_head \/ replay \/ clear_log \/ Crash
  PROVE  Atomic!Next \/ UNCHANGED <<Recovered, Visible, Active>>
<1>0. LogTypeOK /\ StepInv /\ LogTypeOK' /\ StepInv'
  BY Zenon DEF LogInv
<1>1. CASE Crash
  <2>1. UNCHANGED <<disk, hdr, logged>> /\ Booting' /\ Active' = {}
    BY Zenon, <1>1 DEF Crash, ondisk, Booting, Active
  <2>2. Recovered' = Recovered /\ Visible' = Recovered'
    BY Zenon, <2>1 DEF Recovered, Visible
  <2>. QED
    BY Zenon, <2>1, <2>2 DEF Atomic!Next, Atomic!Crash
<1>2. CASE read_head
  <2>1. UNCHANGED <<disk, hdr, logged>> /\ Booting /\ Booting' /\ Active' = Active
    BY Zenon, <1>2 DEF read_head, ondisk, Booting, Active
  <2>2. Recovered' = Recovered
    BY Zenon, <2>1 DEF Recovered
  <2>. QED
    BY Zenon, <2>1, <2>2 DEF Visible
<1>3. CASE replay
  <2>1. /\ hdr = lh /\ UNCHANGED <<hdr, logged>> /\ Booting /\ Booting'
        /\ Active' = Active
    BY Zenon, <1>0, <1>3 DEF replay, Install, StepInv, Booting, Active
  <2>2. \A b \in Blocks : b \notin Logged => disk'[b] = disk[b]
    <3>1. CASE tail <= Len(lh)
      <4>1. lh[tail] \in Blocks /\ lh[tail] \in Logged
        BY SMTT(30), <1>0, <3>1, HeaderSlots DEF LogTypeOK, Logged
      <4>. QED
        BY Zenon, <1>0, <1>3, <3>1, <4>1 DEF replay, Install, LogTypeOK, BlocksOK
    <3>2. CASE ~(tail <= Len(lh))
      BY Zenon, <1>3, <3>2 DEF replay, Install
    <3>. QED
      BY Zenon, <3>1, <3>2
  <2>3. Recovered' = Recovered
    BY Zenon, <2>1, <2>2 DEF Recovered, Logged
  <2>. QED
    BY Zenon, <2>1, <2>3 DEF Visible
<1>4. CASE clear_log
  <2>1. /\ hdr = lh /\ CopiedFrom(disk, Len(lh)) /\ hdr' = <<>> /\ Booting
        /\ ~Booting' /\ cache = disk /\ UNCHANGED <<disk, cache>>
        /\ Active' = Active
    BY Zenon, <1>0, <1>4 DEF clear_log, Erase, StepInv, Booting, Active
  <2>2. Recovered = disk
    BY SMTT(30), <1>0, <2>1, RecoveredIsDisk, HeaderSlots DEF CopiedFrom, LogTypeOK
  <2>3. Recovered' = disk'
    BY <1>0, <2>1 DEF Recovered, LogTypeOK, BlocksOK
  <2>. QED
    BY Zenon, <2>1, <2>2, <2>3 DEF Visible
<1>. QED
  BY Zenon, <1>1, <1>2, <1>3, <1>4

(* The disk that recovery leaves changes only when write_head writes the   *)
(* header of a commit, and then to what all ended system calls have made of*)
(* the blocks: begin_op, log_write, end_op and commit() of log.c implement *)
(* an atomically updated disk whenever and however often the machine stops.*)
THEOREM Recoverable == Spec => AtomicUpdates
<1>1. Init => Atomic!Init
  <2>. SUFFICES ASSUME Init PROVE Atomic!Init
    OBVIOUS
  <2>1. hdr = <<>> /\ disk = [b \in Blocks |-> 0] /\ cache = disk /\ ~Booting
    BY Zenon DEF Init, Booting
  <2>2. Recovered = disk
    BY <2>1 DEF Recovered
  <2>3. Active = {} /\ Visible = disk
    BY Zenon, <2>1 DEF Init, Active, Visible
  <2>4. 0 \in 0 .. MaxWrites
    BY LogAssumption
  <2>. QED
    BY Zenon, <2>1, <2>2, <2>3, <2>4 DEF Atomic!Init
<1>2. LogInv /\ LogInv' /\ [Next]_vars
        => [Atomic!Next]_<<Recovered, Visible, Active>>
  <2>. SUFFICES ASSUME LogInv, LogInv', [Next]_vars
                PROVE  Atomic!Next \/ UNCHANGED <<Recovered, Visible, Active>>
    BY Zenon
  <2>1. CASE UNCHANGED vars
    BY Zenon, <2>1 DEF vars, ondisk, Recovered, Visible, Booting, Active
  <2>. QED
    BY Zenon, <2>1, LogStepCases, OpsRefine, CommitRefines, RecoveryRefines
<1>. QED
  BY <1>1, <1>2, LogInductive, PTL DEF Spec, AtomicUpdates, Atomic!Spec
=============================================================================
