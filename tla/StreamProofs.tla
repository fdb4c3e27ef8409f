----------------------------- MODULE StreamProofs -----------------------------
(***************************************************************************)
(* What is heard: on one hart, with one writer and without resume, the card*)
(* plays exactly the bytes written, in order, and no interrupt finds the   *)
(* queue empty.  First where in the stream the bytes of each node are, from*)
(* the node being filled to the last node sent; then the card.             *)
(***************************************************************************)
EXTENDS SoundCardProofs

(* Node contents d are bytes b+1, b+2, ... of what is to be heard of w.    *)
Carries(w, d, b) == \A i \in 0 .. BufSize - 1 : d[i] = Expected(w, b + i + 1)

(* The position in the stream of the first byte of d.                      *)
Base(d) == d[0][2] - 1

(* What the writer has put where, at each control point.                   *)
Filling == {"idle", "zero", "fit", "copy", "fill"}
Sending == {"send", "add", "walk"}
Seeking == {"scan", "take", "took"}

(* Node n holds k bytes of the stream from position b on, then silence.    *)
Holds(w, n, k, b) ==
  \A i \in 0 .. BufSize - 1 :
    data[n][i] = IF i < k THEN Byte(w, b + i + 1) ELSE Silence

FillInv(w) ==
  /\ used_size <= rd[w] /\ rd[w] <= StreamLen
  /\ pc[w] \in {"zero", "fit", "copy", "copied", "fill"} \cup Seeking
       \/ (pc[w] \in Sending /\ ret[w] = "scan") => rd[w] + size[w] <= StreamLen
  /\ pc[w] \in Filling =>
       Holds(w, buffer_index, used_size, rd[w] - used_size)
  /\ pc[w] = "copied" =>
       Holds(w, buffer_index, used_size + size[w], rd[w] - used_size)
  /\ pc[w] = "took" =>
       Holds(w, idx[w], size[w] - ra[w], rd[w] + ra[w])
  /\ pc[w] \in Sending => /\ Carries(w, data[buffer_index], rd[w] - used_size)
                          /\ rd[w] - used_size < StreamLen

(* The position up to which nodes have been sent.                          *)
SentTo(w) == IF pc[w] \in Seeking THEN rd[w] - used_size + BufSize
                                  ELSE rd[w] - used_size

(* The nodes in the queue carry consecutive stretches of the stream.       *)
ChainInv(w) ==
  /\ \A j \in 1 .. Len(queue) :
       /\ Base(queue[j].data) \in Nat /\ Base(queue[j].data) < StreamLen
       /\ Carries(w, queue[j].data, Base(queue[j].data))
  /\ \A j \in 1 .. Len(queue) - 1 :
       Base(queue[j + 1].data) = Base(queue[j].data) + BufSize
  /\ pc[w] # "exited" /\ Len(queue) > 0 =>
       Base(queue[Len(queue)].data) + BufSize = SentTo(w)

(* The card is in the node at the head of the queue, or has finished it    *)
(* and its interrupt is on the way, or has nothing to play and has halted. *)
Pending == irq \/ ipc \in {"enter", "unlink"}

CardInv(w) ==
  /\ ~panicked /\ setplay # 5
  /\ irq => ipc \in {"idle", "enter"}
  /\ ipc = "enter" => irq
  /\ Len(queue) = 0 =>
       /\ halted /\ pos = 0 /\ ~Pending
       /\ pc[w] # "exited" => Len(out) = SentTo(w)
  /\ Len(queue) > 0 =>
       /\ bdbar
       /\ Pending => /\ halted /\ pos = 0
                     /\ Len(out) = Base(queue[1].data) + BufSize
       /\ ipc = "restart" => /\ halted /\ pos = 0
                             /\ Len(out) = Base(queue[1].data)
       /\ ~Pending /\ ipc = "idle" => /\ ~halted /\ list = queue[1].node
                                      /\ Len(out) = Base(queue[1].data) + pos

HeardInv(w) == \A k \in 1 .. Len(out) : out[k] = Expected(w, k)

StreamInv(w) == QueueInv(w) /\ FillInv(w) /\ ChainInv(w) /\ CardInv(w) /\ HeardInv(w)

----------------------------------------------------------------------------
(* What the writer puts in the nodes.                                      *)

LEMMA FillStep ==
  ASSUME NEW w, Procs = {w}, QueueInv(w), FillInv(w), [Next]_vars
  PROVE  FillInv(w)'
<1> USE SizeAssumption
<1> USE DEF Filling, Sending, Seeking, Goto
<1>0. /\ w \in Procs /\ SizeInv(w) /\ WriterInv(w)
      /\ data \in [Nodes -> Contents] /\ buffer_index \in Nodes
      /\ used_size \in 0 .. BufSize - 1
      /\ pc \in [Procs -> {"idle", "zero", "fit", "copy", "copied", "fill", "send",
                           "add", "walk", "scan", "take", "took", "exited"}]
      /\ rd \in [Procs -> Nat] /\ size \in [Procs -> 0 .. MaxChunk]
      /\ ra \in [Procs -> 0 .. MaxChunk] /\ nd \in [Procs -> Nodes]
      /\ idx \in [Procs -> Nodes]
      /\ ret \in [Procs -> {"idle", "scan", "exited"}]
  BY DEF QueueInv, SizeInv, TypeOK, BufOK, ProcOK
<1>1. CASE UNCHANGED <<data, buffer_index, used_size, pc, loc>>
  BY Zenon, <1>1 DEF FillInv, Holds, Carries, loc
<1>2. ASSUME NEW s \in 1 .. MaxChunk, rd[w] + s <= StreamLen, WriteCall(w, s)
      PROVE  FillInv(w)'
  BY Zenon, <1>0, <1>2 DEF WriteCall, FillInv, Holds, buf
<1>3. CASE rd[w] = StreamLen /\ FinishCall(w)
  <2>1. CASE used_size > 0
    <3>1. Carries(w, data[buffer_index], rd[w] - used_size)
      BY <1>0, <1>3, <2>1 DEF FinishCall, FillInv, Holds, Carries, Expected
    <3>. QED
      BY <1>0, <1>3, <2>1, <3>1 DEF FinishCall, FillInv, Carries, buf
  <2>2. CASE ~(used_size > 0)
    BY Zenon, <1>0, <1>3, <2>2 DEF FinishCall, FillInv, buf
  <2>. QED
    BY Zenon, <2>1, <2>2
<1>4. CASE ZeroNode(w)
  BY <1>0, <1>4 DEF ZeroNode, Zeroed, Silent, FillInv, Holds, loc
<1>5. CASE TestFit(w)
  BY Zenon, <1>0, <1>5 DEF TestFit, FillInv, Holds, loc, buf
<1>6. CASE CopyChunk(w)
  <2>1. /\ rd' = rd /\ used_size' = used_size /\ size' = size
        /\ buffer_index' = buffer_index /\ pc'[w] = "copied"
        /\ data'[buffer_index] = Moved(buffer_index, used_size, w, size[w])
        /\ used_size <= rd[w] /\ rd[w] <= StreamLen /\ rd[w] + size[w] <= StreamLen
    BY Zenon, <1>0, <1>6 DEF CopyChunk, SizeInv, FillInv, loc
  <2>2. ASSUME NEW i \in 0 .. BufSize - 1
        PROVE  data'[buffer_index][i] =
                 IF i < used_size + size[w] THEN Byte(w, rd[w] - used_size + i + 1)
                                            ELSE Silence
    <3>1. data[buffer_index][i] = IF i < used_size
                                    THEN Byte(w, rd[w] - used_size + i + 1)
                                    ELSE Silence
      BY Zenon, <1>6 DEF CopyChunk, FillInv, Holds
    <3>2. rd[w] + (i - used_size) + 1 = rd[w] - used_size + i + 1
      BY <1>0
    <3>. QED
      BY SMTT(60), <1>0, <2>1, <3>1, <3>2 DEF Moved
  <2>. QED
    BY Zenon, <1>0, <2>1, <2>2 DEF FillInv, Holds
<1>a. CASE EndCopy(w)
  <2>1. /\ rd'[w] = rd[w] + size[w] /\ used_size' = used_size + size[w]
        /\ UNCHANGED <<buffer_index, data>> /\ pc'[w] = "idle"
        /\ Holds(w, buffer_index, used_size + size[w], rd[w] - used_size)
        /\ used_size <= rd[w] /\ rd[w] + size[w] <= StreamLen
    BY Zenon, <1>0, <1>a DEF EndCopy, FillInv
  <2>2. /\ rd'[w] - used_size' = rd[w] - used_size
        /\ used_size' <= rd'[w] /\ rd'[w] <= StreamLen
    BY <1>0, <2>1
  <2>3. ASSUME NEW i \in 0 .. BufSize - 1
        PROVE  data'[buffer_index'][i] =
                 IF i < used_size' THEN Byte(w, (rd'[w] - used_size') + i + 1)
                                   ELSE Silence
    BY Zenon, <2>1, <2>2 DEF Holds
  <2>. QED
    BY Zenon, <2>1, <2>2, <2>3 DEF FillInv, Holds
<1>7. CASE FillNode(w)
  <2>1. /\ rd' = rd /\ used_size' = used_size /\ buffer_index' = buffer_index
        /\ pc'[w] = "send" /\ ret'[w] = "scan" /\ size' = size
        /\ data'[buffer_index] =
             Moved(buffer_index, used_size, w, BufSize - used_size)
        /\ BufSize - used_size <= size[w] /\ rd[w] + size[w] <= StreamLen
        /\ used_size <= rd[w]
    BY <1>0, <1>7 DEF FillNode, SizeInv, FillInv
  <2>2. ASSUME NEW i \in 0 .. BufSize - 1
        PROVE  data'[buffer_index][i] = Expected(w, rd[w] - used_size + i + 1)
    <3>1. data[buffer_index][i] = IF i < used_size
                                    THEN Byte(w, rd[w] - used_size + i + 1)
                                    ELSE Silence
      BY Zenon, <1>7 DEF FillNode, FillInv, Holds
    <3>2. rd[w] + (i - used_size) + 1 = rd[w] - used_size + i + 1
      BY <1>0
    <3>3. rd[w] - used_size + i + 1 <= StreamLen
      BY <1>0, <2>1
    <3>. QED
      BY SMTT(60), <1>0, <2>1, <3>1, <3>2, <3>3 DEF Moved, Expected
  <2>3. rd[w] - used_size < StreamLen
    BY <1>0, <2>1
  <2>. QED
    BY Zenon, <1>0, <2>1, <2>2, <2>3 DEF FillInv, Carries
<1>b. CASE SendNode(w)
  BY Zenon, <1>0, <1>b DEF SendNode, FillInv, Carries
<1>8. CASE Scan(w)
  BY SMTT(60), <1>0, <1>8 DEF Scan, FillInv, buf
<1>9. CASE TakeNode(w)
  <2>1. /\ UNCHANGED <<rd, size, ra, idx, used_size>> /\ pc'[w] = "took"
        /\ data'[idx[w]] = Rest(w) /\ rd[w] + size[w] <= StreamLen
        /\ used_size <= rd[w] /\ rd[w] <= StreamLen
    BY Zenon, <1>0, <1>9 DEF TakeNode, FillInv, loc
  <2>. QED
    BY Zenon, <1>0, <2>1 DEF FillInv, Holds, Rest
<1>c. CASE EndTake(w)
  <2>1. /\ rd'[w] = rd[w] + size[w] /\ used_size' = size[w] - ra[w]
        /\ buffer_index' = idx[w] /\ pc'[w] = "idle" /\ data' = data
        /\ rd[w] + size[w] <= StreamLen /\ ra[w] <= size[w]
        /\ Holds(w, idx[w], size[w] - ra[w], rd[w] + ra[w])
    BY Zenon, <1>0, <1>c DEF EndTake, FillInv, SizeInv
  <2>2. rd[w] + ra[w] = rd'[w] - used_size' /\ used_size' <= rd'[w]
    BY <1>0, <2>1
  <2>. QED
    BY Zenon, <1>0, <2>1, <2>2 DEF FillInv, Holds
<1>10. CASE AcquireAdd(w)
  BY Zenon, <1>0, <1>10 DEF AcquireAdd, FillInv, Carries
<1>11. CASE WalkStep(w)
  BY Zenon, <1>0, <1>11 DEF WalkStep, FillInv, Carries, buf
<1>12. CASE LinkNode(w)
  BY Zenon, <1>0, <1>12 DEF LinkNode, FillInv, SizeInv, loc
<1>. QED
  BY Zenon, StepCases, <1>1, <1>2, <1>3, <1>4, <1>5, <1>6, <1>7, <1>8, <1>9, <1>10,
     <1>11, <1>12, <1>a, <1>b, <1>c
  DEF CardStep, Claim, IntrEnter, IntrUnlink, IntrRestart, SetPlay,
      SetPlayWrite, vars, buf

----------------------------------------------------------------------------
(* The queue carries the stream.                                           *)

LEMMA SentToStep ==
  ASSUME NEW w, Procs = {w}, QueueInv(w), [Next]_vars, ~LinkNode(w),
         pc'[w] # "exited"
  PROVE  pc[w] # "exited" /\ SentTo(w)' = SentTo(w)
<1> USE SizeAssumption
<1> USE DEF SentTo, Seeking, Goto
<1>0. /\ w \in Procs /\ SizeInv(w)
      /\ used_size \in 0 .. BufSize - 1
      /\ pc \in [Procs -> {"idle", "zero", "fit", "copy", "copied", "fill", "send",
                           "add", "walk", "scan", "take", "took", "exited"}]
      /\ rd \in [Procs -> Nat] /\ size \in [Procs -> 0 .. MaxChunk]
      /\ ra \in [Procs -> 0 .. MaxChunk]
  BY DEF QueueInv, SizeInv, TypeOK, BufOK, ProcOK
<1>1. CASE UNCHANGED <<used_size, pc, rd>>
  BY Zenon, <1>1
<1>2. ASSUME NEW s \in 1 .. MaxChunk, WriteCall(w, s)
      PROVE  pc[w] # "exited" /\ SentTo(w)' = SentTo(w)
  BY Zenon, <1>0, <1>2 DEF WriteCall, buf
<1>3. CASE FinishCall(w)
  BY Zenon, <1>0, <1>3 DEF FinishCall, buf
<1>4. CASE ZeroNode(w) \/ TestFit(w) \/ CopyChunk(w) \/ SendNode(w) \/ AcquireAdd(w)
  BY Zenon, <1>0, <1>4 DEF ZeroNode, TestFit, CopyChunk, SendNode, AcquireAdd, buf, loc
<1>5. CASE EndCopy(w)
  BY <1>0, <1>5 DEF EndCopy
<1>a. CASE FillNode(w)
  BY Zenon, <1>0, <1>a DEF FillNode
<1>6. CASE Scan(w) \/ TakeNode(w)
  <2>1. /\ UNCHANGED <<used_size, rd>> /\ pc[w] \in {"scan", "take"}
        /\ \/ pc' = pc \/ pc' = [pc EXCEPT ![w] = "take"]
           \/ pc' = [pc EXCEPT ![w] = "took"]
    BY Zenon, <1>6 DEF Scan, TakeNode, buf, loc
  <2>. QED
    BY Zenon, <1>0, <2>1
<1>7. CASE EndTake(w)
  <2>1. /\ used_size' = size[w] - ra[w] /\ rd' = [rd EXCEPT ![w] = @ + size[w]]
        /\ pc[w] = "took" /\ pc' = [pc EXCEPT ![w] = "idle"]
    BY Zenon, <1>7 DEF EndTake
  <2>2. ra[w] = BufSize - used_size
    BY Zenon, <1>0, <2>1 DEF SizeInv
  <2>. QED
    BY <1>0, <2>1, <2>2
<1>. QED
  BY Zenon, StepCases, <1>1, <1>2, <1>3, <1>4, <1>5, <1>6, <1>7, <1>a
  DEF WalkStep, CardStep, Claim, IntrEnter, IntrUnlink, IntrRestart, SetPlay,
      SetPlayWrite, vars, buf, loc

(* The node being sent carries the stretch that follows what was sent.     *)
LEMMA SendingBase ==
  ASSUME NEW w, Procs = {w}, QueueInv(w), FillInv(w), pc[w] \in {"add", "walk"}
  PROVE  /\ Base(data[nd[w]]) = SentTo(w) /\ SentTo(w) = rd[w] - used_size
         /\ SentTo(w) \in Nat /\ SentTo(w) < StreamLen
         /\ Carries(w, data[nd[w]], SentTo(w))
<1> USE SizeAssumption
<1>1. /\ rd[w] \in Nat /\ used_size \in Nat /\ used_size <= rd[w]
      /\ rd[w] - used_size < StreamLen
      /\ Carries(w, data[nd[w]], rd[w] - used_size)
  BY Zenon DEF QueueInv, TypeOK, BufOK, ProcOK, FillInv, Sending, WriterInv
<1>2. SentTo(w) = rd[w] - used_size
  BY Zenon DEF SentTo, Sending, Seeking
<1>3. data[nd[w]][0] = Byte(w, rd[w] - used_size + 1)
  BY <1>1 DEF Carries, Expected
<1>. QED
  BY <1>1, <1>2, <1>3 DEF Base, Byte

LEMMA ChainStep ==
  ASSUME NEW w, Procs = {w}, ~SMP, QueueInv(w), FillInv(w), ChainInv(w), [Next]_vars
  PROVE  ChainInv(w)'
<1> USE SizeAssumption
<1>0. TypeOK /\ QueueLinked /\ SizeInv(w) /\ Len(queue) \in Nat
  BY Zenon, QueueEntries DEF QueueInv, TypeOK
<1>1. CASE UNCHANGED queue /\ ~LinkNode(w)
  BY Zenon, <1>1, SentToStep DEF ChainInv, Carries
<1>2. CASE IntrUnlink
  <2>1. queue # <<>>
    BY Zenon, <1>2 DEF IntrUnlink, QueueInv
  <2>2. /\ Len(queue) >= 1 /\ Len(queue') = Len(queue) - 1
        /\ \A j \in 1 .. Len(queue') : queue'[j] = queue[j + 1]
    BY Zenon, <1>0, <1>2, <2>1, UnlinkQueue
  <2>3. pc' = pc /\ SentTo(w)' = SentTo(w)
    BY Zenon, <1>2 DEF IntrUnlink, SentTo, buf, loc
  <2>4. ASSUME NEW j \in 1 .. Len(queue')
        PROVE  /\ Base(queue'[j].data) \in Nat /\ Base(queue'[j].data) < StreamLen
               /\ Carries(w, queue'[j].data, Base(queue'[j].data))
    <3>1. j + 1 \in 1 .. Len(queue) /\ queue'[j] = queue[j + 1]
      BY <1>0, <2>2
    <3>. QED
      BY Zenon, <3>1 DEF ChainInv
  <2>5. ASSUME NEW j \in 1 .. Len(queue') - 1
        PROVE  Base(queue'[j + 1].data) = Base(queue'[j].data) + BufSize
    <3>1. /\ j + 1 \in 1 .. Len(queue) - 1 /\ queue'[j] = queue[j + 1]
          /\ queue'[j + 1] = queue[(j + 1) + 1]
      BY <1>0, <2>2
    <3>. QED
      BY Zenon, <3>1 DEF ChainInv
  <2>6. pc'[w] # "exited" /\ Len(queue') > 0 =>
          Base(queue'[Len(queue')].data) + BufSize = SentTo(w)'
    BY SMTT(60), <1>0, <2>2, <2>3 DEF ChainInv
  <2>. QED
    BY Zenon, <2>4, <2>5, <2>6 DEF ChainInv, Carries
<1>3. CASE LinkNode(w)
  <2>1. /\ Len(queue') = Len(queue) + 1
        /\ queue'[Len(queue')] = [node |-> nd[w], data |-> data[nd[w]]]
        /\ \A j \in 1 .. Len(queue) : queue'[j] = queue[j]
    BY Zenon, <1>0, <1>3, LinkQueue, Zenon
  <2>2. pc[w] = "walk" /\ pc' = [pc EXCEPT ![w] = ret[w]]
        /\ ret[w] \in {"scan", "exited"} /\ UNCHANGED <<rd, used_size>>
    BY Zenon, <1>0, <1>3 DEF LinkNode, Goto, SizeInv, loc
  <2>3. /\ Base(data[nd[w]]) = SentTo(w) /\ SentTo(w) = rd[w] - used_size
        /\ SentTo(w) \in Nat /\ SentTo(w) < StreamLen
        /\ Carries(w, data[nd[w]], SentTo(w))
    BY Zenon, <2>2, SendingBase
  <2>4. queue'[Len(queue')].data = data[nd[w]]
    BY <2>1
  <2>5. ASSUME NEW j \in 1 .. Len(queue')
        PROVE  /\ Base(queue'[j].data) \in Nat /\ Base(queue'[j].data) < StreamLen
               /\ Carries(w, queue'[j].data, Base(queue'[j].data))
    <3>1. CASE j = Len(queue')
      BY Zenon, <2>3, <2>4, <3>1
    <3>2. CASE j \in 1 .. Len(queue)
      BY Zenon, <2>1, <3>2 DEF ChainInv
    <3>. QED
      BY SMTT(60), <1>0, <2>1, <3>1, <3>2
  <2>6. ASSUME NEW j \in 1 .. Len(queue') - 1
        PROVE  Base(queue'[j + 1].data) = Base(queue'[j].data) + BufSize
    <3>1. CASE j = Len(queue)
      <4>1. Base(queue[Len(queue)].data) + BufSize = SentTo(w)
        BY <1>0, <2>1, <2>2, <3>1 DEF ChainInv
      <4>. QED
        BY SMTT(60), <1>0, <2>1, <2>3, <2>4, <3>1, <4>1
    <3>2. CASE j \in 1 .. Len(queue) - 1
      <4>1. queue'[j] = queue[j] /\ queue'[j + 1] = queue[j + 1]
        BY <1>0, <2>1, <3>2
      <4>. QED
        BY Zenon, <3>2, <4>1 DEF ChainInv
    <3>. QED
      BY SMTT(60), <1>0, <2>1, <3>1, <3>2
  <2>7. pc'[w] # "exited" => SentTo(w)' = SentTo(w) + BufSize
    BY Zenon, <2>2, <2>3, <1>0 DEF SentTo, Seeking, TypeOK, ProcOK
  <2>8. pc'[w] # "exited" /\ Len(queue') > 0 =>
          Base(queue'[Len(queue')].data) + BufSize = SentTo(w)'
    BY Zenon, <2>3, <2>4, <2>7
  <2>. QED
    BY Zenon, <2>5, <2>6, <2>8 DEF ChainInv, Carries
<1>. QED
  BY Zenon, StepCases, <1>1, <1>2, <1>3
  DEF WriteCall, FinishCall, ZeroNode, TestFit, CopyChunk, EndCopy, FillNode,
      SendNode, Scan, TakeNode, EndTake, AcquireAdd, WalkStep, CardStep, Claim, IntrEnter, IntrRestart,
      SetPlay, SetPlayWrite, vars
----------------------------------------------------------------------------

(* The card.                                                               *)

LEMMA CardStepInv ==
  ASSUME NEW w, Procs = {w}, ~SMP, 1 \notin Controls,
         QueueInv(w), FillInv(w), ChainInv(w), CardInv(w), [Next]_vars
  PROVE  CardInv(w)'
<1> USE SizeAssumption, ConfigAssumption
<1>0. /\ TypeOK /\ LockInv(w) /\ SizeInv(w) /\ QueueLinked /\ WriterInv(w)
      /\ w \in Procs /\ ~panicked
      /\ ipc = "unlink" => queue # <<>>
      /\ pos \in 0 .. BufSize - 1 /\ out \in Seq(Bytes) /\ Len(out) \in Nat
      /\ irq \in BOOLEAN /\ halted \in BOOLEAN
      /\ ipc \in {"idle", "enter", "unlink", "restart"}
  <2>1. out \in Seq(Bytes)
    BY Zenon DEF QueueInv, TypeOK, CardOK
  <2>2. Len(out) \in Nat
    BY <2>1
  <2>. QED
    BY Zenon, <2>1, <2>2 DEF QueueInv, CardInv, TypeOK, CardOK
<1>q. /\ Len(queue) \in Nat
      /\ queue = <<>> <=> Len(queue) = 0
      /\ \A j \in 1 .. Len(queue) :
           queue[j].node \in Nodes /\ Base(queue[j].data) \in Nat
  BY Zenon, QueueEntries DEF QueueInv, TypeOK, ChainInv
<1>1. ASSUME UNCHANGED <<queue, card, ipc, setplay, panicked>>, ~LinkNode(w)
      PROVE  CardInv(w)'
  <2>1. pc'[w] # "exited" => pc[w] # "exited" /\ SentTo(w)' = SentTo(w)
    BY Zenon, <1>1, SentToStep
  <2>. QED
    BY Zenon, <1>1, <2>1 DEF CardInv, Pending, card
<1>2. CASE CardStep
  <2>1. /\ UNCHANGED <<queue, ipc, setplay, panicked, bdbar, list, pc>>
        /\ cr = 5 /\ ~halted /\ SentTo(w)' = SentTo(w)
        /\ pos' = (IF pos = BufSize - 1 THEN 0 ELSE pos + 1)
        /\ halted' = (pos = BufSize - 1)
        /\ irq' = (irq \/ pos = BufSize - 1)
    BY Zenon, <1>2 DEF CardStep, SentTo, buf, loc
  <2>2. Len(out') = Len(out) + 1
    BY <1>0, <1>2 DEF CardStep
  <2>3. /\ Len(queue) > 0 /\ ~irq /\ ipc = "idle"
        /\ Len(out) = Base(queue[1].data) + pos /\ list = queue[1].node /\ bdbar
    BY <1>0, <1>q, <2>1 DEF CardInv, Pending
  <2>4. CASE pos = BufSize - 1
    <3>1. irq' /\ halted' /\ pos' = 0
      BY Zenon, <2>1, <2>4
    <3>2. Len(out') = Base(queue[1].data) + BufSize
      BY SMTT(60), <1>0, <1>q, <2>2, <2>3, <2>4
    <3>. QED
      BY Zenon, <1>0, <2>1, <2>3, <3>1, <3>2 DEF CardInv, Pending
  <2>5. CASE pos # BufSize - 1
    <3>1. ~irq' /\ ~halted' /\ pos' = pos + 1
      BY Zenon, <2>1, <2>3, <2>5
    <3>2. Len(out') = Base(queue[1].data) + pos'
      <4>1. pos \in Int /\ Len(out) \in Nat /\ Base(queue[1].data) \in Int
        BY <1>0, <1>q, <2>3
      <4>. QED
        BY SMTT(30), <2>2, <2>3, <3>1, <4>1
    <3>. QED
      BY Zenon, <1>0, <2>1, <2>3, <3>1, <3>2 DEF CardInv, Pending
  <2>. QED
    BY Zenon, <2>4, <2>5
<1>3. CASE LinkNode(w)
  <2>1. /\ pc[w] = "walk" /\ ipc = "idle" /\ ret[w] \in {"scan", "exited"}
        /\ pc' = [pc EXCEPT ![w] = ret[w]]
        /\ UNCHANGED <<rd, used_size, ipc, setplay, panicked, pos, irq, out>>
        /\ flag[nd[w]] = 3 /\ nd[w] \notin QueueNodes
    BY Zenon, <1>0, <1>3 DEF LinkNode, SizeInv, MayRun, Goto, Play, WriterInv, card, loc
  <2>2. /\ Len(queue') = Len(queue) + 1
        /\ queue'[Len(queue')] = [node |-> nd[w], data |-> data[nd[w]]]
        /\ \A j \in 1 .. Len(queue) : queue'[j] = queue[j]
    BY Zenon, <1>0, <1>3, LinkQueue, Zenon
  <2>3. /\ Base(data[nd[w]]) = SentTo(w)
    BY Zenon, <2>1, SendingBase
  <2>4. CASE Len(queue) = 0
    <3>1. head = None /\ tail[w] = None
      <4>1. QueueNodes = {}
        BY SMTT(30), <2>4 DEF QueueNodes
      <4>. QED
        BY Zenon, <1>0, <1>q, <2>1, <2>4, <4>1 DEF QueueLinked, WriterInv
    <3>2. list' = nd[w] /\ bdbar' = TRUE /\ halted' = FALSE
      BY <1>0, <1>3, <2>1, <3>1 DEF LinkNode, Play, WriteCR
    <3>3. pos = 0 /\ ~irq /\ Len(out) = SentTo(w)
      BY Zenon, <2>1, <2>4 DEF CardInv, Pending
    <3>4. Len(queue') = 1 /\ queue'[1].node = nd[w] /\ queue'[1].data = data[nd[w]]
      BY <2>2, <2>4
    <3>5. Len(out) = Base(queue'[1].data) + pos
      BY SMTT(30), <1>0, <2>3, <3>3, <3>4
    <3>. QED
      BY SMTT(60), <2>1, <3>2, <3>3, <3>4, <3>5 DEF CardInv, Pending
  <2>5. CASE Len(queue) > 0
    <3>1. head = queue[1].node /\ head \in QueueNodes /\ head # None
      BY <1>0, <1>q, <2>5 DEF QueueLinked, QueueNodes
    <3>2. AtTail(w) = None
      BY Zenon, <1>3 DEF LinkNode
    <3>3. tail[w] # None
      BY Zenon, <3>1, <3>2 DEF AtTail
    <3>4. head' = head /\ head' # nd[w]
      BY Zenon, <1>3, <2>1, <3>1, <3>3 DEF LinkNode
    <3>5. UNCHANGED card
      BY Zenon, <1>3, <3>4 DEF LinkNode
    <3>6. queue'[1] = queue[1] /\ Len(queue') > 0
      BY SMTT(60), <1>q, <2>2, <2>5
    <3>. QED
      BY <1>q, <2>1, <2>2, <2>5, <3>5, <3>6 DEF CardInv, Pending, card
  <2>. QED
    BY <1>q, <2>4, <2>5
<1>4. CASE Claim
  <2>1. SentTo(w)' = SentTo(w)
    BY Zenon, <1>4 DEF Claim, SentTo, buf, loc
  <2>. QED
    BY Zenon, <1>4, <2>1 DEF Claim, CardInv, Pending, card
<1>5. CASE IntrEnter
  <2>1. /\ ipc = "enter" /\ irq /\ Len(queue) > 0
        /\ UNCHANGED <<queue, halted, bdbar, pos, out, pc, setplay>>
        /\ SentTo(w)' = SentTo(w)
    BY SMTT(60), <1>0, <1>q, <1>5 DEF IntrEnter, CardInv, Pending, SentTo, loc
  <2>2. head # None
    BY <1>0, <1>q, <2>1 DEF QueueLinked
  <2>3. irq' = FALSE /\ ipc' = "unlink" /\ UNCHANGED panicked
    BY Zenon, <1>5, <2>2 DEF IntrEnter
  <2>. QED
    BY Zenon, <2>1, <2>3 DEF CardInv, Pending
<1>6. CASE IntrUnlink
  <2>0. queue # <<>> /\ ipc = "unlink"
    BY Zenon, <1>0, <1>6 DEF IntrUnlink
  <2>1. /\ Len(queue) >= 1 /\ Len(queue') = Len(queue) - 1
        /\ \A j \in 1 .. Len(queue') : queue'[j] = queue[j + 1]
        /\ head # None /\ ipc' = "restart"
    BY Zenon, <1>0, <1>6, <2>0, UnlinkQueue
  <2>2. /\ UNCHANGED <<card, pc, setplay, panicked>>
        /\ SentTo(w)' = SentTo(w)
    BY Zenon, <1>6, <2>1 DEF IntrUnlink, SentTo, buf, loc
  <2>3. /\ halted /\ pos = 0 /\ ~irq /\ bdbar
        /\ Len(out) = Base(queue[1].data) + BufSize
    BY SMTT(30), <1>0, <1>q, <2>0, <2>1 DEF CardInv, Pending
  <2>4. CASE Len(queue) = 1
    <3>1. pc[w] # "exited" => Base(queue[1].data) + BufSize = SentTo(w)
      BY SMTT(30), <2>4 DEF ChainInv
    <3>. QED
      BY <2>1, <2>2, <2>3, <2>4, <3>1 DEF CardInv, Pending, card
  <2>5. CASE Len(queue) > 1
    <3>1. Base(queue[2].data) = Base(queue[1].data) + BufSize /\ queue'[1] = queue[2]
      BY <1>q, <2>1, <2>5 DEF ChainInv
    <3>. QED
      BY SMTT(60), <1>q, <2>1, <2>2, <2>3, <2>5, <3>1 DEF CardInv, Pending, card
  <2>. QED
    BY <1>q, <2>1, <2>4, <2>5
<1>7. CASE IntrRestart
  <2>1. /\ ipc = "restart" /\ ipc' = "idle" /\ ~irq
        /\ UNCHANGED <<queue, bdbar, pos, irq, out, pc, setplay, panicked>>
        /\ SentTo(w)' = SentTo(w)
    BY Zenon, <1>0, <1>7 DEF IntrRestart, CardInv, SentTo, buf, loc
  <2>2. CASE Len(queue) = 0
    <3>1. head = None
      BY Zenon, <1>0, <1>q, <2>2 DEF QueueLinked
    <3>. QED
      BY <1>7, <2>1, <2>2, <3>1 DEF IntrRestart, CardInv, Pending
  <2>3. CASE Len(queue) > 0
    <3>1. head = queue[1].node /\ head # None
      BY <1>0, <1>q, <2>3 DEF QueueLinked
    <3>2. list' = queue[1].node /\ halted' = FALSE
      BY SMTT(60), <1>7, <3>1 DEF IntrRestart, WriteCR
    <3>. QED
      BY SMTT(60), <1>0, <1>q, <2>1, <2>3, <3>2 DEF CardInv, Pending
  <2>. QED
    BY <1>q, <2>2, <2>3
<1>8. ASSUME NEW play \in Controls, SetPlay(play) PROVE CardInv(w)'
  <2>1. play = 0 /\ setplay' = 0 /\ SentTo(w)' = SentTo(w)
    BY Zenon, <1>8 DEF SetPlay, SentTo, buf, loc
  <2>. QED
    BY <1>8, <2>1 DEF SetPlay, CardInv, Pending, card
<1>9. CASE SetPlayWrite
  <2>1. setplay = 0 /\ setplay' = None /\ SentTo(w)' = SentTo(w)
    BY Zenon, <1>0, <1>9 DEF SetPlayWrite, CardInv, SentTo, buf, loc, TypeOK
  <2>2. halted' = halted
    BY Zenon, <1>0, <1>9, <2>1 DEF SetPlayWrite, WriteCR
  <2>. QED
    BY Zenon, <1>9, <2>1, <2>2 DEF SetPlayWrite, CardInv, Pending
<1>a. CASE FillNode(w)
  <2>1. used_size < BufSize /\ at[w] = used_size /\ ~LinkNode(w)
    BY Zenon, <1>0, <1>a DEF FillNode, LinkNode, SizeInv
  <2>u. used_size \in Int /\ BufSize \in Int
    BY SMTT(60), <1>0 DEF TypeOK, BufOK
  <2>2. ~(BufSize - at[w] < 0)
    BY SMTT(60), <2>1, <2>u
  <2>3. UNCHANGED <<queue, card, ipc, setplay, panicked>>
    BY Zenon, <1>a, <2>2 DEF FillNode
  <2>. QED
    BY Zenon, <1>1, <2>1, <2>3
<1>. QED
  BY Zenon, StepCases, <1>1, <1>2, <1>3, <1>4, <1>5, <1>6, <1>7, <1>8, <1>9, <1>a
  DEF WriteCall, FinishCall, ZeroNode, TestFit, CopyChunk, EndCopy, SendNode,
      Scan, TakeNode, EndTake, AcquireAdd, WalkStep, vars

LEMMA HeardStep ==
  ASSUME NEW w, Procs = {w}, QueueInv(w), ChainInv(w), CardInv(w), HeardInv(w),
         [Next]_vars
  PROVE  HeardInv(w)'
<1> USE SizeAssumption
<1>0. out \in Seq(Bytes) /\ Len(out) \in Nat /\ pos \in 0 .. BufSize - 1
  <2>1. out \in Seq(Bytes)
    BY Zenon DEF QueueInv, TypeOK, CardOK
  <2>. QED
    BY <2>1 DEF QueueInv, TypeOK, CardOK
<1>1. CASE UNCHANGED out
  BY Zenon, <1>1 DEF HeardInv
<1>2. CASE CardStep
  <2>1. Len(queue) \in Nat /\ ipc \in {"idle", "enter", "unlink", "restart"}
    BY Zenon, QueueEntries DEF QueueInv, TypeOK
  <2>2. /\ Len(queue) > 0 /\ list = queue[1].node
        /\ Len(out) = Base(queue[1].data) + pos
    BY <1>2, <2>1 DEF CardStep, CardInv, Pending
  <2>3. data[list] = queue[1].data
    BY <2>1, <2>2 DEF QueueInv, SentIntact
  <2>4. data[list][pos] = Expected(w, Base(queue[1].data) + pos + 1)
    BY SMTT(60), <1>0, <2>1, <2>2, <2>3 DEF ChainInv, Carries
  <2>5. out' = Append(out, Expected(w, Len(out) + 1))
    BY Zenon, <1>2, <2>2, <2>4 DEF CardStep
  <2>. QED
    BY <1>0, <2>5 DEF HeardInv
<1>. QED
  BY Zenon, StepCases, <1>1, <1>2
  DEF WriteCall, FinishCall, ZeroNode, TestFit, CopyChunk, EndCopy, FillNode,
      SendNode, Scan, TakeNode, EndTake, AcquireAdd, WalkStep, LinkNode, Play, Claim, IntrEnter,
      IntrUnlink, IntrRestart, SetPlay, SetPlayWrite, vars, card

----------------------------------------------------------------------------
(* On one hart, with one writer and no resume, the card plays the stream.  *)
LEMMA StreamInvariant ==
  ASSUME NEW w, Procs = {w}, ~SMP, 1 \notin Controls
  PROVE  Spec => []StreamInv(w)
<1> USE SizeAssumption, ConfigAssumption
<1>1. Init => FillInv(w) /\ ChainInv(w) /\ CardInv(w) /\ HeardInv(w)
  <2>. SUFFICES ASSUME Init
                PROVE  FillInv(w) /\ ChainInv(w) /\ CardInv(w) /\ HeardInv(w)
    OBVIOUS
  <2>1. FillInv(w)
    BY DEF Init, FillInv, Holds, Silent, Nodes, Filling, Sending, Seeking
  <2>2. queue = <<>> /\ Len(queue) = 0 /\ out = <<>> /\ Len(out) = 0
    BY Zenon DEF Init
  <2>3. ChainInv(w) /\ HeardInv(w)
    BY <2>2 DEF ChainInv, HeardInv
  <2>4. CardInv(w)
    BY <2>2 DEF Init, CardInv, Pending, SentTo, Seeking
  <2>. QED
    BY Zenon, <2>1, <2>3, <2>4
<1>2. StreamInv(w) /\ QueueInv(w)' /\ [Next]_vars => StreamInv(w)'
  BY Zenon, FillStep, ChainStep, CardStepInv, HeardStep DEF StreamInv
<1>3. Init /\ QueueInv(w) => StreamInv(w)
  BY Zenon, <1>1 DEF StreamInv
<1>. QED
  BY <1>2, <1>3, QueueInvariant, PTL DEF Spec

(* soundintr never panics: each LVB interrupt finds its node in the queue. *)
THEOREM InterruptsFindANode ==
  ASSUME NEW w, Procs = {w}, ~SMP, 1 \notin Controls
  PROVE  Spec => []NoPanic
<1>1. StreamInv(w) => NoPanic
  BY Zenon DEF StreamInv, CardInv, NoPanic
<1>. QED
  BY <1>1, StreamInvariant, PTL

(* The card plays the bytes given to writeDecodedAudio in the order they   *)
(* were written, without gap or repeat, and then only silence.             *)
THEOREM PlaysInOrder ==
  ASSUME NEW w, Procs = {w}, ~SMP, 1 \notin Controls
  PROVE  Spec => []InOrder
<1>1. StreamInv(w) => InOrder
  BY Zenon DEF StreamInv, HeardInv, InOrder
<1>. QED
  BY <1>1, StreamInvariant, PTL

(* play() and soundintr never rewrite the descriptors of a running engine. *)
THEOREM DescriptorsStable ==
  ASSUME NEW w, Procs = {w}, ~SMP, 1 \notin Controls
  PROVE  Spec => ListStable
<1>1. StreamInv(w) /\ [Next]_vars =>
        (cr = 5 /\ ~halted /\ bdbar => list' = list) \/ UNCHANGED vars
  <2>. SUFFICES ASSUME StreamInv(w), [Next]_vars, ~halted PROVE list' = list
    OBVIOUS
  <2>0. /\ TypeOK /\ SizeInv(w) /\ QueueLinked /\ WriterInv(w) /\ CardInv(w)
        /\ Len(queue) \in Nat /\ (queue = <<>> <=> Len(queue) = 0)
        /\ Len(queue) > 0
    BY QueueEntries DEF StreamInv, QueueInv, TypeOK, CardInv
  <2>1. CASE LinkNode(w)
    <3>1. head # None /\ head \in QueueNodes
      BY <2>0, QueueEntries, ConfigAssumption DEF QueueLinked, QueueNodes, TypeOK
    <3>2. nd[w] \notin QueueNodes
      BY Zenon, <2>0, <2>1 DEF LinkNode, WriterInv
    <3>3. AtTail(w) = None
      BY Zenon, <2>1 DEF LinkNode
    <3>4. tail[w] # None
      BY Zenon, <3>1, <3>3 DEF AtTail
    <3>5. head' # nd[w]
      BY Zenon, <2>1, <3>1, <3>2, <3>4 DEF LinkNode
    <3>. QED
      BY Zenon, <2>1, <3>5 DEF LinkNode, card
  <2>2. CASE IntrRestart
    BY Zenon, <2>0, <2>2 DEF IntrRestart, CardInv
  <2>. QED
    BY Zenon, StepCases, <2>1, <2>2
    DEF WriteCall, FinishCall, ZeroNode, TestFit, CopyChunk, EndCopy, FillNode,
        SendNode, Scan, TakeNode, EndTake, AcquireAdd, WalkStep, CardStep, Claim, IntrEnter, IntrUnlink,
        SetPlay, SetPlayWrite, vars, card
<1>. QED
  BY <1>1, StreamInvariant, PTL DEF Spec, ListStable
=============================================================================
