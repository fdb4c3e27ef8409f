--------------------------- MODULE SoundCardProofs ---------------------------
(***************************************************************************)
(* What holds of the sound driver for every number and size of nodes, every*)
(* chunk size and every length of stream, on a machine with one hart and   *)
(* with one writing process (the two assumptions of each theorem): first   *)
(* the types, the arithmetic of writeDecodedAudio and the discipline of    *)
(* sound_lock, then the queue of nodes.                                    *)
(***************************************************************************)
EXTENDS SoundCard, TLAPS

(* Who holds sound_lock, and that the handler and a lock section exclude   *)
(* each other on one hart.                                                 *)
LockInv(w) ==
  /\ pc[w] = "walk" <=> lock = w
  /\ ipc \in {"unlink", "restart"} => lock = "irq"
  /\ lock = "irq" => ipc # "idle"
  /\ lock = w => ipc = "idle"

(* The arithmetic of writeDecodedAudio at each of its control points.      *)
SizeInv(w) ==
  /\ used_size < BufSize
  /\ pc[w] \in {"copy", "fill"} => at[w] = used_size /\ cur[w] = buffer_index
  /\ pc[w] \in {"copy", "copied"} => used_size + size[w] < BufSize
  /\ pc[w] = "fill" => BufSize - used_size <= size[w]
  /\ pc[w] \in {"send", "add", "walk"} => ret[w] \in {"scan", "exited"}
  /\ (pc[w] \in {"scan", "take", "took"}
       \/ (pc[w] \in {"send", "add", "walk"} /\ ret[w] = "scan"))
       => ra[w] = BufSize - used_size /\ ra[w] <= size[w]

(* The node the writer fills, or is about to fill, is not in the queue.    *)
QueueNodes == {queue[j].node : j \in 1 .. Len(queue)}

WriterInv(w) ==
  /\ pc[w] \in {"idle", "zero", "fit", "copy", "copied", "fill", "send"} =>
       buffer_index \notin QueueNodes
  /\ pc[w] \in {"add", "walk"} =>
       /\ nd[w] = buffer_index /\ nd[w] \notin QueueNodes
       /\ flag[nd[w]] = 3
  /\ pc[w] = "walk" =>
       /\ next[nd[w]] = None
       /\ tail[w] \in QueueNodes \cup {None}
  /\ pc[w] = "take" => flag[idx[w]] = 0
  /\ pc[w] \in {"take", "took"} => idx[w] \notin QueueNodes

QueueDistinct ==
  \A i, j \in 1 .. Len(queue) : queue[i].node = queue[j].node => i = j

(* The head of the queue exists while the handler unlinks it.              *)
QueueInv(w) ==
  /\ TypeOK /\ LockInv(w) /\ SizeInv(w) /\ WriterInv(w)
  /\ QueueDistinct /\ QueueLinked /\ SentIntact
  /\ ipc = "unlink" => queue # <<>>

----------------------------------------------------------------------------
(* The steps of a system with the one writer w.                            *)
LEMMA StepCases ==
  ASSUME NEW w, Procs = {w}, [Next]_vars
  PROVE  \/ \E s \in 1 .. MaxChunk : rd[w] + s <= StreamLen /\ WriteCall(w, s)
         \/ rd[w] = StreamLen /\ FinishCall(w)
         \/ ZeroNode(w) \/ TestFit(w) \/ CopyChunk(w) \/ EndCopy(w)
         \/ FillNode(w) \/ SendNode(w) \/ Scan(w) \/ TakeNode(w) \/ EndTake(w)
         \/ AcquireAdd(w) \/ WalkStep(w) \/ LinkNode(w)
         \/ CardStep \/ Claim \/ IntrEnter \/ IntrUnlink \/ IntrRestart
         \/ (\E play \in Controls : SetPlay(play)) \/ SetPlayWrite
         \/ UNCHANGED vars
  BY Zenon DEF Next, Client, InDriver, Interrupt, Control

(* memset and memmove keep a node's contents an array of BufSize bytes.    *)
LEMMA SilentType == Silent \in Contents
  BY Zenon DEF Silent, Contents, Bytes

LEMMA MovedType ==
  ASSUME NEW w \in Procs, data \in [Nodes -> Contents], rd \in [Procs -> Nat],
         NEW n \in Nodes, NEW o \in Nat, NEW k \in Nat
  PROVE  Moved(n, o, w, k) \in Contents
<1>. SUFFICES ASSUME NEW i \in 0 .. BufSize - 1
     PROVE  (IF o <= i /\ i < o + k THEN Byte(w, rd[w] + (i - o) + 1)
                                     ELSE data[n][i]) \in Bytes
  BY Zenon DEF Moved, Contents
<1>1. CASE o <= i /\ i < o + k
  <2>1. rd[w] + (i - o) + 1 \in Nat
    BY <1>1, SizeAssumption
  <2>. QED
    BY Zenon, <1>1, <2>1 DEF Byte, Bytes
<1>2. CASE ~(o <= i /\ i < o + k)
  BY Zenon, <1>2 DEF Contents
<1>. QED
  BY Zenon, <1>1, <1>2

----------------------------------------------------------------------------
(* Types, one group of variables at a time.                                *)

LEMMA BufStep ==
  ASSUME NEW w, Procs = {w}, BufOK, QueueOK, ProcOK, SizeInv(w), [Next]_vars
  PROVE  BufOK'
<1> USE SizeAssumption, ConfigAssumption
<1>0. w \in Procs /\ None \in Pointers
  BY Zenon DEF Pointers
<1>1. CASE UNCHANGED buf
  BY Zenon, <1>1 DEF BufOK, buf
<1>2. CASE SendNode(w)
  BY Zenon, <1>2 DEF SendNode, BufOK
<1>3. CASE ZeroNode(w)
  BY <1>0, <1>3, SilentType DEF ZeroNode, Zeroed, BufOK
<1>4. CASE CopyChunk(w)
  <2>1. Moved(cur[w], at[w], w, size[w]) \in Contents
    BY <1>0, MovedType DEF BufOK, ProcOK
  <2>. QED
    BY Zenon, <1>4, <2>1 DEF CopyChunk, BufOK
<1>5. CASE FillNode(w)
  <2>1. BufSize - at[w] >= 0
    BY <1>0, <1>5 DEF FillNode, SizeInv, BufOK
  <2>2. Moved(cur[w], at[w], w, BufSize - at[w]) \in Contents
    BY <1>0, <2>1, MovedType DEF BufOK, ProcOK
  <2>. QED
    BY <1>5, <2>1, <2>2 DEF FillNode, BufOK
<1>6. CASE TakeNode(w)
  <2>1. size[w] - ra[w] \in 0 .. BufSize - 1
    BY <1>0, <1>6 DEF TakeNode, SizeInv, ProcOK, BufOK
  <2>2. Rest(w) \in Contents
    BY <1>0, <2>1 DEF Rest, Contents, Bytes, Byte, ProcOK
  <2>3. idx[w] \in Nodes
    BY Zenon, <1>0 DEF ProcOK
  <2>. QED
    BY Zenon, <1>0, <1>6, <2>1, <2>2, <2>3 DEF TakeNode, BufOK
<1>a. CASE EndCopy(w)
  <2>1. used_size + size[w] \in Nat
    BY <1>0 DEF BufOK, ProcOK
  <2>. QED
    BY Zenon, <1>a, <2>1 DEF EndCopy, BufOK
<1>b. CASE EndTake(w)
  <2>1. size[w] - ra[w] \in Nat /\ idx[w] \in Nodes
    BY <1>0, <1>b DEF EndTake, SizeInv, ProcOK, BufOK
  <2>. QED
    BY Zenon, <1>b, <2>1 DEF EndTake, BufOK
<1>7. CASE AcquireAdd(w)
  BY Zenon, <1>0, <1>7 DEF AcquireAdd, BufOK
<1>8. CASE LinkNode(w)
  <2>1. nd[w] \in Pointers
    BY Zenon, <1>0 DEF ProcOK, Pointers
  <2>. QED
    BY Zenon, <1>8, <2>1 DEF LinkNode, BufOK
<1>9. CASE IntrEnter
  BY Zenon, <1>9 DEF IntrEnter, BufOK
<1>. QED
  BY Zenon, StepCases, <1>1, <1>2, <1>3, <1>4, <1>5, <1>6, <1>7, <1>8, <1>9, <1>a, <1>b
  DEF WriteCall, FinishCall, TestFit, Scan, WalkStep, CardStep, Claim, IntrUnlink,
      IntrRestart, SetPlay, SetPlayWrite, vars

LEMMA QueueStep ==
  ASSUME NEW w, Procs = {w}, BufOK, QueueOK, ProcOK, [Next]_vars
  PROVE  QueueOK'
<1> USE SizeAssumption, ConfigAssumption
<1>0. w \in Procs
  OBVIOUS
<1>1. CASE UNCHANGED <<head, lock, queue>>
  BY Zenon, <1>1 DEF QueueOK
<1>2. CASE AcquireAdd(w)
  BY Zenon, <1>2 DEF AcquireAdd, QueueOK
<1>3. CASE LinkNode(w)
  <2>1. nd[w] \in Nodes /\ nd[w] \in Pointers
    BY Zenon, <1>0 DEF ProcOK, Pointers
  <2>2. [node |-> nd[w], data |-> data[nd[w]]] \in [node : Nodes, data : Contents]
    BY Zenon, <2>1 DEF BufOK
  <2>. QED
    BY <1>3, <2>1, <2>2 DEF LinkNode, QueueOK
<1>4. CASE IntrEnter
  BY Zenon, <1>4 DEF IntrEnter, QueueOK
<1>5. CASE IntrUnlink
  <2>1. head # None => next[head] \in Pointers
    BY Zenon DEF QueueOK, BufOK, Pointers
  <2>2. queue # <<>> => Tail(queue) \in Seq([node : Nodes, data : Contents])
    BY DEF QueueOK
  <2>. QED
    BY Zenon, <1>5, <2>1, <2>2 DEF IntrUnlink, QueueOK
<1>6. CASE IntrRestart
  BY Zenon, <1>6 DEF IntrRestart, QueueOK
<1>. QED
  BY ZenonT(40), StepCases, <1>1, <1>2, <1>3, <1>4, <1>5, <1>6
  DEF WriteCall, FinishCall, ZeroNode, TestFit, CopyChunk, EndCopy, FillNode,
      SendNode, Scan, TakeNode, EndTake, WalkStep, CardStep, Claim, SetPlay, SetPlayWrite, vars

LEMMA CardOKStep ==
  ASSUME NEW w, Procs = {w}, BufOK, QueueOK, CardOK, ProcOK,
         setplay \in {None, 0, 5}, [Next]_vars
  PROVE  CardOK'
<1> USE SizeAssumption, ConfigAssumption
<1>1. CASE UNCHANGED card
  BY Zenon, <1>1 DEF CardOK, card
<1>2. CASE CardStep
  <2>1. data[list][pos] \in Bytes
    BY <1>2 DEF CardStep, Contents, BufOK, CardOK
  <2>. QED
    BY <1>2, <2>1 DEF CardStep, CardOK
<1>3. CASE LinkNode(w)
  <2>1. nd[w] \in Nodes /\ nd[w] \in Pointers
    BY Zenon DEF ProcOK, Pointers
  <2>. QED
    BY Zenon, <1>3, <2>1 DEF LinkNode, Play, WriteCR, CardOK, card
<1>4. CASE IntrEnter
  BY Zenon, <1>4 DEF IntrEnter, CardOK
<1>5. CASE IntrRestart
  BY Zenon, <1>5 DEF IntrRestart, WriteCR, CardOK, QueueOK, Pointers
<1>6. CASE SetPlayWrite
  BY Zenon, <1>6 DEF SetPlayWrite, WriteCR, CardOK
<1>. QED
  BY ZenonT(40), StepCases, <1>1, <1>2, <1>3, <1>4, <1>5, <1>6
  DEF WriteCall, FinishCall, ZeroNode, TestFit, CopyChunk, EndCopy, FillNode,
      SendNode, Scan, TakeNode, EndTake, AcquireAdd, WalkStep, Claim, IntrUnlink, SetPlay, vars, card

LEMMA ProcStep ==
  ASSUME NEW w, Procs = {w}, BufOK, QueueOK, ProcOK, SizeInv(w), [Next]_vars
  PROVE  ProcOK'
<1> USE SizeAssumption, ConfigAssumption
<1> USE DEF Goto
<1>0. w \in Procs /\ None \in Pointers /\ 0 \in Nodes
  BY DEF Pointers, Nodes
<1>1. CASE UNCHANGED <<pc, loc>>
  BY Zenon, <1>1 DEF ProcOK, loc
<1>2. ASSUME NEW s \in 1 .. MaxChunk, WriteCall(w, s) PROVE ProcOK'
  BY <1>2 DEF WriteCall, ProcOK
<1>3. CASE FinishCall(w)
  BY Zenon, <1>3 DEF FinishCall, ProcOK, BufOK
<1>4. CASE ZeroNode(w) \/ TestFit(w)
  BY <1>4 DEF ZeroNode, TestFit, ProcOK, BufOK, loc
<1>5. CASE CopyChunk(w) \/ EndCopy(w)
  BY <1>0, <1>5 DEF CopyChunk, EndCopy, ProcOK, loc
<1>6. CASE FillNode(w)
  <2>1. BufSize - at[w] \in 0 .. MaxChunk
    BY <1>0, <1>6 DEF FillNode, SizeInv, BufOK, ProcOK
  <2>. QED
    BY <1>6, <2>1 DEF FillNode, ProcOK
<1>a. CASE SendNode(w)
  BY Zenon, <1>0, <1>a DEF SendNode, ProcOK, BufOK
<1>7. CASE Scan(w)
  <2>1. (IF idx[w] = NodeNum - 1 THEN 0 ELSE idx[w] + 1) \in Nodes
    BY SMTT(30), <1>0 DEF Nodes, ProcOK
  <2>. QED
    BY <1>7, <2>1 DEF Scan, ProcOK
<1>8. CASE TakeNode(w) \/ EndTake(w)
  BY <1>0, <1>8 DEF TakeNode, EndTake, ProcOK, loc
<1>9. CASE AcquireAdd(w)
  BY Zenon, <1>0, <1>9 DEF AcquireAdd, ProcOK
<1>10. CASE WalkStep(w)
  <2>1. AtTail(w) \in Pointers
    BY Zenon, <1>0 DEF AtTail, ProcOK, QueueOK, BufOK, Pointers
  <2>. QED
    BY Zenon, <1>10, <2>1 DEF WalkStep, ProcOK
<1>11. CASE LinkNode(w)
  BY Zenon, <1>0, <1>11 DEF LinkNode, ProcOK, loc
<1>. QED
  BY Zenon, StepCases, <1>1, <1>2, <1>3, <1>4, <1>5, <1>6, <1>7, <1>8, <1>9, <1>10,
     <1>11, <1>a
  DEF CardStep, Claim, IntrEnter, IntrUnlink, IntrRestart, SetPlay,
      SetPlayWrite, vars

LEMMA TypeStep ==
  ASSUME NEW w, Procs = {w}, TypeOK, SizeInv(w), [Next]_vars
  PROVE  TypeOK'
<1>1. BufOK' /\ QueueOK' /\ CardOK' /\ ProcOK'
  BY Zenon, BufStep, QueueStep, CardOKStep, ProcStep DEF TypeOK
<1>2. /\ ipc' \in {"idle", "enter", "unlink", "restart"}
      /\ setplay' \in {None, 0, 5}
      /\ panicked' \in BOOLEAN
  BY ZenonT(30), StepCases DEF TypeOK, WriteCall, FinishCall, ZeroNode, TestFit, CopyChunk,
      EndCopy, FillNode, SendNode, Scan, TakeNode, EndTake, AcquireAdd, WalkStep, LinkNode, CardStep, Claim,
      IntrEnter, IntrUnlink, IntrRestart, SetPlay, SetPlayWrite, vars
<1>. QED
  BY Zenon, <1>1, <1>2 DEF TypeOK

----------------------------------------------------------------------------
(* The arithmetic of a write.                                              *)

LEMMA SizeStep ==
  ASSUME NEW w, Procs = {w}, TypeOK, SizeInv(w), [Next]_vars
  PROVE  SizeInv(w)'
<1> USE SizeAssumption
<1> USE DEF TypeOK, BufOK, ProcOK, Goto
<1>0. w \in Procs
  OBVIOUS
<1>1. CASE UNCHANGED <<used_size, buffer_index, pc, loc>>
  BY Zenon, <1>1 DEF SizeInv, loc
<1>2. ASSUME NEW s \in 1 .. MaxChunk, WriteCall(w, s) PROVE SizeInv(w)'
  BY Zenon, <1>2 DEF WriteCall, SizeInv, buf
<1>3. CASE FinishCall(w)
  BY Zenon, <1>3 DEF FinishCall, SizeInv, buf
<1>4. CASE ZeroNode(w)
  BY Zenon, <1>4 DEF ZeroNode, SizeInv, loc
<1>5. CASE TestFit(w)
  BY <1>0, <1>5 DEF TestFit, Fits, SizeInv, loc, buf
<1>6. CASE CopyChunk(w) \/ TakeNode(w)
  BY <1>6 DEF CopyChunk, TakeNode, SizeInv, loc
<1>a. CASE EndCopy(w)
  BY Zenon, <1>a DEF EndCopy, SizeInv
<1>b. CASE EndTake(w)
  BY <1>0, <1>b DEF EndTake, SizeInv
<1>7. CASE FillNode(w)
  BY <1>0, <1>7 DEF FillNode, SizeInv
<1>c. CASE SendNode(w)
  BY Zenon, <1>c DEF SendNode, SizeInv
<1>8. CASE Scan(w)
  BY SMTT(60), <1>8 DEF Scan, SizeInv, buf
<1>9. CASE AcquireAdd(w) \/ WalkStep(w)
  BY Zenon, <1>9 DEF AcquireAdd, WalkStep, SizeInv, buf
<1>10. CASE LinkNode(w)
  BY Zenon, <1>10 DEF LinkNode, SizeInv, loc
<1>. QED
  BY Zenon, StepCases, <1>1, <1>2, <1>3, <1>4, <1>5, <1>6, <1>7, <1>8, <1>9, <1>10,
     <1>a, <1>b, <1>c
  DEF CardStep, Claim, IntrEnter, IntrUnlink, IntrRestart, SetPlay,
      SetPlayWrite, vars, buf

----------------------------------------------------------------------------
(* The lock.                                                               *)

LEMMA LockStep ==
  ASSUME NEW w, Procs = {w}, ~SMP, TypeOK, SizeInv(w), LockInv(w), [Next]_vars
  PROVE  LockInv(w)'
<1> USE ConfigAssumption
<1> USE DEF TypeOK, ProcOK, LockInv, Goto, MayRun, MayInterrupt
<1>1. CASE UNCHANGED <<pc, lock, ipc>>
  BY Zenon, <1>1
<1>2. ASSUME NEW s \in 1 .. MaxChunk, WriteCall(w, s) PROVE LockInv(w)'
  BY Zenon, <1>2 DEF WriteCall
<1>3. CASE FinishCall(w)
  BY Zenon, <1>3 DEF FinishCall
<1>4. CASE ZeroNode(w) \/ TestFit(w) \/ CopyChunk(w) \/ EndCopy(w)
  BY ZenonT(40), <1>4 DEF ZeroNode, TestFit, CopyChunk, EndCopy
<1>5. CASE FillNode(w) \/ SendNode(w) \/ Scan(w) \/ TakeNode(w) \/ EndTake(w)
  BY <1>5 DEF FillNode, SendNode, Scan, TakeNode, EndTake
<1>6. CASE AcquireAdd(w)
  BY Zenon, <1>6 DEF AcquireAdd
<1>7. CASE LinkNode(w)
  BY Zenon, <1>7 DEF LinkNode, SizeInv
<1>8. CASE Claim \/ IntrEnter \/ IntrUnlink \/ IntrRestart
  BY Zenon, <1>8 DEF Claim, IntrEnter, IntrUnlink, IntrRestart
<1> HIDE DEF LockInv
<1>. QED
  BY Zenon, StepCases, <1>1, <1>2, <1>3, <1>4, <1>5, <1>6, <1>7, <1>8
  DEF WalkStep, CardStep, SetPlay, SetPlayWrite, vars
----------------------------------------------------------------------------

(* The queue.                                                              *)

LEMMA SeqElement ==
  ASSUME NEW S, NEW s \in Seq(S), NEW j \in 1 .. Len(s)
  PROVE  s[j] \in S
  OBVIOUS

LEMMA QueueEntries ==
  ASSUME QueueOK
  PROVE  /\ Len(queue) \in Nat
         /\ queue = <<>> <=> Len(queue) = 0
         /\ \A j \in 1 .. Len(queue) :
              queue[j].node \in Nodes /\ queue[j].data \in Contents
<1>1. queue \in Seq([node : Nodes, data : Contents])
  BY Zenon DEF QueueOK
<1>2. ASSUME NEW j \in 1 .. Len(queue)
      PROVE  queue[j].node \in Nodes /\ queue[j].data \in Contents
  <2>1. queue[j] \in [node : Nodes, data : Contents]
    BY Zenon, <1>1, SeqElement
  <2>. QED
    BY Zenon, <2>1
<1>3. Len(queue) \in Nat /\ (queue = <<>> <=> Len(queue) = 0)
  BY <1>1
<1>. QED
  BY Zenon, <1>2, <1>3

(* What Append does to the entries of a sequence.                          *)
LEMMA AppendEntry ==
  ASSUME NEW S, NEW q \in Seq(S), NEW e
  PROVE  /\ Len(Append(q, e)) = Len(q) + 1
         /\ Append(q, e)[Len(Append(q, e))] = e
         /\ \A j \in 1 .. Len(q) : Append(q, e)[j] = q[j]
  OBVIOUS

(* Entries of the queue as it is after a node is sent and after the head   *)
(* is taken.                                                               *)
LEMMA LinkQueue ==
  ASSUME NEW w, Procs = {w}, TypeOK, LinkNode(w)
  PROVE  /\ Len(queue') = Len(queue) + 1
         /\ queue'[Len(queue')] = [node |-> nd[w], data |-> data[nd[w]]]
         /\ \A j \in 1 .. Len(queue) : queue'[j] = queue[j]
         /\ QueueNodes' = QueueNodes \cup {nd[w]}
<1>1. /\ queue \in Seq([node : Nodes, data : Contents])
      /\ queue' = Append(queue, [node |-> nd[w], data |-> data[nd[w]]])
  BY ZenonT(40) DEF TypeOK, QueueOK, LinkNode
<1>2. /\ Len(queue') = Len(queue) + 1
      /\ queue'[Len(queue')] = [node |-> nd[w], data |-> data[nd[w]]]
      /\ \A j \in 1 .. Len(queue) : queue'[j] = queue[j]
  BY <1>1, AppendEntry
<1>3. QueueNodes' = QueueNodes \cup {nd[w]}
  BY <1>1, <1>2 DEF QueueNodes
<1>. QED
  BY Zenon, <1>2, <1>3

LEMMA UnlinkQueue ==
  ASSUME NEW w, Procs = {w}, TypeOK, queue # <<>>, QueueLinked, IntrUnlink
  PROVE  /\ Len(queue) >= 1 /\ Len(queue') = Len(queue) - 1
         /\ \A j \in 1 .. Len(queue') : queue'[j] = queue[j + 1]
         /\ QueueNodes' \subseteq QueueNodes
         /\ head # None /\ head' = next[head] /\ ipc' = "restart"
<1>0. queue \in Seq([node : Nodes, data : Contents])
  BY Zenon DEF TypeOK, QueueOK
<1>1. Len(queue) >= 1 /\ queue[1].node \in Nodes
  BY QueueEntries DEF TypeOK
<1>2. head # None
  <2>1. head = queue[1].node
    BY Zenon DEF QueueLinked
  <2>. QED
    BY Zenon, <1>1, <2>1, ConfigAssumption
<1>3. queue' = Tail(queue) /\ head' = next[head] /\ ipc' = "restart"
  BY Zenon, <1>2 DEF IntrUnlink
<1>4. /\ Len(queue') = Len(queue) - 1
      /\ \A j \in 1 .. Len(queue') : queue'[j] = queue[j + 1]
  BY <1>0, <1>1, <1>3
<1>5. QueueNodes' \subseteq QueueNodes
  BY SMTT(60), <1>0, <1>1, <1>4 DEF QueueNodes
<1>. QED
  BY Zenon, <1>1, <1>2, <1>3, <1>4, <1>5

LEMMA HeadInQueue ==
  ASSUME queue \in Seq([node : Nodes, data : Contents]), QueueLinked,
         head # None
  PROVE  head \in QueueNodes
<1>1. queue # <<>> /\ head = queue[1].node
  BY Zenon DEF QueueLinked
<1>2. 1 \in 1 .. Len(queue)
  BY <1>1
<1>. QED
  BY Zenon, <1>1, <1>2 DEF QueueNodes

(* The writer's node stays out of the queue, and its walk in it.           *)
LEMMA WriterStep ==
  ASSUME NEW w, Procs = {w}, ~SMP, QueueInv(w), [Next]_vars
  PROVE  WriterInv(w)'
<1> USE ConfigAssumption
<1> USE DEF TypeOK, BufOK, ProcOK, Goto, MayRun
<1>0. /\ w \in Procs /\ TypeOK /\ WriterInv(w) /\ SizeInv(w)
      /\ QueueLinked /\ SentIntact /\ LockInv(w)
      /\ queue \in Seq([node : Nodes, data : Contents])
  BY Zenon DEF QueueInv, QueueOK
<1>q. /\ Len(queue) \in Nat
      /\ queue = <<>> <=> Len(queue) = 0
      /\ \A j \in 1 .. Len(queue) : queue[j].node \in Nodes
  BY Zenon, QueueEntries DEF QueueInv
<1>a. ASSUME UNCHANGED queue PROVE QueueNodes' = QueueNodes
  BY Zenon, <1>a DEF QueueNodes
<1>1. CASE UNCHANGED <<flag, next, buffer_index, queue, pc, loc>>
  BY Zenon, <1>0, <1>1, <1>a DEF WriterInv, loc
<1>2. ASSUME NEW s \in 1 .. MaxChunk, WriteCall(w, s) PROVE WriterInv(w)'
  BY Zenon, <1>0, <1>2, <1>a DEF WriteCall, WriterInv, buf
<1>3. CASE FinishCall(w)
  BY Zenon, <1>0, <1>3, <1>a DEF FinishCall, WriterInv, buf
<1>4. CASE ZeroNode(w)
  BY Zenon, <1>0, <1>4, <1>a DEF ZeroNode, WriterInv, loc
<1>5. CASE TestFit(w)
  BY Zenon, <1>0, <1>5, <1>a DEF TestFit, WriterInv, buf, loc
<1>6. CASE CopyChunk(w) \/ EndCopy(w)
  BY ZenonT(40), <1>0, <1>6, <1>a DEF CopyChunk, EndCopy, WriterInv, loc
<1>7. CASE FillNode(w)
  BY SMTT(30), <1>0, <1>7, <1>a DEF FillNode, WriterInv
<1>b. CASE SendNode(w)
  BY SMTT(30), <1>0, <1>b, <1>a DEF SendNode, WriterInv
<1>8. CASE Scan(w)
  <2>0. ipc = "idle"
    BY Zenon, <1>8 DEF Scan
  <2>1. flag[idx[w]] = 0 => idx[w] \notin QueueNodes
    <3>. SUFFICES ASSUME NEW j \in 1 .. Len(queue), flag[queue[j].node] = 0
                  PROVE  FALSE
      BY Zenon DEF QueueNodes
    <3>1. flag[queue[j].node] = 3 \/ ipc = "unlink"
      BY Zenon, <1>0 DEF SentIntact
    <3>. QED
      BY <2>0, <3>1
  <2>. QED
    BY <1>0, <1>8, <1>a, <2>1 DEF Scan, WriterInv, buf
<1>9. CASE TakeNode(w)
  BY Zenon, <1>0, <1>9, <1>a DEF TakeNode, WriterInv, loc
<1>c. CASE EndTake(w)
  BY Zenon, <1>0, <1>c, <1>a DEF EndTake, WriterInv
<1>10. CASE AcquireAdd(w)
  BY Zenon, <1>0, <1>10, <1>a DEF AcquireAdd, WriterInv
<1>11. CASE WalkStep(w)
  <2>1. AtTail(w) \in QueueNodes
    <3>1. CASE tail[w] = None
      BY Zenon, <1>0, <1>11, <3>1, HeadInQueue DEF WalkStep, AtTail
    <3>2. CASE tail[w] # None
      <4>1. PICK j \in 1 .. Len(queue) : tail[w] = queue[j].node
        BY Zenon, <1>0, <1>11, <3>2 DEF WalkStep, WriterInv, QueueNodes
      <4>2. next[tail[w]] # None
        BY Zenon, <1>11, <3>2 DEF WalkStep, AtTail
      <4>3. next[tail[w]] = IF j = Len(queue) THEN None ELSE queue[j + 1].node
        BY Zenon, <1>0, <4>1 DEF QueueLinked
      <4>4. next[tail[w]] = queue[j + 1].node /\ j + 1 \in 1 .. Len(queue)
        BY SMTT(60), <1>q, <4>1, <4>2, <4>3
      <4>. QED
        BY Zenon, <3>2, <4>4 DEF AtTail, QueueNodes
    <3>. QED
      BY Zenon, <3>1, <3>2
  <2>. QED
    BY Zenon, <1>0, <1>11, <1>a, <2>1 DEF WalkStep, WriterInv, buf
<1>12. CASE LinkNode(w)
  BY ZenonT(40), <1>0, <1>12 DEF LinkNode, WriterInv, SizeInv
<1>13. CASE IntrEnter
  <2>1. head # None => head \in QueueNodes
    BY Zenon, <1>0, HeadInQueue
  <2>2. /\ flag' = flag \/ (head # None /\ flag' = [flag EXCEPT ![head] = 0])
        /\ UNCHANGED <<next, buffer_index, queue, pc, loc>>
    BY Zenon, <1>13 DEF IntrEnter
  <2>. QED
    BY <1>0, <1>a, <2>1, <2>2 DEF WriterInv, loc
<1>14. CASE IntrUnlink
  <2>1. ipc = "unlink" /\ queue # <<>> /\ lock = "irq" /\ pc[w] # "walk"
    BY Zenon, <1>0, <1>14 DEF IntrUnlink, QueueInv, LockInv
  <2>2. QueueNodes' \subseteq QueueNodes
    BY Zenon, <1>0, <1>14, <2>1, UnlinkQueue
  <2>. QED
    BY Zenon, <1>0, <1>14, <2>1, <2>2 DEF IntrUnlink, WriterInv, buf, loc
<1> HIDE DEF TypeOK, BufOK, ProcOK, Goto, MayRun
<1>. QED
  BY Zenon, StepCases, <1>1, <1>2, <1>3, <1>4, <1>5, <1>6, <1>7, <1>8, <1>9, <1>10,
     <1>11, <1>12, <1>13, <1>14, <1>b, <1>c
  DEF CardStep, Claim, IntrRestart, SetPlay, SetPlayWrite, vars, buf

(* The linked list is the sequence of nodes sent and not yet taken.        *)
LEMMA LinkedStep ==
  ASSUME NEW w, Procs = {w}, ~SMP, QueueInv(w), [Next]_vars
  PROVE  QueueLinked' /\ QueueDistinct'
<1> USE ConfigAssumption
<1>0. /\ w \in Procs /\ TypeOK /\ WriterInv(w) /\ SizeInv(w)
      /\ QueueLinked /\ QueueDistinct
      /\ next \in [Nodes -> Pointers]
  BY Zenon DEF QueueInv, TypeOK, BufOK
<1>q. /\ Len(queue) \in Nat
      /\ queue = <<>> <=> Len(queue) = 0
      /\ \A j \in 1 .. Len(queue) : queue[j].node \in Nodes
  BY Zenon, QueueEntries DEF QueueInv, TypeOK
<1>1. ASSUME UNCHANGED <<head, queue>>,
             \A n \in QueueNodes : next'[n] = next[n]
      PROVE  QueueLinked' /\ QueueDistinct'
  <2>1. \A j \in 1 .. Len(queue) : next'[queue[j].node] = next[queue[j].node]
    BY Zenon, <1>1 DEF QueueNodes
  <2>2. QueueDistinct'
    BY ZenonT(40), <1>0, <1>1 DEF QueueDistinct
  <2>3. QueueLinked'
    BY SMTT(30), <1>0, <1>q, <1>1, <2>1 DEF QueueLinked
  <2>. QED
    BY Zenon, <2>2, <2>3
<1>2. ASSUME NEW n \in Nodes, n \notin QueueNodes, UNCHANGED <<head, queue>>,
             next' = [next EXCEPT ![n] = None]
      PROVE  QueueLinked' /\ QueueDistinct'
  <2>1. \A m \in QueueNodes : next'[m] = next[m]
    BY Zenon, <1>0, <1>q, <1>2 DEF QueueNodes
  <2>. QED
    BY Zenon, <1>1, <1>2, <2>1
<1>3. CASE ZeroNode(w)
  <2>1. buffer_index \in Nodes /\ buffer_index \notin QueueNodes
    BY Zenon, <1>0, <1>q, <1>3 DEF ZeroNode, WriterInv, TypeOK, BufOK
  <2>. QED
    BY Zenon, <1>1, <1>2, <1>3, <2>1 DEF ZeroNode, Zeroed
<1>4. CASE TakeNode(w)
  <2>1. idx[w] \in Nodes /\ idx[w] \notin QueueNodes
    BY Zenon, <1>0, <1>q, <1>4 DEF TakeNode, WriterInv, TypeOK, ProcOK
  <2>. QED
    BY Zenon, <1>2, <1>4, <2>1 DEF TakeNode
<1>5. CASE AcquireAdd(w)
  <2>1. nd[w] \in Nodes /\ nd[w] \notin QueueNodes
    BY Zenon, <1>0, <1>q, <1>5 DEF AcquireAdd, WriterInv, TypeOK, ProcOK
  <2>. QED
    BY Zenon, <1>2, <1>5, <2>1 DEF AcquireAdd
<1>6. CASE LinkNode(w)
  <2>0. /\ nd[w] \in Nodes /\ nd[w] \notin QueueNodes /\ next[nd[w]] = None
        /\ tail[w] \in QueueNodes \cup {None} /\ AtTail(w) = None
    BY ZenonT(40), <1>0, <1>q, <1>6 DEF LinkNode, WriterInv, TypeOK, ProcOK
  <2>1. /\ Len(queue') = Len(queue) + 1
        /\ queue'[Len(queue')].node = nd[w]
        /\ \A j \in 1 .. Len(queue) : queue'[j] = queue[j]
    <3>1. /\ Len(queue') = Len(queue) + 1
          /\ queue'[Len(queue')] = [node |-> nd[w], data |-> data[nd[w]]]
          /\ \A j \in 1 .. Len(queue) : queue'[j] = queue[j]
      BY ZenonT(40), <1>0, <1>6, LinkQueue
    <3>. QED
      BY <3>1
  <2>e. queue' # <<>>
    <3>1. queue \in Seq([node : Nodes, data : Contents])
      BY Zenon, <1>0 DEF TypeOK, QueueOK
    <3>2. Len(queue) \in Nat
      BY <3>1
    <3>. QED
      BY <2>1, <3>2
  <2>2. QueueDistinct'
    BY SMTT(60), <1>0, <1>q, <2>0, <2>1 DEF QueueDistinct, QueueNodes
  <2>3. CASE tail[w] = None
    <3>1. queue = <<>> /\ head' = nd[w] /\ next' = next /\ Len(queue) = 0
      BY <1>0, <1>q, <1>6, <2>0, <2>3 DEF LinkNode, AtTail, QueueLinked
    <3>. QED
      BY <1>q, <2>e, <2>0, <2>1, <2>2, <3>1 DEF QueueLinked
  <2>4. CASE tail[w] # None
    <3>1. PICK k \in 1 .. Len(queue) : tail[w] = queue[k].node
      BY Zenon, <2>0, <2>4 DEF QueueNodes
    <3>2. next[tail[w]] = None /\ tail[w] \in Nodes
      BY Zenon, <1>0, <1>q, <2>0, <2>4, <3>1 DEF AtTail
    <3>3. k = Len(queue)
      BY <1>0, <1>q, <3>1, <3>2 DEF QueueLinked
    <3>4. head' = head /\ next' = [next EXCEPT ![tail[w]] = nd[w]]
      BY Zenon, <1>6, <2>4 DEF LinkNode
    <3>5. ASSUME NEW j \in 1 .. Len(queue')
          PROVE  next'[queue'[j].node] =
                   IF j = Len(queue') THEN None ELSE queue'[j + 1].node
      <4>1. CASE j = Len(queue')
        BY Zenon, <1>0, <1>q, <2>0, <2>1, <3>1, <3>4, <4>1 DEF QueueNodes
      <4>2. CASE j = Len(queue)
        <5>1. queue'[j].node = tail[w]
          BY Zenon, <2>1, <3>1, <3>3, <4>2
        <5>2. queue'[j + 1].node = nd[w] /\ j # Len(queue')
          BY <1>q, <2>1, <4>2
        <5>3. next'[tail[w]] = nd[w]
          BY Zenon, <1>0, <3>2, <3>4 DEF TypeOK, BufOK
        <5>. QED
          BY Zenon, <5>1, <5>2, <5>3
      <4>3. CASE j < Len(queue)
        <5>1. queue[j].node # tail[w] /\ queue[j].node \in Nodes
          BY <1>0, <1>q, <3>1, <3>3, <4>3 DEF QueueDistinct
        <5>2. next[queue[j].node] = queue[j + 1].node
          BY SMTT(60), <1>0, <1>q, <4>3 DEF QueueLinked
        <5>. QED
          BY SMTT(30), <1>0, <1>q, <2>1, <3>4, <4>3, <5>1, <5>2
      <4>. QED
        BY <1>0, <1>q, <2>1, <4>1, <4>2, <4>3
    <3>6. head' = queue'[1].node
      BY <1>0, <1>q, <2>1, <3>1, <3>4 DEF QueueLinked
    <3>. QED
      BY Zenon, <2>e, <2>2, <3>5, <3>6 DEF QueueLinked
  <2>. QED
    BY Zenon, <2>3, <2>4
<1>7. CASE IntrUnlink
  <2>1. queue # <<>>
    BY Zenon, <1>7 DEF IntrUnlink, QueueInv
  <2>2. /\ Len(queue) >= 1 /\ Len(queue') = Len(queue) - 1
        /\ \A j \in 1 .. Len(queue') : queue'[j] = queue[j + 1]
        /\ head' = next[head] /\ next' = next
    BY Zenon, <1>0, <1>7, <2>1, UnlinkQueue DEF IntrUnlink, buf
  <2>e. queue' = <<>> <=> Len(queue') = 0
    BY SMTT(30), QueueStep, QueueEntries DEF QueueInv, TypeOK, QueueOK
  <2>3. head' = IF queue' = <<>> THEN None ELSE queue'[1].node
    BY SMTT(30), <1>0, <1>q, <2>1, <2>2, <2>e DEF QueueLinked
  <2>4. \A j \in 1 .. Len(queue') :
          next'[queue'[j].node] =
            IF j = Len(queue') THEN None ELSE queue'[j + 1].node
    BY SMTT(60), <1>0, <1>q, <2>2 DEF QueueLinked
  <2>5. QueueDistinct'
    BY SMTT(60), <1>0, <1>q, <2>2 DEF QueueDistinct
  <2>. QED
    BY Zenon, <2>3, <2>4, <2>5 DEF QueueLinked
<1>. QED
  BY Zenon, StepCases, <1>1, <1>3, <1>4, <1>5, <1>6, <1>7
  DEF WriteCall, FinishCall, TestFit, CopyChunk, EndCopy, FillNode, SendNode,
      Scan, EndTake, WalkStep, CardStep, Claim, IntrEnter, IntrRestart, SetPlay, SetPlayWrite, vars, buf

(* A sent node keeps its contents and its flag until soundintr takes it.   *)
LEMMA IntactStep ==
  ASSUME NEW w, Procs = {w}, ~SMP, QueueInv(w), [Next]_vars
  PROVE  SentIntact' /\ (ipc' = "unlink" => queue' # <<>>)
<1> USE ConfigAssumption
<1>0. /\ w \in Procs /\ TypeOK /\ WriterInv(w) /\ LockInv(w) /\ SizeInv(w)
      /\ QueueLinked /\ QueueDistinct /\ SentIntact
      /\ ipc = "unlink" => queue # <<>>
      /\ flag \in [Nodes -> {0, 1, 3}] /\ data \in [Nodes -> Contents]
  BY Zenon DEF QueueInv, TypeOK, BufOK
<1>q. /\ Len(queue) \in Nat
      /\ queue = <<>> <=> Len(queue) = 0
      /\ \A j \in 1 .. Len(queue) : queue[j].node \in Nodes
  BY Zenon, QueueEntries DEF QueueInv, TypeOK
<1>1. ASSUME UNCHANGED queue, ipc' # "unlink", ipc # "unlink" \/ UNCHANGED ipc,
             \A n \in QueueNodes : flag'[n] = flag[n] /\ data'[n] = data[n]
      PROVE  SentIntact' /\ (ipc' = "unlink" => queue' # <<>>)
  BY SMTT(60), <1>0, <1>1 DEF SentIntact, QueueNodes
<1>2. ASSUME UNCHANGED <<queue, ipc>>,
             \A n \in QueueNodes : flag'[n] = flag[n] /\ data'[n] = data[n]
      PROVE  SentIntact' /\ (ipc' = "unlink" => queue' # <<>>)
  BY <1>0, <1>2 DEF SentIntact, QueueNodes
<1>3. CASE ZeroNode(w)
  <2>1. buffer_index \in Nodes /\ buffer_index \notin QueueNodes
    BY Zenon, <1>0, <1>3 DEF ZeroNode, WriterInv, TypeOK, BufOK
  <2>2. \A n \in QueueNodes : flag'[n] = flag[n] /\ data'[n] = data[n]
    BY <1>0, <1>q, <1>3, <2>1 DEF ZeroNode, Zeroed, QueueNodes
  <2>. QED
    BY Zenon, <1>2, <1>3, <2>2 DEF ZeroNode
<1>4. CASE CopyChunk(w) \/ FillNode(w)
  <2>1. cur[w] \in Nodes /\ cur[w] \notin QueueNodes
    BY Zenon, <1>0, <1>4 DEF CopyChunk, FillNode, WriterInv, SizeInv, TypeOK, ProcOK
  <2>2. flag' = flag /\ (data' = data \/ \E d : data' = [data EXCEPT ![cur[w]] = d])
    BY Zenon, <1>4 DEF CopyChunk, FillNode
  <2>3. \A n \in QueueNodes : n \in Nodes /\ n # cur[w]
    BY Zenon, <1>q, <2>1 DEF QueueNodes
  <2>4. \A n \in QueueNodes : flag'[n] = flag[n] /\ data'[n] = data[n]
    BY Zenon, <1>0, <2>2, <2>3
  <2>. QED
    BY Zenon, <1>2, <1>4, <2>4 DEF CopyChunk, FillNode
<1>5. CASE EndCopy(w) \/ SendNode(w)
  <2>1. buffer_index \in Nodes /\ buffer_index \notin QueueNodes
    BY Zenon, <1>0, <1>5 DEF EndCopy, SendNode, WriterInv, TypeOK, BufOK
  <2>2. data' = data /\ \E f : flag' = [flag EXCEPT ![buffer_index] = f]
    BY Zenon, <1>5 DEF EndCopy, SendNode
  <2>3. \A n \in QueueNodes : n \in Nodes /\ n # buffer_index
    BY Zenon, <1>q, <2>1 DEF QueueNodes
  <2>4. \A n \in QueueNodes : flag'[n] = flag[n] /\ data'[n] = data[n]
    BY Zenon, <1>0, <2>2, <2>3
  <2>. QED
    BY Zenon, <1>2, <1>5, <2>4 DEF EndCopy, SendNode
<1>6. CASE TakeNode(w)
  <2>1. idx[w] \in Nodes /\ idx[w] \notin QueueNodes
    BY Zenon, <1>0, <1>6 DEF TakeNode, WriterInv, TypeOK, ProcOK
  <2>2. \A n \in QueueNodes : flag'[n] = flag[n] /\ data'[n] = data[n]
    <3>1. /\ flag' = [flag EXCEPT ![idx[w]] = 1]
          /\ \E d : data' = [data EXCEPT ![idx[w]] = d]
      BY Zenon, <1>6 DEF TakeNode
    <3>2. \A n \in QueueNodes : n \in Nodes /\ n # idx[w]
      BY Zenon, <1>q, <2>1 DEF QueueNodes
    <3>. QED
      BY Zenon, <1>0, <3>1, <3>2
  <2>. QED
    BY Zenon, <1>2, <1>6, <2>2 DEF TakeNode
<1>7. CASE LinkNode(w)
  <2>1. /\ Len(queue') = Len(queue) + 1
        /\ queue'[Len(queue')] = [node |-> nd[w], data |-> data[nd[w]]]
        /\ \A j \in 1 .. Len(queue) : queue'[j] = queue[j]
    BY Zenon, <1>0, <1>7, LinkQueue
  <2>2. flag[nd[w]] = 3 /\ UNCHANGED <<flag, data, ipc>> /\ ipc = "idle"
    BY Zenon, <1>0, <1>7 DEF LinkNode, WriterInv, MayRun
  <2>3. ASSUME NEW j \in 1 .. Len(queue')
        PROVE  data'[queue'[j].node] = queue'[j].data /\ flag'[queue'[j].node] = 3
    <3>1. CASE j = Len(queue')
      BY SMTT(30), <2>1, <2>2, <3>1
    <3>2. CASE j \in 1 .. Len(queue)
      BY SMTT(30), <1>0, <2>1, <2>2, <3>2 DEF SentIntact
    <3>3. j = Len(queue') \/ j \in 1 .. Len(queue)
      BY <1>q, <2>1
    <3>. QED
      BY Zenon, <3>1, <3>2, <3>3
  <2>. QED
    BY Zenon, <2>2, <2>3 DEF SentIntact
<1>8. CASE IntrEnter
  <2>1. UNCHANGED <<data, queue>> /\ ipc = "enter"
    BY Zenon, <1>8 DEF IntrEnter
  <2>2. CASE head = None
    BY Zenon, <1>1, <1>8, <2>1, <2>2 DEF IntrEnter
  <2>3. CASE head # None
    <3>1. queue # <<>> /\ head = queue[1].node
      BY Zenon, <1>0, <2>3 DEF QueueLinked
    <3>2. ipc' = "unlink" /\ flag' = [flag EXCEPT ![head] = 0]
      BY Zenon, <1>8, <2>3 DEF IntrEnter
    <3>3. ASSUME NEW j \in 1 .. Len(queue), j # 1
          PROVE  flag'[queue[j].node] = 3
      <4>1. queue[j].node # head
        BY <1>0, <1>q, <3>1, <3>3 DEF QueueDistinct
      <4>2. flag[queue[j].node] = 3
        BY Zenon, <1>0, <3>3 DEF SentIntact
      <4>. QED
        BY Zenon, <1>0, <1>q, <3>2, <4>1, <4>2
    <3>. QED
      BY Zenon, <1>0, <2>1, <3>1, <3>2, <3>3 DEF SentIntact
  <2>. QED
    BY Zenon, <2>2, <2>3
<1>9. CASE IntrUnlink
  <2>1. queue # <<>> /\ UNCHANGED <<flag, data>> /\ ipc = "unlink"
    BY Zenon, <1>0, <1>9 DEF IntrUnlink, buf
  <2>2. /\ Len(queue) >= 1 /\ Len(queue') = Len(queue) - 1
        /\ \A j \in 1 .. Len(queue') : queue'[j] = queue[j + 1]
        /\ ipc' = "restart"
    BY Zenon, <1>0, <1>9, <2>1, UnlinkQueue
  <2>3. ASSUME NEW j \in 1 .. Len(queue')
        PROVE  data'[queue'[j].node] = queue'[j].data /\ flag'[queue'[j].node] = 3
    <3>1. j + 1 \in 1 .. Len(queue) /\ j + 1 # 1 /\ queue'[j] = queue[j + 1]
      BY <1>q, <2>2
    <3>2. /\ data[queue[j + 1].node] = queue[j + 1].data
          /\ flag[queue[j + 1].node] = 3
      BY Zenon, <1>0, <3>1 DEF SentIntact
    <3>. QED
      BY Zenon, <2>1, <3>1, <3>2
  <2>. QED
    BY Zenon, <2>2, <2>3 DEF SentIntact
<1>10. CASE UNCHANGED <<flag, data, queue>> /\ ipc' # "unlink" /\ ipc # "unlink"
  BY Zenon, <1>1, <1>10
<1>11. CASE UNCHANGED <<flag, data, queue, ipc>>
  BY Zenon, <1>2, <1>11
<1>. QED
  BY Zenon, StepCases, <1>3, <1>4, <1>5, <1>6, <1>7, <1>8, <1>9, <1>10, <1>11
  DEF WriteCall, FinishCall, TestFit, Scan, EndTake, AcquireAdd, WalkStep, CardStep, Claim,
      IntrRestart, SetPlay, SetPlayWrite, vars, buf

----------------------------------------------------------------------------
(* On one hart and with one writer the queue is intact in every state,     *)
(* whatever setPlay calls are made: the list linked from sound_queue_head  *)
(* is the nodes sent and not yet played (QueueLinked), each with the       *)
(* contents it was sent with (SentIntact), and the copies of               *)
(* writeDecodedAudio stay in bounds (RestFits).                            *)
LEMMA QueueInvariant ==
  ASSUME NEW w, Procs = {w}, ~SMP
  PROVE  Spec => []QueueInv(w)
<1> USE SizeAssumption, ConfigAssumption
<1>1. Init => QueueInv(w)
  <2>. SUFFICES ASSUME Init PROVE QueueInv(w)
    BY Zenon
  <2>1. TypeOK
    <3>1. None \in Pointers /\ 0 \in Nodes
      BY DEF Pointers, Nodes
    <3>2. BufOK
      BY Zenon, <3>1, SilentType DEF Init, BufOK
    <3>3. QueueOK
      BY <3>1 DEF Init, QueueOK
    <3>4. CardOK
      BY SMTT(30), <3>1 DEF Init, CardOK
    <3>5. ProcOK
      BY SMTT(30), <3>1 DEF Init, ProcOK
    <3>. QED
      BY Zenon, <3>2, <3>3, <3>4, <3>5 DEF Init, TypeOK
  <2>2. LockInv(w) /\ SizeInv(w)
    BY DEF Init, LockInv, SizeInv
  <2>3. queue = <<>> /\ Len(queue) = 0 /\ QueueNodes = {}
    BY SMTT(30) DEF Init, QueueNodes
  <2>4. WriterInv(w)
    BY <2>3 DEF Init, WriterInv
  <2>5. QueueDistinct /\ QueueLinked /\ SentIntact
    BY <2>3 DEF Init, QueueDistinct, QueueLinked, SentIntact
  <2>. QED
    BY Zenon, <2>1, <2>2, <2>4, <2>5 DEF Init, QueueInv
<1>2. QueueInv(w) /\ [Next]_vars => QueueInv(w)'
  <2>. SUFFICES ASSUME QueueInv(w), [Next]_vars PROVE QueueInv(w)'
    OBVIOUS
  <2>1. TypeOK'
    BY Zenon, TypeStep DEF QueueInv
  <2>2. SizeInv(w)' /\ LockInv(w)'
    BY Zenon, SizeStep, LockStep DEF QueueInv
  <2>3. WriterInv(w)'
    BY Zenon, WriterStep
  <2>4. QueueLinked' /\ QueueDistinct'
    BY Zenon, LinkedStep
  <2>5. SentIntact' /\ (ipc' = "unlink" => queue' # <<>>)
    BY Zenon, IntactStep
  <2>. QED
    BY Zenon, <2>1, <2>2, <2>3, <2>4, <2>5 DEF QueueInv
<1>. QED
  BY <1>1, <1>2, PTL DEF Spec

(* Every variable keeps its type; in particular the pointers and indices   *)
(* of the driver point into sound_buffer or are null.                      *)
THEOREM TypesHold ==
  ASSUME NEW w, Procs = {w}, ~SMP
  PROVE  Spec => []TypeOK
<1>1. QueueInv(w) => TypeOK
  BY Zenon DEF QueueInv
<1>. QED
  BY <1>1, QueueInvariant, PTL

(* The list of add_sound_node and soundintr is a FIFO queue of the nodes   *)
(* sent: none is lost, repeated or out of order.                           *)
THEOREM QueueHolds ==
  ASSUME NEW w, Procs = {w}, ~SMP
  PROVE  Spec => []QueueLinked
<1>1. QueueInv(w) => QueueLinked
  BY Zenon DEF QueueInv
<1>. QED
  BY <1>1, QueueInvariant, PTL

(* writeDecodedAudio never overwrites a node that waits or is played.      *)
THEOREM NoOverwrite ==
  ASSUME NEW w, Procs = {w}, ~SMP
  PROVE  Spec => []SentIntact
<1>1. QueueInv(w) => SentIntact
  BY Zenon DEF QueueInv
<1>. QED
  BY <1>1, QueueInvariant, PTL

(* The copies of writeDecodedAudio stay inside the node and inside buf,    *)
(* and the branch that fills a second node in one call is dead.            *)
THEOREM CopiesInBounds ==
  ASSUME NEW w, Procs = {w}, ~SMP
  PROVE  Spec => []RestFits
<1>1. QueueInv(w) => RestFits
  BY SMTT(60), SizeAssumption DEF QueueInv, SizeInv, RestFits, TypeOK, BufOK, ProcOK
<1>. QED
  BY <1>1, QueueInvariant, PTL
=============================================================================
