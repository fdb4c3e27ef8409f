----------------------------- MODULE SoundCard -----------------------------
(***************************************************************************)
(* The AC97 driver: the buffer of sound nodes of kernel/sound_card.c, the  *)
(* queue and the interrupt handler of kernel/pci.c, and the card itself.   *)
(*                                                                         *)
(* A process that writes audio fills the node buffer_index, sends it to    *)
(* the queue when it is full, and then spins until some node is free.  The *)
(* card plays the node at the head of the queue; soundintr frees that node *)
(* and points the card at the next one.  Only the queue is under           *)
(* sound_lock: flag, buffer_index and used_size are shared without a lock. *)
(*                                                                         *)
(* A byte of audio is <<p, k>>, the k-th byte that process p writes, so a  *)
(* property can tell whose byte is where.  SMP tells a machine with        *)
(* several harts from one with a single hart, where a section that runs    *)
(* with interrupts off (sound_lock held, or the handler) excludes all      *)
(* other code.                                                             *)
(***************************************************************************)
EXTENDS Integers, Sequences, FiniteSets

CONSTANTS
  NodeNum,      \* BUFFER_NODE_NUM
  BufSize,      \* DMA_BUFFER_NUM * DMA_BUFFER_SIZE, the bytes of a node
  MaxChunk,     \* the largest size writeDecodedAudio accepts
  Procs,        \* the processes that call the driver
  StreamLen,    \* bytes that each process writes
  Controls,     \* the arguments setPlay is called with: subset of {0, 1}
  MaxOut,       \* bound on the bytes the card plays
  SMP,          \* TRUE when the machine has several harts
  None          \* the null pointer

Nodes == 0 .. NodeNum - 1

ASSUME SizeAssumption ==
  /\ NodeNum \in Nat \ {0}
  /\ BufSize \in Nat \ {0}
  /\ MaxChunk \in Nat /\ MaxChunk < BufSize
  /\ StreamLen \in Nat /\ MaxOut \in Nat

ASSUME ConfigAssumption ==
  /\ None \notin Nodes /\ None \notin Procs
  /\ None \notin {0, 5} /\ None # "irq"
  /\ "irq" \notin Procs
  /\ Controls \subseteq {0, 1}
  /\ SMP \in BOOLEAN

VARIABLES
  flag, next, data,         \* the fields of sound_buffer[n], for each node n
  buffer_index, used_size,  \* the node being filled and the bytes in it
  head,                     \* sound_queue_head
  lock,                     \* the holder of sound_lock
  queue,                    \* history: nodes sent and not yet played, in
                            \* order, with the contents they were sent with
  cr, halted, list, bdbar, pos, irq,  \* the card: see "The card" below
  out,                      \* history: the bytes the card has played
  pc,                       \* control point of each process, and its locals:
  rd, size, ra,             \* bytes written before this call, size, read_already
  at, cur,                  \* used_size and buffer_index as the test read them
  nd, tail,                 \* node and tail of add_sound_node
  idx, ret,                 \* i of the search; where add_sound_node returns to
  ipc,                      \* control point of soundintr
  setplay,                  \* the value setPlay is about to write to CR
  panicked                  \* the kernel has called panic

buf  == <<flag, next, data, buffer_index, used_size>>
card == <<cr, halted, list, bdbar, pos, irq, out>>
loc  == <<rd, size, ra, at, cur, nd, tail, idx, ret>>
vars == <<buf, head, lock, queue, card, pc, loc, ipc, setplay, panicked>>

Byte(p, k)  == <<p, k>>
Silence     == <<>>
Silent      == [i \in 0 .. BufSize - 1 |-> Silence]

Init ==
  /\ flag = [n \in Nodes |-> 0]
  /\ next = [n \in Nodes |-> None]
  /\ data = [n \in Nodes |-> Silent]
  /\ buffer_index = 0 /\ used_size = 0
  /\ head = None /\ lock = None /\ queue = <<>>
  /\ cr = 0 /\ halted = TRUE /\ list = None /\ bdbar = FALSE
  /\ pos = 0 /\ irq = FALSE /\ out = <<>>
  /\ pc = [p \in Procs |-> "idle"]
  /\ rd = [p \in Procs |-> 0] /\ size = [p \in Procs |-> 0]
  /\ ra = [p \in Procs |-> 0] /\ at = [p \in Procs |-> 0]
  /\ cur = [p \in Procs |-> 0] /\ nd = [p \in Procs |-> 0]
  /\ tail = [p \in Procs |-> None]
  /\ idx = [p \in Procs |-> 0] /\ ret = [p \in Procs |-> "idle"]
  /\ ipc = "idle" /\ setplay = None /\ panicked = FALSE

----------------------------------------------------------------------------
(* Scheduling.  On one hart nothing else runs inside the handler or while  *)
(* another process holds sound_lock; panic() stops the machine.            *)

MayRun(t) == /\ ~panicked
             /\ SMP \/ (ipc = "idle" /\ lock \in {None, t})

MayInterrupt == ~panicked /\ (SMP \/ lock \in {None, "irq"})

Goto(p, l) == pc' = [pc EXCEPT ![p] = l]

----------------------------------------------------------------------------
(* The card.  CR is 5 while the engine may run and 0 when stopped; it has  *)
(* halted once it has played the last entry of the descriptor list.  list  *)
(* is the node that the 32 descriptors point into, pos the offset of the   *)
(* byte to play next.                                                      *)

WriteCR(v) == /\ cr' = v
              /\ halted' = (halted /\ v = 0)

(* The engine plays a byte; after the last one it halts and interrupts.    *)
CardStep ==
  /\ cr = 5 /\ ~halted /\ bdbar
  /\ Len(out) < MaxOut
  /\ out' = Append(out, data[list][pos])
  /\ pos' = IF pos = BufSize - 1 THEN 0 ELSE pos + 1
  /\ halted' = (pos = BufSize - 1)
  /\ irq' = (irq \/ pos = BufSize - 1)
  /\ UNCHANGED <<buf, head, lock, queue, cr, list, bdbar, pc, loc, ipc,
                 setplay, panicked>>

(* play(): point the descriptors at the head; start if it is not played.   *)
Play(n) ==
  /\ list' = n
  /\ IF flag[n] # 0 THEN bdbar' = TRUE /\ WriteCR(5)
                    ELSE UNCHANGED <<bdbar, cr, halted>>
  /\ UNCHANGED <<pos, irq, out>>

----------------------------------------------------------------------------
(* sys_writeDecodedAudio.  used_size and buffer_index are read once for the  *)
(* test and the memmove, and again after the memmove.                        *)

(* Node n after k bytes of p's buf are moved to offset o.                  *)
Moved(n, o, p, k) ==
  [i \in 0 .. BufSize - 1 |->
     IF o <= i /\ i < o + k THEN Byte(p, rd[p] + (i - o) + 1) ELSE data[n][i]]

(* The call: size is checked and buf copied in.                            *)
WriteCall(p, s) ==
  /\ MayRun(p) /\ pc[p] = "idle"
  /\ s <= MaxChunk
  /\ size' = [size EXCEPT ![p] = s]
  /\ Goto(p, "zero")
  /\ UNCHANGED <<buf, head, lock, queue, card, rd, ra, at, cur, nd, tail, idx,
                 ret, ipc, setplay, panicked>>

Zeroed(n) == /\ flag' = [flag EXCEPT ![n] = 0]
             /\ next' = [next EXCEPT ![n] = None]
             /\ data' = [data EXCEPT ![n] = Silent]

(* Clear the new buffer.                                                   *)
ZeroNode(p) ==
  /\ MayRun(p) /\ pc[p] = "zero"
  /\ IF used_size = 0 THEN Zeroed(buffer_index)
                      ELSE UNCHANGED <<flag, next, data>>
  /\ Goto(p, "fit")
  /\ UNCHANGED <<buffer_index, used_size, head, lock, queue, card, loc, ipc,
                 setplay, panicked>>

Fits(p) == BufSize - used_size > size[p]

TestFit(p) ==
  /\ MayRun(p) /\ pc[p] = "fit"
  /\ at' = [at EXCEPT ![p] = used_size]
  /\ cur' = [cur EXCEPT ![p] = buffer_index]
  /\ Goto(p, IF Fits(p) THEN "copy" ELSE "fill")
  /\ UNCHANGED <<buf, head, lock, queue, card, rd, size, ra, nd, tail, idx, ret,
                 ipc, setplay, panicked>>

(* The data fit in the current buffer: append them...                      *)
CopyChunk(p) ==
  /\ MayRun(p) /\ pc[p] = "copy"
  /\ data' = [data EXCEPT ![cur[p]] = Moved(cur[p], at[p], p, size[p])]
  /\ Goto(p, "copied")
  /\ UNCHANGED <<flag, next, buffer_index, used_size, head, lock, queue, card,
                 loc, ipc, setplay, panicked>>

(* ... and return.                                                         *)
EndCopy(p) ==
  /\ MayRun(p) /\ pc[p] = "copied"
  /\ flag' = [flag EXCEPT ![buffer_index] = 1]
  /\ used_size' = used_size + size[p]
  /\ rd' = [rd EXCEPT ![p] = @ + size[p]]
  /\ Goto(p, "idle")
  /\ UNCHANGED <<next, data, buffer_index, head, lock, queue, card, size, ra, at,
                 cur, nd, tail, idx, ret, ipc, setplay, panicked>>

(* They do not: fill the current buffer.  The count is unsigned, so that a *)
(* negative one makes memmove run over the end of memory.                  *)
FillNode(p) ==
  LET rest == BufSize - at[p] IN
  /\ MayRun(p) /\ pc[p] = "fill"
  /\ IF rest < 0
       THEN panicked' = TRUE /\ UNCHANGED <<data, ra, ret, pc>>
       ELSE /\ data' = [data EXCEPT ![cur[p]] = Moved(cur[p], at[p], p, rest)]
            /\ ra' = [ra EXCEPT ![p] = rest]
            /\ ret' = [ret EXCEPT ![p] = "scan"]
            /\ Goto(p, "send")
            /\ UNCHANGED panicked
  /\ UNCHANGED <<flag, next, buffer_index, used_size, head, lock, queue, card, rd,
                 size, at, cur, nd, tail, idx, ipc, setplay>>

(* The current buffer is marked as sent and given to add_sound_node.       *)
SendNode(p) ==
  /\ MayRun(p) /\ pc[p] = "send"
  /\ flag' = [flag EXCEPT ![buffer_index] = 3]
  /\ nd' = [nd EXCEPT ![p] = buffer_index]
  /\ Goto(p, "add")
  /\ UNCHANGED <<next, data, buffer_index, used_size, head, lock, queue, card, rd,
                 size, ra, at, cur, tail, idx, ret, ipc, setplay, panicked>>

(* The loop over the nodes in search of a free one.                        *)
Scan(p) ==
  /\ MayRun(p) /\ pc[p] = "scan"
  /\ IF flag[idx[p]] = 0
       THEN Goto(p, "take") /\ UNCHANGED idx
       ELSE /\ idx' = [idx EXCEPT ![p] = IF @ = NodeNum - 1 THEN 0 ELSE @ + 1]
            /\ UNCHANGED pc
  /\ UNCHANGED <<buf, head, lock, queue, card, rd, size, ra, at, cur, nd, tail,
                 ret, ipc, setplay, panicked>>

(* Mutant of Rest: buf is read from its start again.                       *)
RestFromStart(p) ==
  [i \in 0 .. BufSize - 1 |->
     IF i < size[p] - ra[p] THEN Byte(p, rd[p] + i + 1) ELSE Silence]

(* A zeroed node after the bytes of buf from read_already on are moved in. *)
Rest(p) ==
  [i \in 0 .. BufSize - 1 |->
     IF i < size[p] - ra[p] THEN Byte(p, rd[p] + ra[p] + i + 1) ELSE Silence]

(* A free node: it gets the rest of the data.  The rest is shorter than a *)
(* node, so the branch that fills a second node (BufSize <= size -         *)
(* read_already) is never taken: see RestFits.                             *)
TakeNode(p) ==
  LET n == idx[p] IN
  /\ MayRun(p) /\ pc[p] = "take"
  /\ data' = [data EXCEPT ![n] = Rest(p)]
  /\ flag' = [flag EXCEPT ![n] = 1]
  /\ next' = [next EXCEPT ![n] = None]
  /\ Goto(p, "took")
  /\ UNCHANGED <<buffer_index, used_size, head, lock, queue, card, loc, ipc,
                 setplay, panicked>>

(* It becomes the current one.                                             *)
EndTake(p) ==
  /\ MayRun(p) /\ pc[p] = "took"
  /\ used_size' = size[p] - ra[p]
  /\ buffer_index' = idx[p]
  /\ rd' = [rd EXCEPT ![p] = @ + size[p]]
  /\ idx' = [idx EXCEPT ![p] = 0]
  /\ Goto(p, "idle")
  /\ UNCHANGED <<flag, next, data, head, lock, queue, card, size, ra, at, cur, nd,
                 tail, ret, ipc, setplay, panicked>>

(* Mutant of FinishCall: the last buffer is not sent.                      *)
FinishUnsent(p) ==
  /\ MayRun(p) /\ pc[p] = "idle"
  /\ Goto(p, "exited")
  /\ UNCHANGED <<buf, head, lock, queue, card, loc, ipc, setplay, panicked>>

(* sys_finishWriteAudio: send the last buffer.                             *)
FinishCall(p) ==
  /\ MayRun(p) /\ pc[p] = "idle"
  /\ ret' = [ret EXCEPT ![p] = "exited"]
  /\ Goto(p, IF used_size > 0 THEN "send" ELSE "exited")
  /\ UNCHANGED <<buf, head, lock, queue, card, rd, size, ra, at, cur, nd, tail,
                 idx, ipc, setplay, panicked>>

----------------------------------------------------------------------------
(* add_sound_node.  tail is None for &sound_queue_head, n for &n->next.    *)

AcquireAdd(p) ==
  /\ MayRun(p) /\ pc[p] = "add" /\ lock = None
  /\ lock' = p
  /\ next' = [next EXCEPT ![nd[p]] = None]
  /\ tail' = [tail EXCEPT ![p] = None]
  /\ Goto(p, "walk")
  /\ UNCHANGED <<flag, data, buffer_index, used_size, head, queue, card, rd,
                 size, ra, at, cur, nd, idx, ret, ipc, setplay, panicked>>

(* Mutant of AtTail: the walk ends at the first node.                      *)
AtFirst(p) == IF tail[p] = None THEN head ELSE None

AtTail(p) == IF tail[p] = None THEN head ELSE next[tail[p]]

WalkStep(p) ==
  /\ MayRun(p) /\ pc[p] = "walk" /\ AtTail(p) # None
  /\ tail' = [tail EXCEPT ![p] = AtTail(p)]
  /\ UNCHANGED <<buf, head, lock, queue, card, pc, rd, size, ra, at, cur, nd, idx,
                 ret, ipc, setplay, panicked>>

LinkNode(p) ==
  LET n == nd[p]  t == tail[p] IN
  /\ MayRun(p) /\ pc[p] = "walk" /\ AtTail(p) = None
  /\ IF t = None THEN head' = n /\ UNCHANGED next
                 ELSE next' = [next EXCEPT ![t] = n] /\ UNCHANGED head
  /\ IF head' = n THEN Play(n) ELSE UNCHANGED card
  /\ queue' = Append(queue, [node |-> n, data |-> data[n]])
  /\ lock' = None
  /\ Goto(p, ret[p])
  /\ UNCHANGED <<flag, data, buffer_index, used_size, loc, ipc, setplay,
                 panicked>>

----------------------------------------------------------------------------
(* devintr and soundintr.                                                  *)

Claim ==
  /\ MayInterrupt /\ ipc = "idle" /\ irq
  /\ ipc' = "enter"
  /\ UNCHANGED <<buf, head, lock, queue, card, pc, loc, setplay, panicked>>

(* Take the lock; an empty queue is a panic, with the lock held.           *)
IntrEnter ==
  /\ MayInterrupt /\ ipc = "enter" /\ lock = None
  /\ lock' = "irq"
  /\ IF head = None
       THEN panicked' = TRUE /\ UNCHANGED <<flag, irq, ipc>>
       ELSE /\ irq' = FALSE
            /\ flag' = [flag EXCEPT ![head] = 0]
            /\ ipc' = "unlink"
            /\ UNCHANGED panicked
  /\ UNCHANGED <<next, data, buffer_index, used_size, head, queue, cr, halted,
                 list, bdbar, pos, out, pc, loc, setplay>>

(* sound_queue_head = sound_queue_head->next; a null head faults.          *)
IntrUnlink ==
  /\ MayInterrupt /\ ipc = "unlink"
  /\ IF head = None
       THEN panicked' = TRUE /\ UNCHANGED <<head, queue, ipc>>
       ELSE /\ head' = next[head]
            /\ queue' = IF queue = <<>> THEN <<>> ELSE Tail(queue)
            /\ ipc' = "restart"
            /\ UNCHANGED panicked
  /\ UNCHANGED <<buf, lock, card, pc, loc, setplay>>

(* Mutant of IntrRestart: the card is run with an empty queue too.         *)
IntrRunsAlways ==
  /\ MayInterrupt /\ ipc = "restart"
  /\ list' = (IF head = None THEN list ELSE head) /\ WriteCR(5)
  /\ lock' = None
  /\ ipc' = "idle"
  /\ UNCHANGED <<buf, head, queue, bdbar, pos, irq, out, pc, loc, setplay,
                 panicked>>

(* Point the card at the new head and run it, unless the queue is empty.   *)
IntrRestart ==
  /\ MayInterrupt /\ ipc = "restart"
  /\ IF head = None THEN UNCHANGED <<cr, halted, list>>
                    ELSE list' = head /\ WriteCR(5)
  /\ lock' = None
  /\ ipc' = "idle"
  /\ UNCHANGED <<buf, head, queue, bdbar, pos, irq, out, pc, loc, setplay,
                 panicked>>

Interrupt == Claim \/ IntrEnter \/ IntrUnlink \/ IntrRestart

----------------------------------------------------------------------------
(* sys_setPlay: pause and resume read CR and then write it.  The caller is *)
(* the controlling process, which holds no lock.                           *)

SetPlay(play) ==
  /\ MayRun(None) /\ setplay = None
  /\ \/ play = 1 /\ cr = 0 /\ setplay' = 5
     \/ play = 0 /\ cr = 5 /\ setplay' = 0
  /\ UNCHANGED <<buf, head, lock, queue, card, pc, loc, ipc, panicked>>

SetPlayWrite ==
  /\ MayRun(None) /\ setplay # None
  /\ WriteCR(setplay)
  /\ setplay' = None
  /\ UNCHANGED <<buf, head, lock, queue, list, bdbar, pos, irq, out, pc, loc,
                 ipc, panicked>>

----------------------------------------------------------------------------
(* One stream: each process writes StreamLen bytes in chunks of any size   *)
(* and then finishes.                                                      *)

InDriver(p) == \/ ZeroNode(p) \/ TestFit(p) \/ CopyChunk(p) \/ EndCopy(p)
               \/ FillNode(p) \/ SendNode(p) \/ Scan(p) \/ TakeNode(p) \/ EndTake(p)
               \/ AcquireAdd(p) \/ WalkStep(p) \/ LinkNode(p)

Client(p) == \/ \E s \in 1 .. MaxChunk :
                  rd[p] + s <= StreamLen /\ WriteCall(p, s)
             \/ rd[p] = StreamLen /\ FinishCall(p)
             \/ InDriver(p)

Control == (\E play \in Controls : SetPlay(play)) \/ SetPlayWrite

Next == (\E p \in Procs : Client(p)) \/ Interrupt \/ CardStep \/ Control

Spec == Init /\ [][Next]_vars

FairSpec == /\ Spec
            /\ \A p \in Procs : WF_vars(Client(p))
            /\ WF_vars(Interrupt)
            /\ WF_vars(CardStep)
            /\ WF_vars(SetPlayWrite)

----------------------------------------------------------------------------
(* Properties.                                                             *)

Bytes == (Procs \X Nat) \cup {Silence}
Contents == [0 .. BufSize - 1 -> Bytes]
Pointers == Nodes \cup {None}

BufOK ==
  /\ flag \in [Nodes -> {0, 1, 3}]
  /\ next \in [Nodes -> Pointers]
  /\ data \in [Nodes -> Contents]
  /\ buffer_index \in Nodes
  /\ used_size \in Nat

QueueOK ==
  /\ head \in Pointers
  /\ lock \in Procs \cup {None, "irq"}
  /\ queue \in Seq([node : Nodes, data : Contents])

CardOK ==
  /\ cr \in {0, 5} /\ halted \in BOOLEAN /\ bdbar \in BOOLEAN
  /\ list \in Pointers
  /\ bdbar => list \in Nodes
  /\ pos \in 0 .. BufSize - 1
  /\ irq \in BOOLEAN
  /\ out \in Seq(Bytes)

ProcOK ==
  /\ pc \in [Procs -> {"idle", "zero", "fit", "copy", "copied", "fill", "send",
                      "add", "walk", "scan", "take", "took", "exited"}]
  /\ rd \in [Procs -> Nat]
  /\ size \in [Procs -> 0 .. MaxChunk] /\ ra \in [Procs -> 0 .. MaxChunk]
  /\ at \in [Procs -> Nat] /\ cur \in [Procs -> Nodes]
  /\ nd \in [Procs -> Nodes] /\ tail \in [Procs -> Pointers]
  /\ idx \in [Procs -> Nodes] /\ ret \in [Procs -> {"idle", "scan", "exited"}]

TypeOK ==
  /\ BufOK /\ QueueOK /\ CardOK /\ ProcOK
  /\ ipc \in {"idle", "enter", "unlink", "restart"}
  /\ setplay \in {None, 0, 5}
  /\ panicked \in BOOLEAN

(* The list linked from sound_queue_head through the next fields is the    *)
(* sequence of nodes that add_sound_node sent and soundintr has not yet    *)
(* taken: no node is lost, repeated or out of order, and the list ends.    *)
QueueLinked ==
  /\ head = IF queue = <<>> THEN None ELSE queue[1].node
  /\ \A j \in 1 .. Len(queue) :
       next[queue[j].node] = IF j = Len(queue) THEN None
                                               ELSE queue[j + 1].node

(* A node that waits in the queue or is being played keeps the contents it *)
(* was sent with: the writer, which picks nodes by flag = 0 outside        *)
(* sound_lock, never reuses one the card still has to read.                *)
SentIntact ==
  \A j \in 1 .. Len(queue) :
    /\ data[queue[j].node] = queue[j].data
    /\ flag[queue[j].node] = 3 \/ (j = 1 /\ ipc = "unlink")

(* The panic in soundintr is not reached: each interrupt of the card finds *)
(* the node it is about at the head of the queue.                          *)
NoPanic == ~panicked

(* The k-th byte to be heard of a stream of p: its bytes, then the silence *)
(* that fills up the last node.                                            *)
Expected(p, k) == IF k <= StreamLen THEN Byte(p, k) ELSE Silence

(* What the card has played is what was written, in order, without a gap   *)
(* or a repeat; only after the last byte of the stream is there silence,   *)
(* the rest of the last node.                                              *)
InOrder ==
  \A p \in Procs : Procs = {p} =>
    \A k \in 1 .. Len(out) : out[k] = Expected(p, k)

(* memmove stays inside the node and inside buf in both branches of        *)
(* writeDecodedAudio, and what is left after the current node is filled    *)
(* fits in one node, so the loop never has to fill a second one.           *)
RestFits ==
  \A p \in Procs :
    /\ pc[p] = "copy" => at[p] + size[p] < BufSize
    /\ pc[p] = "copied" => used_size + size[p] < BufSize
    /\ pc[p] = "fill" => BufSize - at[p] \in 1 .. size[p]
    /\ pc[p] \in {"scan", "take", "took"} => size[p] - ra[p] \in 0 .. BufSize - 1

(* The descriptors that the running engine reads are not rewritten under   *)
(* it: play() and soundintr change them only when it has halted, is        *)
(* stopped or has no list yet.                                             *)
ListStable == [][cr = 5 /\ ~halted /\ bdbar => list' = list]_vars

(* The stream is written and played to its end unless the card is left     *)
(* paused: soundwrite does not spin for a node for ever, and no node that  *)
(* was queued is left unplayed.                                            *)
AllPlayed ==
  \A p \in Procs : <>[](cr = 0) \/ <>(pc[p] = "exited" /\ Len(out) >= StreamLen)
=============================================================================
