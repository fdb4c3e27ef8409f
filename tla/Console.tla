------------------------------ MODULE Console ------------------------------
(***************************************************************************)
(* The console: kernel/console.c over kernel/uart.c, with the device.      *)
(*                                                                         *)
(* One hart.  The interrupt handler runs to its end with interrupts off,   *)
(* so while it is active only the device moves; a section of a process     *)
(* under cons.lock or uart_tx_lock is one step, with the sleep that ends   *)
(* it.                                                                     *)
(***************************************************************************)
EXTENDS Integers, Sequences, FiniteSets

CONSTANTS
  Users, Victims,    \* processes that read and write the console; which can be killed
  INPUT_BUF, UART_TX_BUF_SIZE,
  UINT,              \* cons.r, cons.w and cons.e are unsigned: they wrap at UINT
  Typed,             \* characters already typed and read when the model starts
  MaxCalls,          \* bound on the calls made by each process
  MaxEvents,         \* bound on the keys typed, the calls made and the kill, together
  IoSize             \* bytes asked for by each call

ASSUME ConsoleAssumption ==
  /\ Victims \subseteq Users /\ INPUT_BUF \in Nat \ {0} /\ UART_TX_BUF_SIZE \in Nat \ {0} /\ IoSize \in Nat
  /\ UINT \in Nat /\ INPUT_BUF < UINT /\ UINT % INPUT_BUF = 0
  /\ Typed \in Nat /\ MaxCalls \in Nat /\ MaxEvents \in Nat

Chars == {"a", "nl", "eof"}     \* \r is a line end too
Keys == Chars \cup {"erase", "kill"}

VARIABLES
  cbuf, cr, cw, ce,        \* cons.buf, r, w, e
  txbuf, txw, txr,         \* the ring of the transmitter
  thr, rx, irq,            \* the device: holding registers, full or <<>>; interrupt pending
  hpc, echo,               \* the interrupt handler; characters it has still to echo
  cpc, cleft, calls,       \* a process: control point, bytes to go, calls left
  ckilled,
  events, put, sent        \* keys, calls, kills; characters given to uartputc; the last one sent

input == <<cbuf, cr, cw, ce>>
tx == <<txbuf, txw, txr>>
ghosts == <<put, sent>>
users == <<cpc, cleft, calls, ckilled>>
consVars == <<input, tx, thr, rx, irq, hpc, echo, users, events, ghosts>>

Waiting == (cw - cr) % UINT     \* handed over and unread
InBuffer == (ce - cr) % UINT

Happens == events < MaxEvents /\ events' = events + 1

----------------------------------------------------------------------------
(* The device sends what it holds and takes a key; both interrupt.         *)
DeviceSends ==
  /\ thr # <<>> /\ sent' = (IF thr[1] = 0 THEN sent ELSE thr[1]) /\ thr' = <<>> /\ irq' = TRUE
  /\ UNCHANGED <<input, tx, rx, hpc, echo, users, events, put>>

KeyTyped ==
  /\ rx = <<>> /\ Happens
  /\ (\E k \in Keys : rx' = <<k>>) /\ irq' = TRUE
  /\ UNCHANGED <<input, tx, thr, hpc, echo, users, ghosts>>

(* Mutant of Rouse: nobody is woken.                                       *)
NoRouse(pc, from, to) == pc

(* wakeup on cons.r or on uart_tx_r.                                       *)
Rouse(pc, from, to) == [u \in Users |-> IF pc[u] = from THEN to ELSE pc[u]]

(* uartstart, called with the ring b from r to w: at most one character,   *)
(* since after it the holding register is full.                            *)
uartstart(b, w, r, pc) ==
  /\ txw' = w
  /\ IF w = r \/ thr # <<>>
       THEN txr' = r /\ cpc' = pc /\ UNCHANGED thr
       ELSE /\ thr' = <<b[r % UART_TX_BUF_SIZE]>>
            /\ txr' = r + 1
            /\ cpc' = Rouse(pc, "txsleep", "put")

(* Nobody is in the loop of consoleread, with cons.lock held.              *)
Unlocked == \A u \in Users : cpc[u] # "locked"

(* uartintr: take the characters that have come, then send.                *)
uartintr ==
  /\ hpc = "off" /\ Unlocked /\ irq /\ hpc' = "rx" /\ irq' = FALSE
  /\ UNCHANGED <<input, tx, thr, rx, echo, users, events, ghosts>>

uartintr_tx ==
  /\ hpc = "rx" /\ rx = <<>> /\ hpc' = "off"
  /\ uartstart(txbuf, txw, txr, cpc)
  /\ UNCHANGED <<input, txbuf, rx, irq, echo, cleft, calls, ckilled, events, ghosts>>

(* How many characters ^U takes back: to the line end before, if there is  *)
(* one after cons.w.                                                       *)
LineLength ==
  LET n == (ce - cw) % UINT
      NoEnd(k) == \A i \in 1 .. k : cbuf[((ce - i) % UINT) % INPUT_BUF] # "nl"
  IN CHOOSE k \in 0 .. n : NoEnd(k) /\ (k < n => ~NoEnd(k + 1))

Rubout(k) ==
  /\ ce' = (ce - k) % UINT /\ echo' = k
  /\ UNCHANGED <<cbuf, cr, cw, cpc>>

(* Mutant of HasRoom: characters are taken into a full buffer.             *)
AlwaysRoom == TRUE

HasRoom == InBuffer < INPUT_BUF

consoleintr ==
  /\ hpc = "rx" /\ rx # <<>> /\ rx' = <<>> /\ hpc' = "echo"
  /\ LET c == rx[1] IN
     CASE c = "kill" -> Rubout(LineLength)
       [] c = "erase" -> Rubout(IF ce # cw THEN 1 ELSE 0)
       [] c \in Chars /\ ~HasRoom -> Rubout(0)
       [] c \in Chars /\ HasRoom ->
            /\ echo' = 1
            /\ cbuf' = [cbuf EXCEPT ![ce % INPUT_BUF] = c]
            /\ ce' = (ce + 1) % UINT
            /\ IF c \in {"nl", "eof"} \/ ce' = (cr + INPUT_BUF) % UINT
                 THEN cw' = ce' /\ cpc' = Rouse(cpc, "rsleep", "read")
                 ELSE UNCHANGED <<cw, cpc>>
            /\ UNCHANGED cr
  /\ UNCHANGED <<tx, thr, irq, cleft, calls, ckilled, events, put, sent>>

(* uartputc_sync spins until the holding register is empty.  In the        *)
(* transmitter an echo is 0 and the characters of write are numbered.      *)
uartputc_sync ==
  /\ hpc = "echo"
  /\ IF echo = 0
       THEN hpc' = "rx" /\ UNCHANGED <<thr, echo>>
       ELSE thr = <<>> /\ thr' = <<0>> /\ echo' = echo - 1 /\ UNCHANGED hpc
  /\ UNCHANGED <<input, tx, rx, irq, users, events, ghosts>>

----------------------------------------------------------------------------
(* The processes run when neither the handler nor another one does.        *)
Runs(u, at) ==
  hpc = "off" /\ cpc[u] \in at /\ \A v \in Users \ {u} : cpc[v] # "locked"

CallConsole(u) ==
  /\ Runs(u, {"user"}) /\ calls[u] > 0 /\ ~ckilled[u] /\ Happens
  /\ calls' = [calls EXCEPT ![u] = @ - 1]
  /\ cleft' = [cleft EXCEPT ![u] = IoSize]
  /\ \E c \in {"read", "put"} : cpc' = [cpc EXCEPT ![u] = c]
  /\ UNCHANGED <<input, tx, thr, rx, irq, hpc, echo, ckilled, ghosts>>

Full == txw = txr + UART_TX_BUF_SIZE

(* One character of consolewrite: uartputc, whole or up to its sleep.  The *)
(* character may be missing: the copy from the process failed.             *)
consolewrite(u) ==
  /\ Runs(u, {"put"})
  /\ \/ /\ cpc' = [cpc EXCEPT ![u] = "user"] /\ cleft' = [cleft EXCEPT ![u] = 0]
        /\ UNCHANGED <<tx, thr, put>>
     \/ /\ cleft[u] > 0 /\ Full
        /\ cpc' = [cpc EXCEPT ![u] = "txsleep"] /\ UNCHANGED <<tx, thr, cleft, put>>
     \/ /\ cleft[u] > 0 /\ ~Full
        /\ txbuf' = [txbuf EXCEPT ![txw % UART_TX_BUF_SIZE] = put + 1] /\ put' = put + 1
        /\ cleft' = [cleft EXCEPT ![u] = @ - 1]
        /\ uartstart(txbuf', txw + 1, txr, cpc)
  /\ UNCHANGED <<input, rx, irq, hpc, echo, calls, ckilled, events, sent>>

(* An end of file met after other bytes stays for the next read.           *)
EofRead(u) == IF cleft[u] < IoSize THEN 0 ELSE 1

(* One turn of the loop of consoleread, or its end: the request is served, *)
(* nothing is there, an end of file, a failed copy, a character.           *)
consoleread(u) ==
  /\ Runs(u, {"read", "locked"})
  /\ LET c == cbuf[cr % INPUT_BUF]
         Ret(pc, n) == /\ cpc' = [cpc EXCEPT ![u] = pc]
                       /\ cr' = (cr + n) % UINT
                       /\ cleft' = [cleft EXCEPT ![u] = IF pc = "user" THEN 0 ELSE @ - n]
     IN \/ cleft[u] = 0 /\ Ret("user", 0)
        \/ /\ cleft[u] > 0 /\ cr = cw
           /\ Ret(IF ckilled[u] THEN "user" ELSE "rsleep", 0)
        \/ /\ cleft[u] > 0 /\ cr # cw /\ c = "eof"
           /\ Ret("user", EofRead(u))
        \/ /\ cleft[u] > 0 /\ cr # cw /\ c # "eof"
           /\ \E pc \in {"user", IF c = "nl" THEN "user" ELSE "locked"} : Ret(pc, 1)
  /\ UNCHANGED <<cbuf, cw, ce, tx, thr, rx, irq, hpc, echo, calls, ckilled, events, put, sent>>

KillUser(u) ==
  /\ hpc = "off" /\ Unlocked /\ cpc[u] # "user"
  /\ Happens /\ \A v \in Users : ~ckilled[v]  \* one kill
  /\ ckilled' = [ckilled EXCEPT ![u] = TRUE]
  /\ cpc' = [cpc EXCEPT ![u] = CASE @ = "rsleep" -> "read" [] @ = "txsleep" -> "put"
                                [] OTHER -> @]
  /\ UNCHANGED <<input, tx, thr, rx, irq, hpc, echo, cleft, calls, ghosts>>

----------------------------------------------------------------------------
ConsInit ==
  /\ cbuf = [i \in 0 .. INPUT_BUF - 1 |-> "a"]
  /\ cr = Typed % UINT /\ cw = cr /\ ce = cr
  /\ txbuf = [i \in 0 .. UART_TX_BUF_SIZE - 1 |-> 0] /\ txw = 0 /\ txr = 0
  /\ thr = <<>> /\ rx = <<>> /\ irq = FALSE /\ hpc = "off" /\ echo = 0
  /\ cpc = [u \in Users |-> "user"] /\ cleft = [u \in Users |-> 0]
  /\ calls = [u \in Users |-> MaxCalls] /\ ckilled = [u \in Users |-> FALSE]
  /\ events = 0 /\ put = 0 /\ sent = 0

Handler == uartintr \/ consoleintr \/ uartputc_sync \/ uartintr_tx
UserIO(u) == consolewrite(u) \/ consoleread(u)

ConsNext ==
  \/ DeviceSends \/ KeyTyped \/ Handler
  \/ \E u \in Users : CallConsole(u) \/ UserIO(u)
  \/ \E u \in Victims : KillUser(u)

ConsFair ==
  /\ WF_consVars(DeviceSends) /\ WF_consVars(Handler)
  /\ \A u \in Users : WF_consVars(UserIO(u))

FairConsSpec == ConsInit /\ [][ConsNext]_consVars /\ ConsFair

----------------------------------------------------------------------------
ConsTypeOK ==
  /\ cbuf \in [0 .. INPUT_BUF - 1 -> Chars]
  /\ {cr, cw, ce} \subseteq 0 .. UINT - 1 /\ txr <= txw /\ txw <= txr + UART_TX_BUF_SIZE
  /\ hpc \in {"off", "rx", "echo"} /\ irq \in BOOLEAN
  /\ Len(thr) <= 1 /\ Len(rx) <= 1
  /\ cpc \in [Users -> {"user", "read", "locked", "rsleep", "put", "txsleep"}]
  /\ cleft \in [Users -> 0 .. IoSize]

(* The three indices of the input ring, wrapping, implement the editor:    *)
(* what was handed over is never erased, overwritten or read twice, and ^U *)
(* needs no line end to stop at.                                           *)
Slice(from, n) == [i \in 1 .. n |-> cbuf[((from + i - 1) % UINT) % INPUT_BUF]]

Editor == INSTANCE LineEditor WITH
  Size <- INPUT_BUF, Enders <- {"nl", "eof"},
  ready <- Slice(cr, Waiting), edit <- Slice(cw, (ce - cw) % UINT)

InputIsEdited == Editor!LineSpec

(* Every write to the console ends and all it wrote is sent: the spinning  *)
(* echo, the interrupts and the sleeping writers do not block each other.  *)
ConsoleServes == <>[](sent = put /\ \A u \in Users : cpc[u] \notin {"put", "txsleep"})
=============================================================================
