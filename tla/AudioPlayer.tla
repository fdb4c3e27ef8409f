---------------------------- MODULE AudioPlayer ----------------------------
(***************************************************************************)
(* The audio player, user/aplay.c and user/aplaycore.c, on top of the      *)
(* driver.  The controlling process runs the user's commands one by one; a *)
(* command is the sequence todo of the system calls and assignments it has *)
(* still to make.  Each open forks a reader, which reads the file and      *)
(* writes it to the driver; the controller kills the reader on close but   *)
(* never waits for it.  The processes of Procs are the readers: a slot of  *)
(* the process table is used once, because the zombie that a reader leaves *)
(* is not collected while the player runs.                                 *)
(*                                                                         *)
(* A killed process goes on until the system call it is in returns.        *)
(***************************************************************************)
EXTENDS SoundCard, FiniteSetsExt

CONSTANTS
  Commands,     \* the commands the user may give
  MaxCommands   \* bound on the number of commands

ASSUME CommandAssumption ==
  /\ Commands \subseteq {"open", "pause", "resume", "speed", "stop", "quit",
                   "eof"}
  /\ MaxCommands \in Nat

VARIABLES
  hasOpened, isPlaying, readDecPid,  \* fields of apinfo; None for pid -1
  todo,                              \* what is left of the command
  node,                              \* i of the loop in clearSoundCardBuffer
  commands,                          \* commands given so far
  born, killed, dead                 \* readers forked, killed, exited

ctl   == <<hasOpened, isPlaying, readDecPid>>
procs == <<born, killed, dead>>
pvars == <<vars, ctl, todo, node, commands, procs>>

PlayerInit ==
  /\ Init
  /\ hasOpened = FALSE /\ isPlaying = 0 /\ readDecPid = None
  /\ todo = <<>> /\ node = 0 /\ commands = 0
  /\ born = {} /\ killed = {} /\ dead = {}

----------------------------------------------------------------------------
(* The commands.                                                           *)

(* Mutant of clearSoundCardBuffer: the nodes are not cleared.              *)
clearKeepsNodes == <<"vars", "reset", "head">>

clearSoundCardBuffer == <<"vars", "nodes", "reset", "head">>

apCloseAudio == <<"kill">> \o clearSoundCardBuffer \o <<"closed">>

apOpenAudio == clearSoundCardBuffer \o <<"opened">>

Close == IF hasOpened THEN apCloseAudio ELSE <<>>

(* apSetPlay, which does nothing if the player is in that state already.   *)
apSetPlay(play) ==
  IF ~hasOpened \/ isPlaying = play THEN <<>>
  ELSE IF play = 0 THEN <<"setPlay0", "paused">> ELSE <<"setPlay1", "playing">>

(* Mutant of updateSampleRate: the card is not run again.                  *)
updateStops == IF hasOpened /\ isPlaying = 1 THEN <<"setPlay0">> ELSE <<>>

(* updateSampleRate restarts the card while the player is playing.         *)
updateSampleRate ==
  IF hasOpened /\ isPlaying = 1 THEN <<"setPlay0", "setPlay1">> ELSE <<>>

(* runcmd: what each command does.  open fails when the file or its head   *)
(* is bad, after the file that was open has been closed.  At the end of    *)
(* its input the player exits and leaves the reader running.               *)
runcmd(c) ==
  CASE c = "open"   -> {Close,
                        Close \o apOpenAudio \o <<"fork", "setPlay1", "playing">>}
    [] c = "pause"  -> {apSetPlay(0)}
    [] c = "resume" -> {apSetPlay(1)}
    [] c = "speed"  -> {<<>>, updateSampleRate}
    [] c = "stop"   -> {Close}
    [] c = "quit"   -> {Close \o <<"exit">>}
    [] c = "eof"    -> {<<"exit">>}

Command ==
  /\ MayRun(None) /\ todo = <<>> /\ commands < MaxCommands
  /\ \E c \in Commands : todo' \in runcmd(c)
  /\ commands' = commands + 1
  /\ UNCHANGED <<vars, ctl, node, procs>>

----------------------------------------------------------------------------
(* The steps of a command.                                                 *)

At(s) == MayRun(None) /\ todo # <<>> /\ todo[1] = s

Done == todo' = Tail(todo) /\ UNCHANGED commands

Assign(s) == At(s) /\ Done /\ UNCHANGED <<vars, node>>

Kill ==
  /\ Assign("kill")
  /\ killed' = killed \cup ({readDecPid} \cap (born \ dead))
  /\ UNCHANGED <<ctl, born, dead>>

Closed == Assign("closed") /\ hasOpened' = FALSE
          /\ UNCHANGED <<isPlaying, readDecPid, procs>>

Opened == /\ Assign("opened")
          /\ hasOpened' = TRUE /\ isPlaying' = 0 /\ readDecPid' = None
          /\ UNCHANGED procs

SetIsPlaying == /\ \/ Assign("playing") /\ isPlaying' = 1
                   \/ Assign("paused") /\ isPlaying' = 0
                /\ UNCHANGED <<hasOpened, readDecPid, procs>>

(* apReadDecode: fork fails when the process table is full; the failure is *)
(* not looked at.                                                          *)
Fork ==
  /\ Assign("fork")
  /\ IF born = Procs THEN UNCHANGED <<born, readDecPid>>
     ELSE \E p \in Procs \ born : born' = born \cup {p} /\ readDecPid' = p
  /\ UNCHANGED <<hasOpened, isPlaying, killed, dead>>

Exit == /\ At("exit")
        /\ todo' = <<"exited">>
        /\ UNCHANGED <<vars, ctl, node, commands, procs>>

(* setPlay: nothing to write unless CR is in the other state.              *)
CallSetPlay(play) ==
  /\ At(IF play = 0 THEN "setPlay0" ELSE "setPlay1") /\ setplay = None
  /\ IF cr = (IF play = 0 THEN 5 ELSE 0)
       THEN SetPlay(play) /\ UNCHANGED todo
       ELSE todo' = Tail(todo) /\ UNCHANGED vars
  /\ UNCHANGED <<ctl, node, commands, procs>>

EndSetPlay == SetPlayWrite /\ Done /\ UNCHANGED <<ctl, node, procs>>

(* sys_clearSoundCardBuffer takes no lock: the reader, or an interrupt,    *)
(* may come between any two steps.                                         *)
ClearVars ==
  /\ At("vars")
  /\ buffer_index' = 0 /\ used_size' = 0 /\ node' = 0
  /\ Done
  /\ UNCHANGED <<flag, next, data, head, lock, queue, card, pc, loc, ipc,
                 setplay, panicked, ctl, procs>>

ClearNode ==
  /\ At("nodes")
  /\ Zeroed(node)
  /\ IF node = NodeNum - 1 THEN Done /\ UNCHANGED node
     ELSE node' = node + 1 /\ UNCHANGED <<todo, commands>>
  /\ UNCHANGED <<buffer_index, used_size, head, lock, queue, card, pc, loc, ipc,
                 setplay, panicked, ctl, procs>>

(* The card's registers are reset: it stops, forgets its list and any      *)
(* interrupt it has pending.  The history out starts again.                *)
ResetCard ==
  /\ At("reset")
  /\ cr' = 0 /\ halted' = TRUE /\ bdbar' = FALSE /\ pos' = 0 /\ irq' = FALSE
  /\ out' = <<>>
  /\ Done
  /\ UNCHANGED <<buf, head, lock, queue, list, pc, loc, ipc, setplay, panicked,
                 ctl, node, procs>>

ClearHead ==
  /\ At("head")
  /\ head' = None /\ queue' = <<>>
  /\ Done
  /\ UNCHANGED <<buf, lock, card, pc, loc, ipc, setplay, panicked, ctl, node,
                 procs>>

CommandStep ==
  \/ Kill \/ Closed \/ Opened \/ SetIsPlaying \/ Fork \/ Exit
  \/ (\E play \in {0, 1} : CallSetPlay(play)) \/ EndSetPlay
  \/ ClearVars \/ ClearNode \/ ResetCard \/ ClearHead

----------------------------------------------------------------------------
(* A reader reads MaxChunk bytes at a time until the file ends.            *)

ReadWrite(p) ==
  /\ p \notin killed
  /\ IF rd[p] < StreamLen THEN WriteCall(p, Min({MaxChunk, StreamLen - rd[p]}))
                          ELSE FinishCall(p)

(* It exits at the end of the file, or when it is back from the kernel and *)
(* has been killed.                                                        *)
Die(p) ==
  /\ MayRun(p) /\ p \notin dead
  /\ pc[p] = "exited" \/ (pc[p] = "idle" /\ p \in killed)
  /\ dead' = dead \cup {p}
  /\ UNCHANGED <<vars, ctl, todo, node, commands, born, killed>>

Reader(p) ==
  \/ /\ p \in born \ dead
     /\ ReadWrite(p) \/ InDriver(p)
     /\ UNCHANGED <<ctl, todo, node, commands, procs>>
  \/ p \in born /\ Die(p)

Player == <<ctl, todo, node, commands, procs>>

TakeInterrupt == Interrupt /\ UNCHANGED Player
RunCard       == CardStep /\ UNCHANGED Player

PlayerNext == \/ Command \/ CommandStep
              \/ \E p \in Procs : Reader(p)
              \/ TakeInterrupt \/ RunCard

PlayerSpec == PlayerInit /\ [][PlayerNext]_pvars

FairPlayerSpec ==
  /\ PlayerSpec
  /\ \A p \in Procs : WF_pvars(Reader(p))
  /\ WF_pvars(CommandStep)
  /\ WF_pvars(TakeInterrupt) /\ WF_pvars(RunCard)

----------------------------------------------------------------------------
(* Properties.                                                             *)

PlayerOK ==
  /\ TypeOK
  /\ hasOpened \in BOOLEAN /\ isPlaying \in {0, 1}
  /\ readDecPid \in Procs \cup {None}
  /\ node \in Nodes /\ commands \in 0 .. MaxCommands
  /\ born \subseteq Procs /\ killed \subseteq born /\ dead \subseteq born

AtPrompt == todo = <<>>

(* While the player says it is playing the run bit of the card is set, so  *)
(* that any node that gets to the queue is played.                         *)
RunsWhenPlaying == AtPrompt /\ hasOpened /\ isPlaying = 1 => cr = 5

(* Of a file that was closed no more is left in the buffers than the one   *)
(* call its reader was in when it was killed had still to write.           *)
StaleBounded ==
  AtPrompt => \A p \in killed :
    Cardinality({b \in {data[n][i] : n \in Nodes, i \in 0 .. BufSize - 1} :
                   b # Silence /\ b[1] = p}) <= MaxChunk

(* A reader that close has killed ends, also one that spins in the kernel  *)
(* for a free node while the card is paused: clearing the buffers frees    *)
(* nodes for it.                                                           *)
KilledEnds == \A p \in Procs : p \in killed ~> (p \in dead \/ panicked)

(* "pause playing": from the pause to the resume nothing is played.        *)
PauseHolds ==
  [][AtPrompt /\ hasOpened /\ isPlaying = 0 => out' = out]_pvars
=============================================================================
