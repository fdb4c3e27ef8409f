------------------------------- MODULE Shell -------------------------------
(***************************************************************************)
(* The shell, user/sh.c: its parser, the processes and pipes runcmd makes  *)
(* of a command, and its main loop; over Files.                            *)
(***************************************************************************)
EXTENDS Files

CONSTANTS
  Tokens,    \* the tokens that may be typed: symbols and words
  MaxLen,    \* bound on the tokens typed
  Lines,     \* lines the shell is given to run
  MAXARGS,
  Chunk,     \* size of the buffer of cat
  EchoBytes  \* what echo writes

VARIABLES line, phase, whole  \* the line; is it being typed, run or over; nothing failed

shellVars == <<filesVars, line, phase, whole>>

----------------------------------------------------------------------------
(* Parsing.  gettoken and peek see the first token: a symbol or a word.    *)
(* A result is the command and what is left, or Bad where the code panics. *)
Symbols == {"<", ">", "|", "&", ";", "(", ")"}
IsWord(t) == t \notin Symbols
peek(s, toks) == s # <<>> /\ Head(s) \in toks

Bad == [ok |-> FALSE, cmd |-> <<>>, rest |-> <<>>]
Ok(cmd, rest) == [ok |-> TRUE, cmd |-> cmd, rest |-> rest]

RECURSIVE parseredirs(_, _), parseargs(_, _, _), parseexec(_), parsepipe(_), parseline(_),
          backs(_)

(* A command is a tuple that starts with its type; a redirection wraps the *)
(* command it is attached to.                                              *)
parseredirs(cmd, s) ==
  CASE ~peek(s, {"<", ">"}) -> Ok(cmd, s)
    [] Len(s) < 2 \/ ~IsWord(s[2]) -> Bad
    [] OTHER -> parseredirs(<<"redir", IF s[1] = "<" THEN 0 ELSE 1, cmd>>, SubSeq(s, 3, Len(s)))

(* The loop of parseexec; exec's arguments grow under the redirections.    *)
RECURSIVE AddArg(_, _)
AddArg(cmd, a) ==
  IF cmd[1] = "exec" THEN <<"exec", Append(cmd[2], a)>> ELSE <<"redir", cmd[2], AddArg(cmd[3], a)>>

parseargs(cmd, s, argc) ==
  CASE s = <<>> \/ peek(s, {"|", ")", "&", ";"}) -> Ok(cmd, s)
    [] ~IsWord(Head(s)) \/ argc + 1 >= MAXARGS -> Bad
    [] OTHER -> LET r == parseredirs(AddArg(cmd, Head(s)), Tail(s))
                IN IF r.ok THEN parseargs(r.cmd, r.rest, argc + 1) ELSE Bad

parseblock(s) ==
  LET r == parseline(Tail(s))
  IN IF r.ok /\ peek(r.rest, {")"}) THEN parseredirs(r.cmd, Tail(r.rest)) ELSE Bad

parseexec(s) ==
  IF peek(s, {"("}) THEN parseblock(s)
  ELSE LET r == parseredirs(<<"exec", <<>>>>, s)
       IN IF r.ok THEN parseargs(r.cmd, r.rest, 0) ELSE Bad

parsepipe(s) ==
  LET l == parseexec(s)
      r == parsepipe(Tail(l.rest))
  IN IF l.ok /\ peek(l.rest, {"|"})
       THEN IF r.ok THEN Ok(<<"pipe", l.cmd, r.cmd>>, r.rest) ELSE Bad
       ELSE l

(* Mutant of backs: an if where the code has a while.                      *)
OneBack(r) == IF r.ok /\ peek(r.rest, {"&"}) THEN Ok(<<"back", r.cmd>>, Tail(r.rest)) ELSE r

backs(r) == IF r.ok /\ peek(r.rest, {"&"}) THEN backs(Ok(<<"back", r.cmd>>, Tail(r.rest))) ELSE r

parseline(s) ==
  LET l == backs(parsepipe(s))
      r == parseline(Tail(l.rest))
  IN IF l.ok /\ peek(l.rest, {";"})
       THEN IF r.ok THEN Ok(<<"list", l.cmd, r.cmd>>, r.rest) ELSE Bad
       ELSE l

parsecmd(s) == LET r == parseline(s) IN IF r.ok /\ r.rest = <<>> THEN r ELSE Bad

----------------------------------------------------------------------------
(* The programs exec runs: echo writes its bytes, cat copies its input,    *)
(* any calls pipe with one descriptor left and with an address that is bad *)
(* (Failing), then shares a pipe with a child and both make any calls of   *)
(* Menu.                                                                   *)
Failing == <<Call("open", 0, 0), Call("pipe", 0, 1), Call("close", 2, 0), Call("pipe", 0, 0)>>

Program(name) ==
  CASE name = "echo" -> <<WriteCall(EchoBytes), ExitCall>>
    [] name = "cat" -> <<Call("cat", 0, Chunk), ExitCall>>
    [] name = "any" -> LET any == Call("any", 0, 0)
                       IN Failing \o <<Call("pipe", 0, 1), ForkCall(<<any, ExitCall>>), any, any, ExitCall>>
    [] OTHER -> <<ExitCall>>

(* Mutant of CloseEnds: the writing end stays open.                        *)
ReadEndOnly == <<Call("close", P0, 0)>>

CloseEnds == <<Call("close", P0, 0), Call("close", P1, 0)>>

RECURSIVE runcmd(_)
runcmd(cmd) ==
  CASE cmd[1] = "exec" -> IF cmd[2] = <<>> THEN <<ExitCall>> ELSE Program(cmd[2][1])
    [] cmd[1] = "redir" ->
         <<Call("close", cmd[2], 0), Must(Call("open", 0, 0))>> \o runcmd(cmd[3])
    [] cmd[1] = "list" -> <<ForkCall(runcmd(cmd[2])), Call("wait", 0, 0)>> \o runcmd(cmd[3])
    [] cmd[1] = "pipe" ->
         LET wait2 == <<Call("wait", 0, 0), Call("wait", 0, 0)>>
         IN <<Must(Call("pipe", 0, 1)),
              ForkCall(<<Call("close", 1, 0), Call("dup", P1, 0)>> \o CloseEnds \o runcmd(cmd[2])),
              ForkCall(<<Call("close", 0, 0), Call("dup", P0, 0)>> \o CloseEnds \o runcmd(cmd[3]))>>
            \o CloseEnds \o wait2 \o <<ExitCall>>
    [] cmd[1] = "back" -> <<ForkCall(runcmd(cmd[2])), ExitCall>>

Child == [s \in Lines |-> LET r == parsecmd(s) IN IF r.ok THEN runcmd(r.cmd) ELSE <<ExitCall>>]

(* The main loop of the shell: gets reads a line, fork1 runs it in a child *)
(* and the shell waits; at the end of its input it exits.                  *)
gets ==
  /\ phase = "type"
  /\ \/ \E t \in Tokens : Len(line) < MaxLen /\ line' = Append(line, t)
     \/ line = <<>> /\ line' \in Lines
  /\ UNCHANGED <<filesVars, phase, whole>>

main ==
  /\ at[1] = "user" /\ ~killed[1] /\ script[1] = <<>>
  /\ \/ /\ phase = "type" /\ line \in Lines /\ phase' = "run"
        /\ script' = [script EXCEPT ![1] = <<ForkCall(Child[line]), Call("wait", 0, 0)>>]
     \/ /\ phase = "run" /\ phase' = "over"
        /\ script' = [script EXCEPT ![1] = <<ExitCall>>]
  /\ UNCHANGED <<files, pipes, at, pfd, parent, killed, locals, kills, printed, line, whole>>

Words == {line[i] : i \in DOMAIN line}

ShellStep(p) ==
  /\ FilesStep(p) /\ UNCHANGED <<line, phase>>
  /\ whole' = (/\ whole /\ ret'[p] # -1
               /\ Asks(p, "fork") => \E q \in Procs : at[q] = "unused")

ShellKill(p) == phase # "type" /\ "any" \notin Words /\ kill(p) /\ whole' = FALSE /\ UNCHANGED <<line, phase>>

ShellInit == FilesInit /\ line = <<>> /\ phase = "type" /\ whole = TRUE

ShellNext == gets \/ main \/ \E p \in Procs : ShellStep(p) \/ ShellKill(p)

----------------------------------------------------------------------------
(* Reference: the trees an ambiguous grammar of command lines derives.     *)
RECURSIVE Simple(_), Block(_), Piped(_), Backed(_), Derived(_), Args(_)

Args(c) == IF c[1] = "exec" THEN c[2] ELSE Args(c[3])

FrontOf(s, n) == SubSeq(s, 1, Len(s) - n)
Last1(s) == s[Len(s)]
Redirected(S, s) == {<<"redir", IF s[Len(s) - 1] = "<" THEN 0 ELSE 1, c>> : c \in S}
EndsInRedir(s) == Len(s) > 1 /\ IsWord(Last1(s)) /\ s[Len(s) - 1] \in {"<", ">"}

Simple(s) ==
  CASE s = <<>> -> {<<"exec", <<>>>>}
    [] EndsInRedir(s) -> Redirected(Simple(FrontOf(s, 2)), s)
    [] OTHER -> {AddArg(c, Last1(s)) :
                   c \in {x \in Simple(FrontOf(s, 1)) : IsWord(Last1(s)) /\ Len(Args(x)) + 1 < MAXARGS}}

Block(s) ==
  CASE s = <<>> -> {}
    [] EndsInRedir(s) -> Redirected(Block(FrontOf(s, 2)), s)
    [] OTHER -> IF Head(s) = "(" /\ Last1(s) = ")" THEN Derived(Tail(FrontOf(s, 1))) ELSE {}

Splits(s, t, F(_), G(_), name) ==
  UNION {{<<name, l, r>> : l \in F(SubSeq(s, 1, i - 1)), r \in G(SubSeq(s, i + 1, Len(s)))} :
         i \in {i \in DOMAIN s : s[i] = t}}

Piped(s) ==
  Simple(s) \cup Block(s)
  \cup Splits(s, "|", LAMBDA x : Simple(x) \cup Block(x), Piped, "pipe")

Backed(s) ==
  Piped(s) \cup IF s # <<>> /\ Last1(s) = "&" THEN {<<"back", c>> : c \in Backed(FrontOf(s, 1))} ELSE {}

Derived(s) == Backed(s) \cup Splits(s, ";", Backed, Derived, "list")

(* The recursive-descent parser accepts exactly the lines of the grammar,  *)
(* and the tree it builds is the only one the grammar derives: pipes and   *)
(* lists group to the right, & binds tighter than ;, a redirection wraps   *)
(* what is left of it, whatever the nesting of blocks.                     *)
ParserRight ==
  phase = "type" =>
    LET r == parsecmd(line) IN Derived(line) = IF r.ok THEN {r.cmd} ELSE {}

(* Reference: what a command is to do with an input of n bytes: what it    *)
(* writes to its output and elsewhere, and what it leaves of its input.    *)
RECURSIVE Eval(_, _)
Eval(c, n) ==
  CASE c[1] = "exec" -> IF c[2] = <<>> THEN <<0, 0, n>>
                        ELSE IF c[2][1] = "cat" THEN <<n, 0, 0>>
                        ELSE <<IF c[2][1] = "echo" THEN EchoBytes ELSE 0, 0, n>>
    [] c[1] = "redir" -> LET e == Eval(c[3], IF c[2] = 0 THEN 0 ELSE n)
                         IN IF c[2] = 0 THEN <<e[1], e[2], n>> ELSE <<0, e[1] + e[2], e[3]>>
    [] c[1] = "list" -> LET a == Eval(c[2], n)
                            b == Eval(c[3], a[3])
                        IN <<a[1] + b[1], a[2] + b[2], b[3]>>
    [] c[1] = "pipe" -> LET a == Eval(c[2], n)
                            b == Eval(c[3], a[1])
                        IN <<b[1], a[2] + b[2], a[3]>>
    [] c[1] = "back" -> Eval(c[2], n)

Quiet == \A p \in Procs : at[p] = "unused"

(* When all processes of a line have ended and none was killed or failed,  *)
(* what was written is what the line means: the concurrent cats lost and   *)
(* duplicated no byte and all saw the end of their input.                  *)
OutputRight ==
  phase = "over" /\ whole /\ Quiet /\ "any" \notin Words =>
    LET e == Eval(parsecmd(line).cmd, 0) IN printed = e[1] + e[2]

ShellSpec == ShellInit /\ [][ShellNext]_shellVars

ShellFair == \A p \in Procs : WF_shellVars(ShellStep(p))

FairShellSpec == ShellSpec /\ WF_shellVars(main) /\ ShellFair

(* The shell comes back to its prompt and every process of the line ends,  *)
(* whoever is killed: a pipe whose other end is gone stops blocking.       *)
CommandsEnd == <>[](phase = "type" \/ "any" \in Words \/ Quiet)

F(pi) == INSTANCE Fifo WITH Size <- PIPESIZE, Bytes <- 0 .. WORD - 1, q <- Contents(pi),
           reading <- readopen[pi], writing <- writeopen[pi]

(* Every pipe implements the bounded FIFO: pipewrite, piperead, pipeclose  *)
(* and pipealloc are its steps, also when nread and nwrite wrap.           *)
PipeIsFifo ==
  /\ \A pi \in Pipes : F(pi)!FifoInit
  /\ [][\A pi \in Pipes : F(pi)!FifoNext \/ UNCHANGED F(pi)!fifoVars]_filesVars
=============================================================================
