-------------------------------- MODULE MCFs --------------------------------
(***************************************************************************)
(* The calls on paths that TLC makes of Fs: on /a/b, which is a directory  *)
(* or a file at the start, on /a and on /b, from the root and through the  *)
(* .. of a directory that may be gone.                                     *)
(***************************************************************************)
EXTENDS Fs

Path(o, pth) == [op |-> o, path |-> pth, abs |-> TRUE, write |-> FALSE]
Link(from, to) == [op |-> "link", old |-> from, path |-> to, abs |-> TRUE, write |-> FALSE]

MCCalls ==
  {Path(o, <<"a", "b">>) : o \in {"chdir", "unlink", "mkdir", "open"}}
  \cup {Path("unlink", <<"a">>), Path("create", <<"b">>), Path("chdir", <<>>), Path("close", <<>>)}
  \cup {[Path("open", <<"..">>) EXCEPT !.abs = FALSE], Link(<<"a", "b">>, <<"b">>)}
=============================================================================
