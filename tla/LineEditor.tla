---------------------------- MODULE LineEditor ----------------------------
(***************************************************************************)
(* What the console promises of its input: typed characters gather in a    *)
(* line that can be edited; a line end, an end of file or a full buffer    *)
(* hands it over to the readers, and from then on no key erases it.        *)
(***************************************************************************)
EXTENDS Naturals, Sequences

CONSTANTS Size, Chars, Enders  \* room; characters; those that end a line

VARIABLES ready, edit

lineVars == <<ready, edit>>

LineInit == ready = <<>> /\ edit = <<>>

TypeChar ==
  \E c \in Chars :
    /\ Len(ready) + Len(edit) < Size
    /\ LET e == Append(edit, c) IN
       IF c \in Enders \/ Len(ready) + Len(e) = Size
         THEN ready' = ready \o e /\ edit' = <<>>
         ELSE edit' = e /\ UNCHANGED ready

Erase == edit # <<>> /\ edit' = SubSeq(edit, 1, Len(edit) - 1) /\ UNCHANGED ready
KillLine == edit' = <<>> /\ UNCHANGED ready
Take == (\E n \in 1 .. Len(ready) : ready' = SubSeq(ready, n + 1, Len(ready))) /\ UNCHANGED edit

LineNext == TypeChar \/ Erase \/ KillLine \/ Take

LineSpec == LineInit /\ [][LineNext]_lineVars
=============================================================================
