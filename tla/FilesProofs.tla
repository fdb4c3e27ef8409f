---------------------------- MODULE FilesProofs ----------------------------
(***************************************************************************)
(* The steps of open, pipe, fileclose, pipeclose and fork keep the         *)
(* invariant of FilesInv too, so the counts of files and the ends of pipes *)
(* are exact in every state.                                               *)
(***************************************************************************)
EXTENDS FilesInv

LEMMA OpensStep ==
  ASSUME TabOK, AtInv, CountInv, FreshInv, EndsInv, SameEnds,
         NEW p \in Procs, NEW fd \in Fds, Opens(p, fd)
  PROVE TabOK' /\ AtInv' /\ CountInv' /\ FreshInv' /\ EndsInv'
<1> DEFINE g == closing[p][1]
<1>0. /\ closing[p] \in Seq(FileIds) /\ Len(closing[p]) = 1 /\ 1 \in DOMAIN closing[p]
      /\ g \in FileIds
  BY DEF TabOK, AtInv, AtOK, Opens
<1>6. ref[g] = 1 /\ kind[g] = "none" BY Zenon, <1>0 DEF FreshInv, Fresh, Opens
<1>7. at'[p] = "user" /\ closing'[p] = <<>> BY Zenon DEF Opens, TabOK
<1>8. <<>> \in Seq(FileIds) /\ Len(<<>>) = 0 OBVIOUS
<1>1. TabOK' BY Zenon, <1>0, <1>8 DEF TabOK, Opens, Points, Kinds
<1>2. AtInv'
  <2>1. ASSUME NEW q \in Procs PROVE AtOK(q)'
    <3>1. CASE q = p BY <1>7, <1>8, <3>1 DEF AtOK
    <3>2. CASE q # p BY Zenon, <3>2, OthersAt DEF Opens, TabOK
    <3> QED BY <3>1, <3>2
  <2> QED BY <2>1 DEF AtInv
<1>3. CountInv'
  <2>1. ASSUME NEW f \in FileIds
        PROVE ref'[f] = Cardinality(Named(ofile', f)) + Cardinality(Pending(closing', f))
    <3>1. Cardinality(Named(ofile', f)) + Is(0, f) = Cardinality(Named(ofile, f)) + Is(g, f)
      <4>1. SetFd(ofile, ofile', p, fd, g) /\ ofile[p][fd] = 0 BY Zenon DEF Opens, TabOK, SetFd
      <4> QED BY <4>1, NamedSet
    <3>2. Cardinality(Pending(closing', f)) + Cardinality(Places(closing[p], f)) =
            Cardinality(Pending(closing, f)) + Cardinality(Places(<<>>, f))
      <4>1. SetRow(closing, closing', p, <<>>) BY Zenon DEF Opens, TabOK, SetRow
      <4> QED BY <4>1, PendingSet
    <3>3. Cardinality(Places(closing[p], f)) = Is(g, f) /\ Cardinality(Places(<<>>, f)) = 0
      BY Zenon, <1>0, PlacesCount
    <3>4. Is(0, f) = 0 /\ Is(g, f) \in Nat BY Zenon, SetFacts DEF Is
    <3>5. ref'[f] = Cardinality(Named(ofile, f)) + Cardinality(Pending(closing, f))
      BY Zenon DEF CountInv, Opens
    <3>6. /\ Cardinality(Named(ofile, f)) \in Nat /\ Cardinality(Pending(closing, f)) \in Nat
          /\ Cardinality(Named(ofile', f)) \in Nat /\ Cardinality(Pending(closing', f)) \in Nat
      BY Zenon, FiniteCounts
    <3> QED BY SMTT(30), <3>1, <3>2, <3>3, <3>4, <3>5, <3>6
  <2> QED BY <2>1 DEF CountInv
<1>4. FreshInv'
  <2>1. \A f \in FileIds : ref'[f] = 0 => kind'[f] = "none"
    BY <1>0, <1>6 DEF Opens, TabOK, FreshInv
  <2>2. ASSUME NEW q \in Procs, Fresh(q)' PROVE q # p /\ Fresh(q) /\ closing'[q] = closing[q]
    BY Zenon, <1>7, <2>2 DEF Fresh, Opens, TabOK
  <2>3. ASSUME NEW q \in Procs, q # p, Fresh(q), NEW i \in DOMAIN closing[q]
        PROVE ref'[closing[q][i]] = 1 /\ kind'[closing[q][i]] = "none"
    <3>1. closing[q][i] # g BY Zenon, <1>0, <1>6, <2>3, Alone
    <3> QED BY <2>3, <3>1 DEF FreshInv, Opens, TabOK
  <2> QED BY <2>1, <2>2, <2>3 DEF FreshInv
<1>5. EndsInv'
  <2>1. \A f \in FileIds : f # g => kind'[f] = kind[f] BY Zenon DEF Opens, TabOK
  <2>2. kind'[g] = "dev" BY Zenon, <1>0 DEF Opens, TabOK
  <2>3. \A q \in Procs : at'[q] = "pipeclose" <=> at[q] = "pipeclose" BY Zenon DEF Opens, TabOK
  <2>4. UNCHANGED <<ref, pipe, ff>> BY Zenon DEF Opens
  <2>5. \A f \in FileIds : kind'[f] \in {"read", "write"} => pipe'[f] \in Pipes
    BY Zenon, <2>1, <2>2, <2>4 DEF EndsInv
  <2>6. \A f \in FileIds : \A e \in {"read", "write"} : kind'[f] = e <=> kind[f] = e
    BY Zenon, <1>6, <2>1, <2>2
  <2> QED BY <2>3, <2>4, <2>5, <2>6, EndsSame DEF FileHolds, ProcHolds
<1> QED BY SMTT(30), <1>1, <1>2, <1>3, <1>4, <1>5
----------------------------------------------------------------------------
(* One end of the pipes.                                                   *)
EndsOf(e) == IF e = "read" THEN ReadEnds ELSE WriteEnds

EndInv(e) == (\A pi \in Pipes : OneHolder(e, pi)) /\ OpenIffHeld(e, EndsOf(e))

EndsTyped == \A f \in FileIds : kind[f] \in {"read", "write"} => pipe[f] \in Pipes

LEMMA EndsSplit ==
  /\ EndsInv <=> EndsTyped /\ \A e \in {"read", "write"} : EndInv(e)
  /\ EndsInv' <=> EndsTyped' /\ \A e \in {"read", "write"} : EndInv(e)'
<1>1. EndsOf("read") = ReadEnds /\ EndsOf("write") = WriteEnds BY Zenon DEF EndsOf
<1>2. EndsOf("read")' = ReadEnds' /\ EndsOf("write")' = WriteEnds' BY Zenon DEF EndsOf
<1> QED BY Zenon, <1>1, <1>2 DEF EndsInv, EndsTyped, EndInv

(* Nothing happens to the end e.                                           *)
LEMMA EndSame ==
  ASSUME NEW e, EndInv(e), EndsOf(e)' = EndsOf(e),
         \A pi \in Pipes : \A f \in FileIds : FileHolds(f, e, pi)' <=> FileHolds(f, e, pi),
         \A pi \in Pipes : \A p \in Procs : ProcHolds(p, e, pi)' <=> ProcHolds(p, e, pi)
  PROVE EndInv(e)'
<1>1. ASSUME NEW pi \in Pipes PROVE OneHolder(e, pi)'
  <2>1. OneHolder(e, pi) BY Zenon DEF EndInv
  <2> QED BY Zenon, <2>1 DEF OneHolder
<1>2. OpenIffHeld(e, EndsOf(e))' BY Zenon DEF EndInv, OpenIffHeld
<1> QED BY Zenon, <1>1, <1>2 DEF EndInv

(* The end e of the closed pipe x is given to the file g.                  *)
LEMMA EndGiven ==
  ASSUME NEW e, EndInv(e), NEW x \in Pipes, NEW g \in FileIds,
         x \notin EndsOf(e), EndsOf(e)' = EndsOf(e) \cup {x},
         \A pi \in Pipes : \A f \in FileIds :
           FileHolds(f, e, pi)' <=> FileHolds(f, e, pi) \/ (f = g /\ pi = x),
         \A pi \in Pipes : \A p \in Procs : ProcHolds(p, e, pi)' <=> ProcHolds(p, e, pi)
  PROVE EndInv(e)'
<1>1. /\ \A f \in FileIds : ~FileHolds(f, e, x)
      /\ \A p \in Procs : ~ProcHolds(p, e, x)
  BY Zenon DEF EndInv, OpenIffHeld
<1>2. ASSUME NEW pi \in Pipes PROVE OneHolder(e, pi)'
  <2>1. OneHolder(e, pi) BY Zenon DEF EndInv
  <2> QED BY Zenon, <1>1, <2>1 DEF OneHolder
<1>3. OpenIffHeld(e, EndsOf(e))' BY Zenon DEF EndInv, OpenIffHeld
<1> QED BY Zenon, <1>2, <1>3 DEF EndInv

(* The end e of x passes from the file g to the process r.                 *)
LEMMA EndPassed ==
  ASSUME NEW e, EndInv(e), NEW x \in Pipes, NEW g \in FileIds, NEW r \in Procs,
         FileHolds(g, e, x), EndsOf(e)' = EndsOf(e),
         \A pi \in Pipes : \A f \in FileIds :
           FileHolds(f, e, pi)' <=> FileHolds(f, e, pi) /\ ~(f = g /\ pi = x),
         \A pi \in Pipes : \A p \in Procs :
           ProcHolds(p, e, pi)' <=> ProcHolds(p, e, pi) \/ (p = r /\ pi = x)
  PROVE EndInv(e)'
<1>1. ASSUME NEW pi \in Pipes PROVE OneHolder(e, pi)'
  <2>1. OneHolder(e, pi) BY Zenon DEF EndInv
  <2> QED BY Zenon, <2>1 DEF OneHolder
<1>2. OpenIffHeld(e, EndsOf(e))'
  <2>1. OpenIffHeld(e, EndsOf(e)) BY Zenon DEF EndInv
  <2>2. ASSUME NEW pi \in Pipes
        PROVE pi \in EndsOf(e)' <=> \/ \E f \in FileIds : FileHolds(f, e, pi)'
                                    \/ \E p \in Procs : ProcHolds(p, e, pi)'
    <3>1. CASE pi = x BY Zenon, <2>1, <3>1 DEF OpenIffHeld
    <3>2. CASE pi # x BY Zenon, <2>1, <3>2 DEF OpenIffHeld
    <3> QED BY Zenon, <3>1, <3>2
  <2> QED BY Zenon, <2>2 DEF OpenIffHeld
<1> QED BY Zenon, <1>1, <1>2 DEF EndInv

(* The process r closes the end e of x.                                    *)
LEMMA EndClosed ==
  ASSUME NEW e, EndInv(e), NEW x \in Pipes, NEW r \in Procs,
         ProcHolds(r, e, x), EndsOf(e)' = EndsOf(e) \ {x},
         \A pi \in Pipes : \A f \in FileIds : FileHolds(f, e, pi)' <=> FileHolds(f, e, pi),
         \A pi \in Pipes : \A p \in Procs :
           ProcHolds(p, e, pi)' <=> ProcHolds(p, e, pi) /\ ~(p = r /\ pi = x)
  PROVE EndInv(e)'
<1>1. ASSUME NEW pi \in Pipes PROVE OneHolder(e, pi)'
  <2>1. OneHolder(e, pi) BY Zenon DEF EndInv
  <2> QED BY Zenon, <2>1 DEF OneHolder
<1>2. OpenIffHeld(e, EndsOf(e))'
  <2>1. OpenIffHeld(e, EndsOf(e)) /\ OneHolder(e, x) BY Zenon DEF EndInv
  <2>2. ASSUME NEW pi \in Pipes
        PROVE pi \in EndsOf(e)' <=> \/ \E f \in FileIds : FileHolds(f, e, pi)'
                                    \/ \E p \in Procs : ProcHolds(p, e, pi)'
    <3>1. CASE pi = x BY Zenon, <2>1, <3>1 DEF OneHolder
    <3>2. CASE pi # x BY Zenon, <2>1, <3>2 DEF OpenIffHeld
    <3> QED BY Zenon, <3>1, <3>2
  <2> QED BY Zenon, <2>2 DEF OpenIffHeld
<1> QED BY Zenon, <1>1, <1>2 DEF EndInv
----------------------------------------------------------------------------
(* The two files of pipe(), before and after they get their types.         *)
LEMMA TypedFiles ==
  ASSUME TabOK, AtInv, FreshInv, NEW p \in Procs, NEW x \in Pipes, Typed(p, x)
  PROVE LET rf == closing[p][1]
            wf == closing[p][2]
        IN /\ closing[p] \in Seq(FileIds) /\ DOMAIN closing[p] = {1, 2} /\ rf # wf
           /\ rf \in FileIds /\ wf \in FileIds /\ ref[rf] = 1 /\ ref[wf] = 1
           /\ kind[rf] = "none" /\ kind[wf] = "none"
           /\ kind'[rf] = "read" /\ kind'[wf] = "write" /\ pipe'[rf] = x /\ pipe'[wf] = x
           /\ \A f \in FileIds \ {rf, wf} : kind'[f] = kind[f] /\ pipe'[f] = pipe[f]
<1> DEFINE rf == closing[p][1]
<1> DEFINE wf == closing[p][2]
<1>1. closing[p] \in Seq(FileIds) /\ Len(closing[p]) = 2 /\ Fresh(p) BY Zenon DEF TabOK, Typed, Fresh
<1>2. DOMAIN closing[p] = {1, 2} /\ rf \in FileIds /\ wf \in FileIds BY <1>1
<1>3. ref[rf] = 1 /\ ref[wf] = 1 /\ kind[rf] = "none" /\ kind[wf] = "none" /\ rf # wf
  BY Zenon, <1>1, <1>2 DEF FreshInv
<1> HIDE DEF rf, wf
<1>4. /\ kind' = [kind EXCEPT ![rf] = "read", ![wf] = "write"]
      /\ pipe' = [pipe EXCEPT ![rf] = x, ![wf] = x]
  BY Zenon DEF Typed, rf, wf
<1>5. /\ kind'[rf] = "read" /\ kind'[wf] = "write" /\ pipe'[rf] = x /\ pipe'[wf] = x
      /\ \A f \in FileIds \ {rf, wf} : kind'[f] = kind[f] /\ pipe'[f] = pipe[f]
  BY Zenon, <1>2, <1>3, <1>4 DEF TabOK
<1> QED BY <1>1, <1>2, <1>3, <1>5 DEF rf, wf

LEMMA TypedTab ==
  ASSUME TabOK, AtInv, FreshInv, NEW p \in Procs, NEW x \in Pipes, Typed(p, x)
  PROVE /\ ref' \in [FileIds -> Nat] /\ kind' \in [FileIds -> Kinds]
        /\ pipe' \in [FileIds -> Pipes \cup {0}] /\ ff' \in [Procs -> PipeEnds \cup {<<>>}]
<1>1. "read" \in Kinds /\ "write" \in Kinds BY Zenon DEF Kinds
<1> QED BY Zenon, <1>1 DEF Typed, TabOK

(* They are the caller's alone, so no other call's files have changed.     *)
LEMMA TypedFresh ==
  ASSUME TabOK, AtInv, CountInv, FreshInv, NEW p \in Procs, NEW x \in Pipes, Typed(p, x),
         \A q \in Procs : Fresh(q)' => q # p /\ Fresh(q) /\ closing'[q] = closing[q]
  PROVE FreshInv'
<1> DEFINE rf == closing[p][1]
<1> DEFINE wf == closing[p][2]
<1>1. /\ DOMAIN closing[p] = {1, 2} /\ rf \in FileIds /\ wf \in FileIds /\ rf # wf
      /\ ref[rf] = 1 /\ ref[wf] = 1
      /\ \A f \in FileIds \ {rf, wf} : kind'[f] = kind[f]
  BY Zenon, TypedFiles
<1>2. ref' = ref BY Zenon DEF Typed
<1>3. \A f \in FileIds : ref'[f] = 0 => kind'[f] = "none" BY <1>1, <1>2 DEF FreshInv
<1>4. ASSUME NEW q \in Procs, q # p, Fresh(q), NEW i \in DOMAIN closing[q]
      PROVE ref'[closing[q][i]] = 1 /\ kind'[closing[q][i]] = "none"
  <2>1. /\ closing[q][i] \in FileIds
        /\ ref[closing[q][i]] = 1 /\ kind[closing[q][i]] = "none"
    BY <1>4 DEF FreshInv, TabOK
  <2>2. closing[q][i] # rf /\ closing[q][i] # wf BY <1>1, <1>4, Alone
  <2> HIDE DEF rf, wf
  <2> QED BY SMTT(30), <1>1, <1>2, <2>1, <2>2
<1> QED BY <1>3, <1>4 DEF FreshInv

LEMMA TypedEnds ==
  ASSUME TabOK, AtInv, FreshInv, EndsInv, NEW p \in Procs, NEW x \in Pipes, Typed(p, x),
         Paired(x), \A q \in Procs : at'[q] = "pipeclose" <=> at[q] = "pipeclose"
  PROVE EndsInv'
<1> DEFINE rf == closing[p][1]
<1> DEFINE wf == closing[p][2]
<1>1. /\ rf \in FileIds /\ wf \in FileIds /\ rf # wf /\ ref[rf] = 1 /\ ref[wf] = 1
      /\ kind[rf] = "none" /\ kind[wf] = "none"
      /\ kind'[rf] = "read" /\ kind'[wf] = "write" /\ pipe'[rf] = x /\ pipe'[wf] = x
      /\ \A f \in FileIds \ {rf, wf} : kind'[f] = kind[f] /\ pipe'[f] = pipe[f]
  BY Zenon, TypedFiles
<1>2. UNCHANGED <<ref, ff>> /\ x \notin ReadEnds /\ x \notin WriteEnds BY Zenon DEF Typed
<1> HIDE DEF rf, wf
<1>3. EndsTyped' BY Zenon, <1>1, EndsSplit DEF EndsTyped
<1>4. \A e, pi : \A q \in Procs : ProcHolds(q, e, pi)' <=> ProcHolds(q, e, pi)
  BY Zenon, <1>2 DEF ProcHolds
<1>5. \A pi \in Pipes : \A f \in FileIds :
        /\ FileHolds(f, "read", pi)' <=> FileHolds(f, "read", pi) \/ (f = rf /\ pi = x)
        /\ FileHolds(f, "write", pi)' <=> FileHolds(f, "write", pi) \/ (f = wf /\ pi = x)
  BY <1>1, <1>2 DEF FileHolds
<1>6. /\ EndsOf("read")' = EndsOf("read") \cup {x} /\ x \notin EndsOf("read")
      /\ EndsOf("write")' = EndsOf("write") \cup {x} /\ x \notin EndsOf("write")
  BY Zenon, <1>2 DEF EndsOf, Paired
<1>7. EndInv("read") /\ EndInv("write") BY Zenon, EndsSplit
<1>8. EndInv("read")' BY Zenon, <1>1, <1>4, <1>5, <1>6, <1>7, EndGiven
<1>9. EndInv("write")' BY Zenon, <1>1, <1>4, <1>5, <1>6, <1>7, EndGiven
<1> QED BY Zenon, <1>3, <1>8, <1>9, EndsSplit

(* pipe() fails with its files typed.                                      *)
LEMMA FailsStep ==
  ASSUME TabOK, AtInv, CountInv, FreshInv, EndsInv,
         NEW p \in Procs, NEW x \in Pipes, Typed(p, x), Fails(p), Paired(x)
  PROVE TabOK' /\ AtInv' /\ CountInv' /\ FreshInv' /\ EndsInv'
<1>0. /\ at[p] = "pipealloc" /\ at'[p] = "closing" /\ UNCHANGED <<ofile, closing, ref, ff>>
      /\ \A q \in Procs \ {p} : at'[q] = at[q]
  BY Zenon DEF Typed, Fails, TabOK
<1>1. TabOK'
  <2>1. at' \in [Procs -> Points] BY Zenon DEF Fails, TabOK, Points
  <2> QED BY Zenon, <1>0, <2>1, TypedTab DEF TabOK
<1>2. AtInv'
  <2>1. ASSUME NEW q \in Procs PROVE AtOK(q)'
    <3>1. CASE q = p BY Zenon, <1>0, <3>1 DEF AtInv, AtOK
    <3>2. CASE q # p BY Zenon, <1>0, <3>2, OthersAt
    <3> QED BY <3>1, <3>2
  <2> QED BY <2>1 DEF AtInv
<1>3. CountInv' BY Zenon, <1>0 DEF CountInv, Named, Pending
<1>4. FreshInv'
  <2>1. \A q \in Procs : Fresh(q)' => q # p /\ Fresh(q) /\ closing'[q] = closing[q]
    BY Zenon, <1>0 DEF Fresh
  <2> QED BY <2>1, TypedFresh
<1>5. EndsInv'
  <2>1. \A q \in Procs : at'[q] = "pipeclose" <=> at[q] = "pipeclose" BY Zenon, <1>0
  <2> QED BY <2>1, TypedEnds
<1> QED BY SMTT(30), <1>1, <1>2, <1>3, <1>4, <1>5
(* pipe() installs its files in two descriptors.                           *)
LEMMA InstallsStep ==
  ASSUME TabOK, AtInv, CountInv, FreshInv, EndsInv,
         NEW p \in Procs, NEW x \in Pipes, NEW fd0 \in Fds, NEW fd1 \in Fds,
         Typed(p, x), Installs(p, fd0, fd1), Paired(x)
  PROVE TabOK' /\ AtInv' /\ CountInv' /\ FreshInv' /\ EndsInv'
<1> DEFINE rf == closing[p][1]
<1> DEFINE wf == closing[p][2]
<1> DEFINE mid == [ofile EXCEPT ![p][fd0] = rf]
<1>0. /\ at[p] = "pipealloc" /\ at'[p] = "user" /\ closing'[p] = <<>> /\ UNCHANGED <<ref, ff>>
      /\ \A q \in Procs \ {p} : at'[q] = at[q] /\ closing'[q] = closing[q] /\ ofile'[q] = ofile[q]
  BY Zenon DEF Typed, Installs, TabOK
<1>6. /\ closing[p] \in Seq(FileIds) /\ Len(closing[p]) = 2 /\ rf \in FileIds /\ wf \in FileIds
      /\ <<>> \in Seq(FileIds) /\ Len(<<>>) = 0
  <2>1. closing[p] \in Seq(FileIds) /\ rf \in FileIds /\ wf \in FileIds BY Zenon, TypedFiles
  <2>2. Len(closing[p]) = 2 BY Zenon DEF Typed
  <2>3. <<>> \in Seq(FileIds) /\ Len(<<>>) = 0 OBVIOUS
  <2> QED BY Zenon, <2>1, <2>2, <2>3
<1>7. /\ mid \in [Procs -> [Fds -> FileIds \cup {0}]] /\ ofile' = [mid EXCEPT ![p][fd1] = wf]
      /\ mid[p][fd1] = 0 /\ ofile[p][fd0] = 0
  BY Zenon, <1>6 DEF Installs, TabOK
<1>1. TabOK'
  <2>1. at' \in [Procs -> Points] BY Zenon DEF Installs, TabOK, Points
  <2>2. closing' \in [Procs -> Seq(FileIds)] BY Zenon, <1>6 DEF Installs, TabOK
  <2>3. ofile' \in [Procs -> [Fds -> FileIds \cup {0}]]
    <3> HIDE DEF mid
    <3> QED BY <1>6, <1>7
  <2> QED BY Zenon, <2>1, <2>2, <2>3, TypedTab DEF TabOK
<1>2. AtInv'
  <2>1. ASSUME NEW q \in Procs PROVE AtOK(q)'
    <3>1. CASE q = p BY <1>0, <1>6, <3>1 DEF AtOK
    <3>2. CASE q # p BY Zenon, <1>0, <3>2, OthersAt
    <3> QED BY <3>1, <3>2
  <2> QED BY <2>1 DEF AtInv
<1>3. CountInv'
  <2>1. ASSUME NEW f \in FileIds
        PROVE ref'[f] = Cardinality(Named(ofile', f)) + Cardinality(Pending(closing', f))
    <3>1. Cardinality(Named(mid, f)) + Is(0, f) = Cardinality(Named(ofile, f)) + Is(rf, f)
      <4>1. SetFd(ofile, mid, p, fd0, rf) /\ ofile[p][fd0] = 0 BY Zenon, <1>7 DEF TabOK, SetFd
      <4> HIDE DEF mid, rf, wf
      <4> QED BY <4>1, NamedSet
    <3>2. Cardinality(Named(ofile', f)) + Is(0, f) = Cardinality(Named(mid, f)) + Is(wf, f)
      <4>1. SetFd(mid, ofile', p, fd1, wf) /\ mid[p][fd1] = 0 BY Zenon, <1>7 DEF SetFd
      <4> HIDE DEF mid, rf, wf
      <4> QED BY <4>1, NamedSet
    <3>3. Cardinality(Pending(closing', f)) + Cardinality(Places(closing[p], f)) =
            Cardinality(Pending(closing, f)) + Cardinality(Places(<<>>, f))
      <4>1. SetRow(closing, closing', p, <<>>) BY Zenon DEF Installs, TabOK, SetRow
      <4> QED BY <4>1, PendingSet
    <3>4. /\ Cardinality(Places(closing[p], f)) = Is(rf, f) + Is(wf, f)
          /\ Cardinality(Places(<<>>, f)) = 0
      BY Zenon, <1>6, PlacesCount
    <3>5. Is(0, f) = 0 /\ Is(rf, f) \in Nat /\ Is(wf, f) \in Nat BY Zenon, SetFacts DEF Is
    <3>6. ref'[f] = Cardinality(Named(ofile, f)) + Cardinality(Pending(closing, f))
      BY Zenon, <1>0 DEF CountInv
    <3>7. /\ Cardinality(Named(ofile, f)) \in Nat /\ Cardinality(Pending(closing, f)) \in Nat
          /\ Cardinality(Named(ofile', f)) \in Nat /\ Cardinality(Pending(closing', f)) \in Nat
          /\ Cardinality(Named(mid, f)) \in Nat
      BY Zenon, FiniteCounts
    <3> HIDE DEF mid, rf, wf
    <3> QED BY SMTT(30), <3>1, <3>2, <3>3, <3>4, <3>5, <3>6, <3>7
  <2> QED BY SMTT(30), <2>1 DEF CountInv
<1>4. FreshInv'
  <2>1. \A q \in Procs : Fresh(q)' => q # p /\ Fresh(q) /\ closing'[q] = closing[q]
    BY Zenon, <1>0 DEF Fresh
  <2> QED BY <2>1, TypedFresh
<1>5. EndsInv'
  <2>1. \A q \in Procs : at'[q] = "pipeclose" <=> at[q] = "pipeclose" BY Zenon, <1>0
  <2> QED BY <2>1, TypedEnds
<1> QED BY SMTT(30), <1>1, <1>2, <1>3, <1>4, <1>5

----------------------------------------------------------------------------
(* A reference to the first file to close is dropped.                      *)
LEMMA DropsCount ==
  ASSUME TabOK, AtInv, CountInv, NEW p \in Procs, Drops(p) PROVE CountInv'
<1> DEFINE s == closing[p]
<1> DEFINE g == Head(closing[p])
<1>1. s \in Seq(FileIds) /\ Len(s) <= 2 /\ s # <<>> BY Zenon DEF Drops, TabOK, AtInv, AtOK
<1>2. /\ g \in FileIds /\ g = s[1] /\ Tail(s) \in Seq(FileIds) /\ Len(s) \in {1, 2}
      /\ Len(s) = 1 => Tail(s) = <<>>
      /\ Len(s) = 2 => Len(Tail(s)) = 1 /\ Tail(s)[1] = s[2]
  <2>1. g \in FileIds /\ g = s[1] /\ Tail(s) \in Seq(FileIds) /\ Len(Tail(s)) = Len(s) - 1
    BY <1>1
  <2>2. Len(s) \in {1, 2}
    <3>1. Len(s) # 0 /\ Len(s) \in Nat BY <1>1
    <3>2. \A n \in Nat : n # 0 /\ n <= 2 => n \in {1, 2} OBVIOUS
    <3> QED BY Zenon, <1>1, <3>1, <3>2
  <2>3. Len(s) = 1 => Tail(s) = <<>>
    <3>1. Len(s) = 1 => Len(Tail(s)) = 0 BY <2>1
    <3>2. \A t \in Seq(FileIds) : Len(t) = 0 => t = <<>> OBVIOUS
    <3> QED BY Zenon, <2>1, <3>1, <3>2
  <2>4. Len(s) = 2 => Len(Tail(s)) = 1 /\ Tail(s)[1] = s[2] BY SMTT(30), <1>1, <2>1
  <2> QED BY Zenon, <2>1, <2>2, <2>3, <2>4
<1>3. ASSUME NEW f \in FileIds
      PROVE ref'[f] = Cardinality(Named(ofile', f)) + Cardinality(Pending(closing', f))
  <2>1. Cardinality(Pending(closing', f)) + Cardinality(Places(s, f)) =
          Cardinality(Pending(closing, f)) + Cardinality(Places(Tail(s), f))
    <3>1. SetRow(closing, closing', p, Tail(s)) BY Zenon DEF Drops, TabOK, SetRow
    <3> QED BY <3>1, PendingSet
  <2>2. Is(g, f) \in Nat BY Zenon DEF Is
  <2>3. Cardinality(Places(s, f)) = Cardinality(Places(Tail(s), f)) + Is(g, f)
    <3>1. CASE Len(s) = 1
      <4>1. /\ Cardinality(Places(s, f)) = Is(s[1], f) /\ Cardinality(Places(Tail(s), f)) = 0
        BY Zenon, <1>1, <1>2, <3>1, PlacesCount
      <4> QED BY <1>2, <2>2, <4>1
    <3>2. CASE Len(s) = 2
      <4>1. /\ Cardinality(Places(s, f)) = Is(s[1], f) + Is(s[2], f)
            /\ Cardinality(Places(Tail(s), f)) = Is(s[2], f)
        BY Zenon, <1>1, <1>2, <3>2, PlacesCount
      <4>2. Is(s[2], f) \in Nat BY Zenon DEF Is
      <4> QED BY <1>2, <2>2, <4>1, <4>2
    <3> QED BY SMTT(30), <1>2, <3>1, <3>2
  <2>4. ref'[f] = ref[f] - Is(g, f) /\ ofile' = ofile BY <1>2 DEF Drops, TabOK, Is
  <2>5. ref[f] = Cardinality(Named(ofile, f)) + Cardinality(Pending(closing, f))
    BY Zenon DEF CountInv
  <2>6. /\ Cardinality(Named(ofile, f)) \in Nat /\ Cardinality(Pending(closing, f)) \in Nat
        /\ Cardinality(Pending(closing', f)) \in Nat /\ Cardinality(Places(Tail(s), f)) \in Nat
    BY Zenon, FiniteCounts
  <2> HIDE DEF s, g
  <2> QED BY SMTT(30), <2>1, <2>2, <2>3, <2>4, <2>5, <2>6
<1> QED BY <1>3 DEF CountInv
LEMMA DropsStep ==
  ASSUME TabOK, AtInv, CountInv, FreshInv, EndsInv, SameEnds, NEW p \in Procs, Drops(p)
  PROVE TabOK' /\ AtInv' /\ CountInv' /\ FreshInv' /\ EndsInv'
<1> DEFINE s == closing[p]
<1> DEFINE g == Head(closing[p])
<1>0. s \in Seq(FileIds) /\ Len(s) <= 2 /\ s # <<>> BY Zenon DEF Drops, TabOK, AtInv, AtOK
<1>6. /\ g \in FileIds /\ g = s[1] /\ Tail(s) \in Seq(FileIds) /\ Len(Tail(s)) <= 2
      /\ 1 \in DOMAIN s
  BY <1>0
<1>7. ref[g] \in Nat /\ ref[g] > 0 BY Zenon, <1>6, NamedInUse DEF TabOK
<1>8. /\ at[p] = "closing" /\ ofile' = ofile /\ pipe' = pipe
      /\ ref' = [ref EXCEPT ![g] = ref[g] - 1]
      /\ closing' = [closing EXCEPT ![p] = Tail(s)]
  BY Zenon DEF Drops
<1> DEFINE piped == ref[g] = 1 /\ kind[g] \in {"read", "write"}
<1>9. /\ kind' = IF ref[g] = 1 THEN [kind EXCEPT ![g] = "none"] ELSE kind
      /\ ff' = IF piped THEN [ff EXCEPT ![p] = <<kind[g], pipe[g]>>] ELSE ff
      /\ at' = IF piped THEN [at EXCEPT ![p] = "pipeclose"] ELSE at
  BY Zenon DEF Drops
<1>10. piped => <<kind[g], pipe[g]>> \in PipeEnds BY Zenon, <1>6 DEF EndsInv, PipeEnds
<1> HIDE DEF s, g, piped
<1>1. TabOK'
  <2>1. ref' \in [FileIds -> Nat] BY <1>6, <1>7, <1>8 DEF TabOK
  <2>2. closing' \in [Procs -> Seq(FileIds)] BY Zenon, <1>6, <1>8 DEF TabOK
  <2>3. "none" \in Kinds /\ "pipeclose" \in Points BY Zenon DEF Kinds, Points
  <2>4. kind' \in [FileIds -> Kinds]
    <3>1. CASE ref[g] = 1 BY Zenon, <1>9, <2>3, <3>1 DEF TabOK
    <3>2. CASE ref[g] # 1 BY Zenon, <1>9, <3>2 DEF TabOK
    <3> QED BY Zenon, <3>1, <3>2
  <2>5. ff' \in [Procs -> PipeEnds \cup {<<>>}] /\ at' \in [Procs -> Points]
    <3>1. CASE piped BY Zenon, <1>9, <1>10, <2>3, <3>1 DEF TabOK
    <3>2. CASE ~piped BY Zenon, <1>9, <3>2 DEF TabOK
    <3> QED BY Zenon, <3>1, <3>2
  <2> QED BY Zenon, <1>8, <2>1, <2>2, <2>4, <2>5 DEF TabOK
<1>11. /\ closing'[p] = Tail(s) /\ ff[p] \in PipeEnds \cup {<<>>}
       /\ piped => at'[p] = "pipeclose" /\ ff'[p] = <<kind[g], pipe[g]>>
       /\ ~piped => at'[p] = "closing" /\ ff'[p] = ff[p]
       /\ \A q \in Procs \ {p} :
            at'[q] = at[q] /\ closing'[q] = closing[q] /\ ofile'[q] = ofile[q] /\ ff'[q] = ff[q]
  <2>1. CASE piped BY Zenon, <1>8, <1>9, <2>1 DEF TabOK
  <2>2. CASE ~piped BY Zenon, <1>8, <1>9, <2>2 DEF TabOK
  <2> QED BY Zenon, <2>1, <2>2
<1>2. AtInv'
  <2>1. ASSUME NEW q \in Procs PROVE AtOK(q)'
    <3>1. CASE q = p BY Zenon, <1>6, <1>10, <1>11, <3>1 DEF AtOK
    <3>2. CASE q # p BY Zenon, <1>11, <3>2, OthersAt
    <3> QED BY Zenon, <3>1, <3>2
  <2> QED BY Zenon, <2>1 DEF AtInv
<1>3. CountInv' BY Zenon, DropsCount
<1>12. /\ ref'[g] = ref[g] - 1 /\ (ref[g] = 1 => kind'[g] = "none")
       /\ \A f \in FileIds \ {g} : ref'[f] = ref[f] /\ kind'[f] = kind[f]
       /\ ref[g] # 1 => kind'[g] = kind[g]
  BY Zenon, <1>6, <1>8, <1>9 DEF TabOK
<1>4. FreshInv'
  <2>1. \A f \in FileIds : ref'[f] = 0 => kind'[f] = "none" BY <1>7, <1>12 DEF FreshInv
  <2>2. \A q \in Procs : Fresh(q)' => q # p /\ Fresh(q) BY Zenon, <1>11 DEF Fresh
  <2>3. ASSUME NEW q \in Procs, q # p, Fresh(q), NEW i \in DOMAIN closing[q]
        PROVE ref'[closing[q][i]] = 1 /\ kind'[closing[q][i]] = "none"
    <3>1. closing[q][i] \in FileIds /\ ref[closing[q][i]] = 1 /\ kind[closing[q][i]] = "none"
      BY <2>3 DEF FreshInv, TabOK
    <3>2. closing[q][i] # g
      <4>1. 1 \in DOMAIN closing[p] /\ closing[p][1] = g BY Zenon, <1>6 DEF s
      <4> QED BY Zenon, <2>3, <3>1, <4>1, Alone
    <3> QED BY Zenon, <1>12, <3>1, <3>2
  <2>4. ASSUME NEW q \in Procs, Fresh(q)'
        PROVE /\ \A i \in DOMAIN closing'[q] :
                   ref'[closing'[q][i]] = 1 /\ kind'[closing'[q][i]] = "none"
              /\ Len(closing'[q]) = 2 => closing'[q][1] # closing'[q][2]
    <3>1. q # p /\ Fresh(q) /\ closing'[q] = closing[q] BY Zenon, <1>11, <2>2, <2>4
    <3>2. Len(closing[q]) = 2 => closing[q][1] # closing[q][2] BY Zenon, <3>1 DEF FreshInv
    <3> QED BY Zenon, <2>3, <3>1, <3>2
  <2> QED BY Zenon, <2>1, <2>4 DEF FreshInv
<1>5. EndsInv'
  <2>1. EndsTyped' BY Zenon, <1>6, <1>8, <1>9, <1>12, EndsSplit DEF EndsTyped
  <2>2. ASSUME NEW e \in {"read", "write"} PROVE EndInv(e)'
    <3>1. EndInv(e) /\ EndsOf(e)' = EndsOf(e) BY Zenon, EndsSplit DEF SameEnds, EndsOf
    <3>2. CASE piped /\ kind[g] = e
      <4>1. pipe[g] \in Pipes /\ FileHolds(g, e, pipe[g])
        BY Zenon, <1>6, <1>7, <3>2, EndsSplit DEF EndsTyped, FileHolds
      <4>2. \A pi \in Pipes : \A f \in FileIds :
              FileHolds(f, e, pi)' <=> FileHolds(f, e, pi) /\ ~(f = g /\ pi = pipe[g])
        BY ZenonT(40), <1>6, <1>8, <1>12, <3>2 DEF FileHolds, piped
      <4>3. \A pi \in Pipes : \A q \in Procs :
              ProcHolds(q, e, pi)' <=> ProcHolds(q, e, pi) \/ (q = p /\ pi = pipe[g])
        BY <1>8, <1>11, <3>2 DEF ProcHolds
      <4> QED BY SMTT(30), <1>6, <3>1, <4>1, <4>2, <4>3, EndPassed
    <3>3. CASE ~(piped /\ kind[g] = e)
      <4>1. \A pi \in Pipes : \A f \in FileIds : FileHolds(f, e, pi)' <=> FileHolds(f, e, pi)
        BY SMTT(30), <1>6, <1>7, <1>8, <1>12, <3>3 DEF FileHolds, piped
      <4>2. \A pi \in Pipes : \A q \in Procs : ProcHolds(q, e, pi)' <=> ProcHolds(q, e, pi)
        BY <1>8, <1>11, <3>3 DEF ProcHolds
      <4> QED BY ZenonT(40), <3>1, <4>1, <4>2, EndSame
    <3> QED BY Zenon, <3>2, <3>3
  <2> QED BY Zenon, <2>1, <2>2, EndsSplit
<1> QED BY Zenon, <1>1, <1>2, <1>3, <1>4, <1>5
----------------------------------------------------------------------------
(* pipeclose ends what fileclose has begun.                                *)
LEMMA ClosesStep ==
  ASSUME TabOK, AtInv, CountInv, FreshInv, EndsInv, NEW p \in Procs, Closes(p)
  PROVE TabOK' /\ AtInv' /\ CountInv' /\ FreshInv' /\ EndsInv'
<1>0. /\ UNCHANGED <<ofile, ref, kind, pipe, closing>> /\ ff' = [ff EXCEPT ![p] = <<>>]
      /\ at[p] = "pipeclose" /\ at'[p] = "closing" /\ at' \in [Procs -> Points]
  BY Zenon DEF Closes
<1>6. \A q \in Procs \ {p} : /\ ff'[q] = ff[q]
                             /\ \/ at'[q] = at[q]
                                \/ at[q] \in Idle /\ closing[q] = <<>> /\ at'[q] \in Idle
  BY Zenon DEF Closes, TabOK
<1>1. TabOK' BY Zenon, <1>0 DEF TabOK
<1>2. AtInv'
  <2>1. ASSUME NEW q \in Procs PROVE AtOK(q)'
    <3>1. CASE q = p BY Zenon, <1>0, <3>1 DEF AtInv, AtOK
    <3>2. CASE q # p /\ at'[q] = at[q] BY Zenon, <1>0, <1>6, <3>2, OthersAt
    <3>3. CASE q # p /\ at[q] \in Idle /\ closing[q] = <<>> /\ at'[q] \in Idle
      BY <1>0, <3>3 DEF AtOK, Idle
    <3> QED BY Zenon, <1>6, <3>1, <3>2, <3>3
  <2> QED BY Zenon, <2>1 DEF AtInv
<1>3. CountInv' BY Zenon, <1>0 DEF CountInv, Named, Pending
<1>4. FreshInv'
  <2>1. \A q \in Procs : Fresh(q)' => Fresh(q) BY Zenon, <1>0, <1>6 DEF Fresh, Idle
  <2> QED BY Zenon, <1>0, <2>1 DEF FreshInv
<1>5. EndsInv'
  <2>1. EndsTyped' BY Zenon, <1>0, EndsSplit DEF EndsTyped
  <2>2. PICK e \in {"read", "write"}, x \in Pipes : ff[p] = <<e, x>>
    <3>1. ff[p] \in PipeEnds BY Zenon, <1>0 DEF AtInv, AtOK
    <3> QED BY <3>1 DEF PipeEnds
  <2>3. \A e2, pi : \A f \in FileIds : FileHolds(f, e2, pi)' <=> FileHolds(f, e2, pi)
    BY Zenon, <1>0 DEF FileHolds
  <2>4. \A q \in Procs \ {p} : at'[q] = "pipeclose" <=> at[q] = "pipeclose" BY Zenon, <1>6 DEF Idle
  <2>5. \A e2, pi : \A q \in Procs :
          ProcHolds(q, e2, pi)' <=> ProcHolds(q, e2, pi) /\ q # p
    BY Zenon, <1>0, <1>6, <2>4 DEF ProcHolds
  <2>6. ff[p][1] = e /\ ff[p][2] = x BY <2>2
  <2>7. ASSUME NEW e2 \in {"read", "write"} PROVE EndInv(e2)'
    <3>1. EndInv(e2) BY Zenon, EndsSplit
    <3>2. CASE e2 = e
      <4>1. EndsOf(e)' = EndsOf(e) \ {x} BY Zenon, <2>6 DEF Closes, EndsOf
      <4>2. \A pi \in Pipes : ProcHolds(p, e, pi) <=> pi = x BY <1>0, <2>2 DEF ProcHolds
      <4>3. \A pi \in Pipes : \A q \in Procs :
              ProcHolds(q, e, pi)' <=> ProcHolds(q, e, pi) /\ ~(q = p /\ pi = x)
        BY Zenon, <2>5, <4>2
      <4>4. EndInv(e) BY Zenon, <3>1, <3>2
      <4>5. EndInv(e)' BY SMTT(30), <2>3, <4>1, <4>2, <4>3, <4>4, EndClosed
      <4> QED BY Zenon, <3>2, <4>5
    <3>3. CASE e2 # e
      <4>1. EndsOf(e2)' = EndsOf(e2) BY Zenon, <2>6, <3>3 DEF Closes, EndsOf
      <4>2. \A pi \in Pipes : ~ProcHolds(p, e2, pi) BY <2>2, <3>3 DEF ProcHolds
      <4> QED BY Zenon, <2>3, <2>5, <3>1, <4>1, <4>2, EndSame
    <3> QED BY Zenon, <3>2, <3>3
  <2> QED BY Zenon, <2>1, <2>7, EndsSplit
<1> QED BY Zenon, <1>1, <1>2, <1>3, <1>4, <1>5

(* fork.  The child had no descriptors, and now has those of its parent.   *)
LEMMA CopiesStep ==
  ASSUME TabOK, AtInv, CountInv, FreshInv, EndsInv, SameEnds,
         NEW p \in Procs, NEW r \in Procs, Copies(p, r)
  PROVE TabOK' /\ AtInv' /\ CountInv' /\ FreshInv' /\ EndsInv'
<1> DEFINE n(f) == Cardinality(FdsOf(ofile[p], f))
<1>0. /\ UNCHANGED <<kind, pipe, closing, ff>> /\ at[r] = "unused"
      /\ ofile' = [ofile EXCEPT ![r] = ofile[p]] /\ at' = [at EXCEPT ![r] = "user"]
      /\ ref' = [f \in FileIds |-> ref[f] + n(f)]
  BY Zenon DEF Copies, FdsOf
<1>6. \A f : n(f) \in Nat BY Zenon, FiniteCounts
<1>7. /\ at'[r] = "user" /\ ofile'[r] = ofile[p]
      /\ \A q \in Procs \ {r} : at'[q] = at[q] /\ ofile'[q] = ofile[q]
  BY Zenon, <1>0 DEF TabOK
<1>8. closing[r] = <<>> /\ \A fd \in Fds : ofile[r][fd] = 0 BY Zenon, <1>0 DEF AtInv, AtOK
<1> HIDE DEF n
<1>9. \A f \in FileIds : ref'[f] = ref[f] + n(f) /\ ref[f] \in Nat BY Zenon, <1>0 DEF TabOK
<1>1. TabOK'
  <2>1. ref' \in [FileIds -> Nat]
    <3>1. \A f \in FileIds : ref[f] + n(f) \in Nat BY <1>6, <1>9
    <3> QED BY Zenon, <1>0, <3>1
  <2>2. ofile' \in [Procs -> [Fds -> FileIds \cup {0}]] BY Zenon, <1>0 DEF TabOK
  <2>3. at' \in [Procs -> Points] BY Zenon, <1>0 DEF TabOK, Points
  <2> QED BY Zenon, <1>0, <2>1, <2>2, <2>3 DEF TabOK
<1>2. AtInv'
  <2>1. ASSUME NEW q \in Procs PROVE AtOK(q)'
    <3>1. CASE q = r
      <4>1. Len(<<>>) = 0 OBVIOUS
      <4> QED BY SMTT(30), <1>0, <1>7, <1>8, <3>1, <4>1 DEF AtOK
    <3>2. CASE q # r BY Zenon, <1>0, <1>7, <3>2, OthersAt
    <3> QED BY Zenon, <3>1, <3>2
  <2> QED BY Zenon, <2>1 DEF AtInv
<1>3. CountInv'
  <2>1. ASSUME NEW f \in FileIds
        PROVE ref'[f] = Cardinality(Named(ofile', f)) + Cardinality(Pending(closing', f))
    <3>1. OtherRows(ofile, ofile', r) BY Zenon, <1>7 DEF OtherRows
    <3>2. Cardinality(Named(ofile', f)) + Cardinality(FdsOf(ofile[r], f)) =
            Cardinality(Named(ofile, f)) + Cardinality(FdsOf(ofile'[r], f))
      BY <3>1, NamedRow
    <3>3. FdsOf(ofile[r], f) = {} BY Zenon, <1>8, SetFacts DEF FdsOf
    <3>4. Cardinality(FdsOf(ofile[r], f)) = 0 BY Zenon, <3>3, FS_EmptySet
    <3>5. Cardinality(FdsOf(ofile'[r], f)) = n(f) BY Zenon, <1>7 DEF n
    <3>6. ref[f] = Cardinality(Named(ofile, f)) + Cardinality(Pending(closing, f))
      BY Zenon DEF CountInv
    <3>7. /\ Cardinality(Named(ofile, f)) \in Nat /\ Cardinality(Pending(closing, f)) \in Nat
          /\ Cardinality(Named(ofile', f)) \in Nat
      BY Zenon, FiniteCounts
    <3>8. closing' = closing /\ ref'[f] = ref[f] + n(f) /\ n(f) \in Nat
      BY Zenon, <1>0, <1>6, <1>9
    <3> QED BY SMTT(30), <3>2, <3>4, <3>5, <3>6, <3>7, <3>8
  <2> QED BY Zenon, <2>1 DEF CountInv
<1>4. FreshInv'
  <2>1. \A f \in FileIds : ref'[f] = 0 => ref[f] = 0 BY <1>6, <1>9
  <2>2. \A q \in Procs : Fresh(q)' => Fresh(q) BY Zenon, <1>7 DEF Fresh
  <2>3. ASSUME NEW q \in Procs, Fresh(q), NEW i \in DOMAIN closing[q]
        PROVE ref'[closing[q][i]] = 1
    <3> DEFINE f == closing[q][i]
    <3>1. f \in FileIds /\ ref[f] = 1 BY <2>3 DEF FreshInv, TabOK
    <3>2. \A fd \in Fds : ofile[p][fd] # f BY Zenon, <2>3, <3>1, Alone
    <3>3. FdsOf(ofile[p], f) = {} BY Zenon, <3>2 DEF FdsOf
    <3>4. n(f) = 0 BY Zenon, <3>3, FS_EmptySet DEF n
    <3> HIDE DEF f
    <3>5. ref'[f] = 1 BY <1>9, <3>1, <3>4
    <3> QED BY Zenon, <3>5 DEF f
  <2>4. ASSUME NEW q \in Procs, Fresh(q)'
        PROVE /\ \A i \in DOMAIN closing'[q] :
                   ref'[closing'[q][i]] = 1 /\ kind'[closing'[q][i]] = "none"
              /\ Len(closing'[q]) = 2 => closing'[q][1] # closing'[q][2]
    <3>1. Fresh(q) /\ UNCHANGED <<closing, kind>> BY Zenon, <1>0, <2>2, <2>4
    <3>2. /\ \A i \in DOMAIN closing[q] : kind[closing[q][i]] = "none"
          /\ Len(closing[q]) = 2 => closing[q][1] # closing[q][2]
      BY Zenon, <3>1 DEF FreshInv
    <3> QED BY Zenon, <2>3, <3>1, <3>2
  <2> QED BY ZenonT(40), <1>0, <2>1, <2>4 DEF FreshInv
<1>5. EndsInv'
  <2>1. ASSUME NEW f \in FileIds PROVE ref'[f] > 0 <=> ref[f] > 0
    <3>1. ref[f] = 0 => n(f) = 0 BY Zenon, NamedInUse DEF n
    <3> QED BY <1>6, <1>9, <3>1
  <2>2. \A q \in Procs : at'[q] = "pipeclose" <=> at[q] = "pipeclose" BY Zenon, <1>0, <1>7
  <2>3. EndsTyped' BY Zenon, <1>0, EndsSplit DEF EndsTyped
  <2>4. ASSUME NEW e \in {"read", "write"} PROVE EndInv(e)'
    <3>1. EndInv(e) /\ EndsOf(e)' = EndsOf(e) BY Zenon, EndsSplit DEF SameEnds, EndsOf
    <3> QED BY Zenon, <1>0, <2>1, <2>2, <3>1, EndSame DEF FileHolds, ProcHolds
  <2> QED BY Zenon, <2>3, <2>4, EndsSplit
<1> QED BY Zenon, <1>1, <1>2, <1>3, <1>4, <1>5
----------------------------------------------------------------------------
(* readopen and writeopen are Booleans.                                    *)
LEMMA FlagsStep ==
  ASSUME FlagsOK, [FilesNext \/ \E p \in Procs : Program(p)]_filesVars PROVE FlagsOK'
<1>1. ASSUME NEW p \in Procs, sys_pipe(p) PROVE FlagsOK'
  BY Zenon, <1>1 DEF FlagsOK, sys_pipe, pipes
<1>2. ASSUME NEW p \in Procs, pipeclose(p) PROVE FlagsOK'
  BY Zenon, <1>2 DEF FlagsOK, pipeclose
<1>3. ASSUME UNCHANGED pipes PROVE FlagsOK' BY Zenon, <1>3 DEF FlagsOK, pipes
<1>4. ASSUME UNCHANGED <<readopen, writeopen>> PROVE FlagsOK' BY Zenon, <1>4 DEF FlagsOK
<1>5. CASE UNCHANGED filesVars BY Zenon, <1>3, <1>5 DEF filesVars
<1>6. ASSUME NEW p \in Procs, sys_dup(p) \/ sys_close(p) \/ fileclose(p) \/ Closed(p)
      PROVE UNCHANGED pipes
  BY Zenon, <1>6 DEF sys_dup, sys_close, fileclose, Closed
<1>7. ASSUME NEW p \in Procs, filealloc(p) \/ sys_open(p) \/ sys_read(p) \/ sys_write(p)
      PROVE UNCHANGED pipes
  BY Zenon, <1>7 DEF filealloc, sys_open, sys_read, sys_write
<1>8. ASSUME NEW p \in Procs, pipewrite(p) \/ piperead(p)
      PROVE UNCHANGED <<readopen, writeopen>>
  BY Zenon, <1>8 DEF pipewrite, piperead
<1>9. ASSUME NEW p \in Procs, fork(p) \/ exit(p) \/ wait(p) \/ InitReaps(p) \/ Choose(p)
                                \/ kill(p) \/ Program(p)
      PROVE UNCHANGED pipes
  BY Zenon, <1>9 DEF fork, exit, wait, InitReaps, Choose, kill, Program
<1> QED BY Zenon, <1>1, <1>2, <1>3, <1>4, <1>5, <1>6, <1>7, <1>8, <1>9 DEF FilesNext, FilesStep

LEMMA FilesStart ==
  ASSUME FilesInit PROVE FilesInv
<1>1. TabOK
  <2>1. /\ 1 \in FileIds /\ {"user", "unused"} \subseteq Points /\ {"dev", "none"} \subseteq Kinds
        /\ <<>> \in Seq(FileIds)
    BY SetFacts DEF Points, Kinds
  <2> QED BY <2>1 DEF FilesInit, TabOK
<1>2. \A p \in Procs : closing[p] = <<>> /\ Len(closing[p]) = 0 BY Zenon DEF FilesInit
<1>3. \A p \in Procs : /\ at[p] \in {"user", "unused"}
                       /\ at[p] = "unused" => \A fd \in Fds : ofile[p][fd] = 0
  BY Zenon DEF FilesInit
<1>4. AtInv BY <1>2, <1>3 DEF AtInv, AtOK
<1>5. CountInv
  <2>1. ASSUME NEW f \in FileIds
        PROVE ref[f] = Cardinality(Named(ofile, f)) + Cardinality(Pending(closing, f))
    <3>1. Pending(closing, f) = {} BY <1>2 DEF Pending
    <3>2. Cardinality({}) = 0 BY Zenon, FS_EmptySet
    <3>3. CASE f # 1
      <4>1. Named(ofile, f) = {} BY Zenon, <3>3, SetFacts DEF Named, FilesInit
      <4>2. ref[f] = 0 BY Zenon, <3>3 DEF FilesInit
      <4> QED BY <3>1, <3>2, <4>1, <4>2
    <3>4. CASE f = 1
      <4>1. Named(ofile, f) = {<<1, 0>>} \cup {<<1, 1>>}
        <5>1. \A p \in Procs, fd \in Fds : ofile[p][fd] = 1 <=> p = 1 /\ fd < 2
          BY DEF FilesInit
        <5>2. \A fd \in Fds : fd < 2 <=> fd = 0 \/ fd = 1 BY SetFacts
        <5>3. \A p \in Procs, fd \in Fds : <<p, fd>> \in Named(ofile, f) <=> ofile[p][fd] = f
          BY Zenon DEF Named
        <5>4. \A x \in Named(ofile, f) : \E p \in Procs, fd \in Fds : x = <<p, fd>>
          BY DEF Named
        <5>5. \A x : x \in Named(ofile, f) <=> x = <<1, 0>> \/ x = <<1, 1>>
          <6>1. <<1, 0>> \in Named(ofile, f) /\ <<1, 1>> \in Named(ofile, f)
            BY Zenon, <3>4, <5>1, <5>2, <5>3, SetFacts
          <6>2. ASSUME NEW x \in Named(ofile, f) PROVE x = <<1, 0>> \/ x = <<1, 1>>
            <7>1. PICK p \in Procs, fd \in Fds : x = <<p, fd>> BY Zenon, <5>4
            <7>2. p = 1 /\ (fd = 0 \/ fd = 1) BY Zenon, <3>4, <5>1, <5>2, <5>3, <7>1
            <7> QED BY Zenon, <7>1, <7>2
          <6> QED BY Zenon, <6>1, <6>2
        <5> QED BY Zenon, <5>5
      <4>2. Cardinality({<<1, 0>>} \cup {<<1, 1>>}) = 2
        <5> DEFINE S == {<<1, 0>>}
        <5> DEFINE y == <<1, 1>>
        <5>1. IsFiniteSet(S) /\ Cardinality(S) = 1 BY Zenon, FS_Singleton
        <5>2. y \notin S OBVIOUS
        <5> HIDE DEF S, y
        <5>3. Cardinality(S \cup {y}) = 2 BY <5>1, <5>2, FS_AddElement
        <5> QED BY Zenon, <5>3 DEF S, y
      <4>3. ref[f] = 2 BY Zenon, <3>4, SetFacts DEF FilesInit
      <4> QED BY SMTT(30), <3>1, <3>2, <4>1, <4>2, <4>3
    <3> QED BY <3>3, <3>4
  <2> QED BY <2>1 DEF CountInv
<1>6. FreshInv
  <2>1. \A f \in FileIds : ref[f] = 0 => kind[f] = "none" BY DEF FilesInit
  <2>2. \A p \in Procs : ~Fresh(p) BY Zenon, <1>3 DEF Fresh
  <2> QED BY <2>1, <2>2 DEF FreshInv
<1>7. FlagsOK BY Zenon DEF FilesInit, FlagsOK
<1>8. EndsInv
  <2>1. ReadEnds = {} /\ WriteEnds = {} BY Zenon DEF FilesInit, ReadEnds, WriteEnds
  <2>2. \A f \in FileIds : kind[f] \notin {"read", "write"} BY Zenon DEF FilesInit
  <2>3. \A p \in Procs : at[p] # "pipeclose" BY Zenon, <1>3
  <2>4. \A pi, f : f \in FileIds => ~FileHolds(f, "read", pi) /\ ~FileHolds(f, "write", pi)
    BY Zenon, <2>2 DEF FileHolds
  <2>5. \A pi, e : \A p \in Procs : ~ProcHolds(p, e, pi) BY Zenon, <2>3 DEF ProcHolds
  <2> QED BY Zenon, <2>1, <2>2, <2>4, <2>5 DEF EndsInv, OneHolder, OpenIffHeld
<1> QED BY SMTT(30), <1>1, <1>4, <1>5, <1>6, <1>7, <1>8 DEF FilesInv

LEMMA FilesInductive ==
  ASSUME FilesInv, [FilesNext \/ \E p \in Procs : Program(p)]_filesVars PROVE FilesInv'
<1>1. TabOK /\ AtInv /\ CountInv /\ FreshInv /\ EndsInv /\ FlagsOK BY Zenon DEF FilesInv
<1>2. Effect BY Zenon, StepEffect
<1>3. FlagsOK' BY Zenon, <1>1, FlagsStep
<1>4. TabOK' /\ AtInv' /\ CountInv' /\ FreshInv' /\ EndsInv'
  BY Zenon, <1>1, <1>2, QuietStep, DupsStep, ClearsStep, TakesStep, OpensStep, FailsStep,
     InstallsStep, DropsStep, ClosesStep, CopiesStep DEF Effect
<1> QED BY Zenon, <1>3, <1>4 DEF FilesInv

LEMMA SameTruth == ASSUME NEW a \in BOOLEAN, NEW b \in BOOLEAN, a <=> b PROVE a = b
OBVIOUS

(* The invariant implies that the counts and the ends are exact.           *)
LEMMA FilesExact ==
  ASSUME FilesInv PROVE RefsExact
<1>1. \A f \in FileIds :
        ref[f] = Refs(f) + Cardinality({x \in Procs \X (1 .. 2) :
                              x[2] \in DOMAIN closing[x[1]] /\ closing[x[1]][x[2]] = f})
  BY Zenon DEF FilesInv, CountInv, Refs, Named, Pending
<1>2. ASSUME NEW pi \in Pipes
      PROVE LET Held(end) == \/ \E f \in FileIds : ref[f] > 0 /\ kind[f] = end /\ pipe[f] = pi
                             \/ \E p \in Procs : at[p] = "pipeclose" /\ ff[p] = <<end, pi>>
            IN readopen[pi] = Held("read") /\ writeopen[pi] = Held("write")
  <2> DEFINE Held(end) == \/ \E f \in FileIds : ref[f] > 0 /\ kind[f] = end /\ pipe[f] = pi
                          \/ \E p \in Procs : at[p] = "pipeclose" /\ ff[p] = <<end, pi>>
  <2>1. readopen[pi] \in BOOLEAN /\ writeopen[pi] \in BOOLEAN BY Zenon DEF FilesInv, FlagsOK
  <2>2. Held("read") \in BOOLEAN /\ Held("write") \in BOOLEAN BY Zenon
  <2>3. (readopen[pi] <=> Held("read")) /\ (writeopen[pi] <=> Held("write"))
    BY Zenon DEF FilesInv, EndsInv, OpenIffHeld, ReadEnds, WriteEnds, FileHolds, ProcHolds
  <2> HIDE DEF Held
  <2>4. readopen[pi] = Held("read") BY Zenon, <2>1, <2>2, <2>3, SameTruth
  <2>5. writeopen[pi] = Held("write") BY Zenon, <2>1, <2>2, <2>3, SameTruth
  <2> QED BY Zenon, <2>4, <2>5 DEF Held
<1> QED BY Zenon, <1>1, <1>2 DEF RefsExact

(* The invariant of file.c and pipe.c holds in every state, whatever the   *)
(* programs call, with failures half way through open and pipe.            *)
THEOREM FilesSafe == FilesSpec => []FilesInv
<1>1. FilesInit => FilesInv BY Zenon, FilesStart
<1>2. FilesInv /\ [FilesNext \/ \E p \in Procs : Program(p)]_filesVars => FilesInv'
  BY Zenon, FilesInductive
<1> QED BY <1>1, <1>2, PTL DEF FilesSpec

(* No file is freed while a descriptor names it or leaked when none does:  *)
(* ref is the number of descriptors, in all processes, and of closes under *)
(* way.  An end of a pipe is open exactly while a file, or a process on    *)
(* its way from fileclose to pipeclose, holds it.                          *)
THEOREM NothingLeaks == FilesSpec => []RefsExact
<1>1. FilesInv => RefsExact BY Zenon, FilesExact
<1> QED BY <1>1, FilesSafe, PTL
=============================================================================
