----------------------- MODULE FileOperations_proofs ------------------------
(* Every call leaves the files it was not asked to touch alone, and a copy  *)
(* is faithful, for every tree, every request and any number of calls and   *)
(* rival steps.                                                             *)
EXTENDS FileOperations, Paths_proofs

\* The invariant holds before the first call: the snapshot is empty.
LEMMA InitIInv == Init => IInv
<1> SUFFICES ASSUME Init PROVE IInv
  OBVIOUS
<1> USE FileOperationsAssumption DEF Init
<1>1. TypeOK
  <2>1. content \in Seq(Seq(Nat)) /\ TreeOK(fs, Len(content))
    OBVIOUS
  <2>2. source \in [orig_path : AllPaths \ {<<>>}, current_path : AllPaths \ {<<>>}]
    OBVIOUS
  <2>3. <<>> \in AllPaths /\ <<>> \in Seq(Nat)
    BY DEF AllPaths
  <2>4. Len(content) \in Nat
    BY <2>1
  <2>5. /\ calls \in 0..MaxCalls /\ rival_steps \in 0..MaxRivalSteps
        /\ in \in 0..Len(content) /\ out \in 0..Len(content)
    BY <2>4
  <2>6. /\ new_path \in AllPaths /\ from \in AllPaths /\ buf \in Seq(Nat)
        /\ pc \in Points /\ outcome \in Outcomes /\ edited = {}
    BY <2>3 DEF Points, Outcomes
  <2> QED BY <2>1, <2>2, <2>5, <2>6 DEF TypeOK
<1>2. CallShape
  BY DEF CallShape
<1>3. Untouched /\ Intact
  BY DEF Untouched, Intact
<1> QED BY <1>1, <1>2, <1>3 DEF IInv, Chosen

\* A call begins: the snapshot is what the files are at that moment.
LEMMA StartIInv == IInv /\ Start => IInv'
<1> SUFFICES ASSUME IInv, Start PROVE IInv'
  OBVIOUS
<1> USE FileOperationsAssumption DEF Start
<1>0. PICK r \in Requests : /\ request' = r /\ new_path' = r.path
                            /\ pc' = IF r.kind = "copy" THEN "open_in" ELSE "resolve"
  OBVIOUS
<1>1. TypeOK'
  BY <1>0 DEF IInv, TypeOK, Points, Outcomes, RequestType
<1>2. CallShape'
  BY <1>0 DEF CallShape, RequestType
<1>3. Untouched' /\ Intact'
  BY DEF Untouched, Intact, FilesOf, IsFile
<1> QED BY <1>0, <1>1, <1>2, <1>3 DEF IInv, Chosen

\* The steps that change neither the tree nor the path.
LEMMA QuietIInv ==
    IInv /\ (ThrowIfInterrupted \/ Fault \/ Resolve \/ StatMode \/ Interrupt) => IInv'
<1> SUFFICES ASSUME IInv,
                    ThrowIfInterrupted \/ Fault \/ Resolve \/ StatMode \/ Interrupt
             PROVE  IInv'
  OBVIOUS
<1> USE DEF ThrowIfInterrupted, Fault, Resolve, StatMode, Interrupt, Throw, Go, At,
            app, naming, copying, history
<1>1. TypeOK'
  BY ZenonT(60) DEF IInv, TypeOK, Points, Outcomes
<1>2. CallShape'
  BY DEF IInv, CallShape
<1>3. Untouched => Untouched'
  BY DEF Untouched
<1>4. Intact'
  BY DEF IInv, Intact, Excused
<1>5. pc' \in {"read", "write"} => OutIsExcused'
  BY DEF IInv, OutIsExcused
<1> QED BY <1>1, <1>2, <1>3, <1>4, <1>5 DEF IInv, Chosen, Choosing

\* A step of make_dest_path that only looks: the tree is as it was, so what
\* has to be shown is the type of new_path and that the path chosen is free.
LEMMA LookingIInv ==
    ASSUME IInv, pc \in Choosing, ~(pc \in {"rename", "open_in"}),
           UNCHANGED <<fs, content, app, request, copying, rival_steps, history>>,
           new_path' \in AllPaths, new_path' # <<>>, suffix' \in Nat,
           pc' \in Points, outcome' \in Outcomes,
           pc' \notin {"open_in", "open_out", "read", "write"},
           pc' = "rename" => request.kind = "move",
           pc' = "stat_mode" => request.kind = "copy",
           pc' \in Chosen =>
               request.policy = "OVERWRITE" \/ new_path' \notin DOMAIN before
    PROVE  IInv'
<1> USE DEF app, copying, history
<1>1. TypeOK'
  BY DEF IInv, TypeOK
<1>2. CallShape'
  BY DEF IInv, CallShape, Choosing, Chosen
<1>3. Untouched'
  BY DEF IInv, Untouched
<1>4. Intact'
  BY <1>3 DEF Intact, Untouched
<1> QED BY <1>1, <1>2, <1>3, <1>4 DEF IInv, Chosen, Choosing

\* What the type of a request says of the call that is under way.
LEMMA RequestFacts ==
    ASSUME IInv
    PROVE  /\ request.kind \in {"move", "copy"}
           /\ request.policy \in {"OVERWRITE", "AUTORENAME", "FAIL"}
           /\ request.path \in AllPaths
BY FileOperationsAssumption DEF IInv, TypeOK, RequestType

\* While the path is chosen every path of the snapshot is still in the tree.
LEMMA BeforeExists ==
    ASSUME IInv, pc \in Choosing PROVE DOMAIN before \subseteq DOMAIN fs
BY DEF IInv, Untouched, IsFile

\* Expanding placeholders (make_dest_path.cpp:30-46) leaves a path.
LEMMA ExpandTimeIInv == IInv /\ ExpandTime => IInv'
<1> SUFFICES ASSUME IInv, ExpandTime PROVE IInv'
  OBVIOUS
<1>1. PICK stamp \in Stamps :
         new_path' = [k \in DOMAIN new_path |->
                         IF new_path[k].stem = Placeholder
                         THEN [new_path[k] EXCEPT !.stem = stamp]
                         ELSE new_path[k]]
  BY DEF ExpandTime
<1>2. new_path \in AllPaths /\ new_path # <<>>
  BY DEF IInv, TypeOK, CallShape, ExpandTime, At
<1>3. ASSUME NEW k \in 1..Len(new_path)
      PROVE  new_path[k] \in Names
  BY <1>2 DEF AllPaths
<1>4. ASSUME NEW name \in Names PROVE [name EXCEPT !.stem = stamp] \in Names
  BY FileOperationsAssumption DEF Names
<1>5. new_path' \in [1..Len(new_path) -> Names]
  BY <1>1, <1>2, <1>3, <1>4 DEF AllPaths
<1>6. Len(new_path) \in Nat \ {0}
  BY <1>2 DEF AllPaths
<1>7. new_path' \in AllPaths /\ new_path' # <<>>
  BY <1>5, <1>6 DEF AllPaths
<1> QED BY <1>7, LookingIInv
        DEF ExpandTime, At, Go, IInv, TypeOK, Points, Choosing, Chosen, app

\* The first try_stat (lines 48-122): a path that goes on to be used without
\* OVERWRITE was absent, so the snapshot does not have it.
LEMMA StatDestIInv == IInv /\ StatDest => IInv'
<1> SUFFICES ASSUME IInv, StatDest PROVE IInv'
  OBVIOUS
<1> DEFINE inside == Append(new_path, filename(source.orig_path))
<1>1. /\ new_path \in AllPaths /\ new_path # <<>>
      /\ pc = "stat_dest" /\ pc \in Choosing
      /\ suffix \in Nat /\ outcome \in Outcomes
  BY DEF IInv, TypeOK, CallShape, StatDest, At, Choosing
<1>2. /\ inside \in AllPaths /\ inside # <<>>
      /\ parent_path(inside) = new_path
      /\ has_parent_path(inside)
  <2>1. filename(source.orig_path) \in Names
    BY FilenameType DEF IInv, TypeOK
  <2>2. Len(new_path) >= 1
    BY <1>1 DEF AllPaths
  <2> QED BY <1>1, <2>1, <2>2, AppendPath DEF has_parent_path, AllPaths
<1>3. /\ UNCHANGED <<fs, content, app, request, suffix, copying, rival_steps, history>>
      /\ new_path' \in {new_path, inside}
      /\ pc' \in {"idle", "stat_in_dir", "rename", "stat_mode", "probe", "mkdir"}
      /\ outcome' \in Outcomes
      /\ pc' = "rename" => request.kind = "move"
      /\ pc' = "stat_mode" => request.kind = "copy"
  BY <1>1, RequestFacts
  DEF StatDest, ResolveNameConflict, PlaceNewFile, Resolved, Go, Throw, Outcomes
<1>4. ASSUME pc' \in Chosen
      PROVE  request.policy = "OVERWRITE" \/ new_path' \notin DOMAIN fs
  <2>1. CASE IsFile(fs, new_path) /\ ~request.slash /\ ResolveNameConflict(new_path)
    BY <1>4, <2>1 DEF ResolveNameConflict, Go, Throw, Chosen
  <2>2. CASE new_path \notin DOMAIN fs /\ PlaceNewFile
    <3>1. inside \notin DOMAIN fs
      BY <1>2, <2>2, ParentThere DEF IInv, TypeOK, Placeable, IsDir
    <3> QED BY <2>2, <3>1 DEF PlaceNewFile
  <2>3. CASE IsFile(fs, new_path) /\ request.slash /\ PlaceNewFile
    <3>1. inside \notin DOMAIN fs
      BY <1>2, <2>3, ParentThere DEF IInv, TypeOK, Placeable, IsDir, IsFile
    <3> QED BY <2>3, <3>1 DEF PlaceNewFile
  <2> QED BY <1>4, <2>1, <2>2, <2>3 DEF StatDest, Go, Throw, Chosen
<1> HIDE DEF inside
<1>5. pc' \in Chosen => request.policy = "OVERWRITE" \/ new_path' \notin DOMAIN before
  BY <1>1, <1>4, BeforeExists
<1>6. pc' \in Points /\ pc' \notin {"open_in", "open_out", "read", "write"}
  BY <1>3 DEF Points
<1> QED BY <1>1, <1>2, <1>3, <1>5, <1>6, LookingIInv

\* The second try_stat (lines 76-89), in the directory that was named.
LEMMA StatInDirIInv == IInv /\ StatInDir => IInv'
<1> SUFFICES ASSUME IInv, StatInDir PROVE IInv'
  OBVIOUS
<1>1. /\ new_path \in AllPaths /\ new_path # <<>>
      /\ pc = "stat_in_dir" /\ pc \in Choosing
      /\ suffix \in Nat /\ outcome \in Outcomes
  BY DEF IInv, TypeOK, CallShape, StatInDir, At, Choosing
<1>2. /\ UNCHANGED <<fs, content, app, request, suffix, copying, rival_steps, history>>
      /\ new_path' = new_path
      /\ pc' \in {"idle", "rename", "stat_mode", "probe"}
      /\ outcome' \in Outcomes
      /\ pc' = "rename" => request.kind = "move"
      /\ pc' = "stat_mode" => request.kind = "copy"
      /\ pc' \in Chosen => request.policy = "OVERWRITE" \/ new_path \notin DOMAIN fs
  BY <1>1, RequestFacts
  DEF StatInDir, ResolveNameConflict, Resolved, Go, Throw, Outcomes, Chosen
<1>3. pc' \in Points /\ pc' \notin {"open_in", "open_out", "read", "write"}
  BY <1>2 DEF Points
<1> QED BY <1>1, <1>2, <1>3, BeforeExists, LookingIInv

\* A turn of AUTORENAME's loop (lines 54-67) ends it with an absent path.
LEMMA ProbeIInv == IInv /\ Probe => IInv'
<1> SUFFICES ASSUME IInv, Probe PROVE IInv'
  OBVIOUS
<1> DEFINE candidate == Renamed(new_path, suffix + 1)
<1>1. /\ new_path \in AllPaths /\ new_path # <<>>
      /\ pc = "probe" /\ pc \in Choosing
      /\ suffix \in Nat /\ outcome \in Outcomes
  BY DEF IInv, TypeOK, CallShape, Probe, At, Choosing
<1>2. candidate \in AllPaths /\ candidate # <<>>
  BY <1>1, RenamedType
<1>3. /\ UNCHANGED <<fs, content, app, request, copying, rival_steps, history>>
      /\ suffix' = suffix + 1
      /\ outcome' \in Outcomes
      /\ \/ pc' = "probe" /\ new_path' = new_path
         \/ /\ candidate \notin DOMAIN fs /\ new_path' = candidate
            /\ \/ pc' = "rename" /\ request.kind = "move"
               \/ pc' = "stat_mode" /\ request.kind = "copy"
  BY <1>1, RequestFacts DEF Probe, Resolved, Go
<1> HIDE DEF candidate
<1>4. pc' \in Points /\ pc' \notin {"open_in", "open_out", "read", "write"}
  BY <1>3 DEF Points
<1>5. pc' \in Chosen => new_path' \notin DOMAIN before
  BY <1>1, <1>3, BeforeExists DEF Chosen
<1> QED BY <1>1, <1>2, <1>3, <1>4, <1>5, LookingIInv

\* Making parents (line 115) touches no file, however far it comes.
LEMMA MkdirParentsIInv == IInv /\ MkdirParents => IInv'
<1> SUFFICES ASSUME IInv, MkdirParents PROVE IInv'
  OBVIOUS
<1> DEFINE parent == parent_path(new_path)
<1>1. /\ new_path \in AllPaths /\ new_path # <<>>
      /\ pc = "mkdir" /\ pc \in Choosing /\ pc \in Chosen
      /\ TreeOK(fs, Len(content)) /\ Len(content) \in Nat
      /\ outcome \in Outcomes
  BY DEF IInv, TypeOK, CallShape, MkdirParents, At, Choosing, Chosen
<1>2. parent \in AllPaths /\ Len(parent) \in Nat
  BY <1>1, ParentType DEF AllPaths
<1>3. /\ UNCHANGED <<content, app, request, naming, copying, rival_steps, history>>
      /\ pc' \in {"idle", "rename", "stat_mode"} /\ outcome' \in Outcomes
      /\ pc' = "rename" => request.kind = "move"
      /\ pc' = "stat_mode" => request.kind = "copy"
  BY <1>1, RequestFacts DEF MkdirParents, Resolved, ReplyLost, Go, Throw, Outcomes
<1>4. /\ TreeOK(fs', Len(content))
      /\ \A p \in DOMAIN fs : p \in DOMAIN fs' /\ fs'[p] = fs[p]
  <2>1. \/ fs' = fs
        \/ \E n \in 0..Len(parent) :
              /\ \A k \in 1..n : ~IsFile(fs, SubSeq(parent, 1, k))
              /\ \/ fs' = WithDirs(fs, parent) /\ n = Len(parent)
                 \/ fs' = WithDirs(fs, SubSeq(parent, 1, n))
    BY <1>2 DEF MkdirParents
  <2>2. CASE fs' = fs
    BY <1>1, <2>2
  <2>3. ASSUME NEW n \in 0..Len(parent),
               \A k \in 1..n : ~IsFile(fs, SubSeq(parent, 1, k)),
               \/ fs' = WithDirs(fs, parent) /\ n = Len(parent)
               \/ fs' = WithDirs(fs, SubSeq(parent, 1, n))
        PROVE  /\ TreeOK(fs', Len(content))
               /\ \A p \in DOMAIN fs : p \in DOMAIN fs' /\ fs'[p] = fs[p]
    <3> DEFINE part == SubSeq(parent, 1, n)
    <3>1. part \in AllPaths /\ Len(part) = n
      BY <1>2 DEF AllPaths
    <3>2. \A k \in 1..n : SubSeq(part, 1, k) = SubSeq(parent, 1, k)
      BY <1>2, <3>1 DEF AllPaths
    <3>3. n = Len(parent) => part = parent
      BY <1>2 DEF AllPaths
    <3>4. fs' = WithDirs(fs, part)
      BY <2>3, <3>3
    <3>5. \A k \in 1..Len(part) : ~IsFile(fs, SubSeq(part, 1, k))
      BY <2>3, <3>1, <3>2
    <3> HIDE DEF part
    <3>6. TreeOK(fs', Len(content))
      BY <1>1, <3>1, <3>4, <3>5, WithDirsTree
    <3> QED BY <3>4, <3>6 DEF WithDirs
  <2> QED BY <2>1, <2>2, <2>3
<1> HIDE DEF parent
<1> USE DEF app, naming, copying, history
<1>5. TypeOK'
  BY <1>3, <1>4 DEF IInv, TypeOK, Points
<1>6. CallShape'
  BY <1>1, <1>3 DEF IInv, CallShape
<1>7. Untouched'
  BY <1>1, <1>3, <1>4 DEF IInv, Untouched, IsFile
<1>8. Intact'
  BY <1>7 DEF Intact, Untouched
<1> QED BY <1>1, <1>3, <1>5, <1>6, <1>7, <1>8 DEF IInv, Chosen, Choosing

\* The rename of move_file takes the source away and what was at the new path:
\* both are excused, or were not in the snapshot.
LEMMA RenameIInv == IInv /\ Rename => IInv'
<1> SUFFICES ASSUME IInv, Rename PROVE IInv'
  OBVIOUS
<1> DEFINE old == source.current_path
           file == fs[old]
           rest == Drop(fs, old)
<1>1. /\ pc = "rename" /\ request.kind = "move" /\ from = old
      /\ new_path \in AllPaths /\ new_path # <<>>
      /\ IsFile(fs, old) /\ ~IsDir(fs, new_path) /\ Placeable(fs, new_path)
      /\ TreeOK(fs, Len(content)) /\ Len(content) \in Nat
      /\ Untouched
      /\ request.policy = "OVERWRITE" \/ new_path \notin DOMAIN before
  BY DEF IInv, TypeOK, CallShape, Rename, At, Choosing, Chosen
<1>2. file \in 1..Len(content)
  BY <1>1 DEF TreeOK, IsFile, Dir
<1>3. /\ DOMAIN rest = DOMAIN fs \ {old}
      /\ \A q \in DOMAIN rest : rest[q] = fs[q]
  BY DEF Drop
<1>4. TreeOK(rest, Len(content))
  BY <1>1, DropTree
<1>5. ~IsDir(rest, new_path) /\ Placeable(rest, new_path)
  BY <1>1, <1>3 DEF IsDir, IsFile, Placeable
<1>6. \A q \in FilesOf(rest) : rest[q] = file => q = new_path
  BY <1>1, <1>3 DEF TreeOK, FilesOf, IsFile
<1>7. fs' = Put(rest, new_path, file)
  BY DEF Rename
<1> HIDE DEF rest, file
<1>8. TreeOK(fs', Len(content))
  BY <1>1, <1>2, <1>4, <1>5, <1>6, <1>7, PutTree
<1>9. \A q \in DOMAIN fs : q # old /\ q # new_path => q \in DOMAIN fs' /\ fs'[q] = fs[q]
  BY <1>3, <1>7 DEF Put
<1>10. /\ UNCHANGED <<content, interrupted, calls, request, naming, copying,
                      rival_steps, from, before, edited>>
       /\ pc' = "idle" /\ outcome' \in Outcomes /\ lost' \in BOOLEAN
       /\ source' \in [orig_path : AllPaths \ {<<>>}, current_path : AllPaths \ {<<>>}]
  BY <1>1 DEF Rename, Return, ReplyLost, Throw, Outcomes, IInv, TypeOK
<1> USE DEF naming, copying
<1>11. TypeOK'
  BY <1>8, <1>10 DEF IInv, TypeOK, Points
<1>12. CallShape'
  BY <1>10 DEF CallShape
<1>13. Intact'
  <2> SUFFICES ASSUME NEW p \in DOMAIN before, ~Excused(p)
               PROVE  IsFile(fs', p) /\ content[fs'[p]] = before[p]
    BY <1>10 DEF Intact, Excused
  <2>1. p # old /\ p # new_path
    BY <1>1 DEF Excused
  <2> QED BY <1>1, <1>9, <2>1 DEF Untouched, IsFile
<1> QED BY <1>10, <1>11, <1>12, <1>13 DEF IInv, Chosen, Choosing

\* Opening the source of a copy changes nothing but the handle.
LEMMA OpenInIInv == IInv /\ OpenIn => IInv'
<1> SUFFICES ASSUME IInv, OpenIn PROVE IInv'
  OBVIOUS
<1>1. in' \in 1..Len(content)
  BY DEF IInv, TypeOK, TreeOK, OpenIn, IsFile
<1> USE <1>1 DEF OpenIn, Go, At, app, naming, history
<1>2. TypeOK'
  BY DEF IInv, TypeOK, Points
<1>3. CallShape'
  BY DEF IInv, CallShape
<1>4. Untouched'
  BY DEF IInv, Untouched, Choosing
<1>5. Intact'
  BY <1>4 DEF Intact, Untouched
<1> QED BY <1>2, <1>3, <1>4, <1>5 DEF IInv, Chosen, Choosing

\* O_TRUNC empties the file at the chosen path only: excused, or made by the
\* rival since and so not in the snapshot.
LEMMA OpenOutIInv == IInv /\ OpenOut => IInv'
<1> SUFFICES ASSUME IInv, OpenOut PROVE IInv'
  OBVIOUS
<1> DEFINE n == Len(content)
           file == IF IsFile(fs, new_path) THEN fs[new_path] ELSE n + 1
           m == IF IsFile(fs, new_path) THEN n ELSE n + 1
<1>1. /\ pc = "open_out" /\ request.kind = "copy" /\ from = source.current_path
      /\ in # 0 /\ in \in 0..n /\ out \in 0..n /\ edited \subseteq 1..n
      /\ new_path \in AllPaths /\ new_path # <<>>
      /\ ~IsDir(fs, new_path) /\ Placeable(fs, new_path)
      /\ TreeOK(fs, n) /\ n \in Nat /\ content \in Seq(Seq(Nat))
      /\ Untouched
      /\ request.policy = "OVERWRITE" \/ new_path \notin DOMAIN before
  BY DEF IInv, TypeOK, CallShape, OpenOut, At, Choosing, Chosen
<1>2. m \in Nat /\ n <= m /\ file \in 1..m
  BY <1>1 DEF TreeOK, IsFile, Dir
<1>3. \A q \in FilesOf(fs) : fs[q] = file => q = new_path
  BY <1>1 DEF TreeOK, FilesOf, IsFile
<1>4. /\ content' = IF IsFile(fs, new_path) THEN [content EXCEPT ![file] = <<>>]
                    ELSE Append(content, <<>>)
      /\ fs' = Put(fs, new_path, file)
      /\ out' \in {out, file} /\ pc' \in {"idle", "read"} /\ outcome' \in Outcomes
      /\ pc' = "read" => out' = file
      /\ UNCHANGED <<app, request, naming, in, buf, pos, bytes_copied,
                     rival_steps, history>>
  BY DEF OpenOut, Go, ReplyLost, Throw, Outcomes, IInv, TypeOK
<1>5. /\ content' \in Seq(Seq(Nat)) /\ Len(content') = m
      /\ \A i \in 1..n : i # file => content'[i] = content[i]
  <2>1. <<>> \in Seq(Nat)
    OBVIOUS
  <2>2. CASE IsFile(fs, new_path)
    BY <1>1, <1>2, <1>4, <2>1, <2>2
  <2>3. CASE ~IsFile(fs, new_path)
    BY <1>1, <1>4, <2>1, <2>3
  <2> QED BY <2>2, <2>3
<1> HIDE DEF file, m
<1>6. TreeOK(fs', m)
  BY <1>1, <1>2, <1>3, <1>4, PutTree
<1>7. /\ DOMAIN fs' = DOMAIN fs \cup {new_path} /\ fs'[new_path] = file
      /\ \A q \in DOMAIN fs : q # new_path => fs'[q] = fs[q]
  BY <1>4 DEF Put
<1> USE DEF app, naming, history
<1>8. TypeOK'
  <2>1. out' \in 0..m /\ in \in 0..m /\ edited \subseteq 1..m
    BY <1>1, <1>2, <1>4
  <2> HIDE DEF n
  <2> QED BY <1>1, <1>4, <1>5, <1>6, <2>1 DEF IInv, TypeOK, Points
<1>9. CallShape'
  BY <1>1, <1>2, <1>4 DEF IInv, CallShape
<1>10. Intact'
  <2> SUFFICES ASSUME NEW p \in DOMAIN before, ~Excused(p)
               PROVE  IsFile(fs', p) /\ content'[fs'[p]] = before[p]
    BY <1>4 DEF Intact, Excused
  <2>1. IsFile(fs, p) /\ content[fs[p]] = before[p]
    BY <1>1 DEF Untouched
  <2>2. p # new_path
    BY <1>1 DEF Excused
  <2>3. fs[p] # file /\ fs[p] \in 1..n
    BY <1>1, <1>3, <2>1, <2>2 DEF IsFile, FilesOf, TreeOK, Dir
  <2> QED BY <1>5, <1>7, <2>1, <2>2, <2>3 DEF IsFile
<1>11. pc' = "read" => OutIsExcused'
  <2> SUFFICES ASSUME pc' = "read", NEW p \in DOMAIN before,
                      IsFile(fs', p), fs'[p] = file
               PROVE  request.policy = "OVERWRITE" /\ p = new_path
    BY <1>4 DEF OutIsExcused
  <2>1. IsFile(fs, p)
    BY <1>1 DEF Untouched
  <2>2. p = new_path
    BY <1>3, <1>7, <2>1 DEF IsFile, FilesOf
  <2> QED BY <1>1, <2>2
<1> QED BY <1>4, <1>8, <1>9, <1>10, <1>11 DEF IInv, Chosen, Choosing

\* Reading a block changes nothing in the tree.
LEMMA ReadBlockIInv == IInv /\ ReadBlock => IInv'
<1> SUFFICES ASSUME IInv, ReadBlock PROVE IInv'
  OBVIOUS
<1>1. /\ pc = "read" /\ request.kind = "copy" /\ in \in 1..Len(content)
      /\ content \in Seq(Seq(Nat)) /\ pos \in Nat /\ buf \in Seq(Nat)
      /\ outcome \in Outcomes
  BY DEF IInv, TypeOK, CallShape, ReadBlock, At
<1>2. content[in] \in Seq(Nat)
  BY <1>1
<1>3. buf' \in Seq(Nat) /\ pos' \in Nat
  <2>1. ASSUME NEW n \in 1..BufSize, pos + n <= Len(content[in]),
               buf' = SubSeq(content[in], pos + 1, pos + n), pos' = pos + n
        PROVE  buf' \in Seq(Nat) /\ pos' \in Nat
    <3>1. n \in Nat \ {0}
      BY FileOperationsAssumption
    <3> QED BY <1>1, <1>2, <2>1, <3>1, SMTT(30)
  <2> QED BY <1>1, <2>1 DEF ReadBlock
<1>4. /\ pc' \in {"idle", "write"} /\ outcome' \in Outcomes
      /\ UNCHANGED <<fs, content, app, request, naming, in, out, bytes_copied,
                     rival_steps, history>>
  BY <1>1 DEF ReadBlock, Return, Go, Outcomes
<1> USE DEF app, naming, history
<1>5. TypeOK'
  BY <1>3, <1>4 DEF IInv, TypeOK, Points
<1>6. CallShape'
  BY <1>1, <1>4 DEF IInv, CallShape
<1>7. Intact'
  BY <1>4 DEF IInv, Intact, Excused
<1>8. OutIsExcused'
  BY <1>1, <1>4 DEF IInv, OutIsExcused
<1> QED BY <1>4, <1>5, <1>6, <1>7, <1>8 DEF IInv, Chosen, Choosing

\* Writing changes one file, and no path of the snapshot names it but an excused
\* one.
LEMMA WriteBlockIInv == IInv /\ WriteBlock => IInv'
<1> SUFFICES ASSUME IInv, WriteBlock PROVE IInv'
  OBVIOUS
<1>1. /\ pc = "write" /\ request.kind = "copy" /\ out \in 1..Len(content)
      /\ content \in Seq(Seq(Nat)) /\ bytes_copied \in Nat /\ buf \in Seq(Nat)
      /\ outcome \in Outcomes /\ TreeOK(fs, Len(content))
      /\ OutIsExcused /\ Intact
  BY DEF IInv, TypeOK, CallShape, WriteBlock, At
<1>2. PICK n \in 1..Len(buf) :
          /\ content' = [content EXCEPT
                           ![out] = Spliced(@, bytes_copied, SubSeq(buf, 1, n))]
          /\ \/ /\ buf' = SubSeq(buf, n + 1, Len(buf))
                /\ bytes_copied' = bytes_copied + n
                /\ Go(IF n = Len(buf) THEN "read" ELSE "write")
             \/ ReplyLost /\ UNCHANGED <<buf, bytes_copied>>
  BY DEF WriteBlock
<1>3. n \in Nat /\ SubSeq(buf, 1, n) \in Seq(Nat)
      /\ SubSeq(buf, n + 1, Len(buf)) \in Seq(Nat)
  BY <1>1
<1>4. Spliced(content[out], bytes_copied, SubSeq(buf, 1, n)) \in Seq(Nat)
  <2>1. content[out] \in Seq(Nat)
    BY <1>1
  <2> QED BY <1>1, <1>3, <2>1, SplicedType
<1>5. /\ content' \in Seq(Seq(Nat)) /\ Len(content') = Len(content)
      /\ \A i \in 1..Len(content) : i # out => content'[i] = content[i]
  BY <1>1, <1>2, <1>4
<1>6. /\ pc' \in {"idle", "read", "write"} /\ outcome' \in Outcomes
      /\ buf' \in Seq(Nat) /\ bytes_copied' \in Nat
      /\ UNCHANGED <<fs, app, request, naming, in, out, pos, rival_steps, history>>
  <2>1. pc' \in {"idle", "read", "write"} /\ outcome' \in Outcomes
    BY <1>1, <1>2 DEF Go, ReplyLost, Throw, Outcomes
  <2>2. buf' \in Seq(Nat) /\ bytes_copied' \in Nat
    <3>1. \/ buf' = SubSeq(buf, n + 1, Len(buf)) /\ bytes_copied' = bytes_copied + n
          \/ buf' = buf /\ bytes_copied' = bytes_copied
      BY <1>2
    <3>2. bytes_copied + n \in Nat
      BY <1>1, <1>3
    <3> QED BY <1>1, <1>3, <3>1, <3>2
  <2>3. UNCHANGED <<fs, app, request, naming, in, out, pos, rival_steps, history>>
    BY DEF WriteBlock
  <2> QED BY <2>1, <2>2, <2>3
<1> USE DEF app, naming, history
<1>7. TypeOK'
  BY <1>5, <1>6 DEF IInv, TypeOK, Points
<1>8. CallShape'
  BY <1>1, <1>6 DEF IInv, CallShape
<1>9. Intact'
  <2> SUFFICES ASSUME NEW p \in DOMAIN before, ~Excused(p)
               PROVE  IsFile(fs, p) /\ content'[fs[p]] = before[p]
    BY <1>6 DEF Intact, Excused
  <2>1. IsFile(fs, p) /\ content[fs[p]] = before[p]
    BY <1>1 DEF Intact
  <2>2. fs[p] # out
    BY <1>1, <2>1 DEF OutIsExcused, Excused
  <2>3. fs[p] \in 1..Len(content)
    BY <1>1, <2>1 DEF TreeOK, IsFile, Dir
  <2> QED BY <1>5, <2>1, <2>2, <2>3
<1>10. OutIsExcused'
  BY <1>1, <1>6 DEF OutIsExcused
<1> QED BY <1>6, <1>7, <1>8, <1>9, <1>10 DEF IInv, Chosen, Choosing

\* A file that the rival makes has a number of its own and is not in the snapshot.
LEMMA RivalCreateIInv == ASSUME IInv, NEW p \in RivalPaths, RivalCreate(p) PROVE IInv'
<1> DEFINE n == Len(content)
<1>1. /\ p \in AllPaths /\ p # <<>> /\ p \notin DOMAIN fs /\ Placeable(fs, p)
      /\ content \in Seq(Seq(Nat)) /\ n \in Nat /\ TreeOK(fs, n)
      /\ out \in 0..n /\ in \in 0..n /\ edited \subseteq 1..n
  BY FileOperationsAssumption DEF RivalCreate, IInv, TypeOK
<1>2. \A q \in FilesOf(fs) : fs[q] \in 1..n
  BY <1>1 DEF TreeOK, FilesOf, Dir
<1>3. /\ content' \in Seq(Seq(Nat)) /\ Len(content') = n + 1
      /\ \A i \in 1..n : content'[i] = content[i]
  <2>1. <<RivalByte>> \in Seq(Nat)
    BY FileOperationsAssumption
  <2> QED BY <1>1, <2>1 DEF RivalCreate
<1>4. fs' = Put(fs, p, n + 1)
  BY DEF RivalCreate
<1>5. /\ DOMAIN fs' = DOMAIN fs \cup {p} /\ fs'[p] = n + 1
      /\ \A q \in DOMAIN fs : fs'[q] = fs[q]
  BY <1>1, <1>4 DEF Put
<1>6. TreeOK(fs', n + 1)
  <2>1. \A q \in FilesOf(fs) : fs[q] = n + 1 => q = p
    BY <1>1, <1>2
  <2>2. ~IsDir(fs, p) /\ n + 1 \in 1..(n + 1) /\ n <= n + 1 /\ n + 1 \in Nat
    BY <1>1 DEF IsDir
  <2> QED BY <1>1, <1>4, <2>1, <2>2, PutTree
<1>7. /\ UNCHANGED <<app, pc, request, outcome, naming, copying, history>>
      /\ rival_steps' \in 0..MaxRivalSteps
  BY FileOperationsAssumption DEF RivalCreate, RivalTurn, IInv, TypeOK, history
<1> USE DEF app, naming, copying, history
<1>8. TypeOK'
  <2>1. out \in 0..(n + 1) /\ in \in 0..(n + 1) /\ edited \subseteq 1..(n + 1)
    BY <1>1
  <2> HIDE DEF n
  <2> QED BY <1>3, <1>6, <1>7, <2>1 DEF IInv, TypeOK
<1>9. CallShape'
  BY <1>7 DEF IInv, CallShape
<1>10. \A q \in DOMAIN before : IsFile(fs, q) /\ content[fs[q]] = before[q]
          => IsFile(fs', q) /\ content'[fs'[q]] = before[q]
  BY <1>2, <1>3, <1>5 DEF IsFile, FilesOf
<1>11. Untouched => Untouched'
  BY <1>7, <1>10 DEF Untouched
<1>12. Intact'
  BY <1>7, <1>10 DEF IInv, Intact, Excused
<1>13. OutIsExcused => OutIsExcused'
  BY <1>1, <1>5, <1>7 DEF OutIsExcused, IsFile
<1> QED BY <1>7, <1>8, <1>9, <1>11, <1>12, <1>13 DEF IInv, Chosen, Choosing

\* What the rival removes leaves the snapshot as well.
LEMMA RivalRemoveIInv == ASSUME IInv, NEW p \in RivalPaths, RivalRemove(p) PROVE IInv'
<1>1. IsFile(fs, p) /\ Len(content) \in Nat /\ TreeOK(fs, Len(content))
  BY DEF RivalRemove, IInv, TypeOK
<1>2. fs' = Drop(fs, p)
  BY DEF RivalRemove
<1>3. /\ DOMAIN fs' = DOMAIN fs \ {p}
      /\ \A q \in DOMAIN fs' : fs'[q] = fs[q]
  BY <1>2 DEF Drop
<1>4. TreeOK(fs', Len(content))
  BY <1>1, <1>2, DropTree
<1>5. /\ UNCHANGED <<content, app, pc, request, outcome, naming, copying, from,
                     edited, lost>>
      /\ rival_steps' \in 0..MaxRivalSteps
      /\ DOMAIN before' = DOMAIN before \ {p}
      /\ \A q \in DOMAIN before' : before'[q] = before[q]
  BY FileOperationsAssumption DEF RivalRemove, RivalTurn, IInv, TypeOK
<1> USE DEF app, naming, copying
<1>6. TypeOK'
  BY <1>4, <1>5 DEF IInv, TypeOK
<1>7. CallShape'
  BY <1>5 DEF IInv, CallShape
<1>8. \A q \in DOMAIN before' : IsFile(fs', q) <=> IsFile(fs, q)
  BY <1>3, <1>5 DEF IsFile
<1>9. Untouched => Untouched'
  BY <1>3, <1>5, <1>8 DEF Untouched, IsFile
<1>10. Intact'
  BY <1>3, <1>5, <1>8 DEF IInv, Intact, Excused, IsFile
<1>11. OutIsExcused => OutIsExcused'
  BY <1>3, <1>5, <1>8 DEF OutIsExcused, IsFile
<1> QED BY <1>5, <1>6, <1>7, <1>9, <1>10, <1>11 DEF IInv, Chosen, Choosing

\* What the rival changes leaves the snapshot as well.
LEMMA RivalWriteIInv == ASSUME IInv, NEW p \in RivalPaths, RivalWrite(p) PROVE IInv'
<1>1. /\ IsFile(fs, p) /\ content \in Seq(Seq(Nat)) /\ TreeOK(fs, Len(content))
      /\ edited \subseteq 1..Len(content)
  BY DEF RivalWrite, IInv, TypeOK
<1>2. fs[p] \in 1..Len(content)
  BY <1>1 DEF TreeOK, IsFile, Dir
<1>3. /\ content' \in Seq(Seq(Nat)) /\ Len(content') = Len(content)
      /\ \A i \in 1..Len(content) : i # fs[p] => content'[i] = content[i]
  <2>1. PICK new \in {<<>>, Append(content[fs[p]], RivalByte)} :
            content' = [content EXCEPT ![fs[p]] = new]
    BY DEF RivalWrite
  <2>2. content[fs[p]] \in Seq(Nat)
    BY <1>1, <1>2
  <2>3. RivalByte \in Nat
    BY FileOperationsAssumption
  <2>4. new \in Seq(Nat)
    <3>1. Append(content[fs[p]], RivalByte) \in Seq(Nat)
      BY <2>2, <2>3, AppendProperties
    <3>2. <<>> \in Seq(Nat)
      OBVIOUS
    <3> QED BY <3>1, <3>2
  <2> QED BY <1>1, <1>2, <2>1, <2>4
<1>4. /\ UNCHANGED <<fs, app, pc, request, outcome, naming, copying, from, lost>>
      /\ rival_steps' \in 0..MaxRivalSteps
      /\ DOMAIN before' = DOMAIN before \ {p}
      /\ \A q \in DOMAIN before' : before'[q] = before[q]
      /\ edited' \subseteq 1..Len(content)
  <2>1. rival_steps' \in 0..MaxRivalSteps
    BY FileOperationsAssumption DEF RivalWrite, RivalTurn, IInv, TypeOK
  <2>2. edited' \subseteq 1..Len(content)
    BY <1>1, <1>2 DEF RivalWrite
  <2> QED BY <2>1, <2>2 DEF RivalWrite, RivalTurn
<1> USE DEF app, naming, copying
<1>5. TypeOK'
  BY <1>3, <1>4 DEF IInv, TypeOK
<1>6. CallShape'
  BY <1>4 DEF IInv, CallShape
<1>7. \A q \in DOMAIN before' : IsFile(fs, q) => content'[fs[q]] = content[fs[q]]
  <2> SUFFICES ASSUME NEW q \in DOMAIN before', IsFile(fs, q)
               PROVE  content'[fs[q]] = content[fs[q]]
    OBVIOUS
  <2>1. fs[q] # fs[p] /\ fs[q] \in 1..Len(content)
    BY <1>1, <1>4 DEF TreeOK, IsFile, FilesOf, Dir
  <2> QED BY <1>3, <2>1
<1>8. Untouched => Untouched'
  BY <1>4, <1>7 DEF Untouched
<1>9. Intact'
  BY <1>4, <1>7 DEF IInv, Intact, Excused
<1>10. OutIsExcused => OutIsExcused'
  BY <1>4 DEF OutIsExcused
<1> QED BY <1>4, <1>5, <1>6, <1>8, <1>9, <1>10 DEF IInv, Chosen, Choosing
-----------------------------------------------------------------------------
\* Every step preserves the invariant.
LEMMA NextIInv == IInv /\ [Next]_vars => IInv'
<1> SUFFICES ASSUME IInv, [Next]_vars PROVE IInv'
  OBVIOUS
<1>1. CASE Start
  BY <1>1, StartIInv
<1>2. CASE ThrowIfInterrupted \/ Fault \/ Resolve \/ StatMode \/ Interrupt
  BY <1>2, QuietIInv
<1>3. CASE ExpandTime \/ StatDest \/ StatInDir \/ Probe \/ MkdirParents
  BY <1>3, ExpandTimeIInv, StatDestIInv, StatInDirIInv, ProbeIInv, MkdirParentsIInv
<1>4. CASE Rename
  BY <1>4, RenameIInv
<1>5. CASE OpenIn \/ OpenOut \/ ReadBlock \/ WriteBlock
  BY <1>5, OpenInIInv, OpenOutIInv, ReadBlockIInv, WriteBlockIInv
<1>6. CASE Rival
  BY <1>6, RivalCreateIInv, RivalRemoveIInv, RivalWriteIInv DEF Rival
<1>7. CASE UNCHANGED vars
  <2> USE <1>7 DEF vars, app, naming, copying, history
  <2>1. TypeOK' /\ CallShape'
    BY DEF IInv, TypeOK, CallShape
  <2>2. (Untouched => Untouched') /\ (OutIsExcused => OutIsExcused')
    BY DEF Untouched, OutIsExcused
  <2>3. Intact'
    BY DEF IInv, Intact, Excused
  <2> QED BY <2>1, <2>2, <2>3 DEF IInv
<1> QED BY <1>1, <1>2, <1>3, <1>4, <1>5, <1>6, <1>7 DEF Next, Worker

\* The inductive invariant holds in every state of every run.
THEOREM IInvHolds == Spec => []IInv
<1>1. Init => IInv
  BY InitIInv
<1>2. IInv /\ [Next]_vars => IInv'
  BY NextIInv
<1> QED BY <1>1, <1>2, PTL DEF Spec

\* The tree stays a tree and every handle is the number of a file
\* (TypeOK), for all constants the assumption admits.
THEOREM TypeCorrect == Spec => []TypeOK
<1>1. IInv => TypeOK
  BY DEF IInv
<1> QED BY <1>1, IInvHolds, PTL

\* Whatever the requests, the rival and the failures, a call leaves every file
\* nobody else touched as it was, save what it was asked to replace or move.
THEOREM OthersIntact == Spec => []Intact
<1>1. IInv => Intact
  BY DEF IInv
<1> QED BY <1>1, IInvHolds, PTL
-----------------------------------------------------------------------------
\* No step but a rename moves the source file, and new files get new numbers.
LEMMA SourceStep ==
    ASSUME IInv, SourceFollowed, Len(content) >= SourceFile, [Next]_vars
    PROVE  SourceFollowed' /\ Len(content') >= SourceFile
<1> USE DEF SourceFile
<1>1. content \in Seq(Seq(Nat)) /\ Len(content) \in Nat
  BY DEF IInv, TypeOK
<1>2. CASE UNCHANGED <<fs, source, lost, content>>
  BY <1>2 DEF SourceFollowed
<1>3. CASE MkdirParents
  <2>1. PICK p : fs' = fs \/ fs' = WithDirs(fs, p)
    BY <1>3 DEF MkdirParents
  <2>2. \A q \in DOMAIN fs' : fs'[q] = 1 => q \in DOMAIN fs /\ fs[q] = 1
    BY <2>1 DEF WithDirs, Dir
  <2> QED BY <1>3, <2>2 DEF MkdirParents, SourceFollowed, app, history
<1>4. CASE Rename
  <2> DEFINE old == source.current_path
  <2>1. fs' = Put(Drop(fs, old), new_path, fs[old]) /\ old \in DOMAIN fs
    BY <1>4 DEF Rename, IsFile
  <2>2. /\ \A q \in DOMAIN fs' : q # new_path => q \in DOMAIN fs \ {old} /\ fs'[q] = fs[q]
        /\ fs'[new_path] = fs[old]
    BY <2>1 DEF Put, Drop
  <2>3. CASE lost' = TRUE
    BY <1>4, <2>3 DEF SourceFollowed, Rename
  <2>4. CASE source' = [source EXCEPT !.current_path = new_path] /\ UNCHANGED lost
    <3>1. source'.current_path = new_path
      BY <2>4 DEF IInv, TypeOK
    <3>2. ASSUME ~lost, NEW q \in DOMAIN fs', fs'[q] = 1 PROVE q = new_path
      BY <2>2, <3>2 DEF SourceFollowed
    <3> QED BY <1>4, <2>4, <3>1, <3>2 DEF SourceFollowed, Rename
  <2> QED BY <1>4, <2>3, <2>4 DEF Rename
<1>5. CASE OpenOut
  <2>1. CASE IsFile(fs, new_path)
    <3>1. Len(content') = Len(content) /\ \A q \in DOMAIN fs' : q \in DOMAIN fs /\ fs'[q] = fs[q]
      BY <1>1, <1>5, <2>1 DEF OpenOut, Put, IsFile
    <3> QED BY <1>5, <3>1 DEF OpenOut, SourceFollowed, app, history
  <2>2. CASE ~IsFile(fs, new_path)
    <3>1. /\ Len(content') = Len(content) + 1
          /\ \A q \in DOMAIN fs' : fs'[q] = Len(content) + 1 \/ (q \in DOMAIN fs /\ fs'[q] = fs[q])
      BY <1>1, <1>5, <2>2 DEF OpenOut, Put
    <3> QED BY <1>1, <1>5, <3>1 DEF OpenOut, SourceFollowed, app, history
  <2> QED BY <2>1, <2>2
<1>6. CASE WriteBlock
  <2>1. Len(content') = Len(content)
    BY <1>1, <1>6 DEF WriteBlock
  <2> QED BY <1>6, <2>1 DEF WriteBlock, SourceFollowed, app, history
<1>7. ASSUME NEW p \in RivalPaths, RivalCreate(p)
      PROVE  SourceFollowed' /\ Len(content') >= 1
  <2>1. /\ Len(content') = Len(content) + 1
        /\ \A q \in DOMAIN fs' : fs'[q] = Len(content) + 1 \/ (q \in DOMAIN fs /\ fs'[q] = fs[q])
    BY <1>1, <1>7 DEF RivalCreate, Put
  <2>2. UNCHANGED <<source, lost>>
    BY <1>7 DEF RivalCreate, RivalTurn, app
  <2>3. Len(content) + 1 # 1 /\ Len(content') >= 1
    BY <1>1, <2>1
  <2> QED BY <2>1, <2>2, <2>3 DEF SourceFollowed
<1>8. ASSUME NEW p \in RivalPaths, RivalRemove(p)
      PROVE  SourceFollowed' /\ Len(content') >= 1
  <2>1. \A q \in DOMAIN fs' : q \in DOMAIN fs /\ fs'[q] = fs[q]
    BY <1>8 DEF RivalRemove, Drop
  <2> QED BY <1>8, <2>1 DEF RivalRemove, RivalTurn, SourceFollowed, app
<1>9. ASSUME NEW p \in RivalPaths, RivalWrite(p)
      PROVE  SourceFollowed' /\ Len(content') >= 1
  <2>1. Len(content') = Len(content)
    BY <1>1, <1>9 DEF RivalWrite
  <2> QED BY <1>9, <2>1 DEF RivalWrite, RivalTurn, SourceFollowed, app
<1>10. CASE Start \/ ThrowIfInterrupted \/ Fault \/ Resolve \/ ExpandTime \/ StatDest
            \/ StatInDir \/ Probe \/ OpenIn \/ StatMode \/ ReadBlock \/ Interrupt
            \/ UNCHANGED vars
  BY <1>2, <1>10 DEF Start, ThrowIfInterrupted, Fault, Resolve, ExpandTime, StatDest,
     StatInDir, Probe, OpenIn, StatMode, ReadBlock, Interrupt, vars, app, history
<1> QED BY <1>2, <1>3, <1>4, <1>5, <1>6, <1>7, <1>8, <1>9, <1>10
        DEF Next, Worker, Rival

\* The source object tracks its file over any sequence of moves, whoever else
\* is at work, until a server's reply to a rename is lost.
THEOREM SourceIsFollowed == Spec => []SourceFollowed
<1> DEFINE J == SourceFollowed /\ Len(content) >= SourceFile
<1>1. Init => J
  <2> SUFFICES ASSUME Init PROVE J
    OBVIOUS
  <2>1. TreeOK(fs, Len(content)) /\ SourcePath \in DOMAIN fs /\ fs[SourcePath] = SourceFile
    BY FileOperationsAssumption DEF Init
  <2>2. Len(content) \in Nat
    BY FileOperationsAssumption DEF Init
  <2>3. SourceFile \in 1..Len(content)
    BY <2>1, <2>2 DEF TreeOK, Dir, SourceFile
  <2>4. \A p \in DOMAIN fs : fs[p] = SourceFile => p = SourcePath
    BY <2>1 DEF TreeOK, FilesOf, Dir, SourceFile
  <2> QED BY <2>2, <2>3, <2>4 DEF SourceFollowed, Init, SourceFile
<1>2. IInv /\ J /\ [Next]_vars => J'
  BY SourceStep
<1>3. J => SourceFollowed
  OBVIOUS
<1> QED BY <1>1, <1>2, <1>3, IInvHolds, PTL DEF Spec
-----------------------------------------------------------------------------
(* The copy loop. While nobody edits either file, what is written is a      *)
(* prefix of the source: at the top of the loop as long as what was read, and*)
(* within it the block holds the bytes that come next.                      *)

Undisturbed ==
    request.kind = "copy" /\ out # 0 /\ in # out /\ in \notin edited /\ out \notin edited

Progress ==
    /\ in # 0
    /\ Len(content[out]) <= Len(content[in])
    /\ \A i \in 1..Len(content[out]) : content[out][i] = content[in][i]
    /\ pc \in {"read", "write"} => Len(content[out]) = bytes_copied
    /\ pc = "read" => pos = bytes_copied
    /\ pc = "write" =>
          /\ pos <= Len(content[in]) /\ bytes_copied + Len(buf) = pos
          /\ \A i \in 1..Len(buf) : buf[i] = content[in][bytes_copied + i]
    /\ outcome = "returned" =>
          bytes_copied = Len(content[in]) /\ Len(content[out]) = Len(content[in])

CopyInv ==
    /\ pc # "idle" => outcome = "none"
    /\ pc \in Choosing => out = 0 /\ bytes_copied = 0 /\ pos = 0
    /\ Undisturbed => Progress

\* The steps before the destination is open, and those of others: what they
\* write is a new file, or a file that they have edited.
LEMMA CopyWaits ==
    ASSUME IInv, CopyInv,
           UNCHANGED <<request, out, buf, pos, bytes_copied>>, edited \subseteq edited',
           \A i \in 1..Len(content) : i \notin edited' => content'[i] = content[i],
           \/ pc' = pc /\ outcome' = outcome /\ in' = in
           \/ pc' = "idle" /\ outcome' \notin {"none", "returned"} /\ in' = in
           \/ pc \in Choosing /\ pc' \in Choosing /\ outcome' = outcome
           \/ pc \in Choosing /\ pc' = "idle"
    PROVE  CopyInv'
<1>1. /\ pc' # "idle" => outcome' = "none"
      /\ pc' \in Choosing => out' = 0 /\ bytes_copied' = 0 /\ pos' = 0
  BY DEF CopyInv, Choosing, Chosen
<1>2. ASSUME Undisturbed' PROVE Progress'
  <2>1. Undisturbed /\ Progress /\ in' = in /\ out # 0
    BY <1>2 DEF Undisturbed, CopyInv
  <2>2. in \in 1..Len(content) /\ out \in 1..Len(content)
    BY <2>1 DEF Progress, IInv, TypeOK
  <2>3. content'[in] = content[in] /\ content'[out] = content[out]
    BY <1>2, <2>1, <2>2 DEF Undisturbed
  <2>4. \/ pc' = pc /\ outcome' = outcome
        \/ pc' = "idle" /\ outcome' \notin {"none", "returned"}
    BY <2>1 DEF CopyInv
  <2> QED BY <2>1, <2>3, <2>4 DEF Progress
<1> QED BY <1>1, <1>2 DEF CopyInv

LEMMA StartCopy == IInv /\ Start => CopyInv'
<1> SUFFICES ASSUME IInv, Start PROVE CopyInv'
  OBVIOUS
<1>1. outcome' = "none" /\ out' = 0 /\ pos' = 0 /\ bytes_copied' = 0
  BY DEF Start
<1> QED BY <1>1 DEF CopyInv, Undisturbed

\* The destination is empty when it is open.
LEMMA OpenOutCopy == IInv /\ CopyInv /\ OpenOut => CopyInv'
<1> SUFFICES ASSUME IInv, CopyInv, OpenOut PROVE CopyInv'
  OBVIOUS
<1> DEFINE n == Len(content)
           file == IF IsFile(fs, new_path) THEN fs[new_path] ELSE n + 1
<1>1. /\ pc = "open_out" /\ request.kind = "copy" /\ outcome = "none"
      /\ in \in 1..n /\ out = 0 /\ bytes_copied = 0 /\ pos = 0
      /\ TreeOK(fs, n) /\ n \in Nat /\ content \in Seq(Seq(Nat))
  BY DEF IInv, TypeOK, CallShape, OpenOut, At, Choosing, Chosen, CopyInv
<1>2. /\ content' = IF IsFile(fs, new_path) THEN [content EXCEPT ![file] = <<>>]
                    ELSE Append(content, <<>>)
      /\ UNCHANGED <<in, buf, pos, bytes_copied>>
      /\ \/ pc' = "read" /\ outcome' = outcome /\ out' = file
         \/ pc' = "idle" /\ out' = out
  BY DEF OpenOut, Go, ReplyLost, Throw
<1>3. CASE pc' = "idle" /\ out' = out
  BY <1>1, <1>3 DEF CopyInv, Undisturbed, Choosing, Chosen
<1>4. CASE pc' = "read" /\ outcome' = outcome /\ out' = file
  <2>1. content'[file] = <<>> /\ (in # file => content'[in] = content[in])
    <3>1. CASE IsFile(fs, new_path)
      <4>1. file \in 1..n
        BY <1>1, <3>1 DEF TreeOK, IsFile, Dir
      <4> QED BY <1>1, <1>2, <3>1, <4>1
    <3>2. CASE ~IsFile(fs, new_path)
      <4>1. file = n + 1
        BY <3>2
      <4> QED BY <1>1, <1>2, <3>2, <4>1
    <3> QED BY <3>1, <3>2
  <2> HIDE DEF file
  <2>2. ASSUME in # file PROVE Len(content'[in]) \in Nat
    <3>1. content[in] \in Seq(Nat)
      BY <1>1
    <3> QED BY <2>1, <2>2, <3>1
  <2>3. Len(content'[out']) = 0
    BY <1>4, <2>1
  <2>4. ASSUME Undisturbed' PROVE Progress'
    <3>1. in' = in /\ in # file /\ in # 0 /\ bytes_copied' = 0 /\ pos' = 0
      BY <1>1, <1>2, <1>4, <2>4 DEF Undisturbed
    <3> HIDE DEF n
    <3>2. Len(content'[in']) \in Nat
      BY <2>2, <3>1
    <3>3. Len(content'[out']) <= Len(content'[in'])
      BY <2>3, <3>2
    <3>4. 1..Len(content'[out']) = {}
      BY <2>3
    <3>5. pc' = "read" /\ outcome' = "none"
      BY <1>1, <1>4
    <3> QED BY <2>3, <3>1, <3>3, <3>4, <3>5 DEF Progress
  <2> QED BY <1>1, <1>4, <2>4 DEF CopyInv, Choosing, Chosen
<1> QED BY <1>2, <1>3, <1>4

\* A read ends the copy where the source ends, or takes what comes next.
LEMMA ReadBlockCopy == IInv /\ CopyInv /\ ReadBlock => CopyInv'
<1> SUFFICES ASSUME IInv, CopyInv, ReadBlock PROVE CopyInv'
  OBVIOUS
<1>1. /\ pc = "read" /\ in \in 1..Len(content) /\ outcome = "none"
      /\ content \in Seq(Seq(Nat)) /\ pos \in Nat /\ bytes_copied \in Nat
      /\ UNCHANGED <<content, request, in, out, bytes_copied, edited>>
  BY DEF IInv, TypeOK, CallShape, ReadBlock, At, CopyInv, history
<1>2. content[in] \in Seq(Nat) /\ Len(content[in]) \in Nat
  BY <1>1
<1>3. CASE Len(content[in]) <= pos /\ Return /\ UNCHANGED <<buf, pos>>
  <2>1. pc' = "idle" /\ outcome' = "returned"
    BY <1>3 DEF Return
  <2>2. Undisturbed => Progress'
    BY <1>1, <1>2, <1>3, <2>1 DEF CopyInv, Progress
  <2> QED BY <1>1, <2>1, <2>2 DEF CopyInv, Undisturbed, Choosing, Chosen
<1>4. ASSUME NEW n \in 1..BufSize, pos + n <= Len(content[in]),
             buf' = SubSeq(content[in], pos + 1, pos + n), pos' = pos + n, Go("write")
      PROVE  CopyInv'
  <2>1. pc' = "write" /\ outcome' = "none" /\ n \in Nat \ {0}
    BY <1>1, <1>4, FileOperationsAssumption DEF Go
  <2>2. Len(buf') = n /\ \A i \in 1..n : buf'[i] = content[in][pos + i]
    BY <1>1, <1>2, <1>4, <2>1, SMTT(30)
  <2>3. ASSUME Undisturbed PROVE Progress'
    <3>1. /\ in # 0 /\ Len(content[out]) <= Len(content[in])
          /\ \A i \in 1..Len(content[out]) : content[out][i] = content[in][i]
          /\ Len(content[out]) = bytes_copied /\ pos = bytes_copied
      BY <1>1, <2>3 DEF CopyInv, Progress
    <3>2. pos' <= Len(content[in]) /\ bytes_copied + Len(buf') = pos'
      BY <1>1, <1>2, <1>4, <2>2, <3>1
    <3>3. \A i \in 1..Len(buf') : buf'[i] = content[in][bytes_copied + i]
      BY <2>2, <3>1
    <3> QED BY <1>1, <2>1, <3>1, <3>2, <3>3 DEF Progress
  <2> QED BY <1>1, <2>1, <2>3 DEF CopyInv, Undisturbed, Choosing, Chosen
<1> QED BY <1>3, <1>4 DEF ReadBlock

\* Writing at the end of what is there appends to it.
LEMMA SplicedAtEnd ==
    ASSUME NEW old \in Seq(Nat), NEW new \in Seq(Nat)
    PROVE  LET s == Spliced(old, Len(old), new) IN
           /\ Len(s) = Len(old) + Len(new)
           /\ \A i \in 1..Len(old) : s[i] = old[i]
           /\ \A i \in 1..Len(new) : s[Len(old) + i] = new[i]
<1> DEFINE a == Len(old)
           b == Len(new)
           s == [k \in 1..(a + b) |-> IF k > a THEN new[k - a] ELSE old[k]]
<1>1. a \in Nat /\ b \in Nat /\ Len(old) = a /\ Len(new) = b
  OBVIOUS
<1> HIDE DEF a, b
<1>2. Spliced(old, a, new) = s
  <2>1. (IF a + b > a THEN a + b ELSE a) = a + b
    BY <1>1
  <2>2. ASSUME NEW k \in 1..(a + b)
        PROVE  (IF k > a /\ k <= a + b THEN new[k - a] ELSE IF k <= a THEN old[k] ELSE 0)
                   = IF k > a THEN new[k - a] ELSE old[k]
    BY <1>1
  <2>3. Spliced(old, a, new) =
            [k \in 1..(a + b) |->
                IF k > a /\ k <= a + b THEN new[k - a] ELSE IF k <= a THEN old[k] ELSE 0]
    BY <1>1, <2>1, Zenon DEF Spliced
  <2> QED BY <2>2, <2>3
<1>3. Len(s) = a + b
  BY <1>1
<1>4. \A i \in 1..a : s[i] = old[i]
  BY <1>1
<1>5. \A i \in 1..b : s[a + i] = new[i]
  <2> SUFFICES ASSUME NEW i \in 1..b PROVE s[a + i] = new[i]
    OBVIOUS
  <2>1. a + i \in 1..(a + b) /\ a + i > a /\ (a + i) - a = i
    BY <1>1
  <2>2. s[a + i] = new[(a + i) - a]
    BY <2>1, Zenon
  <2> QED BY <2>1, <2>2, Zenon
<1> QED BY <1>2, <1>3, <1>4, <1>5 DEF a, b

\* A write, whole or short, goes on where the last one ended. One whose reply is
\* lost has gone on as well, and the copy ends.
LEMMA WriteBlockCopy == IInv /\ CopyInv /\ WriteBlock => CopyInv'
<1> SUFFICES ASSUME IInv, CopyInv, WriteBlock PROVE CopyInv'
  OBVIOUS
<1>1. /\ pc = "write" /\ in \in 1..Len(content) /\ out \in 1..Len(content)
      /\ outcome = "none" /\ content \in Seq(Seq(Nat)) /\ pos \in Nat
      /\ bytes_copied \in Nat /\ buf \in Seq(Nat)
      /\ UNCHANGED <<request, in, out, pos, edited>>
  BY DEF IInv, TypeOK, CallShape, WriteBlock, At, CopyInv, history
<1>2. PICK n \in 1..Len(buf) :
          /\ content' = [content EXCEPT
                           ![out] = Spliced(@, bytes_copied, SubSeq(buf, 1, n))]
          /\ \/ /\ buf' = SubSeq(buf, n + 1, Len(buf))
                /\ bytes_copied' = bytes_copied + n
                /\ Go(IF n = Len(buf) THEN "read" ELSE "write")
             \/ ReplyLost /\ UNCHANGED <<buf, bytes_copied>>
  BY DEF WriteBlock
<1> DEFINE src == content[in]
           old == content[out]
           block == SubSeq(buf, 1, n)
           new == Spliced(old, bytes_copied, block)
           a == Len(old)
<1>3. /\ Len(buf) \in Nat /\ n \in Nat /\ block \in Seq(Nat) /\ Len(block) = n
      /\ \A i \in 1..n : block[i] = buf[i]
  BY <1>1
<1>4. src \in Seq(Nat) /\ old \in Seq(Nat) /\ Len(src) \in Nat /\ a \in Nat
  BY <1>1
<1>5. \/ pc' = "read" /\ n = Len(buf) /\ outcome' = "none" /\ bytes_copied' = bytes_copied + n
      \/ /\ pc' = "write" /\ n # Len(buf) /\ outcome' = "none"
         /\ bytes_copied' = bytes_copied + n /\ buf' = SubSeq(buf, n + 1, Len(buf))
      \/ pc' = "idle" /\ outcome' = "fault"
  BY <1>1, <1>2 DEF Go, ReplyLost, Throw
<1>6. content'[out] = new /\ (in # out => content'[in] = src)
  BY <1>1, <1>2
<1>7. ASSUME Undisturbed PROVE Progress'
  <2>1. /\ in # out /\ a <= Len(src) /\ \A i \in 1..a : old[i] = src[i]
        /\ a = bytes_copied /\ pos <= Len(src) /\ bytes_copied + Len(buf) = pos
        /\ \A i \in 1..Len(buf) : buf[i] = src[bytes_copied + i]
    BY <1>1, <1>7 DEF CopyInv, Progress, Undisturbed
  <2>2. /\ Len(new) = a + n /\ \A i \in 1..a : new[i] = old[i]
        /\ \A i \in 1..n : new[a + i] = block[i]
    <3> HIDE DEF block, old
    <3>1. new = Spliced(old, Len(old), block)
      BY <2>1
    <3>2. /\ Len(new) = Len(old) + Len(block) /\ \A i \in 1..Len(old) : new[i] = old[i]
          /\ \A i \in 1..Len(block) : new[Len(old) + i] = block[i]
      <4>1. /\ Len(Spliced(old, Len(old), block)) = Len(old) + Len(block)
            /\ \A i \in 1..Len(old) : Spliced(old, Len(old), block)[i] = old[i]
            /\ \A i \in 1..Len(block) :
                  Spliced(old, Len(old), block)[Len(old) + i] = block[i]
        BY <1>3, <1>4, SplicedAtEnd
      <4> HIDE DEF new
      <4> QED BY <3>1, <4>1, Zenon
    <3> QED BY <1>3, <3>2
  <2> HIDE DEF new, src, old, a, block
  <2>3. a + n <= Len(src)
    BY <1>1, <1>2, <1>3, <1>4, <2>1
  <2>4. ASSUME NEW i \in 1..(a + n) PROVE new[i] = src[i]
    <3>1. CASE i \in 1..a
      BY <2>1, <2>2, <3>1
    <3>2. CASE i \notin 1..a
      <4>1. i - a \in 1..n /\ a + (i - a) = i /\ i - a \in 1..Len(buf)
        BY <1>2, <1>3, <1>4, <3>2
      <4>2. new[a + (i - a)] = block[i - a] /\ block[i - a] = buf[i - a]
        BY <1>3, <2>2, <4>1
      <4>3. buf[i - a] = src[a + (i - a)]
        BY <2>1, <4>1
      <4> QED BY <4>1, <4>2, <4>3
    <3> QED BY <3>1, <3>2
  <2>5. /\ in' # 0 /\ Len(content'[out']) = a + n /\ Len(content'[out']) <= Len(content'[in'])
        /\ \A i \in 1..Len(content'[out']) : content'[out'][i] = content'[in'][i]
    BY <1>1, <1>6, <2>1, <2>2, <2>3, <2>4, SMTT(30)
  <2>6. pc' \in {"read", "write"} => bytes_copied' = a + n
    BY <1>5, <2>1
  <2>7. pc' = "read" => pos' = bytes_copied'
    BY <1>1, <1>5, <2>1
  <2>8. ASSUME pc' = "write"
        PROVE  /\ pos' <= Len(content'[in']) /\ bytes_copied' + Len(buf') = pos'
               /\ \A i \in 1..Len(buf') : buf'[i] = content'[in'][bytes_copied' + i]
    <3>1. /\ buf' = SubSeq(buf, n + 1, Len(buf)) /\ bytes_copied' = bytes_copied + n
          /\ content'[in'] = src /\ pos' = pos
      BY <1>1, <1>5, <1>6, <2>1, <2>8
    <3>2. Len(buf') = Len(buf) - n /\ \A i \in 1..(Len(buf) - n) : buf'[i] = buf[n + i]
      BY <1>1, <1>2, <1>3, <3>1, SMTT(30)
    <3>3. bytes_copied' + Len(buf') = pos'
      <4> DEFINE l == Len(buf)
                 b == bytes_copied
      <4>1. l \in Nat /\ n \in Nat /\ b \in Nat /\ b + l = pos
        BY <1>1, <1>3, <2>1
      <4>2. bytes_copied' = b + n /\ Len(buf') = l - n /\ pos' = pos
        BY <3>1, <3>2
      <4> HIDE DEF l, b
      <4>3. (b + n) + (l - n) = pos
        BY <4>1
      <4> QED BY <4>2, <4>3, Zenon
    <3>4. ASSUME NEW i \in 1..Len(buf') PROVE buf'[i] = src[bytes_copied' + i]
      <4>1. n + i \in 1..Len(buf) /\ bytes_copied + (n + i) = bytes_copied' + i
        BY <1>1, <1>2, <1>3, <3>1, <3>2
      <4> QED BY <2>1, <3>2, <4>1
    <3> QED BY <2>1, <3>1, <3>3, <3>4
  <2>9. outcome' # "returned"
    BY <1>5
  <2> QED BY <2>5, <2>6, <2>7, <2>8, <2>9 DEF Progress
<1>8. Undisturbed' => Undisturbed
  BY <1>1 DEF Undisturbed
<1> QED BY <1>1, <1>5, <1>7, <1>8 DEF CopyInv, Choosing, Chosen

LEMMA NextCopy == IInv /\ CopyInv /\ [Next]_vars => CopyInv'
<1> SUFFICES ASSUME IInv, CopyInv, [Next]_vars PROVE CopyInv'
  OBVIOUS
<1>1. CASE ThrowIfInterrupted \/ Fault
  BY <1>1, CopyWaits DEF ThrowIfInterrupted, Fault, Throw, copying, history
<1>2. CASE Resolve \/ ExpandTime \/ StatDest \/ StatInDir \/ Probe \/ MkdirParents
           \/ Rename \/ OpenIn \/ StatMode
  <2>1. /\ UNCHANGED <<content, request, out, buf, pos, bytes_copied, edited>>
        /\ pc \in Choosing
    BY <1>2 DEF Resolve, ExpandTime, StatDest, StatInDir, Probe, MkdirParents, Rename,
                OpenIn, StatMode, At, copying, history, Choosing, Chosen
  <2>2. pc' = "idle" \/ (pc' \in Choosing /\ outcome' = outcome)
    BY <1>2 DEF Resolve, ExpandTime, StatDest, StatInDir, Probe, MkdirParents, Rename,
                OpenIn, StatMode, ResolveNameConflict, PlaceNewFile, Resolved, Go, Throw,
                Return, ReplyLost, Choosing, Chosen
  <2> QED BY <2>1, <2>2, CopyWaits
<1>3. CASE Interrupt \/ UNCHANGED vars
  BY <1>3, CopyWaits DEF Interrupt, vars, copying, history
<1>4. ASSUME NEW p \in RivalPaths, RivalCreate(p) \/ RivalRemove(p) \/ RivalWrite(p)
      PROVE  CopyInv'
  <2>1. /\ UNCHANGED <<request, in, out, buf, pos, bytes_copied, pc, outcome>>
        /\ edited \subseteq edited'
    BY <1>4 DEF RivalCreate, RivalRemove, RivalWrite, RivalTurn, copying
  <2>2. content \in Seq(Seq(Nat))
    BY DEF IInv, TypeOK
  <2>3. ASSUME NEW i \in 1..Len(content), i \notin edited'
        PROVE  content'[i] = content[i]
    <3>1. CASE RivalCreate(p)
      BY <2>2, <3>1 DEF RivalCreate
    <3>2. CASE RivalRemove(p)
      BY <3>2 DEF RivalRemove
    <3>3. CASE RivalWrite(p)
      <4>1. i # fs[p]
        BY <2>3, <3>3 DEF RivalWrite
      <4> QED BY <2>2, <3>3, <4>1 DEF RivalWrite
    <3> QED BY <1>4, <3>1, <3>2, <3>3
  <2> QED BY <2>1, <2>3, CopyWaits
<1> QED BY <1>1, <1>2, <1>3, <1>4, StartCopy, OpenOutCopy, ReadBlockCopy, WriteBlockCopy
        DEF Next, Worker, Rival

\* Whatever blocks the reads and writes come in, a copy that nobody disturbs is
\* at every moment a prefix of its source, and all of it when it returns.
THEOREM CopiesFaithfully == Spec => []CopyFaithful
<1>1. Init => CopyInv
  BY DEF Init, CopyInv, Undisturbed
<1>2. ASSUME IInv, CopyInv PROVE CopyFaithful
  <2> SUFFICES ASSUME Undisturbed
               PROVE  /\ IsPrefix(content[out], content[in])
                      /\ outcome = "returned" =>
                            content[out] = content[in] /\ bytes_copied = Len(content[in])
    BY DEF CopyFaithful, Undisturbed
  <2> DEFINE s == content[out]
             t == content[in]
  <2>1. /\ in \in 1..Len(content) /\ out \in 1..Len(content)
        /\ content \in Seq(Seq(Nat))
    BY <1>2 DEF IInv, TypeOK, CopyInv, Progress, Undisturbed
  <2>2. s \in Seq(Nat) /\ t \in Seq(Nat)
    BY <2>1
  <2>3. /\ Len(s) <= Len(t) /\ \A i \in 1..Len(s) : s[i] = t[i]
        /\ outcome = "returned" => bytes_copied = Len(t) /\ Len(s) = Len(t)
    BY <1>2 DEF CopyInv, Progress
  <2> HIDE DEF s, t
  <2>4. IsPrefix(s, t)
    <3>1. Len(s) \in Nat /\ Len(t) \in Nat
      BY <2>2
    <3>2. /\ SubSeq(s, 1, Len(s)) \in Seq(Nat) /\ Len(SubSeq(s, 1, Len(s))) = Len(s)
          /\ \A i \in 1..Len(s) : SubSeq(s, 1, Len(s))[i] = s[i]
      BY <2>2, <3>1
    <3>3. /\ SubSeq(t, 1, Len(s)) \in Seq(Nat) /\ Len(SubSeq(t, 1, Len(s))) = Len(s)
          /\ \A i \in 1..Len(s) : SubSeq(t, 1, Len(s))[i] = t[i]
      BY <2>2, <2>3, <3>1
    <3>4. SubSeq(s, 1, Len(s)) = SubSeq(t, 1, Len(s))
      BY <2>3, <3>2, <3>3, SeqEqual
    <3> QED BY <2>3, <3>4 DEF IsPrefix
  <2>5. outcome = "returned" => s = t
    BY <2>2, <2>3, SeqEqual
  <2> QED BY <2>3, <2>4, <2>5 DEF s, t
<1>3. IInv /\ CopyInv => CopyFaithful
  BY <1>2
<1> QED BY <1>1, <1>3, NextCopy, IInvHolds, PTL DEF Spec
=============================================================================
