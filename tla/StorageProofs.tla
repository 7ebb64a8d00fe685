--------------------------- MODULE StorageProofs ---------------------------
(***************************************************************************)
(* Proofs about the state file, for every number of processes, every set   *)
(* of models and commands, and every retention: what lies at its path is   *)
(* always whole, what this build cannot read is not replaced, pruning      *)
(* keeps the newest backups, a migration keeps the original, and Storage   *)
(* implements StateFile.                                                   *)
(***************************************************************************)
EXTENDS Storage, FiniteSetTheorems, TLAPS

Writing == {"create", "write", "sync", "rename"}
Copying == {"copy", "copying", "prune"}
Resting == {"off", "idle"}

(* What a process holds at each place of its command.                      *)
LocalOK(p) ==
  /\ pc[p] = "off" => answer[p] = "none"
  /\ pc[p] \notin Resting => op[p] \in Changes \union Queries
  /\ pc[p] \notin Resting \union {"load"} => loaded[p] \in States
  /\ pc[p] \in Resting \union {"load"} => task[p] = "none"
  /\ pc[p] \in Copying => task[p] \in Reasons
  /\ pc[p] \in Writing => task[p] \in Tasks \ {"export"}
  /\ task[p] = "change" => op[p] \in Changes
  /\ task[p] = "export" => op[p] = "export"
  /\ pc[p] = "done" => op[p] \in Changes
  /\ pc[p] = "rename" => temp[p] = "flushed"

(* Nobody works on a file that cannot be read, and nothing else is on its  *)
(* way to the disk.                                                        *)
Unsupported(f) == f # NoFile /\ f.form \in {"newer", "broken"}

Untouched ==
  Unsupported(file) \/ Unsupported(durable) =>
    /\ durable = file
    /\ \A p \in Procs : pc[p] \in Resting \union {"load"}

BackupsAreWhole == \A i \in DOMAIN backups : backups[i].source.form # "torn"

IInv ==
  /\ TypeOK
  /\ \A p \in Procs : LocalOK(p)
  /\ StateIsWhole
  /\ BackupsAreWhole
  /\ Untouched

-----------------------------------------------------------------------------

LEMMA InitIInv == Init => IInv
  BY StorageAssumption
  DEF Init, IInv, TypeOK, LocalOK, StateIsWhole, Whole, BackupsAreWhole, Untouched,
      Unsupported, Resting, Copying, Writing, Files, Backups, Forms

(* Steps of one process that leave the state file alone.                   *)
Same(q) ==
  /\ pc'[q] = pc[q] /\ op'[q] = op[q] /\ task'[q] = task[q]
  /\ loaded'[q] = loaded[q] /\ temp'[q] = temp[q] /\ answer'[q] = answer[q]

LEMMA LocalStep ==
  ASSUME IInv, NEW p \in Procs,
         UNCHANGED <<file, durable>>, TypeOK', BackupsAreWhole',
         \A q \in Procs \ {p} : Same(q),
         LocalOK(p)',
         Unsupported(file) => pc'[p] \in Resting \union {"load"}
  PROVE  IInv'
<1>1. ASSUME NEW q \in Procs PROVE LocalOK(q)'
  <2>1. CASE q = p BY <2>1
  <2>2. CASE q # p BY <2>2 DEF IInv, LocalOK, Same
  <2> QED BY <2>1, <2>2
<1>2. StateIsWhole'
  BY DEF IInv, StateIsWhole, Whole
<1>3. Untouched'
  BY DEF IInv, Untouched, Unsupported, Same
<1> QED BY <1>1, <1>2, <1>3 DEF IInv

LEMMA JoinedSeq ==
  ASSUME NEW S, NEW s \in Seq(S), NEW t \in Seq(S), NEW j \in 1..(Len(s) + Len(t))
  PROVE  (s \o t)[j] = IF j <= Len(s) THEN s[j] ELSE t[j - Len(s)]
  OBVIOUS

LEMMA JoinedType ==
  ASSUME NEW S, NEW s \in Seq(S), NEW t \in Seq(S)
  PROVE  s \o t \in Seq(S) /\ Len(s \o t) = Len(s) + Len(t)
  OBVIOUS

LEMMA BehindCut ==
  ASSUME NEW n \in Nat, NEW i \in 1..n, NEW j \in 1..(n - 1), j >= i
  PROVE  /\ ~ (j <= i - 1)
         /\ j - (i - 1) \in 1..(n - i)
         /\ i + (j - (i - 1)) = j + 1
         /\ j + 1 \in 1..n
  OBVIOUS

LEMMA RemovedIsThere ==
  ASSUME NEW S, NEW s \in Seq(S), NEW i \in DOMAIN s
  PROVE  /\ RemoveAt(s, i) \in Seq(S)
         /\ \A j \in DOMAIN RemoveAt(s, i) : \E k \in DOMAIN s : RemoveAt(s, i)[j] = s[k]
        /\ DOMAIN RemoveAt(s, i) = 1..(Len(s) - 1)
        /\ \A j \in 1..(Len(s) - 1) : RemoveAt(s, i)[j] = IF j < i THEN s[j] ELSE s[j + 1]
<1>1. i \in 1..Len(s) /\ Len(s) \in Nat /\ DOMAIN s = 1..Len(s)
  OBVIOUS
<1> DEFINE before == SubSeq(s, 1, i - 1)
           after  == SubSeq(s, i + 1, Len(s))
<1>2. /\ before \in Seq(S)
      /\ Len(before) = i - 1
      /\ \A j \in 1..(i - 1) : before[j] = s[j]
  BY <1>1
<1>3. /\ after \in Seq(S)
      /\ Len(after) = Len(s) - i
      /\ \A j \in 1..(Len(s) - i) : after[j] = s[i + j]
  BY <1>1
<1> HIDE DEF before, after
<1>4. RemoveAt(s, i) = before \o after
  BY DEF RemoveAt, before, after
<1>5. before \o after \in Seq(S) /\ Len(before \o after) = Len(before) + Len(after)
  BY ZenonT(90), <1>2, <1>3, JoinedType
<1>6. Len(before) + Len(after) = Len(s) - 1
  BY <1>1, <1>2, <1>3
<1>7. ASSUME NEW j \in 1..(Len(s) - 1)
      PROVE  /\ \E k \in DOMAIN s : (before \o after)[j] = s[k]
             /\ (before \o after)[j] = IF j < i THEN s[j] ELSE s[j + 1]
  <2>1. (before \o after)[j] = IF j <= i - 1 THEN before[j] ELSE after[j - (i - 1)]
    <3>1. j \in 1..(Len(before) + Len(after))
      BY <1>6
    <3>2. (before \o after)[j] = IF j <= Len(before) THEN before[j] ELSE after[j - Len(before)]
      BY <1>2, <1>3, <3>1, JoinedSeq
    <3> QED BY <1>2, <3>2
  <2>2. CASE j < i
    <3>1. j \in 1..(i - 1) /\ j \in DOMAIN s
      BY <1>1, <2>2
    <3> QED BY <1>2, <2>1, <3>1
  <2>3. CASE j >= i
    <3>1. /\ ~ (j <= i - 1)
          /\ j - (i - 1) \in 1..(Len(s) - i)
          /\ i + (j - (i - 1)) = j + 1
          /\ j + 1 \in DOMAIN s
      BY <1>1, <2>3, BehindCut
    <3>2. (before \o after)[j] = after[j - (i - 1)]
      BY <2>1, <3>1
    <3>3. after[j - (i - 1)] = s[j + 1]
      BY <1>3, <3>1
    <3>4. ~ (j < i)
      BY <1>1, <2>3
    <3> QED BY <3>1, <3>2, <3>3, <3>4
  <2>4. j < i \/ j >= i
    BY <1>1
  <2> QED BY <2>2, <2>3, <2>4
<1>8. DOMAIN (before \o after) = 1..(Len(s) - 1)
  BY <1>5, <1>6
<1> QED BY <1>4, <1>5, <1>7, <1>8

LEMMA MappedSeq ==
  ASSUME NEW S, NEW s \in Seq(S), NEW t,
         t = [i \in DOMAIN s |-> t[i]], \A i \in DOMAIN s : t[i] \in S
  PROVE  t \in Seq(S) /\ DOMAIN t = DOMAIN s
<1>1. DOMAIN s = 1..Len(s) /\ Len(s) \in Nat
  OBVIOUS
<1>2. t \in [1..Len(s) -> S]
  BY <1>1
<1> QED BY <1>1, <1>2

(* Every step keeps the types.                                             *)
LEMMA TypeStep == IInv /\ [Next]_vars => TypeOK'
<1> SUFFICES ASSUME IInv, [Next]_vars PROVE TypeOK'
  OBVIOUS
<1> USE StorageAssumption DEF IInv, TypeOK, countVars, fileVars, procVars, localVars
<1>1. ASSUME NEW p \in Procs, Begin(p) PROVE TypeOK'
  BY <1>1 DEF Begin, Go
<1>2. ASSUME NEW p \in Procs, LoadSeed(p) PROVE TypeOK'
  BY <1>2 DEF LoadSeed, Work, Go, Tasks
<1>3. ASSUME NEW p \in Procs, Load(p) PROVE TypeOK'
  BY ZenonT(90), <1>3 DEF Load, Work, Go, Tasks, Files
<1>4. ASSUME NEW p \in Procs, LoadFails(p) PROVE TypeOK'
  BY <1>4 DEF LoadFails, Resolve, Go
<1>5. ASSUME NEW p \in Procs, Answered(p) PROVE TypeOK'
  BY <1>5 DEF Answered, Resolve, Go
<1>6. ASSUME NEW p \in Procs, Proceed(p) PROVE TypeOK'
  BY ZenonT(90), <1>6 DEF Proceed, Work, Go, Tasks
<1>7. ASSUME NEW p \in Procs, OpenCopy(p) PROVE TypeOK'
  <2>1. [reason |-> task[p], source |-> file, whole |-> FALSE, writer |-> p] \in Backups
    BY <1>7 DEF OpenCopy, LocalOK, Copying, Backups
  <2> QED BY <1>7, <2>1 DEF OpenCopy, Go
<1>8. ASSUME NEW p \in Procs, NEW w \in BOOLEAN, Close(p, w) PROVE backups' \in Seq(Backups)
  <2>1. ASSUME NEW b \in Backups PROVE [b EXCEPT !.whole = w, !.writer = NoProc] \in Backups
    BY DEF Backups
  <2>2. \A i \in DOMAIN backups : backups[i] \in Backups
    OBVIOUS
  <2>3. \A i \in DOMAIN backups : backups'[i] \in Backups
    BY <1>8, <2>1, <2>2 DEF Close
  <2>4. backups' = [i \in DOMAIN backups |-> backups'[i]]
    BY <1>8 DEF Close
  <2> QED BY <2>3, <2>4, MappedSeq
<1>9. ASSUME NEW p \in Procs, EndCopy(p) PROVE TypeOK'
  BY <1>9, <1>8 DEF EndCopy, Go
<1>10. ASSUME NEW p \in Procs, CopyFails(p) PROVE TypeOK'
  <2>1. backups' \in Seq(Backups)
    BY <1>10, <1>8 DEF CopyFails
  <2>2. faults' \in 0..MaxFaults
    <3>1. UNCHANGED <<backups, faults>> \/ Fault
      BY <1>10 DEF CopyFails
    <3>2. faults \in 0..MaxFaults /\ MaxFaults \in Nat
      OBVIOUS
    <3>3. CASE UNCHANGED <<backups, faults>>
      BY <3>3, <3>2
    <3>4. CASE Fault
      BY <3>4, <3>2 DEF Fault
    <3> QED BY <3>1, <3>3, <3>4
  <2> QED BY <1>10, <2>1, <2>2 DEF CopyFails, Resolve, Go
<1>11. ASSUME NEW p \in Procs, Prune(p) PROVE TypeOK'
  BY <1>11, RemovedIsThere DEF Prune, Outdated, Places
<1>12. ASSUME NEW p \in Procs, EndPrune(p) PROVE TypeOK'
  BY <1>12 DEF EndPrune, Resolve, Go
<1>13. ASSUME NEW p \in Procs, Create(p) \/ Write(p) \/ Sync(p) PROVE TypeOK'
  BY SMTT(60), <1>13 DEF Create, Write, Sync, WriteStep, Go
<1>14. ASSUME NEW p \in Procs, Rename(p) PROVE TypeOK'
  <2>1. Output(p) \in States
    <3>1. loaded[p] \in States /\ (task[p] = "change" => op[p] \in Changes)
      BY <1>14 DEF Rename, LocalOK, Resting
    <3> QED BY <3>1 DEF Output
  <2>2. Written(p) \in Files
    BY <2>1 DEF Written, Files, Forms
  <2> QED BY <1>14, <2>2 DEF Rename, Go
<1>15. ASSUME NEW p \in Procs, WriteFails(p) \/ Discard(p) \/ Finish(p) PROVE TypeOK'
  <2>1. CASE WriteFails(p) BY <2>1 DEF WriteFails, Go
  <2>2. CASE Discard(p) BY <2>2 DEF Discard, Resolve, Go
  <2>3. CASE Finish(p) BY <2>3 DEF Finish, Resolve, Go
  <2> QED BY <1>15, <2>1, <2>2, <2>3
<1>16. ASSUME NEW p \in Procs, Start(p) PROVE TypeOK'
  BY <1>16 DEF Start, Go
<1>17. ASSUME NEW p \in Procs, Quit(p) PROVE TypeOK'
  BY <1>17 DEF Quit, Down
<1>18. ASSUME NEW P, NEW b \in Backups PROVE Abandoned(P, b) \in Backups
  BY DEF Abandoned, Backups
<1>19. ASSUME NEW p \in Procs, Kill(p) PROVE TypeOK'
  <2>1. backups' \in Seq(Backups)
    <3>1. \A i \in DOMAIN backups : backups'[i] \in Backups
      BY <1>18, <1>19 DEF Kill
    <3>2. backups' = [i \in DOMAIN backups |-> backups'[i]]
      BY <1>19 DEF Kill
    <3> QED BY <3>1, <3>2, MappedSeq
  <2> QED BY <1>19, <2>1 DEF Kill, Down, Fault
<1>20. CASE Settle
  BY <1>20 DEF Settle
<1>21. CASE PowerFails
  <2>1. ASSUME NEW f \in {file, durable} PROVE Survivor(f) \in {NoFile} \union Files
    BY ZenonT(90) DEF Survivor, Files, Forms
  <2>2. ASSUME NEW b \in Backups, NEW w \in BOOLEAN
        PROVE  [b EXCEPT !.whole = @ /\ w] \in Backups
    BY DEF Backups
  <2>3. backups' \in Seq(Backups)
    <3>1. PICK kept \in BOOLEAN :
            backups' = [i \in DOMAIN backups |->
                          [Abandoned(Procs, backups[i]) EXCEPT
                             !.whole = @ /\ (kept \/ i < Len(backups))]]
      BY <1>21 DEF PowerFails
    <3>2. ASSUME NEW i \in DOMAIN backups PROVE backups'[i] \in Backups
      <4>1. Abandoned(Procs, backups[i]) \in Backups
        BY <1>18
      <4>2. (kept \/ i < Len(backups)) \in BOOLEAN
        OBVIOUS
      <4> QED BY <3>1, <4>1, <4>2, <2>2
    <3>3. backups' = [i \in DOMAIN backups |-> backups'[i]]
      BY <3>1
    <3> QED BY <3>2, <3>3, MappedSeq
  <2> QED BY <1>21, <2>1, <2>3 DEF PowerFails, Down, Fault
<1>22. CASE Restore
  <2>1. ASSUME NEW f \in Files PROVE [f EXCEPT !.flushed = TRUE] \in Files
    BY DEF Files
  <2>2. ASSUME NEW i \in DOMAIN backups PROVE backups[i].source \in Files
    <3>1. backups[i] \in Backups
      OBVIOUS
    <3> QED BY <3>1 DEF Backups
  <2>3. file' \in Files
    BY <1>22, <2>1, <2>2 DEF Restore
  <2> QED BY <1>22, <2>3 DEF Restore
<1>23. CASE UNCHANGED vars
  BY <1>23 DEF vars
<1> QED BY <1>1, <1>2, <1>3, <1>4, <1>5, <1>6, <1>7, <1>9, <1>10, <1>11, <1>12,
          <1>13, <1>14, <1>15, <1>16, <1>17, <1>19, <1>20, <1>21, <1>22, <1>23
        DEF Next, Step

-----------------------------------------------------------------------------
(* The invariant.                                                          *)

LEMMA LocalsOfOthers ==
  ASSUME TypeOK, NEW p \in Procs, NEW q \in Procs \ {p},
         \/ Begin(p) \/ LoadSeed(p) \/ Load(p) \/ LoadFails(p) \/ Answered(p)
         \/ Proceed(p) \/ OpenCopy(p) \/ EndCopy(p) \/ CopyFails(p) \/ Prune(p)
         \/ EndPrune(p) \/ Create(p) \/ Write(p) \/ Sync(p) \/ Rename(p)
         \/ WriteFails(p) \/ Discard(p) \/ Finish(p) \/ Start(p) \/ Quit(p) \/ Kill(p)
  PROVE  Same(q)
<1> USE DEF TypeOK, Same, procVars, localVars, Go, Resolve, Work
<1>1. CASE Begin(p) \/ LoadSeed(p) \/ Load(p) \/ LoadFails(p) \/ Answered(p) \/ Proceed(p)
  BY <1>1 DEF Begin, LoadSeed, Load, LoadFails, Answered, Proceed
<1>2. CASE OpenCopy(p) \/ EndCopy(p) \/ CopyFails(p) \/ Prune(p) \/ EndPrune(p)
  BY ZenonT(90), <1>2 DEF OpenCopy, EndCopy, CopyFails, Prune, EndPrune
<1>3. CASE Create(p) \/ Write(p) \/ Sync(p) \/ Rename(p)
  BY <1>3 DEF Create, Write, Sync, WriteStep, Rename
<1>4. CASE WriteFails(p) \/ Discard(p) \/ Finish(p) \/ Start(p)
  BY <1>4 DEF WriteFails, Discard, Finish, Start
<1>5. CASE Quit(p) \/ Kill(p)
  BY <1>5 DEF Quit, Kill, Down
<1> QED BY <1>1, <1>2, <1>3, <1>4, <1>5

LEMMA NextIInv == IInv /\ [Next]_vars => IInv'
<1> SUFFICES ASSUME IInv, [Next]_vars PROVE IInv'
  OBVIOUS
<1>t. TypeOK /\ TypeOK'
  BY TypeStep DEF IInv
<1> DEFINE Ok(p) == /\ LocalOK(p)'
                    /\ Unsupported(file) => pc'[p] \in Resting \union {"load"}
<1>b. UNCHANGED backups => BackupsAreWhole'
  BY DEF IInv, BackupsAreWhole
<1>u. ASSUME NEW p \in Procs, Unsupported(file) PROVE pc[p] \in Resting \union {"load"}
  BY <1>u DEF IInv, Untouched
<1>l. ASSUME NEW p \in Procs PROVE LocalOK(p)
  BY DEF IInv
<1> USE <1>t DEF TypeOK, LocalOK, Resting, Writing, Copying, Queries, Reasons, Tasks,
                 Go, Work, Resolve, procVars, localVars
<1>1. ASSUME NEW p \in Procs, Begin(p) PROVE Ok(p)
  BY <1>1, <1>l, StorageAssumption DEF Begin
<1>2. ASSUME NEW p \in Procs, LoadSeed(p) PROVE Ok(p)
  BY <1>2, <1>l, StorageAssumption DEF LoadSeed, Unsupported
<1>3. ASSUME NEW p \in Procs, Load(p) PROVE Ok(p)
  BY <1>3, <1>l DEF Load, Unsupported, Supported, Files
<1>4. ASSUME NEW p \in Procs, LoadFails(p) PROVE Ok(p)
  BY <1>4, <1>l DEF LoadFails
<1>5. ASSUME NEW p \in Procs, Answered(p) PROVE Ok(p)
  BY <1>5, <1>l DEF Answered
<1>6. ASSUME NEW p \in Procs, Proceed(p) PROVE Ok(p)
  BY <1>6, <1>l, <1>u DEF Proceed
<1>7. ASSUME NEW p \in Procs, OpenCopy(p) PROVE Ok(p)
  BY <1>7, <1>l, <1>u DEF OpenCopy
<1>8. ASSUME NEW p \in Procs, EndCopy(p) PROVE Ok(p)
  BY <1>8, <1>l, <1>u DEF EndCopy
<1>9. ASSUME NEW p \in Procs, CopyFails(p) PROVE Ok(p)
  BY <1>9, <1>l DEF CopyFails
<1>10. ASSUME NEW p \in Procs, Prune(p) PROVE Ok(p)
  BY <1>10, <1>l, <1>u DEF Prune
<1>11. ASSUME NEW p \in Procs, EndPrune(p) PROVE Ok(p)
  <2>1. CASE task[p] = "migration"
    BY <1>11, <1>l, <1>u, <2>1 DEF EndPrune
  <2>2. CASE task[p] = "export"
    BY <1>11, <1>l, <1>u, <2>2 DEF EndPrune
  <2> QED BY <1>11, <2>1, <2>2 DEF EndPrune
<1>12. ASSUME NEW p \in Procs, Create(p) \/ Write(p) \/ Sync(p) PROVE Ok(p)
  BY <1>12, <1>l, <1>u DEF Create, Write, Sync, WriteStep
<1>13. ASSUME NEW p \in Procs, WriteFails(p) PROVE Ok(p)
  BY <1>13, <1>l, <1>u DEF WriteFails
<1>14. ASSUME NEW p \in Procs, Discard(p) \/ Finish(p) PROVE Ok(p)
  BY <1>14, <1>l DEF Discard, Finish
<1>15. ASSUME NEW p \in Procs, Start(p) PROVE Ok(p)
  BY <1>15, <1>l DEF Start
<1>16. ASSUME NEW p \in Procs, Quit(p) \/ Kill(p) PROVE Ok(p)
  BY <1>16 DEF Quit, Kill, Down
<1>17. ASSUME NEW p \in Procs, Rename(p) PROVE LocalOK(p)' /\ ~ Unsupported(file)
  BY <1>17, <1>l, <1>u DEF Rename

(* The steps that leave state.json alone.                                  *)
<1>20. ASSUME NEW p \in Procs, Ok(p), UNCHANGED <<file, durable>>, BackupsAreWhole',
              \A q \in Procs \ {p} : Same(q)
       PROVE  IInv'
  BY <1>20, <1>t, LocalStep
<1>21. ASSUME NEW p \in Procs,
              \/ Begin(p) \/ LoadSeed(p) \/ Load(p) \/ LoadFails(p) \/ Answered(p)
              \/ Proceed(p) \/ EndPrune(p)
       PROVE  IInv'
  <2>1. Ok(p)
    BY <1>21, <1>1, <1>2, <1>3, <1>4, <1>5, <1>6, <1>11
  <2>2. UNCHANGED fileVars
    BY <1>21 DEF Begin, LoadSeed, Load, LoadFails, Answered, Proceed, EndPrune
  <2> QED BY <1>21, <2>1, <2>2, <1>20, <1>b, LocalsOfOthers DEF fileVars
<1>22. ASSUME NEW p \in Procs,
              \/ Create(p) \/ Write(p) \/ Sync(p) \/ WriteFails(p) \/ Discard(p)
              \/ Finish(p) \/ Start(p) \/ Quit(p)
       PROVE  IInv'
  <2>1. Ok(p)
    BY <1>22, <1>12, <1>13, <1>14, <1>15, <1>16
  <2>2. UNCHANGED fileVars
    BY <1>22 DEF Create, Write, Sync, WriteStep, WriteFails, Discard, Finish, Start, Quit
  <2> QED BY <1>22, <2>1, <2>2, <1>20, <1>b, LocalsOfOthers DEF fileVars

(* The steps that write a backup.                                          *)
<1>23. ASSUME NEW p \in Procs, OpenCopy(p) PROVE BackupsAreWhole'
  <2>1. file.form # "torn"
    BY <1>23 DEF OpenCopy, IInv, StateIsWhole, Whole
  <2> QED BY <1>23, <2>1 DEF OpenCopy, BackupsAreWhole, IInv
<1>24. ASSUME NEW p \in Procs, NEW w \in BOOLEAN, Close(p, w) PROVE BackupsAreWhole'
  <2>1. \A i \in DOMAIN backups : backups[i] \in Backups
    OBVIOUS
  <2>2. DOMAIN backups' = DOMAIN backups
    BY <1>24 DEF Close
  <2>3. ASSUME NEW b \in Backups
        PROVE  [b EXCEPT !.whole = w, !.writer = NoProc].source = b.source
    BY DEF Backups
  <2>4. \A i \in DOMAIN backups : backups'[i].source = backups[i].source
    BY <1>24, <2>1, <2>3 DEF Close
  <2> QED BY <2>2, <2>4 DEF BackupsAreWhole, IInv
<1>25. ASSUME NEW p \in Procs, Prune(p) PROVE BackupsAreWhole'
  <2>1. PICK i \in DOMAIN backups : backups' = RemoveAt(backups, i)
    BY <1>25 DEF Prune, Outdated, Places
  <2>2. \A j \in DOMAIN backups' : \E k \in DOMAIN backups : backups'[j] = backups[k]
    BY <2>1, RemovedIsThere
  <2> QED BY <2>2 DEF BackupsAreWhole, IInv
<1>26. ASSUME NEW P, NEW b \in Backups
       PROVE  Abandoned(P, b) \in Backups /\ Abandoned(P, b).source = b.source
  BY DEF Abandoned, Backups
<1>27. ASSUME NEW p \in Procs, Kill(p) PROVE BackupsAreWhole'
  <2>1. \A i \in DOMAIN backups : backups[i] \in Backups
    OBVIOUS
  <2>2. DOMAIN backups' = DOMAIN backups
    BY <1>27 DEF Kill
  <2>3. \A i \in DOMAIN backups : backups'[i].source = backups[i].source
    BY <1>27, <1>26, <2>1 DEF Kill
  <2> QED BY <2>2, <2>3 DEF BackupsAreWhole, IInv
<1>28. ASSUME NEW p \in Procs,
              OpenCopy(p) \/ EndCopy(p) \/ CopyFails(p) \/ Prune(p) \/ Kill(p)
       PROVE  IInv'
  <2>1. Ok(p)
    BY <1>28, <1>7, <1>8, <1>9, <1>10, <1>16
  <2>2. UNCHANGED <<file, durable>>
    BY <1>28 DEF OpenCopy, EndCopy, CopyFails, Prune, Kill
  <2>3. BackupsAreWhole'
    <3>1. CASE EndCopy(p)
      BY <3>1, <1>24 DEF EndCopy
    <3>2. CASE CopyFails(p)
      BY <3>2, <1>24, <1>b DEF CopyFails
    <3> QED BY <1>28, <3>1, <3>2, <1>23, <1>25, <1>27
  <2> QED BY <1>28, <2>1, <2>2, <2>3, <1>20, LocalsOfOthers

(* The steps that change it.                                               *)
<1>30. ASSUME NEW p \in Procs, Rename(p) PROVE IInv'
  <2>1. ~ Unsupported(file) /\ temp[p] = "flushed"
    BY <1>30, <1>17, <1>l DEF Rename
  <2>2. ~ Unsupported(durable)
    BY <2>1 DEF IInv, Untouched
  <2>3. file'.form = "current" /\ file'.flushed /\ durable' = durable
    BY <1>30, <2>1 DEF Rename, Written
  <2>4. StateIsWhole'
    BY <2>3 DEF IInv, StateIsWhole, Whole
  <2>5. Untouched'
    BY <2>2, <2>3 DEF Untouched, Unsupported
  <2>6. ASSUME NEW q \in Procs PROVE LocalOK(q)'
    <3>1. CASE q = p
      BY <3>1, <1>17, <1>30
    <3>2. CASE q # p
      BY <3>2, <1>30, <1>l, LocalsOfOthers DEF Same
    <3> QED BY <3>1, <3>2
  <2>7. UNCHANGED backups
    BY <1>30 DEF Rename
  <2> QED BY <2>4, <2>5, <2>6, <2>7, <1>b, <1>t DEF IInv
<1>31. CASE Settle
  <2>1. UNCHANGED <<pc, op, task, loaded, temp, answer, backups, file>> /\ durable' = file
    BY <1>31 DEF Settle
  <2>2. \A p \in Procs : LocalOK(p)'
    BY <2>1, <1>l
  <2> QED BY <2>1, <2>2, <1>b, <1>t
          DEF IInv, StateIsWhole, Whole, Untouched, Unsupported
<1>32. ASSUME Down(Procs) PROVE \A p \in Procs : LocalOK(p)' /\ pc'[p] = "off"
  BY <1>32 DEF Down
<1>33. CASE PowerFails
  <2>1. PICK f \in {file, durable} : file' = Survivor(f) /\ durable' = Survivor(f)
    BY <1>33 DEF PowerFails
  <2>2. StateIsWhole'
    <3>1. Whole(f) /\ f \in {NoFile} \union Files
      BY DEF IInv, StateIsWhole
    <3>2. CASE f = NoFile
      BY <2>1, <3>2 DEF Survivor, StateIsWhole, Whole
    <3>3. CASE f # NoFile
      <4>1. f \in Files /\ f.flushed /\ f.form # "torn"
        BY <3>1, <3>3 DEF Whole
      <4>2. Survivor(f).form # "torn" /\ Survivor(f).flushed
        BY <3>3, <4>1 DEF Survivor, Files
      <4> QED BY <2>1, <4>2 DEF StateIsWhole, Whole
    <3> QED BY <3>2, <3>3
  <2>3. BackupsAreWhole'
    <3>1. PICK kept \in BOOLEAN :
            backups' = [i \in DOMAIN backups |->
                          [Abandoned(Procs, backups[i]) EXCEPT
                             !.whole = @ /\ (kept \/ i < Len(backups))]]
      BY <1>33 DEF PowerFails
    <3>2. \A i \in DOMAIN backups : backups[i] \in Backups
      OBVIOUS
    <3>3. ASSUME NEW b \in Backups, NEW w \in BOOLEAN
          PROVE  [b EXCEPT !.whole = @ /\ w].source = b.source
      BY DEF Backups
    <3>4. ASSUME NEW i \in DOMAIN backups PROVE backups'[i].source = backups[i].source
      <4>1. (kept \/ i < Len(backups)) \in BOOLEAN
        OBVIOUS
      <4>2. /\ Abandoned(Procs, backups[i]) \in Backups
            /\ Abandoned(Procs, backups[i]).source = backups[i].source
        BY <3>2, <1>26
      <4>3. [Abandoned(Procs, backups[i]) EXCEPT
               !.whole = @ /\ (kept \/ i < Len(backups))].source = backups[i].source
        BY <4>1, <4>2, <3>3
      <4> QED BY <3>1, <4>3
    <3> QED BY <3>1, <3>4 DEF BackupsAreWhole, IInv
  <2>4. Down(Procs)
    BY <1>33 DEF PowerFails
  <2>5. Untouched'
    BY <2>1, <2>4, <1>32 DEF Untouched
  <2> QED BY <2>2, <2>3, <2>4, <2>5, <1>32, <1>t DEF IInv
<1>34. CASE Restore
  <2>1. PICK i \in DOMAIN backups : file' = [backups[i].source EXCEPT !.flushed = TRUE]
    BY <1>34 DEF Restore
  <2>2. backups[i].source \in Files /\ backups[i].source.form # "torn"
    <3>1. backups[i] \in Backups
      OBVIOUS
    <3> QED BY <3>1 DEF Backups, IInv, BackupsAreWhole
  <2>3. file'.form # "torn" /\ file'.flushed
    BY <2>1, <2>2 DEF Files
  <2>4. /\ durable' = file'
        /\ \A p \in Procs : pc[p] = "off"
        /\ UNCHANGED <<pc, op, task, loaded, temp, answer, backups>>
    BY <1>34 DEF Restore
  <2>5. StateIsWhole'
    BY <2>3, <2>4 DEF StateIsWhole, Whole
  <2>6. Untouched'
    BY <2>4 DEF Untouched
  <2>7. \A p \in Procs : LocalOK(p)'
    BY <2>4, <1>l
  <2> QED BY <2>4, <2>5, <2>6, <2>7, <1>b, <1>t DEF IInv
<1>35. CASE UNCHANGED vars
  <2>1. UNCHANGED <<pc, op, task, loaded, temp, answer, backups, file, durable>>
    BY <1>35 DEF vars, fileVars
  <2>2. \A p \in Procs : LocalOK(p)'
    BY <2>1, <1>l
  <2> QED BY <2>1, <2>2, <1>b, <1>t
          DEF IInv, StateIsWhole, Whole, Untouched, Unsupported
<1>36. ASSUME NEW p \in Procs, Step(p) PROVE IInv'
  BY <1>36, <1>21, <1>22, <1>28, <1>30 DEF Step
<1> QED BY <1>22, <1>28, <1>36, <1>31, <1>33, <1>34, <1>35 DEF Next

LEMMA Invariance == Spec => []IInv
<1>1. Init => IInv
  BY InitIInv
<1>2. IInv /\ [Next]_vars => IInv'
  BY NextIInv
<1> QED BY <1>1, <1>2, PTL DEF Spec

(* The variables of Storage keep their types.                              *)
THEOREM TypeCorrect == Spec => []TypeOK
<1>1. IInv => TypeOK
  BY DEF IInv
<1> QED BY <1>1, Invariance, PTL

(* However many processes write, and wherever they are killed or cut off   *)
(* from power, what is at the path of state.json, and what a power failure *)
(* would leave there, is a whole file: write_file_atomically renames only  *)
(* what it has flushed.                                                    *)
THEOREM StateAlwaysWhole == Spec => []StateIsWhole
<1>1. IInv => StateIsWhole
  BY DEF IInv
<1> QED BY <1>1, Invariance, PTL

(* No running process replaces a file of a newer build or one that does    *)
(* not decode: such a file gets no command past load_storage.              *)
THEOREM NewerIsNotReplaced == Spec => UnsupportedIsKept
<1> DEFINE Kept == (\E p \in Procs : pc[p] # "off") /\ file # NoFile
                     /\ file.form \in {"newer", "broken"} => file' = file
<1>1. IInv /\ [Next]_vars => [Kept]_vars
  <2> SUFFICES ASSUME IInv, [Next]_vars, Unsupported(file), NEW r \in Procs, pc[r] # "off"
               PROVE  file' = file
    BY DEF Unsupported
  <2>1. durable = file /\ \A p \in Procs : pc[p] \in Resting \union {"load"}
    BY DEF IInv, Untouched
  <2>2. StateIsWhole /\ file \in Files
    BY DEF IInv, TypeOK, Unsupported
  <2>3. ASSUME NEW p \in Procs, Step(p) PROVE file' = file
    BY <2>1, <2>3
    DEF Step, fileVars, Begin, LoadSeed, Load, LoadFails, Answered, Proceed, OpenCopy,
        EndCopy, CopyFails, Prune, EndPrune, Create, Write, Sync, WriteStep, Rename,
        WriteFails, Discard, Finish, Resting
  <2>4. ASSUME NEW p \in Procs, Start(p) \/ Quit(p) \/ Kill(p) PROVE file' = file
    BY <2>4 DEF Start, Quit, Kill, fileVars
  <2>5. CASE Settle
    BY <2>5 DEF Settle
  <2>6. CASE PowerFails
    <3>1. file' = Survivor(file)
      BY <2>1, <2>6 DEF PowerFails
    <3>2. file.flushed
      BY <2>2 DEF StateIsWhole, Whole, Unsupported
    <3>3. [file EXCEPT !.form = IF file.flushed THEN @ ELSE "torn", !.flushed = TRUE] = file
      BY <2>2, <3>2 DEF Files
    <3> QED BY <3>1, <3>3 DEF Survivor, Unsupported
  <2>7. CASE Restore
    BY <2>7 DEF Restore
  <2>8. CASE UNCHANGED vars
    BY <2>8 DEF vars, fileVars
  <2> QED BY <2>3, <2>4, <2>5, <2>6, <2>7, <2>8 DEF Next
<1> QED BY <1>1, Invariance, PTL DEF Spec, UnsupportedIsKept

-----------------------------------------------------------------------------
(* What pruning keeps.                                                     *)

PlacesIn(s, reason) == {i \in DOMAIN s : s[i].reason = reason}

LEMMA FinitePlaces ==
  ASSUME NEW S, NEW s \in Seq(S), NEW reason
  PROVE  /\ PlacesIn(s, reason) \in SUBSET (1..Len(s))
         /\ IsFiniteSet(PlacesIn(s, reason))
         /\ Cardinality(PlacesIn(s, reason)) \in Nat
<1>1. PlacesIn(s, reason) \in SUBSET (1..Len(s)) /\ Len(s) \in Nat
  BY DEF PlacesIn
<1>2. IsFiniteSet(1..Len(s))
  BY <1>1, FS_Interval
<1>3. IsFiniteSet(PlacesIn(s, reason))
  BY <1>1, <1>2, FS_Subset
<1> QED BY <1>1, <1>3, FS_CardinalityType

(* Places that do not move and keep their reason are not fewer.            *)
LEMMA StayingPlaces ==
  ASSUME NEW S, NEW s \in Seq(S), NEW t \in Seq(S), NEW reason,
         \A i \in PlacesIn(s, reason) : i \in DOMAIN t /\ t[i].reason = reason
  PROVE  Cardinality(PlacesIn(s, reason)) <= Cardinality(PlacesIn(t, reason))
<1>1. PlacesIn(s, reason) \in SUBSET PlacesIn(t, reason)
  BY DEF PlacesIn
<1> QED BY <1>1, FinitePlaces, FS_Subset

(* Nor are places that close up behind the one that is removed.            *)
LEMMA ClosingPlaces ==
  ASSUME NEW S, NEW s \in Seq(S), NEW i \in DOMAIN s, NEW reason,
         NEW P \in SUBSET PlacesIn(s, reason), i \notin P
  PROVE  Cardinality(P) <= Cardinality(PlacesIn(RemoveAt(s, i), reason))
<1> DEFINE t == RemoveAt(s, i)
           f == [j \in P |-> IF j < i THEN j ELSE j - 1]
<1>1. /\ t \in Seq(S)
      /\ DOMAIN t = 1..(Len(s) - 1)
      /\ \A j \in 1..(Len(s) - 1) : t[j] = IF j < i THEN s[j] ELSE s[j + 1]
  BY RemovedIsThere
<1>2. i \in 1..Len(s) /\ Len(s) \in Nat
  OBVIOUS
<1>3. \A j \in P : j \in 1..Len(s) /\ j # i /\ s[j].reason = reason
  BY DEF PlacesIn
<1> HIDE DEF t
<1>4. ASSUME NEW j \in P PROVE f[j] \in PlacesIn(t, reason)
  <2>1. CASE j < i
    BY <1>1, <1>2, <1>3, <2>1 DEF PlacesIn
  <2>2. CASE ~ (j < i)
    <3>1. j - 1 \in 1..(Len(s) - 1) /\ ~ (j - 1 < i) /\ (j - 1) + 1 = j
      BY <1>2, <1>3, <2>2
    <3>2. t[j - 1] = s[j]
      BY <1>1, <3>1
    <3>3. f[j] = j - 1
      BY <2>2
    <3> QED BY <1>1, <1>3, <3>1, <3>2, <3>3 DEF PlacesIn
  <2> QED BY <2>1, <2>2
<1>5. \A a, b \in P : f[a] = f[b] => a = b
  BY <1>2, <1>3
<1>6. f \in Injection(P, PlacesIn(t, reason))
  BY <1>4, <1>5 DEF Injection, IsInjective
<1>7. IsFiniteSet(PlacesIn(t, reason))
  BY <1>1, FinitePlaces
<1>8. Cardinality(P) <= Cardinality(PlacesIn(t, reason))
  BY <1>6, <1>7, FS_Injection
<1> QED BY <1>8 DEF t

(* prune_storage_backups never takes the backups of another reason, and    *)
(* leaves at least KeepCount of its own, whoever else copies or prunes at  *)
(* the same time and wherever it is cut off; nothing else removes one.     *)
THEOREM PruningKeepsTheNewest == Spec => NewestAreKept
<1> DEFINE Kept == \A reason \in Reasons :
                     CountOf(reason)' < CountOf(reason) => CountOf(reason)' >= KeepCount
<1>1. IInv /\ [Next]_vars => [Kept]_vars
  <2> SUFFICES ASSUME IInv, [Next]_vars, NEW reason \in Reasons
               PROVE  CountOf(reason)' < CountOf(reason) => CountOf(reason)' >= KeepCount
    OBVIOUS
  <2>1. backups \in Seq(Backups) /\ backups' \in Seq(Backups)
    <3>1. TypeOK /\ TypeOK'
      BY TypeStep DEF IInv
    <3> QED BY <3>1 DEF TypeOK
  <2>2. /\ CountOf(reason) = Cardinality(PlacesIn(backups, reason))
        /\ CountOf(reason)' = Cardinality(PlacesIn(backups', reason))
    BY DEF CountOf, PlacesIn
  <2> SUFFICES \/ CountOf(reason)' >= CountOf(reason)
               \/ CountOf(reason)' >= KeepCount
    <3>1. CountOf(reason) \in Nat /\ CountOf(reason)' \in Nat
      BY <2>1, <2>2, FinitePlaces
    <3>2. KeepCount \in Nat
      BY StorageAssumption
    <3> QED BY <3>1, <3>2
  <2>3. ASSUME \A i \in DOMAIN backups : i \in DOMAIN backups' /\ backups'[i].reason = backups[i].reason
        PROVE  CountOf(reason)' >= CountOf(reason)
    <3>1. \A i \in PlacesIn(backups, reason) : i \in DOMAIN backups' /\ backups'[i].reason = reason
      BY <2>3 DEF PlacesIn
    <3>2. Cardinality(PlacesIn(backups, reason)) <= Cardinality(PlacesIn(backups', reason))
      BY <2>1, <3>1, StayingPlaces
    <3>3. Cardinality(PlacesIn(backups, reason)) \in Nat /\ Cardinality(PlacesIn(backups', reason)) \in Nat
      BY <2>1, FinitePlaces
    <3> QED BY <2>2, <3>2, <3>3
  <2>4. \A i \in DOMAIN backups : backups[i] \in Backups
    BY <2>1
  <2>5. ASSUME NEW b \in Backups, NEW w, NEW P
        PROVE  /\ [b EXCEPT !.whole = w].reason = b.reason
               /\ [b EXCEPT !.whole = w, !.writer = NoProc].reason = b.reason
               /\ Abandoned(P, b) \in Backups
               /\ Abandoned(P, b).reason = b.reason
    BY DEF Backups, Abandoned
  <2>6. CASE UNCHANGED backups
    BY <2>3, <2>6
  <2>7. ASSUME NEW p \in Procs, OpenCopy(p) PROVE CountOf(reason)' >= CountOf(reason)
    BY <2>1, <2>3, <2>7 DEF OpenCopy
  <2>8. ASSUME NEW p \in Procs, NEW w, Close(p, w) PROVE CountOf(reason)' >= CountOf(reason)
    BY <2>3, <2>4, <2>5, <2>8 DEF Close
  <2>9. ASSUME NEW p \in Procs, Kill(p) PROVE CountOf(reason)' >= CountOf(reason)
    BY <2>3, <2>4, <2>5, <2>9 DEF Kill
  <2>10. CASE PowerFails
    <3>1. PICK kept \in BOOLEAN :
            backups' = [i \in DOMAIN backups |->
                          [Abandoned(Procs, backups[i]) EXCEPT
                             !.whole = @ /\ (kept \/ i < Len(backups))]]
      BY <2>10 DEF PowerFails
    <3>2. ASSUME NEW b \in Backups, NEW w
          PROVE  [b EXCEPT !.whole = @ /\ w].reason = b.reason
      BY DEF Backups
    <3>3. ASSUME NEW i \in DOMAIN backups
          PROVE  i \in DOMAIN backups' /\ backups'[i].reason = backups[i].reason
      <4>1. backups[i] \in Backups
        BY <2>4
      <4>2. /\ Abandoned(Procs, backups[i]) \in Backups
            /\ Abandoned(Procs, backups[i]).reason = backups[i].reason
        BY <2>5, <4>1
      <4>3. [Abandoned(Procs, backups[i]) EXCEPT
               !.whole = @ /\ (kept \/ i < Len(backups))].reason = backups[i].reason
        BY <3>2, <4>2
      <4>4. DOMAIN backups' = DOMAIN backups
        BY <3>1
      <4>5. backups'[i] = [Abandoned(Procs, backups[i]) EXCEPT
                             !.whole = @ /\ (kept \/ i < Len(backups))]
        BY Zenon, <3>1
      <4> QED BY <4>3, <4>4, <4>5
    <3> QED BY <2>3, <3>3
  <2>11. ASSUME NEW p \in Procs, Prune(p)
         PROVE  \/ CountOf(reason)' >= CountOf(reason)
                \/ CountOf(reason)' >= KeepCount
    <3>1. PICK i \in Outdated(task[p]) : backups' = RemoveAt(backups, i)
      BY <2>11 DEF Prune
    <3>2. /\ i \in PlacesIn(backups, task[p])
          /\ Cardinality({j \in PlacesIn(backups, task[p]) : j > i}) >= KeepCount
      BY <3>1 DEF Outdated, Places, PlacesIn
    <3>3. i \in DOMAIN backups
      BY <3>2 DEF PlacesIn
    <3>4. CASE reason # task[p]
      <4>1. i \notin PlacesIn(backups, reason)
        BY <3>2, <3>4 DEF PlacesIn
      <4>2. Cardinality(PlacesIn(backups, reason)) <= Cardinality(PlacesIn(backups', reason))
        BY <2>1, <3>1, <3>3, <4>1, ClosingPlaces
      <4>3. Cardinality(PlacesIn(backups, reason)) \in Nat /\ Cardinality(PlacesIn(backups', reason)) \in Nat
        BY <2>1, FinitePlaces
      <4> QED BY <2>2, <4>2, <4>3
    <3>5. CASE reason = task[p]
      <4> DEFINE later == {j \in PlacesIn(backups, reason) : j > i}
      <4>1. later \in SUBSET PlacesIn(backups, reason) /\ i \notin later
        <5>1. i \in Nat
          BY <2>1, <3>3
        <5> QED BY <5>1
      <4>2. Cardinality(later) >= KeepCount
        BY <3>2, <3>5
      <4> HIDE DEF later
      <4>3. Cardinality(later) <= Cardinality(PlacesIn(backups', reason))
        BY <2>1, <3>1, <3>3, <4>1, ClosingPlaces
      <4>4. IsFiniteSet(later)
        BY <2>1, <4>1, FinitePlaces, FS_Subset
      <4>5. /\ Cardinality(later) \in Nat
            /\ Cardinality(PlacesIn(backups', reason)) \in Nat
            /\ KeepCount \in Nat
        BY <2>1, <4>4, FinitePlaces, FS_CardinalityType, StorageAssumption
      <4> QED BY <2>2, <4>2, <4>3, <4>5
    <3> QED BY <3>4, <3>5
  <2>12. ASSUME NEW p \in Procs, Step(p)
         PROVE  \/ UNCHANGED backups
                \/ OpenCopy(p)
                \/ \E w \in BOOLEAN : Close(p, w)
                \/ Prune(p)
    BY <2>12
    DEF Step, fileVars, Begin, LoadSeed, Load, LoadFails, Answered, Proceed,
        EndCopy, CopyFails, EndPrune, Create, Write, Sync, WriteStep, Rename,
        WriteFails, Discard, Finish
  <2>13. ASSUME NEW p \in Procs, Start(p) \/ Quit(p) PROVE UNCHANGED backups
    BY <2>13 DEF Start, Quit, fileVars
  <2>14. CASE Settle \/ Restore \/ UNCHANGED vars
    BY <2>6, <2>14 DEF Settle, Restore, vars, fileVars
  <2> QED
    BY <2>6, <2>7, <2>8, <2>9, <2>10, <2>11, <2>12, <2>13, <2>14 DEF Next
<1> QED BY <1>1, Invariance, PTL DEF Spec, NewestAreKept

-----------------------------------------------------------------------------
(* A migration keeps the original: the migration backups of a sequence s   *)
(* from g on are all of the file f, at most n of them are torn ones that   *)
(* nobody writes any more, and g is whole or still written by q.           *)

Torn(s, g) ==
  {j \in PlacesIn(s, "migration") : j > g /\ ~ s[j].whole /\ s[j].writer = NoProc}

Secures(s, f, n, g, q) ==
  /\ g \in PlacesIn(s, "migration")
  /\ s[g].whole \/ s[g].writer = q
  /\ \A j \in PlacesIn(s, "migration") : j >= g => s[j].source = f
  /\ Cardinality(Torn(s, g)) <= n

OneEach(s) ==
  \A i, j \in DOMAIN s : s[i].writer # NoProc /\ s[i].writer = s[j].writer => i = j

LEMMA FiniteTorn ==
  ASSUME NEW s \in Seq(Backups), NEW g
  PROVE  /\ Torn(s, g) \in SUBSET PlacesIn(s, "migration")
         /\ IsFiniteSet(Torn(s, g))
         /\ Cardinality(Torn(s, g)) \in Nat
<1>1. Torn(s, g) \in SUBSET PlacesIn(s, "migration")
  BY DEF Torn
<1>2. IsFiniteSet(PlacesIn(s, "migration"))
  BY FinitePlaces
<1>3. IsFiniteSet(Torn(s, g))
  BY <1>1, <1>2, FS_Subset
<1> QED BY <1>1, <1>3, FS_CardinalityType

(* Backups are added and closed, at most one of them torn by a fault.      *)
LEMMA StillSecured ==
  ASSUME NEW s \in Seq(Backups), NEW t \in Seq(Backups), NEW f, NEW g, NEW q,
         NEW n \in Nat, NEW m \in Nat,
         Secures(s, f, n, g, q),
         \A j \in DOMAIN s : /\ j \in DOMAIN t
                             /\ t[j].reason = s[j].reason
                             /\ t[j].source = s[j].source
                             /\ s[j].whole => t[j].whole
                             /\ s[j].writer = q => t[j].whole \/ t[j].writer = q,
         \A j \in DOMAIN t \ DOMAIN s : t[j].source = f,
         \/ n <= m /\ Torn(t, g) \subseteq Torn(s, g)
         \/ n < m /\ \E i : Torn(t, g) \subseteq Torn(s, g) \cup {i}
  PROVE  Secures(t, f, m, g, q)
<1>1. /\ g \in PlacesIn(t, "migration")
      /\ t[g].whole \/ t[g].writer = q
      /\ \A j \in PlacesIn(t, "migration") : j >= g => t[j].source = f
  BY DEF Secures, PlacesIn
<1>2. /\ IsFiniteSet(Torn(s, g)) /\ IsFiniteSet(Torn(t, g))
      /\ Cardinality(Torn(s, g)) \in Nat /\ Cardinality(Torn(t, g)) \in Nat
  BY FiniteTorn
<1>3. Cardinality(Torn(s, g)) <= n
  BY DEF Secures
<1>4. CASE n <= m /\ Torn(t, g) \subseteq Torn(s, g)
  <2>1. Cardinality(Torn(t, g)) <= Cardinality(Torn(s, g))
    BY <1>2, <1>4, FS_Subset
  <2>2. Cardinality(Torn(t, g)) <= m
    BY <1>2, <1>3, <1>4, <2>1
  <2> QED BY <1>1, <2>2 DEF Secures
<1>5. CASE n < m /\ \E i : Torn(t, g) \subseteq Torn(s, g) \cup {i}
  <2>1. PICK i : Torn(t, g) \subseteq Torn(s, g) \cup {i}
    BY <1>5
  <2>2. /\ IsFiniteSet(Torn(s, g) \cup {i})
        /\ Cardinality(Torn(s, g) \cup {i}) =
             IF i \in Torn(s, g) THEN Cardinality(Torn(s, g)) ELSE Cardinality(Torn(s, g)) + 1
    BY <1>2, FS_AddElement
  <2>3. Cardinality(Torn(t, g)) <= Cardinality(Torn(s, g) \cup {i})
    BY <2>1, <2>2, FS_Subset
  <2>4. Cardinality(Torn(t, g)) <= m
    BY <1>2, <1>3, <1>5, <2>2, <2>3
  <2> QED BY <1>1, <2>4 DEF Secures
<1> QED BY <1>4, <1>5

(* Where a backup behind the one that is removed has been.                 *)
LEMMA RemovalSecures ==
  ASSUME NEW s \in Seq(Backups), NEW k \in DOMAIN s, NEW f, NEW n \in Nat,
         NEW g, NEW q, g # k, Secures(s, f, n, g, q)
  PROVE  \E h \in DOMAIN RemoveAt(s, k) : Secures(RemoveAt(s, k), f, n, h, q)
<1> DEFINE t == RemoveAt(s, k)
           h == IF g < k THEN g ELSE g - 1
<1>1. /\ t \in Seq(Backups)
      /\ DOMAIN t = 1..(Len(s) - 1)
      /\ \A j \in 1..(Len(s) - 1) : t[j] = IF j < k THEN s[j] ELSE s[j + 1]
  BY RemovedIsThere
<1>2. k \in 1..Len(s) /\ Len(s) \in Nat /\ DOMAIN s = 1..Len(s)
  OBVIOUS
<1>3. /\ g \in 1..Len(s) /\ s[g].reason = "migration"
      /\ s[g].whole \/ s[g].writer = q
  BY <1>2 DEF Secures, PlacesIn
<1> HIDE DEF t
<1>4. h \in 1..(Len(s) - 1) /\ t[h] = s[g]
  <2>1. CASE g < k
    BY <1>1, <1>2, <1>3, <2>1
  <2>2. CASE ~ (g < k)
    <3>1. g - 1 \in 1..(Len(s) - 1) /\ ~ (g - 1 < k) /\ (g - 1) + 1 = g
      BY <1>2, <1>3, <2>2
    <3> QED BY <1>1, <2>2, <3>1
  <2> QED BY <2>1, <2>2
<1> DEFINE back == [j \in 1..(Len(s) - 1) |-> IF j < k THEN j ELSE j + 1]
<1>5. ASSUME NEW j \in 1..(Len(s) - 1)
      PROVE  /\ back[j] \in 1..Len(s)
             /\ t[j] = s[back[j]]
             /\ j >= h => back[j] >= g
             /\ j > h => back[j] > g
  <2>1. back[j] = IF j < k THEN j ELSE j + 1
    OBVIOUS
  <2>2. back[j] \in 1..Len(s)
    BY <1>2, <2>1
  <2>3. t[j] = s[back[j]]
    BY <1>1, <2>1
  <2>4. (j >= h => back[j] >= g) /\ (j > h => back[j] > g)
    BY <1>2, <1>3, <2>1
  <2> QED BY <2>2, <2>3, <2>4
<1>6. \A i, j \in 1..(Len(s) - 1) : back[i] = back[j] => i = j
  BY <1>2
<1> HIDE DEF back, h
<1>7. /\ h \in PlacesIn(t, "migration")
      /\ t[h].whole \/ t[h].writer = q
  BY <1>1, <1>3, <1>4 DEF PlacesIn
<1>8. ASSUME NEW j \in PlacesIn(t, "migration"), j >= h
      PROVE  t[j].source = f
  <2>1. j \in 1..(Len(s) - 1) /\ t[j].reason = "migration"
    BY <1>1 DEF PlacesIn
  <2>2. back[j] \in PlacesIn(s, "migration") /\ back[j] >= g /\ t[j] = s[back[j]]
    BY <1>2, <1>5, <1>8, <2>1 DEF PlacesIn
  <2> QED BY <2>2 DEF Secures
<1>9. Cardinality(Torn(t, h)) <= Cardinality(Torn(s, g))
  <2> DEFINE b == [j \in Torn(t, h) |-> back[j]]
  <2>1. \A j \in Torn(t, h) : j \in 1..(Len(s) - 1)
    BY <1>1 DEF Torn, PlacesIn
  <2>2. ASSUME NEW j \in Torn(t, h) PROVE back[j] \in Torn(s, g)
    <3>1. /\ t[j].reason = "migration" /\ j > h
          /\ ~ t[j].whole /\ t[j].writer = NoProc
      BY DEF Torn, PlacesIn
    <3>2. back[j] \in 1..Len(s) /\ t[j] = s[back[j]] /\ back[j] > g
      BY <1>5, <2>1, <3>1
    <3> QED BY <1>2, <3>1, <3>2 DEF Torn, PlacesIn
  <2>3. b \in Injection(Torn(t, h), Torn(s, g))
    BY <1>6, <2>1, <2>2 DEF Injection, IsInjective
  <2>4. IsFiniteSet(Torn(s, g))
    BY FiniteTorn
  <2> QED BY <2>3, <2>4, FS_Injection
<1>10. /\ Cardinality(Torn(s, g)) \in Nat /\ Cardinality(Torn(t, h)) \in Nat
       /\ Cardinality(Torn(s, g)) <= n
  BY <1>1, FiniteTorn DEF Secures
<1>11. Secures(t, f, n, h, q)
  BY <1>7, <1>8, <1>9, <1>10 DEF Secures
<1> QED BY <1>1, <1>4, <1>11 DEF t

(* The retention covers the backups that faults tear and those that the    *)
(* other instances are writing, so that the newest whole one is kept.      *)
RetentionCoversFaults ==
  IsFiniteSet(Procs) /\ MaxFaults + Cardinality(Procs) <= KeepCount

(* When a backup is outdated, there is a newer one that does as well.      *)
LEMMA NotTheLast ==
  ASSUME RetentionCoversFaults,
         NEW s \in Seq(Backups), NEW k, NEW f, NEW q, NEW r \in Procs,
         NEW n \in Nat, n <= MaxFaults,
         OneEach(s), \A i \in DOMAIN s : s[i].writer # r,
         Cardinality({j \in PlacesIn(s, "migration") : j > k}) >= KeepCount,
         Secures(s, f, n, k, q)
  PROVE  \E g : g # k /\ Secures(s, f, n, g, q)
<1> DEFINE later == {j \in PlacesIn(s, "migration") : j > k}
           open == {j \in later : s[j].writer # NoProc}
<1>1. /\ PlacesIn(s, "migration") \in SUBSET (1..Len(s)) /\ Len(s) \in Nat
      /\ IsFiniteSet(PlacesIn(s, "migration"))
      /\ k \in 1..Len(s)
  <2>1. k \in PlacesIn(s, "migration") /\ Len(s) \in Nat
    BY DEF Secures
  <2> QED BY <2>1, FinitePlaces
<1>2. /\ later \in SUBSET PlacesIn(s, "migration")
      /\ open \in SUBSET PlacesIn(s, "migration")
  OBVIOUS
<1>3. /\ IsFiniteSet(open) /\ Cardinality(open) \in Nat
      /\ IsFiniteSet(later) /\ Cardinality(later) \in Nat
  BY <1>1, <1>2, FS_Subset, FS_CardinalityType
<1>4. Cardinality(open) <= Cardinality(Procs) - 1
  <2> DEFINE w == [j \in open |-> s[j].writer]
  <2>1. ASSUME NEW j \in open PROVE s[j].writer \in Procs \ {r}
    <3>1. s[j] \in Backups
      BY <1>1
    <3> QED BY <3>1 DEF Backups, PlacesIn
  <2>2. \A i, j \in open : s[i].writer = s[j].writer => i = j
    BY DEF OneEach, PlacesIn
  <2>3. w \in Injection(open, Procs \ {r})
    BY <2>1, <2>2 DEF Injection, IsInjective
  <2>4. IsFiniteSet(Procs \ {r}) /\ Cardinality(Procs \ {r}) = Cardinality(Procs) - 1
    BY FS_RemoveElement DEF RetentionCoversFaults
  <2> HIDE DEF w, open
  <2>5. Cardinality(open) <= Cardinality(Procs \ {r})
    BY <2>3, <2>4, FS_Injection
  <2> QED BY <2>4, <2>5
<1>5. IsFiniteSet(Torn(s, k)) /\ Cardinality(Torn(s, k)) \in Nat /\ Cardinality(Torn(s, k)) <= n
  BY FiniteTorn DEF Secures
<1>6. PICK g \in later : s[g].whole
  <2> SUFFICES ASSUME \A j \in later : ~ s[j].whole PROVE FALSE
    OBVIOUS
  <2>1. later \subseteq Torn(s, k) \cup open
    BY DEF Torn
  <2> HIDE DEF later, open
  <2>2. /\ IsFiniteSet(Torn(s, k) \cup open)
        /\ Cardinality(Torn(s, k) \cup open) =
             Cardinality(Torn(s, k)) + Cardinality(open) - Cardinality(Torn(s, k) \cap open)
    BY <1>3, <1>5, FS_Union
  <2>3. Cardinality(Torn(s, k) \cap open) \in Nat
    <3>1. IsFiniteSet(Torn(s, k) \cap open)
      BY <1>3, FS_Subset
    <3> QED BY <3>1, FS_CardinalityType
  <2>4. Cardinality(later) <= Cardinality(Torn(s, k) \cup open)
    BY <2>1, <2>2, FS_Subset
  <2>5. Cardinality(Torn(s, k) \cup open) \in Nat
    BY <2>2, FS_CardinalityType
  <2>6. Cardinality(later) >= KeepCount
    BY DEF later
  <2>7. Cardinality(Procs) \in Nat /\ KeepCount \in Nat /\ MaxFaults \in Nat
    BY FS_CardinalityType, StorageAssumption DEF RetentionCoversFaults
  <2> QED
    BY <1>3, <1>4, <1>5, <2>2, <2>3, <2>4, <2>5, <2>6, <2>7 DEF RetentionCoversFaults
<1>7. g \in 1..Len(s) /\ g > k
  BY <1>1
<1>8. Torn(s, g) \subseteq Torn(s, k)
  BY <1>1, <1>7 DEF Torn
<1>9. Cardinality(Torn(s, g)) <= n
  <2>1. Cardinality(Torn(s, g)) <= Cardinality(Torn(s, k)) /\ Cardinality(Torn(s, g)) \in Nat
    BY <1>5, <1>8, FS_Subset, FiniteTorn
  <2> QED BY <1>5, <2>1
<1>10. \A j \in PlacesIn(s, "migration") : j >= g => s[j].source = f
  <2>1. \A j \in PlacesIn(s, "migration") : j >= g => j >= k
    BY <1>1, <1>7
  <2> QED BY <2>1 DEF Secures
<1>11. Secures(s, f, n, g, q)
  BY <1>6, <1>9, <1>10 DEF Secures
<1> QED BY <1>1, <1>7, <1>11

-----------------------------------------------------------------------------
(* The invariant: a backup that is being written has its writer to itself; *)
(* while a file of the first schema lies there, who is past its loading    *)
(* migrates it, and has a backup of it that pruning does not reach.        *)

Legacy(f) == f # NoFile /\ f.form = "legacy"

Secured == {"copying", "prune"} \union Writing

WritersInv ==
  /\ OneEach(backups)
  /\ \A i \in DOMAIN backups :
       backups[i].writer # NoProc => pc[backups[i].writer] = "copying" /\ ~ backups[i].whole

MigratesOnly(q) ==
  pc[q] \notin Resting \union {"load"} =>
    task[q] = "migration" /\ pc[q] \in Copying \union Writing \union {"discard"}

HasBackup(q) ==
  pc[q] \in Secured => \E g : Secures(backups, file, faults, g, q)

MigrationInv ==
  Legacy(file) => durable = file /\ \A q \in Procs : MigratesOnly(q) /\ HasBackup(q)

LEMMA OthersCopy ==
  ASSUME TypeOK, NEW p \in Procs, Step(p) \/ Start(p) \/ Quit(p) \/ Kill(p),
         NEW q \in Procs \ {p}
  PROVE  Same(q)
  BY LocalsOfOthers DEF Step

(* What a step of one process does to the backups.                         *)
LEMMA BackupSteps ==
  ASSUME NEW p \in Procs, Step(p) \/ Start(p) \/ Quit(p) \/ Kill(p)
  PROVE  \/ UNCHANGED <<backups, faults>> /\ pc[p] # "copying"
         \/ OpenCopy(p)
         \/ EndCopy(p)
         \/ pc[p] = "copying" /\ CopyFails(p) /\ Close(p, FALSE) /\ Fault
         \/ Prune(p)
         \/ Kill(p)
<1>1. CASE Step(p)
  BY <1>1
  DEF Step, fileVars, countVars, Begin, LoadSeed, Load, LoadFails, Answered, Proceed,
      CopyFails, EndPrune, Create, Write, Sync, WriteStep, Rename,
      WriteFails, Discard, Finish
<1>2. CASE Start(p)
  BY <1>2 DEF Start, fileVars, countVars
<1>3. CASE Quit(p)
  BY <1>3 DEF Quit, fileVars
<1> QED BY <1>1, <1>2, <1>3

(* The backup p is writing becomes whole, or stays torn.                   *)
Closes(p, w) ==
  \/ Close(p, w)
  \/ w = FALSE /\ backups' = [i \in DOMAIN backups |-> Abandoned({p}, backups[i])]

LEMMA ClosedBackups ==
  ASSUME TypeOK, TypeOK', WritersInv, NEW p \in Procs, NEW w \in BOOLEAN, Closes(p, w)
  PROVE  /\ DOMAIN backups' = DOMAIN backups
         /\ \A i \in DOMAIN backups :
              /\ backups'[i].reason = backups[i].reason
              /\ backups'[i].source = backups[i].source
              /\ backups[i].writer # p => backups'[i] = backups[i]
              /\ backups[i].writer = p => backups'[i].writer = NoProc /\ backups'[i].whole = w
<1>1. DOMAIN backups' = DOMAIN backups
  BY DEF Close, Closes
<1> SUFFICES ASSUME NEW i \in DOMAIN backups
             PROVE  /\ backups'[i].reason = backups[i].reason
                    /\ backups'[i].source = backups[i].source
                    /\ backups[i].writer # p => backups'[i] = backups[i]
                    /\ backups[i].writer = p => backups'[i].writer = NoProc /\ backups'[i].whole = w
  BY <1>1
<1>2. backups[i] \in Backups
  BY DEF TypeOK
<1>3. p # NoProc
  BY StorageAssumption
<1>4. backups[i].writer = p => ~ backups[i].whole
  BY <1>3 DEF WritersInv
<1>5. CASE Close(p, w)
  <2>1. backups'[i] = IF backups[i].writer = p
                        THEN [backups[i] EXCEPT !.whole = w, !.writer = NoProc]
                        ELSE backups[i]
    BY <1>5 DEF Close
  <2> QED BY <1>2, <2>1 DEF Backups
<1>6. CASE w = FALSE /\ backups' = [j \in DOMAIN backups |-> Abandoned({p}, backups[j])]
  <2>1. backups'[i] = Abandoned({p}, backups[i])
    BY <1>6
  <2>2. backups[i].whole \in BOOLEAN
    BY <1>2 DEF Backups
  <2>3. CASE backups[i].writer = p
    <3>1. backups'[i] = [backups[i] EXCEPT !.writer = NoProc]
      BY <2>1, <2>3 DEF Abandoned
    <3>2. /\ backups'[i].reason = backups[i].reason
          /\ backups'[i].source = backups[i].source
          /\ backups'[i].writer = NoProc
          /\ backups'[i].whole = backups[i].whole
      BY <1>2, <3>1 DEF Backups
    <3>3. backups'[i].whole = FALSE
      BY <1>4, <2>2, <2>3, <3>2
    <3> QED BY <1>6, <2>3, <3>2, <3>3
  <2>4. CASE backups[i].writer # p
    BY <2>1, <2>4 DEF Abandoned
  <2> QED BY <2>3, <2>4
<1> QED BY <1>5, <1>6 DEF Closes

LEMMA WritersStep == IInv /\ WritersInv /\ [Next]_vars => WritersInv'
<1> SUFFICES ASSUME IInv, WritersInv, [Next]_vars PROVE WritersInv'
  OBVIOUS
<1>1. TypeOK /\ TypeOK'
  BY TypeStep DEF IInv
<1>2. /\ backups \in Seq(Backups) /\ backups' \in Seq(Backups)
      /\ \A q \in Procs : q # NoProc
  BY <1>1, StorageAssumption DEF TypeOK
<1>3. \A i \in DOMAIN backups : backups[i] \in Backups /\ backups[i].writer \in Procs \union {NoProc}
  <2>1. \A b \in Backups : b.writer \in Procs \union {NoProc}
    BY DEF Backups
  <2>2. \A i \in DOMAIN backups : backups[i] \in Backups
    BY <1>2
  <2> QED BY <2>1, <2>2
(* Who writes a backup goes on unless the step is his.                      *)
<1>4. ASSUME NEW p \in Procs, Step(p) \/ Start(p) \/ Quit(p) \/ Kill(p)
      PROVE  WritersInv'
  <2>1. \A q \in Procs \ {p} : pc'[q] = pc[q]
    BY <1>1, <1>4, OthersCopy DEF Same
  <2>2. CASE UNCHANGED backups /\ pc[p] # "copying"
    <3>1. OneEach(backups)'
      BY <2>2 DEF WritersInv, OneEach
    <3>2. ASSUME NEW i \in DOMAIN backups, backups[i].writer # NoProc
          PROVE  pc'[backups[i].writer] = "copying" /\ ~ backups[i].whole
      BY <1>3, <2>1, <2>2, <3>2 DEF WritersInv
    <3> QED BY <2>2, <3>1, <3>2 DEF WritersInv
  <2>3. CASE OpenCopy(p)
    <3>1. /\ pc[p] = "copy" /\ pc'[p] = "copying"
          /\ backups' = Append(backups, [reason |-> task[p], source |-> file,
                                         whole |-> FALSE, writer |-> p])
      BY <1>1, <2>3 DEF OpenCopy, Go, TypeOK
    <3>2. /\ DOMAIN backups' = DOMAIN backups \union {Len(backups) + 1}
          /\ \A i \in DOMAIN backups : backups'[i] = backups[i]
          /\ backups'[Len(backups) + 1].writer = p
          /\ ~ backups'[Len(backups) + 1].whole
      BY <1>2, <3>1
    <3>3. \A i \in DOMAIN backups : backups[i].writer # p
      BY <1>2, <3>1 DEF WritersInv
    <3>4. OneEach(backups)'
      BY <3>2, <3>3 DEF WritersInv, OneEach
    <3>5. ASSUME NEW i \in DOMAIN backups', backups'[i].writer # NoProc
          PROVE  pc'[backups'[i].writer] = "copying" /\ ~ backups'[i].whole
      <4>1. CASE i \in DOMAIN backups
        BY <1>3, <2>1, <3>2, <3>3, <3>5, <4>1 DEF WritersInv
      <4>2. CASE i = Len(backups) + 1
        BY <3>1, <3>2, <4>2
      <4> QED BY <3>2, <4>1, <4>2
    <3> QED BY <3>4, <3>5 DEF WritersInv
  <2>4. ASSUME NEW w \in BOOLEAN, Closes(p, w) PROVE WritersInv'
    <3>1. /\ DOMAIN backups' = DOMAIN backups
          /\ \A i \in DOMAIN backups :
               /\ backups[i].writer # p => backups'[i] = backups[i]
               /\ backups[i].writer = p => backups'[i].writer = NoProc /\ backups'[i].whole = w
      BY <1>1, <2>4, ClosedBackups
    <3>2. OneEach(backups)'
      BY <3>1 DEF WritersInv, OneEach
    <3>3. ASSUME NEW i \in DOMAIN backups', backups'[i].writer # NoProc
          PROVE  pc'[backups'[i].writer] = "copying" /\ ~ backups'[i].whole
      <4>1. i \in DOMAIN backups /\ backups[i].writer # p /\ backups'[i] = backups[i]
        BY <3>1, <3>3
      <4> QED BY <1>3, <2>1, <3>3, <4>1 DEF WritersInv
    <3> QED BY <3>2, <3>3 DEF WritersInv
  <2>5. CASE Prune(p)
    <3>1. PICK k \in DOMAIN backups : backups' = RemoveAt(backups, k)
      BY <2>5 DEF Prune, Outdated, Places
    <3>2. UNCHANGED pc
      BY <2>5 DEF Prune, procVars
    <3>3. /\ DOMAIN backups' = 1..(Len(backups) - 1)
          /\ \A j \in 1..(Len(backups) - 1) :
               backups'[j] = IF j < k THEN backups[j] ELSE backups[j + 1]
      BY <1>2, <3>1, RemovedIsThere
    <3> DEFINE back == [j \in DOMAIN backups' |-> IF j < k THEN j ELSE j + 1]
    <3>4. k \in 1..Len(backups) /\ Len(backups) \in Nat /\ DOMAIN backups = 1..Len(backups)
      BY <1>2
    <3>5. ASSUME NEW j \in DOMAIN backups'
          PROVE  back[j] \in DOMAIN backups /\ backups'[j] = backups[back[j]]
      <4>1. j \in 1..(Len(backups) - 1) /\ back[j] = IF j < k THEN j ELSE j + 1
        BY <3>3
      <4>2. back[j] \in DOMAIN backups
        BY <3>4, <4>1
      <4>3. backups'[j] = backups[back[j]]
        BY <3>3, <4>1
      <4> QED BY <4>2, <4>3
    <3>6. \A i, j \in DOMAIN backups' : back[i] = back[j] => i = j
      BY <3>3, <3>4
    <3> HIDE DEF back
    <3>7. OneEach(backups)'
      BY <3>5, <3>6 DEF WritersInv, OneEach
    <3> QED BY <3>2, <3>5, <3>7 DEF WritersInv
  <2>6. CASE EndCopy(p)
    BY <2>4, <2>6 DEF EndCopy, Closes
  <2>7. CASE Kill(p)
    BY <2>4, <2>7 DEF Kill, Closes
  <2>8. CASE Close(p, FALSE)
    BY <2>4, <2>8 DEF Closes
  <2> QED BY <1>4, <2>2, <2>3, <2>5, <2>6, <2>7, <2>8, BackupSteps
<1>5. CASE UNCHANGED <<backups, pc>>
  BY <1>5 DEF WritersInv, OneEach
<1>6. CASE PowerFails
  <2>1. PICK kept \in BOOLEAN :
          backups' = [i \in DOMAIN backups |->
                        [Abandoned(Procs, backups[i]) EXCEPT
                           !.whole = @ /\ (kept \/ i < Len(backups))]]
    BY <1>6 DEF PowerFails
  <2>2. ASSUME NEW i \in DOMAIN backups' PROVE backups'[i].writer = NoProc
    <3>1. i \in DOMAIN backups
      BY <2>1
    <3>2. Abandoned(Procs, backups[i]) \in Backups /\ Abandoned(Procs, backups[i]).writer = NoProc
      BY <1>3, <3>1 DEF Abandoned, Backups
    <3>3. ASSUME NEW b \in Backups, NEW w PROVE [b EXCEPT !.whole = @ /\ w].writer = b.writer
      BY DEF Backups
    <3>4. backups'[i] = [Abandoned(Procs, backups[i]) EXCEPT
                           !.whole = @ /\ (kept \/ i < Len(backups))]
      BY Zenon, <2>1, <3>1
    <3> QED BY <3>2, <3>3, <3>4
  <2> QED BY <2>2 DEF WritersInv, OneEach
<1>7. CASE Settle \/ Restore \/ UNCHANGED vars
  BY <1>5, <1>7 DEF Settle, Restore, vars, fileVars, procVars
<1> QED BY <1>4, <1>6, <1>7 DEF Next

LEMMA LegacyStays ==
  ASSUME TypeOK, NEW p \in Procs, Step(p) \/ Start(p) \/ Quit(p) \/ Kill(p)
  PROVE  /\ durable' = durable
         /\ \/ file' = file
            \/ Rename(p) /\ ~ Legacy(file')
<1>1. CASE Rename(p)
  BY <1>1 DEF Rename, Written, Legacy
<1>2. CASE Step(p) /\ ~ Rename(p)
  BY <1>2
  DEF Step, fileVars, Begin, LoadSeed, Load, LoadFails, Answered, Proceed, OpenCopy,
      EndCopy, CopyFails, Prune, EndPrune, Create, Write, Sync, WriteStep,
      WriteFails, Discard, Finish
<1>3. CASE Start(p) \/ Quit(p) \/ Kill(p)
  BY <1>3 DEF Start, Quit, Kill, fileVars
<1> QED BY <1>1, <1>2, <1>3

LEMMA MigratesStep ==
  ASSUME TypeOK, Legacy(file), NEW p \in Procs, MigratesOnly(p),
         Step(p) \/ Start(p) \/ Quit(p) \/ Kill(p), ~ Rename(p)
  PROVE  /\ MigratesOnly(p)'
         /\ pc'[p] \in Secured => pc[p] \in Secured \/ OpenCopy(p)
<1> USE DEF TypeOK, Legacy, MigratesOnly, Secured, Resting, Copying, Writing, Go, Work, Resolve,
            procVars, localVars
<1>1. CASE Begin(p) \/ LoadSeed(p) \/ LoadFails(p) \/ Answered(p) \/ Proceed(p)
  BY <1>1 DEF Begin, LoadSeed, LoadFails, Answered, Proceed
<1>2. CASE Load(p)
  BY <1>2 DEF Load, Supported
<1>3. CASE OpenCopy(p)
  BY <1>3 DEF OpenCopy
<1>4. CASE EndCopy(p)
  BY <1>4 DEF EndCopy
<1>5. CASE CopyFails(p)
  BY <1>5 DEF CopyFails
<1>6. CASE Prune(p)
  BY <1>6 DEF Prune
<1>7. CASE EndPrune(p)
  BY <1>7 DEF EndPrune
<1>8. CASE Create(p) \/ Write(p) \/ Sync(p) \/ WriteFails(p) \/ Discard(p) \/ Finish(p)
  BY <1>8 DEF Create, Write, Sync, WriteStep, WriteFails, Discard, Finish
<1>9. CASE Start(p) \/ Quit(p) \/ Kill(p)
  BY <1>9 DEF Start, Quit, Kill, Down
<1> QED
  BY <1>1, <1>2, <1>3, <1>4, <1>5, <1>6, <1>7, <1>8, <1>9 DEF Step

(* A process keeps its backup whatever it or another process does.         *)
LEMMA BackupStays ==
  ASSUME RetentionCoversFaults, TypeOK, TypeOK', WritersInv, Legacy(file), file' = file,
         NEW p \in Procs, Step(p) \/ Start(p) \/ Quit(p) \/ Kill(p), MigratesOnly(p),
         NEW q \in Procs, HasBackup(q), MigratesOnly(q),
         pc'[q] \in Secured, pc[q] \in Secured \/ (p = q /\ OpenCopy(p))
  PROVE  HasBackup(q)'
<1>1. /\ backups \in Seq(Backups) /\ backups' \in Seq(Backups)
      /\ faults \in Nat /\ faults' \in Nat /\ faults <= MaxFaults
      /\ p # NoProc /\ q # NoProc
  <2>1. MaxFaults \in Nat
    BY StorageAssumption
  <2> QED BY <2>1, StorageAssumption DEF TypeOK
<1> SUFFICES \E g : Secures(backups', file, faults', g, q)
  BY DEF HasBackup
<1>2. ASSUME pc[q] \in Secured PROVE \E g : Secures(backups, file, faults, g, q)
  BY <1>2 DEF HasBackup
<1>3. CASE UNCHANGED <<backups, faults>> /\ pc[p] # "copying"
  <2>1. ~ OpenCopy(p)
    <3>1. ASSUME OpenCopy(p) PROVE Len(backups') = Len(backups) + 1
      BY <1>1, <3>1 DEF OpenCopy
    <3> QED BY <1>1, <1>3, <3>1
  <2> QED BY <1>2, <1>3, <2>1
<1>4. CASE OpenCopy(p)
  <2> DEFINE new == [reason |-> task[p], source |-> file, whole |-> FALSE, writer |-> p]
  <2>1. /\ pc[p] = "copy" /\ task[p] = "migration"
        /\ backups' = Append(backups, new) /\ faults' = faults
    BY <1>4 DEF OpenCopy, countVars, MigratesOnly, Resting
  <2>2. /\ DOMAIN backups' = DOMAIN backups \union {Len(backups) + 1}
        /\ \A i \in DOMAIN backups : backups'[i] = backups[i]
        /\ backups'[Len(backups) + 1] = new
        /\ DOMAIN backups = 1..Len(backups) /\ Len(backups) \in Nat
    BY <1>1, <2>1
  <2>3. CASE q = p
    <3> DEFINE g == Len(backups) + 1
    <3>1. /\ g \in PlacesIn(backups', "migration")
          /\ backups'[g].writer = q
          /\ \A j \in PlacesIn(backups', "migration") : j >= g => backups'[j].source = file
      BY <2>1, <2>2, <2>3 DEF PlacesIn
    <3>2. Torn(backups', g) = {}
      BY <2>2 DEF Torn, PlacesIn
    <3>3. Cardinality(Torn(backups', g)) <= faults'
      <4>1. Cardinality(Torn(backups', g)) = 0
        BY Zenon, <3>2, FS_EmptySet
      <4> QED BY <1>1, <4>1
    <3> QED BY <3>1, <3>3 DEF Secures
  <2>4. CASE q # p
    <3>1. PICK g : Secures(backups, file, faults, g, q)
      BY <1>2, <2>4
    <3>2. Torn(backups', g) \subseteq Torn(backups, g)
      BY <1>1, <2>2 DEF Torn, PlacesIn
    <3>3. \A j \in DOMAIN backups' \ DOMAIN backups : backups'[j].source = file
      BY <2>2
    <3>4. faults <= faults'
      BY <1>1, <2>1
    <3> HIDE DEF new
    <3>5. \A j \in DOMAIN backups :
            /\ j \in DOMAIN backups'
            /\ backups'[j].reason = backups[j].reason
            /\ backups'[j].source = backups[j].source
            /\ backups[j].whole => backups'[j].whole
            /\ backups[j].writer = q => backups'[j].whole \/ backups'[j].writer = q
      BY <2>2
    <3> QED BY <1>1, <3>1, <3>2, <3>3, <3>4, <3>5, StillSecured
  <2> QED BY <2>3, <2>4
<1>5. CASE EndCopy(p)
  <2>1. pc[p] = "copying" /\ Close(p, TRUE) /\ faults' = faults
    BY <1>5 DEF EndCopy, countVars
  <2>2. /\ DOMAIN backups' = DOMAIN backups
        /\ \A i \in DOMAIN backups :
             /\ backups'[i].reason = backups[i].reason
             /\ backups'[i].source = backups[i].source
             /\ backups[i].writer # p => backups'[i] = backups[i]
             /\ backups[i].writer = p => backups'[i].writer = NoProc /\ backups'[i].whole = TRUE
    BY <2>1, ClosedBackups DEF Closes
  <2>3. pc[q] \in Secured
    BY <2>1 DEF OpenCopy
  <2>4. PICK g : Secures(backups, file, faults, g, q)
    BY <1>2, <2>3
  <2>5. \A j \in DOMAIN backups :
          /\ j \in DOMAIN backups'
          /\ backups'[j].reason = backups[j].reason
          /\ backups'[j].source = backups[j].source
          /\ backups[j].whole => backups'[j].whole
          /\ backups[j].writer = q => backups'[j].whole \/ backups'[j].writer = q
    BY <2>2
  <2>6. Torn(backups', g) \subseteq Torn(backups, g)
    BY <2>2 DEF Torn, PlacesIn
  <2>7. faults <= faults'
    BY <1>1, <2>1
  <2>8. \A j \in DOMAIN backups' \ DOMAIN backups : backups'[j].source = file
    BY <2>2
  <2> QED BY <1>1, <2>4, <2>5, <2>6, <2>7, <2>8, StillSecured
<1>6. CASE \/ pc[p] = "copying" /\ CopyFails(p) /\ Close(p, FALSE) /\ Fault
           \/ Kill(p)
  <2>1. /\ faults < faults'
        /\ pc'[p] \notin Secured
        /\ q # p
        /\ \/ Close(p, FALSE)
           \/ backups' = [i \in DOMAIN backups |-> Abandoned({p}, backups[i])]
    <3>1. Fault
      BY <1>6 DEF Kill
    <3>2. pc'[p] \in {"idle", "off"}
      <4>1. CASE CopyFails(p)
        BY <4>1 DEF CopyFails, Resolve, Go, TypeOK
      <4>2. CASE Kill(p)
        BY <4>2 DEF Kill, Down
      <4> QED BY <1>6, <4>1, <4>2
    <3>3. pc'[p] \notin Secured
      BY <3>2 DEF Secured, Writing
    <3>4. faults < faults'
      BY <1>1, <3>1 DEF Fault
    <3>5. \/ Close(p, FALSE)
          \/ backups' = [i \in DOMAIN backups |-> Abandoned({p}, backups[i])]
      BY <1>6 DEF Kill
    <3> QED BY <3>3, <3>4, <3>5
  <2>2. /\ DOMAIN backups' = DOMAIN backups
        /\ \A i \in DOMAIN backups :
             /\ backups'[i].reason = backups[i].reason
             /\ backups'[i].source = backups[i].source
             /\ backups[i].writer # p => backups'[i] = backups[i]
             /\ backups[i].writer = p => backups'[i].writer = NoProc /\ backups'[i].whole = FALSE
    BY <2>1, ClosedBackups DEF Closes
  <2>3. q # p
    BY <2>1
  <2>4. PICK g : Secures(backups, file, faults, g, q)
    BY <1>2, <2>3
  <2>5. \A j \in DOMAIN backups :
          /\ j \in DOMAIN backups'
          /\ backups'[j].reason = backups[j].reason
          /\ backups'[j].source = backups[j].source
          /\ backups[j].whole => backups'[j].whole
          /\ backups[j].writer = q => backups'[j].whole \/ backups'[j].writer = q
    <3>1. \A j \in DOMAIN backups : backups[j].writer = p => ~ backups[j].whole
      BY <1>1 DEF WritersInv
    <3> QED BY <2>2, <2>3, <3>1
  <2>6. \E i : Torn(backups', g) \subseteq Torn(backups, g) \cup {i}
    <3>1. CASE \A i \in DOMAIN backups : backups[i].writer # p
      BY <2>2, <3>1 DEF Torn, PlacesIn
    <3>2. ASSUME NEW i \in DOMAIN backups, backups[i].writer = p
          PROVE  Torn(backups', g) \subseteq Torn(backups, g) \cup {i}
      <4>1. \A j \in DOMAIN backups : j # i => backups[j].writer # p
        BY <1>1, <3>2 DEF WritersInv, OneEach
      <4> QED BY <2>2, <4>1 DEF Torn, PlacesIn
    <3> QED BY <3>1, <3>2
  <2>7. \A j \in DOMAIN backups' \ DOMAIN backups : backups'[j].source = file
    BY <2>2
  <2> QED BY <1>1, <2>1, <2>4, <2>5, <2>6, <2>7, StillSecured
<1>7. CASE Prune(p)
  <2>1. /\ pc[p] = "prune" /\ faults' = faults
        /\ task[p] = "migration"
        /\ \E k \in Outdated(task[p]) : backups' = RemoveAt(backups, k)
    BY <1>7 DEF Prune, countVars, MigratesOnly, Resting
  <2>2. PICK k \in DOMAIN backups :
          /\ backups' = RemoveAt(backups, k)
          /\ Cardinality({j \in PlacesIn(backups, "migration") : j > k}) >= KeepCount
    BY <2>1 DEF Outdated, Places, PlacesIn
  <2>3. pc[q] \in Secured
    BY <2>1 DEF OpenCopy
  <2>4. PICK g : Secures(backups, file, faults, g, q)
    BY <1>2, <2>3
  <2>5. \A i \in DOMAIN backups : backups[i].writer # p
    BY <1>1, <2>1 DEF WritersInv
  <2>6. OneEach(backups)
    BY DEF WritersInv
  <2>7. PICK h : h # k /\ Secures(backups, file, faults, h, q)
    <3>1. CASE g # k
      BY <2>4, <3>1
    <3>2. CASE g = k
      <4>1. Secures(backups, file, faults, k, q)
        BY <2>4, <3>2
      <4> QED BY <1>1, <2>2, <2>5, <2>6, <4>1, NotTheLast
    <3> QED BY <3>1, <3>2
  <2>8. \E i \in DOMAIN RemoveAt(backups, k) : Secures(RemoveAt(backups, k), file, faults, i, q)
    BY <1>1, <2>7, RemovalSecures
  <2> QED BY <2>1, <2>2, <2>8
<1> QED BY <1>3, <1>4, <1>5, <1>6, <1>7, BackupSteps

LEMMA MigrationStep ==
  RetentionCoversFaults /\ IInv /\ WritersInv /\ MigrationInv /\ [Next]_vars => MigrationInv'
<1> SUFFICES ASSUME RetentionCoversFaults, IInv, WritersInv, MigrationInv, [Next]_vars,
                    Legacy(file')
             PROVE  durable' = file' /\ \A q \in Procs : (MigratesOnly(q) /\ HasBackup(q))'
  BY DEF MigrationInv
<1>1. TypeOK /\ TypeOK'
  BY TypeStep DEF IInv
<1>2. ASSUME NEW p \in Procs, Step(p) \/ Start(p) \/ Quit(p) \/ Kill(p)
      PROVE  durable' = file' /\ \A q \in Procs : (MigratesOnly(q) /\ HasBackup(q))'
  <2>1. file' = file /\ durable' = durable /\ Legacy(file)
    BY <1>1, <1>2, LegacyStays
  <2>2. ~ Rename(p)
    BY <2>1 DEF Rename, Written, Legacy
  <2>3. durable = file /\ \A q \in Procs : MigratesOnly(q) /\ HasBackup(q)
    BY <2>1 DEF MigrationInv
  <2>4. ASSUME NEW q \in Procs PROVE MigratesOnly(q)' /\ HasBackup(q)'
    <3>1. /\ MigratesOnly(q)'
          /\ pc'[q] \in Secured => pc[q] \in Secured \/ (p = q /\ OpenCopy(p))
      <4>1. CASE q = p
        BY <1>1, <1>2, <2>1, <2>2, <2>3, <4>1, MigratesStep
      <4>2. CASE q # p
        <5>1. Same(q)
          BY <1>1, <1>2, <4>2, OthersCopy
        <5> QED BY <2>3, <5>1 DEF Same, MigratesOnly
      <4> QED BY <4>1, <4>2
    <3>2. CASE pc'[q] \in Secured
      BY <1>1, <1>2, <2>1, <2>3, <3>1, <3>2, BackupStays
    <3>3. CASE pc'[q] \notin Secured
      BY <3>1, <3>3 DEF HasBackup
    <3> QED BY <3>1, <3>2, <3>3
  <2> QED BY <2>1, <2>3, <2>4
<1>3. CASE Settle \/ UNCHANGED vars
  <2>1. UNCHANGED <<file, backups, pc, task, faults>> /\ durable' \in {durable, file}
    BY <1>3 DEF Settle, vars, fileVars, procVars, localVars, countVars
  <2>2. /\ durable = file
        /\ \A q \in Procs : MigratesOnly(q) /\ HasBackup(q)
    BY <2>1 DEF MigrationInv
  <2> QED BY <2>1, <2>2 DEF MigratesOnly, HasBackup
<1>4. CASE PowerFails \/ Restore
  <2>1. durable' = file' /\ \A q \in Procs : pc'[q] = "off"
    <3>1. CASE PowerFails
      BY <3>1 DEF PowerFails, Down
    <3>2. CASE Restore
      BY <3>2 DEF Restore, procVars
    <3> QED BY <1>4, <3>1, <3>2
  <2> QED BY <2>1 DEF MigratesOnly, HasBackup, Secured, Writing, Resting
<1> QED BY <1>2, <1>3, <1>4 DEF Next

LEMMA InitMigration == Init => WritersInv /\ MigrationInv
<1> SUFFICES ASSUME Init PROVE WritersInv /\ MigrationInv
  OBVIOUS
<1>1. WritersInv
  BY StorageAssumption DEF Init, WritersInv, OneEach
<1>2. MigrationInv
  BY DEF Init, MigrationInv, MigratesOnly, HasBackup, Secured, Writing, Resting
<1> QED BY <1>1, <1>2

(* When a running process replaces a file of the first schema, a whole     *)
(* backup of it is there: the backup of a migration is complete before the *)
(* rewrite begins, and no pruning of another process reaches the newest    *)
(* whole one.  The retention has to cover the backups that faults tear and *)
(* those that others are still writing, which pruning counts like whole    *)
(* ones.                                                                   *)
THEOREM OriginalIsKept ==
  ASSUME RetentionCoversFaults
  PROVE  Spec => MigrationKeepsOriginal
<1> DEFINE Kept ==
      file # NoFile /\ file.form = "legacy" /\ file'.form = "current"
        /\ (\E p \in Procs : pc[p] # "off")
        => \E i \in DOMAIN backups' :
             backups'[i].whole /\ backups'[i].source.model = file.model
                              /\ backups'[i].source.form = "legacy"
           Inv == IInv /\ WritersInv /\ MigrationInv
<1>1. Init => Inv
  BY InitIInv, InitMigration
<1>2. Inv /\ [Next]_vars => Inv'
  BY NextIInv, WritersStep, MigrationStep
<1>3. Inv /\ [Next]_vars => [Kept]_vars
  <2> SUFFICES ASSUME IInv, WritersInv, MigrationInv, [Next]_vars,
                      Legacy(file), file'.form = "current",
                      NEW r \in Procs, pc[r] # "off"
               PROVE  \E i \in DOMAIN backups' :
                        backups'[i].whole /\ backups'[i].source.model = file.model
                                         /\ backups'[i].source.form = "legacy"
    BY DEF Legacy
  <2>1. /\ file' # file
        /\ durable = file
        /\ \A q \in Procs : MigratesOnly(q) /\ HasBackup(q)
        /\ file \in Files
    BY DEF Legacy, MigrationInv, IInv, TypeOK
  <2>2. ASSUME NEW p \in Procs, Step(p) \/ Start(p) \/ Quit(p) \/ Kill(p)
        PROVE  \E i \in DOMAIN backups' :
                 backups'[i].whole /\ backups'[i].source = file
    <3>1. Rename(p)
      BY <2>1, <2>2, LegacyStays DEF IInv
    <3>2. pc[p] = "rename" /\ backups' = backups
      BY <3>1 DEF Rename
    <3>3. PICK g : Secures(backups, file, faults, g, p)
      BY <2>1, <3>2 DEF HasBackup, Secured, Writing
    <3>4. /\ g \in DOMAIN backups /\ g >= g
          /\ backups[g].source = file
          /\ backups[g].whole \/ backups[g].writer = p
      <4>1. g \in PlacesIn(backups, "migration") /\ g \in Nat
        <5>1. backups \in Seq(Backups)
          BY DEF IInv, TypeOK
        <5>2. g \in PlacesIn(backups, "migration")
          BY <3>3 DEF Secures
        <5> QED BY <5>1, <5>2 DEF PlacesIn
      <4> QED BY <3>3, <4>1 DEF Secures, PlacesIn
    <3>5. backups[g].writer # p
      BY <3>2, <3>4, StorageAssumption DEF WritersInv
    <3> QED BY <3>2, <3>4, <3>5
  <2>3. ~ (Settle \/ UNCHANGED vars)
    BY <2>1 DEF Settle, vars, fileVars
  <2>4. ~ PowerFails
    <3>1. Survivor(file).form \in {"legacy", "torn"}
      BY <2>1 DEF Survivor, Legacy, Files
    <3> QED BY <2>1, <3>1 DEF PowerFails
  <2>5. ~ Restore
    BY DEF Restore
  <2>6. \E i \in DOMAIN backups' : backups'[i].whole /\ backups'[i].source = file
    BY <2>2, <2>3, <2>4, <2>5 DEF Next
  <2> QED BY <2>6 DEF Legacy
<1> QED BY <1>1, <1>2, <1>3, PTL DEF Spec, MigrationKeepsOriginal

-----------------------------------------------------------------------------
(* Refinement.                                                             *)

LEMMA InitRefines == Init => Abstract!Init
<1> SUFFICES ASSUME Init PROVE Abstract!Init
  OBVIOUS
<1>1. StoredState(file) \in States
  BY StorageAssumption DEF Init, StoredState, Files
<1>2. \A p \in Procs : ProgressOf(p) = "idle"
  BY DEF Init, ProgressOf
<1> QED BY <1>1, <1>2 DEF Init, Abstract!Init

(* What the mapping makes of a process that moves.                         *)
Moved(p) == [[q \in Procs |-> ProgressOf(q)] EXCEPT ![p] = ProgressOf(p)']

LEMMA ProgressMoves ==
  ASSUME NEW p \in Procs, \A q \in Procs \ {p} : Same(q)
  PROVE  [q \in Procs |-> ProgressOf(q)]' = Moved(p)
<1>1. ASSUME NEW q \in Procs \ {p} PROVE ProgressOf(q)' = ProgressOf(q)
  BY DEF Same, ProgressOf
<1> QED BY <1>1 DEF Moved

LEMMA Stutters ==
  ASSUME NEW p \in Procs, \A q \in Procs \ {p} : Same(q),
         ProgressOf(p)' = ProgressOf(p), UNCHANGED <<file, durable, op, loaded>>
  PROVE  UNCHANGED Abstract!vars
<1>1. Moved(p) = [q \in Procs |-> ProgressOf(q)]
  BY DEF Moved
<1> QED BY <1>1, ProgressMoves DEF Abstract!vars, StoredState

LEMMA Moves ==
  ASSUME NEW p \in Procs, \A q \in Procs \ {p} : Same(q),
         NEW from, NEW to, ProgressOf(p) \in from, ProgressOf(p)' = to
  PROVE  Abstract!Move(p, from, to)
  BY ProgressMoves DEF Abstract!Move, Moved

LEMMA Drops ==
  ASSUME IInv, NEW p \in Procs, NEW how, Resolve(p, how)
  PROVE  /\ Abstract!Drop(p)
         /\ how = "ok"  => ProgressOf(p)' = "accepted"
         /\ how = "err" => ProgressOf(p)' = "refused"
  BY DEF IInv, TypeOK, Resolve, Go, Abstract!Drop, ProgressOf

LEMMA Answers ==
  ASSUME IInv, NEW p \in Procs, \A q \in Procs \ {p} : Same(q),
         UNCHANGED <<file, durable>>
  PROVE  /\ Resolve(p, "err") /\ ProgressOf(p) \in {"begun", "read"} => Abstract!Refuse(p)
         /\ Resolve(p, "ok") /\ ProgressOf(p) \in
              (IF op[p] \in Changes THEN {"replaced"} ELSE {"read"}) => Abstract!Accept(p)
<1>1. ASSUME Resolve(p, "err"), ProgressOf(p) \in {"begun", "read"}
      PROVE  Abstract!Refuse(p)
  <2>1. Abstract!Drop(p) /\ ProgressOf(p)' = "refused"
    BY <1>1, Drops
  <2>2. Abstract!Move(p, {"begun", "read"}, "refused")
    BY <1>1, <2>1, Moves
  <2> QED BY <2>1, <2>2 DEF Abstract!Refuse, StoredState
<1>2. ASSUME Resolve(p, "ok"),
             ProgressOf(p) \in (IF op[p] \in Changes THEN {"replaced"} ELSE {"read"})
      PROVE  Abstract!Accept(p)
  <2>1. Abstract!Drop(p) /\ ProgressOf(p)' = "accepted"
    BY <1>2, Drops
  <2>2. Abstract!Move(p, IF op[p] \in Changes THEN {"replaced"} ELSE {"read"}, "accepted")
    BY <1>2, <2>1, Moves
  <2> QED BY <2>1, <2>2 DEF Abstract!Accept, StoredState
<1> QED BY <1>1, <1>2

LEMMA StepRefines == IInv /\ [Next]_vars => [Abstract!Next]_(Abstract!vars)
<1> SUFFICES ASSUME IInv, [Next]_vars PROVE [Abstract!Next]_(Abstract!vars)
  OBVIOUS
<1> DEFINE Maps(p) == \/ Abstract!Begin(p) \/ Abstract!Read(p) \/ Abstract!Restate(p)
                      \/ Abstract!Replace(p) \/ Abstract!Accept(p) \/ Abstract!Refuse(p)
                      \/ Abstract!Die(p) \/ UNCHANGED Abstract!vars
<1>t. TypeOK
  BY DEF IInv
<1>l. ASSUME NEW p \in Procs PROVE LocalOK(p)
  BY DEF IInv
<1>o. ASSUME NEW p \in Procs, Step(p) \/ Start(p) \/ Quit(p) \/ Kill(p)
      PROVE  \A q \in Procs \ {p} : Same(q)
  BY <1>o, <1>t, LocalsOfOthers DEF Step
<1>1. ASSUME NEW p \in Procs, Begin(p) PROVE Maps(p)
  <2>1. ProgressOf(p) \in Abstract!Resting /\ ProgressOf(p)' = "begun"
    BY <1>1, <1>t DEF Begin, Go, ProgressOf, Abstract!Resting, TypeOK
  <2>2. Abstract!Move(p, Abstract!Resting, "begun")
    BY <1>1, <1>o, <2>1, Moves DEF Step
  <2>3. /\ \E c \in Changes \union Queries : op' = [op EXCEPT ![p] = c]
        /\ UNCHANGED <<file, durable, loaded>>
    BY <1>1 DEF Begin, fileVars
  <2>4. Abstract!Begin(p)
    BY <2>2, <2>3 DEF Abstract!Begin, StoredState
  <2> QED BY <2>4
<1>2. ASSUME NEW p \in Procs, LoadSeed(p) \/ Load(p) PROVE Maps(p)
  <2>1. ProgressOf(p) \in {"begun"} /\ ProgressOf(p)' = "read"
    BY <1>2, <1>t DEF LoadSeed, Load, Work, Go, ProgressOf, TypeOK
  <2>2. Abstract!Move(p, {"begun"}, "read")
    BY <1>2, <1>o, <2>1, Moves DEF Step
  <2>3. loaded' = [loaded EXCEPT ![p] = StoredState(file)]
    BY <1>2 DEF LoadSeed, Load, StoredState
  <2>4. UNCHANGED <<file, durable, op>>
    BY <1>2 DEF LoadSeed, Load, fileVars, localVars
  <2>5. Abstract!Read(p)
    BY <2>2, <2>3, <2>4 DEF Abstract!Read, StoredState
  <2> QED BY <2>5
<1>3. ASSUME NEW p \in Procs, LoadFails(p) \/ CopyFails(p) \/ Discard(p) PROVE Maps(p)
  <2>1. ProgressOf(p) \in {"begun", "read"} /\ Resolve(p, "err")
    BY <1>3, <1>t DEF LoadFails, CopyFails, Discard, ProgressOf, TypeOK
  <2>2. UNCHANGED <<file, durable>>
    BY <1>3 DEF LoadFails, CopyFails, Discard, fileVars
  <2> QED BY <1>3, <1>o, <2>1, <2>2, Answers DEF Step
<1>4. ASSUME NEW p \in Procs, Answered(p) PROVE Maps(p)
  <2>1. ProgressOf(p) = "read" /\ Resolve(p, "ok") /\ op[p] \notin Changes
    BY <1>4, <1>t, StorageAssumption DEF Answered, ProgressOf, TypeOK
  <2>2. UNCHANGED <<file, durable>>
    BY <1>4 DEF Answered, fileVars
  <2> QED BY <1>4, <1>o, <2>1, <2>2, Answers DEF Step
<1>5. ASSUME NEW p \in Procs,
             \/ Proceed(p) \/ OpenCopy(p) \/ EndCopy(p) \/ Prune(p)
             \/ Create(p) \/ Write(p) \/ Sync(p) \/ WriteFails(p)
      PROVE  Maps(p)
  <2>1. ProgressOf(p)' = ProgressOf(p)
    BY ZenonT(90), <1>5, <1>t
    DEF Proceed, OpenCopy, EndCopy, Prune, Create, Write, Sync, WriteStep, WriteFails,
        Work, Go, ProgressOf, TypeOK, procVars
  <2>2. UNCHANGED <<file, durable, op, loaded>>
    BY <1>5
    DEF Proceed, OpenCopy, EndCopy, Prune, Create, Write, Sync, WriteStep, WriteFails,
        fileVars, procVars, localVars
  <2> QED BY <1>5, <1>o, <2>1, <2>2, Stutters DEF Step
<1>6. ASSUME NEW p \in Procs, EndPrune(p) PROVE Maps(p)
  <2>1. UNCHANGED <<file, durable>> /\ ProgressOf(p) = "read"
    BY <1>6, <1>t DEF EndPrune, fileVars, ProgressOf, TypeOK
  <2>2. CASE task[p] = "migration"
    <3>1. ProgressOf(p)' = "read" /\ UNCHANGED <<op, loaded>>
      BY <1>6, <1>t, <2>2 DEF EndPrune, Go, ProgressOf, TypeOK, localVars
    <3> QED BY <1>6, <1>o, <2>1, <3>1, Stutters DEF Step
  <2>3. CASE task[p] = "export"
    <3>1. Resolve(p, "ok") /\ op[p] \notin Changes
      BY <1>6, <1>l, <2>3, StorageAssumption DEF EndPrune, LocalOK
    <3> QED BY <1>6, <1>o, <2>1, <3>1, Answers DEF Step
  <2> QED BY <1>6, <2>2, <2>3 DEF EndPrune
<1>7. ASSUME NEW p \in Procs, Rename(p) PROVE Maps(p)
  <2>1. /\ ProgressOf(p) = "read"
        /\ StoredState(file)' = Output(p)
        /\ UNCHANGED <<durable, op, loaded>>
    <3>1. file' # NoFile
      <4>1. loaded[p] \in States /\ (task[p] = "change" => op[p] \in Changes)
        BY <1>7, <1>l DEF Rename, LocalOK, Resting
      <4>2. Output(p) \in States
        BY <4>1, StorageAssumption DEF Output
      <4>3. Written(p) \in Files
        BY <1>t, <4>2 DEF Written, Files, Forms
      <4> QED BY <1>7, <4>3, StorageAssumption DEF Rename
    <3> QED BY <1>7, <1>t, <3>1
        DEF Rename, Written, StoredState, ProgressOf, TypeOK, localVars
  <2>2. CASE task[p] = "change"
    <3>1. ProgressOf(p)' = "replaced" /\ op[p] \in Changes
      BY <1>7, <1>t, <1>l, <2>2 DEF Rename, Go, ProgressOf, TypeOK, LocalOK
    <3>2. Abstract!Move(p, {"read"}, "replaced")
      BY <1>7, <1>o, <2>1, <3>1, Moves DEF Step
    <3>3. Abstract!Replace(p)
      BY <2>1, <2>2, <3>1, <3>2 DEF Abstract!Replace, Output, StoredState
    <3> QED BY <3>3
  <2>3. CASE task[p] # "change"
    <3>1. ProgressOf(p)' = ProgressOf(p)
      BY <1>7, <1>t, <2>1, <2>3 DEF Rename, Go, ProgressOf, TypeOK
    <3>2. [q \in Procs |-> ProgressOf(q)]' = [q \in Procs |-> ProgressOf(q)]
      BY <1>7, <1>o, <3>1, ProgressMoves DEF Step, Moved
    <3>3. Abstract!Restate(p)
      BY <2>1, <2>3, <3>2 DEF Abstract!Restate, Output, StoredState
    <3> QED BY <3>3
  <2> QED BY <2>2, <2>3
<1>8. ASSUME NEW p \in Procs, Finish(p) PROVE Maps(p)
  <2>1. ProgressOf(p) = "replaced" /\ Resolve(p, "ok") /\ op[p] \in Changes
    BY <1>8, <1>t, <1>l DEF Finish, ProgressOf, TypeOK, LocalOK
  <2>2. UNCHANGED <<file, durable>>
    BY <1>8 DEF Finish, fileVars
  <2> QED BY <1>8, <1>o, <2>1, <2>2, Answers DEF Step
<1>9. ASSUME NEW p \in Procs, Start(p) PROVE Maps(p)
  <2>1. ProgressOf(p)' = ProgressOf(p)
    BY <1>9, <1>t, <1>l DEF Start, Go, ProgressOf, TypeOK, LocalOK
  <2>2. UNCHANGED <<file, durable, op, loaded>>
    BY <1>9 DEF Start, fileVars, localVars
  <2> QED BY <1>9, <1>o, <2>1, <2>2, Stutters
<1>10. ASSUME NEW p \in Procs, Quit(p) \/ Kill(p) PROVE Maps(p)
  <2>1. /\ UNCHANGED <<file, durable>>
        /\ op' = [op EXCEPT ![p] = "none"]
        /\ loaded' = [loaded EXCEPT ![p] = NoState]
        /\ pc'[p] = "off"
    BY <1>10, <1>t DEF Quit, Kill, Down, fileVars, TypeOK
  <2>2. [q \in Procs |-> ProgressOf(q)]' = [[q \in Procs |-> ProgressOf(q)] EXCEPT ![p] = "idle"]
    <3>1. ProgressOf(p)' = "idle"
      BY <2>1 DEF ProgressOf
    <3> QED BY <1>10, <1>o, <3>1, ProgressMoves DEF Moved
  <2>3. Abstract!Die(p)
    BY <2>1, <2>2 DEF Abstract!Die, Abstract!Drop, StoredState
  <2> QED BY <2>3
<1>11. CASE Settle
  <2>1. /\ durable' = file
        /\ UNCHANGED <<file, pc, op, loaded, answer>>
    BY <1>11 DEF Settle, procVars, localVars
  <2>2. Abstract!Settle
    BY <2>1 DEF Abstract!Settle, StoredState, ProgressOf
  <2> QED BY <2>2 DEF Abstract!Next
<1>12. CASE PowerFails
  <2>1. /\ op' = [p \in Procs |-> "none"]
        /\ loaded' = [p \in Procs |-> NoState]
        /\ \A p \in Procs : pc'[p] = "off"
    BY <1>12 DEF PowerFails, Down
  <2>2. [p \in Procs |-> ProgressOf(p)]' = [p \in Procs |-> "idle"]
    BY <2>1 DEF ProgressOf
  <2>3. PICK f \in {file, durable} : file' = Survivor(f) /\ durable' = Survivor(f)
    BY <1>12 DEF PowerFails
  <2>4. StoredState(Survivor(f)) = StoredState(f)
    <3>1. CASE f = NoFile
      BY <3>1 DEF Survivor
    <3>2. CASE f # NoFile
      <4>1. f \in Files
        BY <1>t, <3>2 DEF TypeOK
      <4>2. Survivor(f) \in Files /\ Survivor(f).model = f.model
        BY <3>2, <4>1 DEF Survivor, Files, Forms
      <4> QED BY <3>2, <4>2, StorageAssumption DEF StoredState
    <3> QED BY <3>1, <3>2
  <2>5. /\ StoredState(file)' \in {StoredState(file), StoredState(durable)}
        /\ StoredState(durable)' = StoredState(file)'
    BY <2>3, <2>4 DEF StoredState
  <2>6. Abstract!PowerFails
    BY <2>1, <2>2, <2>5 DEF Abstract!PowerFails
  <2> QED BY <2>6 DEF Abstract!Next
<1>13. CASE Restore
  <2>1. /\ \A p \in Procs : ProgressOf(p) = "idle"
        /\ durable' = file'
        /\ UNCHANGED <<pc, op, loaded, answer>>
    BY <1>13 DEF Restore, ProgressOf, procVars, localVars
  <2>2. StoredState(file)' \in States
    BY <1>13, TypeStep, StorageAssumption DEF TypeOK, StoredState, Files
  <2>3. Abstract!Restore
    BY <2>1, <2>2 DEF Abstract!Restore, StoredState, ProgressOf
  <2> QED BY <2>3 DEF Abstract!Next
<1>14. CASE UNCHANGED vars
  BY <1>14 DEF vars, fileVars, procVars, localVars, Abstract!vars, StoredState, ProgressOf
<1>15. ASSUME NEW p \in Procs, Step(p) \/ Start(p) \/ Quit(p) \/ Kill(p)
       PROVE  [Abstract!Next]_(Abstract!vars)
  <2>1. Maps(p)
    BY <1>15, <1>1, <1>2, <1>3, <1>4, <1>5, <1>6, <1>7, <1>8, <1>9, <1>10 DEF Step
  <2> QED BY <2>1 DEF Abstract!Next
<1> QED BY <1>11, <1>12, <1>13, <1>14, <1>15 DEF Next

(* Storage keeps the promise of StateFile: whoever dies when, a command    *)
(* that was accepted has replaced the state by its own, and one that was   *)
(* refused has not.                                                        *)
THEOREM Refinement == Spec => ImplementsStateFile
<1>1. Init => Abstract!Init
  BY InitRefines
<1>2. IInv /\ [Next]_vars => [Abstract!Next]_(Abstract!vars)
  BY StepRefines
<1> QED BY <1>1, <1>2, Invariance, PTL DEF Spec, ImplementsStateFile, Abstract!Spec

=============================================================================
