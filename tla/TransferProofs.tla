--------------------------- MODULE TransferProofs ---------------------------
(***************************************************************************)
(* Theorems about transfers.                                               *)
(*                                                                         *)
(* TransferEngine, the commands, for any number of transfers, batches,     *)
(* targets and attempts: files that exist are kept, a cancelled batch      *)
(* writes no more, and what a command has answered is so.                  *)
(*                                                                         *)
(* TransferWindow, in the second half: the rows of a batch in the          *)
(* windows, for every number of children, of retries and of events a       *)
(* window is behind: no success is shown before its time, the end of the   *)
(* batch is recorded, and only a retry takes a row back.                   *)
(***************************************************************************)
EXTENDS TransferEngine, TransferWindow, SequenceTheorems, TLAPS

(* The places behind the check for the cancel mark, and behind the one for *)
(* an existing file.                                                       *)
Unleashed == {"allow", "create", "copy", "verify", "verifyError", "complete"}
Writing   == {"create", "copy", "verify", "verifyError", "complete"}

(* The row of a command under way is open or cancelled, and a success is   *)
(* the last answer of a transfer.                                          *)
RowsInv ==
  \A t \in Transfers :
    IF pc[t] = "answered"
      THEN row[t] \in Terminal /\ (result[t] = "ok" => row[t] # "error")
      ELSE row[t] \in {"queued", "running", "canceled"} /\ result[t] # "ok"

(* The mark of a batch stays; a transfer begun after it has passed no      *)
(* check, and one that never began wrote nothing.                          *)
LateInv ==
  /\ \A b \in Batches : b \in requested => b \in cancelled
  /\ \A t \in late : plan[t].batch \in Batches \cap requested /\ pc[t] \notin Unleashed
  /\ \A t \in Transfers :
       pc[t] = "enqueued" \/ t \in late =>
         WroteNothing(t)

(* The target of a transfer at work existed if it is one of the old files, *)
(* and is written only with leave.                                         *)
KeptInv ==
  /\ \A x \in OldFiles : files[x] # "absent"
  /\ \A t \in Transfers :
       plan[t].target \in OldFiles =>
         /\ pc[t] \in Unleashed \cup {"check", "fail"} => existed[t]
         /\ pc[t] \in Writing => MayOverwrite(t)

(* Only a refused folder cleans up after itself.                           *)
FailInv ==
  \A t \in Transfers :
    pc[t] \in {"fail", "verifyError"} /\ Downloads(t) => pc[t] = "fail" /\ plan[t].proto = "none"

EngineIInv == EngineTypeOK /\ RowsInv /\ LateInv /\ KeptInv /\ FailInv /\ ExistingFileKept

Written(t, x) ==
  /\ owner[x] # NoTransfer
  /\ owner[x] = t =>
       /\ files[x] = "new" /\ t \in holders[x]
       /\ \A i \in 1..sent[t] : pieces[x][i] # NoTransfer

(* Pieces are of those that have the file open; and what a transfer has    *)
(* sent is there, as long as nobody created or removed the target after it *)
WholeInv ==
  /\ \A x \in Targets : \A i \in 1..Chunks : pieces[x][i] \in holders[x] \cup {NoTransfer}
  /\ \A t \in Transfers :
       /\ pc[t] \in {"check", "allow", "create"} => sent[t] = 0
       /\ pc[t] \in {"verify", "complete"} \/ result[t] = "ok" => sent[t] = Chunks
       /\ pc[t] \in {"copy", "verify", "complete"} \/ result[t] = "ok" =>
            Written(t, plan[t].target)


LEMMA JobFacts ==
  ASSUME EngineTypeOK, NEW t \in Transfers
  PROVE  plan \in [Transfers -> Jobs] /\ plan[t] \in Jobs /\ plan[t].target \in Targets
  <1>1. plan \in [Transfers -> Jobs]
    BY TransferAssumption DEF EngineTypeOK
  <1> QED BY <1>1 DEF Jobs

LEMMA InitEngineIInv == EngineInit => EngineIInv /\ WholeInv
  <1> SUFFICES ASSUME EngineInit PROVE EngineIInv /\ WholeInv
    OBVIOUS
  <1> USE DEF EngineInit
  <1>1. EngineTypeOK
    BY TransferAssumption DEF EngineTypeOK, Writers, Places, Terminal, Errors
  <1>2. RowsInv
    BY DEF RowsInv
  <1>3. LateInv
    BY TransferAssumption DEF LateInv, WroteNothing
  <1>4. KeptInv
    BY TransferAssumption DEF KeptInv, Unleashed, Writing
  <1>5. FailInv
    BY DEF FailInv
  <1>6. ExistingFileKept
    BY TransferAssumption DEF ExistingFileKept
  <1>7. WholeInv
    BY DEF WholeInv
  <1> QED BY <1>1, <1>2, <1>3, <1>4, <1>5, <1>6, <1>7 DEF EngineIInv

(* Types.                                                                  *)
LEMMA TypeStep == EngineTypeOK /\ [EngineNext]_engineVars => EngineTypeOK'
  <1> SUFFICES ASSUME EngineTypeOK, [EngineNext]_engineVars PROVE EngineTypeOK'
    OBVIOUS
  <1> USE TransferAssumption DEF EngineTypeOK, Places, registries, disk, history
  <1>1. ASSUME NEW t \in Transfers, Work(t) PROVE EngineTypeOK'
    <2> plan[t].target \in Targets
      BY JobFacts
    <2> UNCHANGED plan
      BY <1>1 DEF Work
    <2> USE DEF Go, Writers
    <2>1. ASSUME NEW r \in {"canceled"} \cup Errors, Answer(t, r)
          PROVE  /\ pc' \in [Transfers -> Places]
                 /\ result' \in [Transfers -> {"none", "ok", "canceled"} \cup Errors]
                 /\ row' \in [Transfers -> {"queued", "running"} \cup Terminal]
      BY <2>1 DEF Answer, Show, Shown, Terminal
    <2>2. ASSUME NEW s \in {"queued", "running"} \cup Terminal, Show(t, s)
          PROVE  row' \in [Transfers -> {"queued", "running"} \cup Terminal]
      BY <2>2 DEF Show, Shown
    <2>3. {"failed", "conflict", "canceled"} \subseteq {"canceled"} \cup Errors
      BY DEF Errors
    <2>4. CASE Lookup(t)
      BY <2>1, <2>2, <2>3, <2>4 DEF Lookup, Leave
    <2>5. CASE BeginTransfer(t)
      <3>1. CASE Leave(t, "failed")
        BY <2>1, <2>3, <2>5, <3>1 DEF BeginTransfer, Leave
      <3>2. CASE ~Leave(t, "failed")
        <4>1. PICK b \in BOOLEAN : existed' = [existed EXCEPT ![t] = b]
          BY <2>5, <3>2 DEF BeginTransfer
        <4>2. existed' \in [Transfers -> BOOLEAN]
          BY <4>1
        <4>3. sent' \in [Transfers -> 0..Chunks] /\ pc' \in [Transfers -> Places]
          <5>1. 0 \in 0..Chunks /\ sent' = [sent EXCEPT ![t] = 0]
            BY <2>5, <3>2 DEF BeginTransfer
          <5>2. PICK p \in Places : pc' = [pc EXCEPT ![t] = p]
            BY <2>5, <3>2 DEF BeginTransfer
          <5> QED BY <5>1, <5>2
        <4>4. row' \in [Transfers -> {"queued", "running"} \cup Terminal]
          BY <2>2, <2>5, <3>2 DEF BeginTransfer
        <4> QED BY <2>5, <3>2, <4>2, <4>3, <4>4 DEF BeginTransfer
      <3> QED BY <3>1, <3>2
    <2>6. CASE CheckCancel(t)
      BY <2>1, <2>2, <2>3, <2>6, ZenonT(40) DEF CheckCancel, Leave, ShowRunning
    <2>7. CASE Allow(t)
      BY <2>1, <2>2, <2>3, <2>7, ZenonT(40) DEF Allow, Leave, ShowRunning
    <2>8. CASE Create(t)
      <3>1. CASE Break(t)
        BY <2>1, <2>3, <2>8, <3>1, ZenonT(40) DEF Create, Break, Leave, Truncate
      <3>2. CASE ~Break(t)
        <4>1. Truncate(t)
          BY <2>8, <3>2 DEF Create
        <4>2. files' \in [Targets -> {"absent", "old", "new"}] /\ owner' \in [Targets -> Transfers \cup {NoTransfer}]
          BY <4>1 DEF Truncate
        <4>3. pieces' \in [Targets -> [1..Chunks -> Writers]]
          BY <4>1 DEF Truncate
        <4>4. holders' \in [Targets -> SUBSET Transfers]
          <5>1. {t} \cup (holders[plan[t].target] \cap Copying) \in SUBSET Transfers
            OBVIOUS
          <5>2. holders' = [holders EXCEPT ![plan[t].target] = {t} \cup (holders[plan[t].target] \cap Copying)]
            BY <4>1 DEF Truncate
          <5> QED BY <5>1, <5>2
        <4>5. pc' \in [Transfers -> Places] /\ UNCHANGED <<registries, existed, sent, result, row, link, history>>
          BY <2>8, <3>2 DEF Create
        <4> QED BY <4>2, <4>3, <4>4, <4>5
      <3> QED BY <3>1, <3>2
    <2>9. CASE CopyChunk(t)
      <3>1. pieces' \in [Targets -> [1..Chunks -> Writers]]
        BY <2>9 DEF CopyChunk
      <3>2. sent' \in [Transfers -> 0..Chunks]
        BY <2>9 DEF CopyChunk
      <3> QED BY <2>2, <2>9, <3>1, <3>2 DEF CopyChunk, ShowRunning
    <2>15. CASE CopyEnd(t)
      BY <2>15 DEF CopyEnd
    <2>10. CASE CopyCanceled(t)
      BY <2>1, <2>2, <2>3, <2>10 DEF CopyCanceled, Leave
    <2>11. CASE CopyFails(t)
      BY <2>1, <2>2, <2>3, <2>11, ZenonT(40) DEF CopyFails, Break, Leave
    <2>12. CASE Verify(t)
      BY <2>1, <2>2, <2>3, <2>12, ZenonT(40) DEF Verify, Leave
    <2>13. CASE CompleteTransfer(t)
      BY <2>1, <2>2, <2>3, <2>13 DEF CompleteTransfer, Terminal
    <2>14. CASE FailTransfer(t)
      <3>1. CASE UNCHANGED disk
        BY <2>1, <2>3, <2>14, <3>1 DEF FailTransfer
      <3>2. CASE Remove(t)
        <4>1. files' \in [Targets -> {"absent", "old", "new"}] /\ owner' \in [Targets -> Transfers \cup {NoTransfer}]
          BY <3>2 DEF Remove
        <4>2. pieces' \in [Targets -> [1..Chunks -> Writers]]
          BY <3>2 DEF Remove
        <4>3. holders' \in [Targets -> SUBSET Transfers]
          BY <3>2 DEF Remove
        <4> QED BY <2>1, <2>3, <2>14, <4>1, <4>2, <4>3 DEF FailTransfer
      <3> QED BY <2>14, <3>1, <3>2 DEF FailTransfer, Cleanup
    <2> QED BY <1>1, <2>4, <2>5, <2>6, <2>7, <2>8, <2>9, <2>10, <2>11, <2>12, <2>13, <2>14, <2>15 DEF Work
  <1>2. ASSUME NEW t \in Transfers, UNCHANGED plan, Start(t) PROVE EngineTypeOK'
    BY <1>2 DEF Start, Go
  <1>3. ASSUME NEW t \in Transfers, UNCHANGED plan, RetryTransfer(t) PROVE EngineTypeOK'
    BY <1>3 DEF RetryTransfer, Go
  <1>4. ASSUME NEW id \in Transfers \cup Batches, UNCHANGED plan, CancelTransfer(id) PROVE EngineTypeOK'
    BY <1>4 DEF CancelTransfer, Terminal
  <1>5. ASSUME UNCHANGED plan, LinkChanges PROVE EngineTypeOK'
    BY <1>5 DEF LinkChanges
  <1>6. CASE UNCHANGED engineVars
    BY <1>6 DEF engineVars
  <1> QED BY <1>1, <1>2, <1>3, <1>4, <1>5, <1>6 DEF EngineNext, Surroundings


(* Rows and answers.                                                       *)
LEMMA RowsStep == EngineIInv /\ [EngineNext]_engineVars => RowsInv'
  <1> SUFFICES ASSUME EngineIInv, [EngineNext]_engineVars PROVE RowsInv'
    OBVIOUS
  <1> USE TransferAssumption DEF EngineIInv, EngineTypeOK, registries, disk, history, RowsInv
  <1>1. ASSUME NEW t \in Transfers, Work(t) PROVE RowsInv'
    <2> UNCHANGED plan /\ plan[t].target \in Targets
      BY <1>1, JobFacts DEF Work
    <2> USE DEF Go, Answer, Show, Shown, RowRank, Terminal, Errors
    <2>13. ASSUME NEW r \in {"failed", "canceled", "conflict"}, pc[t] # "answered", Leave(t, r) PROVE RowsInv'
      BY <2>13 DEF Leave
    <2>1. CASE Lookup(t)
      BY <2>1 DEF Lookup, Leave
    <2>2. CASE BeginTransfer(t)
      <3>1. CASE ~Leave(t, "failed")
        BY <2>2, <3>1 DEF BeginTransfer
      <3> QED BY <2>2, <2>13, <3>1 DEF BeginTransfer
    <2>3. CASE CheckCancel(t)
      BY <2>3 DEF CheckCancel, Leave, ShowRunning
    <2>4. CASE Allow(t)
      <3>1. CASE ~Leave(t, "failed") /\ ~Leave(t, "conflict")
        BY <2>4, <3>1, ZenonT(40) DEF Allow, ShowRunning
      <3> QED BY <2>4, <2>13, <3>1 DEF Allow
    <2>5. CASE Create(t)
      BY <2>5 DEF Create, Break, Leave, Truncate
    <2>6. CASE CopyChunk(t)
      BY <2>6 DEF CopyChunk, ShowRunning
    <2>7. CASE CopyCanceled(t)
      BY <2>7 DEF CopyCanceled, Leave
    <2>8. CASE CopyFails(t)
      BY <2>8 DEF CopyFails, Break, Leave
    <2>9. CASE Verify(t)
      BY <2>9 DEF Verify, Leave
    <2>10. CASE CompleteTransfer(t)
      BY <2>10 DEF CompleteTransfer, Terminal
    <2>11. CASE FailTransfer(t)
      BY <2>11 DEF FailTransfer, Cleanup, Remove
    <2>12. CASE CopyEnd(t)
      BY <2>12 DEF CopyEnd
    <2> QED BY <1>1, <2>1, <2>2, <2>3, <2>4, <2>5, <2>6, <2>7, <2>8, <2>9, <2>10, <2>11, <2>12 DEF Work
  <1>2. ASSUME NEW t \in Transfers, UNCHANGED plan, Start(t) PROVE RowsInv'
    BY <1>2, JobFacts DEF Start, Go, Jobs
  <1>3. ASSUME NEW t \in Transfers, UNCHANGED plan, RetryTransfer(t) PROVE RowsInv'
    BY <1>3 DEF RetryTransfer, Go
  <1>4. ASSUME NEW id \in Transfers \cup Batches, UNCHANGED plan, CancelTransfer(id) PROVE RowsInv'
    BY <1>4 DEF CancelTransfer, Cancellable, Terminal
  <1>5. ASSUME UNCHANGED plan, LinkChanges PROVE RowsInv'
    BY <1>5 DEF LinkChanges
  <1>6. CASE UNCHANGED engineVars
    BY <1>6 DEF engineVars
  <1> QED BY <1>1, <1>2, <1>3, <1>4, <1>5, <1>6 DEF EngineNext, Surroundings

(* Who comes to the clean-up.                                              *)
LEMMA FailStep == EngineIInv /\ [EngineNext]_engineVars => FailInv'
  <1> SUFFICES ASSUME EngineIInv, [EngineNext]_engineVars PROVE FailInv'
    OBVIOUS
  <1> USE TransferAssumption DEF EngineIInv, EngineTypeOK, registries, disk, history, FailInv, Downloads, FtpUpload
  <1>1. ASSUME NEW t \in Transfers, Work(t) PROVE FailInv'
    <2> UNCHANGED plan /\ plan[t].target \in Targets
      BY <1>1, JobFacts DEF Work
    <2> USE DEF Go, Answer
    <2>1. CASE Lookup(t)
      BY <2>1 DEF Lookup, Leave
    <2>2. CASE BeginTransfer(t)
      BY <2>2 DEF BeginTransfer, Leave
    <2>3. CASE CheckCancel(t)
      BY <2>3 DEF CheckCancel, Leave, ShowRunning
    <2>4. CASE Allow(t)
      BY <2>4 DEF Allow, Leave, ShowRunning
    <2>5. CASE Create(t)
      BY <2>5 DEF Create, Break, Leave, Truncate
    <2>6. CASE CopyChunk(t)
      BY <2>6 DEF CopyChunk, ShowRunning
    <2>7. CASE CopyCanceled(t)
      BY <2>7 DEF CopyCanceled, Leave
    <2>8. CASE CopyFails(t)
      BY <2>8 DEF CopyFails, Break, Leave
    <2>9. CASE Verify(t)
      BY <2>9 DEF Verify, Leave
    <2>10. CASE CompleteTransfer(t)
      BY <2>10 DEF CompleteTransfer, Terminal
    <2>11. CASE FailTransfer(t)
      BY <2>11 DEF FailTransfer, Cleanup, Remove
    <2>12. CASE CopyEnd(t)
      BY <2>12 DEF CopyEnd
    <2> QED BY <1>1, <2>1, <2>2, <2>3, <2>4, <2>5, <2>6, <2>7, <2>8, <2>9, <2>10, <2>11, <2>12 DEF Work
  <1>2. ASSUME NEW t \in Transfers, UNCHANGED plan, Start(t) PROVE FailInv'
    BY <1>2, JobFacts DEF Start, Go, Jobs
  <1>3. ASSUME NEW t \in Transfers, UNCHANGED plan, RetryTransfer(t) PROVE FailInv'
    BY <1>3 DEF RetryTransfer, Go
  <1>4. ASSUME NEW id \in Transfers \cup Batches, UNCHANGED plan, CancelTransfer(id) PROVE FailInv'
    BY <1>4 DEF CancelTransfer, Cancellable, Terminal
  <1>5. ASSUME UNCHANGED plan, LinkChanges PROVE FailInv'
    BY <1>5 DEF LinkChanges
  <1>6. CASE UNCHANGED engineVars
    BY <1>6 DEF engineVars
  <1> QED BY <1>1, <1>2, <1>3, <1>4, <1>5, <1>6 DEF EngineNext, Surroundings

(* Targets that exist.                                                     *)
LEMMA KeptStep == EngineIInv /\ [EngineNext]_engineVars => KeptInv'
  <1> SUFFICES ASSUME EngineIInv, [EngineNext]_engineVars PROVE KeptInv'
    OBVIOUS
  <1> USE TransferAssumption
      DEF EngineIInv, EngineTypeOK, registries, disk, history, KeptInv, FailInv, MayOverwrite, FtpUpload, Downloads,
          Unleashed, Writing
  <1>1. ASSUME NEW t \in Transfers, Work(t) PROVE KeptInv'
    <2> UNCHANGED plan /\ plan[t].target \in Targets
      BY <1>1, JobFacts DEF Work
    <2> USE DEF Go, Answer
    <2>1. CASE Lookup(t)
      BY <2>1 DEF Lookup, Leave
    <2>2. CASE BeginTransfer(t)
      <3>1. CASE Leave(t, "failed")
        BY <2>2, <3>1 DEF BeginTransfer, Leave
      <3>2. CASE ~Leave(t, "failed")
        <4>1. /\ UNCHANGED files /\ \A u \in Transfers \ {t} : existed'[u] = existed[u] /\ pc'[u] = pc[u]
              /\ pc'[t] \notin Writing /\ existed'[t] = (files[plan[t].target] # "absent")
          BY <2>2, <3>2 DEF BeginTransfer
        <4> QED BY <4>1
      <3> QED BY <3>1, <3>2
    <2>3. CASE CheckCancel(t)
      BY <2>3 DEF CheckCancel, Leave, ShowRunning
    <2>4. CASE Allow(t)
      BY <2>4 DEF Allow, Leave, ShowRunning
    <2>5. CASE Create(t)
      BY <2>5 DEF Create, Break, Leave, Truncate
    <2>6. CASE CopyChunk(t)
      BY <2>6 DEF CopyChunk, ShowRunning
    <2>7. CASE CopyCanceled(t)
      BY <2>7 DEF CopyCanceled, Leave
    <2>8. CASE CopyFails(t)
      BY <2>8 DEF CopyFails, Break, Leave
    <2>9. CASE Verify(t)
      BY <2>9 DEF Verify, Leave
    <2>10. CASE CompleteTransfer(t)
      BY <2>10 DEF CompleteTransfer, Terminal
    <2>11. CASE FailTransfer(t)
      BY <2>11 DEF FailTransfer, Cleanup, Remove
    <2>12. CASE CopyEnd(t)
      BY <2>12 DEF CopyEnd
    <2> QED BY <1>1, <2>1, <2>2, <2>3, <2>4, <2>5, <2>6, <2>7, <2>8, <2>9, <2>10, <2>11, <2>12 DEF Work
  <1>2. ASSUME NEW t \in Transfers, UNCHANGED plan, Start(t) PROVE KeptInv'
    BY <1>2, JobFacts DEF Start, Go, Jobs
  <1>3. ASSUME NEW t \in Transfers, UNCHANGED plan, RetryTransfer(t) PROVE KeptInv'
    BY <1>3 DEF RetryTransfer, Go
  <1>4. ASSUME NEW id \in Transfers \cup Batches, UNCHANGED plan, CancelTransfer(id) PROVE KeptInv'
    BY <1>4 DEF CancelTransfer, Cancellable, Terminal
  <1>5. ASSUME UNCHANGED plan, LinkChanges PROVE KeptInv'
    BY <1>5 DEF LinkChanges
  <1>6. CASE UNCHANGED engineVars
    BY <1>6 DEF engineVars
  <1> QED BY <1>1, <1>2, <1>3, <1>4, <1>5, <1>6 DEF EngineNext, Surroundings

(* Old files.                                                              *)
LEMMA ExistingStep == EngineIInv /\ [EngineNext]_engineVars => ExistingFileKept'
  <1> SUFFICES ASSUME EngineIInv, [EngineNext]_engineVars PROVE ExistingFileKept'
    OBVIOUS
  <1> USE TransferAssumption
      DEF EngineIInv, EngineTypeOK, registries, disk, history, ExistingFileKept, KeptInv, MayOverwrite, FtpUpload, Downloads,
          Unleashed, Writing
  <1>1. ASSUME NEW t \in Transfers, Work(t) PROVE ExistingFileKept'
    <2> UNCHANGED plan /\ plan[t].target \in Targets
      BY <1>1, JobFacts DEF Work
    <2> USE DEF Go, Answer
    <2>1. CASE Lookup(t)
      BY <2>1 DEF Lookup, Leave
    <2>2. CASE BeginTransfer(t)
      BY <2>2 DEF BeginTransfer, Leave
    <2>3. CASE CheckCancel(t)
      BY <2>3 DEF CheckCancel, Leave, ShowRunning
    <2>4. CASE Allow(t)
      BY <2>4 DEF Allow, Leave, ShowRunning
    <2>5. CASE Create(t)
      BY <2>5 DEF Create, Break, Leave, Truncate
    <2>6. CASE CopyChunk(t)
      BY <2>6 DEF CopyChunk, ShowRunning
    <2>7. CASE CopyCanceled(t)
      BY <2>7 DEF CopyCanceled, Leave
    <2>8. CASE CopyFails(t)
      BY <2>8 DEF CopyFails, Break, Leave
    <2>9. CASE Verify(t)
      BY <2>9 DEF Verify, Leave
    <2>10. CASE CompleteTransfer(t)
      BY <2>10 DEF CompleteTransfer, Terminal
    <2>11. CASE FailTransfer(t)
      BY <2>11 DEF FailTransfer, Cleanup, Remove
    <2>12. CASE CopyEnd(t)
      BY <2>12 DEF CopyEnd
    <2> QED BY <1>1, <2>1, <2>2, <2>3, <2>4, <2>5, <2>6, <2>7, <2>8, <2>9, <2>10, <2>11, <2>12 DEF Work
  <1>2. ASSUME NEW t \in Transfers, UNCHANGED plan, Start(t) PROVE ExistingFileKept'
    BY <1>2, JobFacts DEF Start, Go, Jobs
  <1>3. ASSUME NEW t \in Transfers, UNCHANGED plan, RetryTransfer(t) PROVE ExistingFileKept'
    BY <1>3 DEF RetryTransfer, Go
  <1>4. ASSUME NEW id \in Transfers \cup Batches, UNCHANGED plan, CancelTransfer(id) PROVE ExistingFileKept'
    BY <1>4 DEF CancelTransfer, Cancellable, Terminal
  <1>5. ASSUME UNCHANGED plan, LinkChanges PROVE ExistingFileKept'
    BY <1>5 DEF LinkChanges
  <1>6. CASE UNCHANGED engineVars
    BY <1>6 DEF engineVars
  <1> QED BY <1>1, <1>2, <1>3, <1>4, <1>5, <1>6 DEF EngineNext, Surroundings

(* Cancelled batches.                                                      *)
LEMMA LateStep == EngineIInv /\ [EngineNext]_engineVars => LateInv'
  <1> SUFFICES ASSUME EngineIInv, [EngineNext]_engineVars PROVE LateInv'
    OBVIOUS
  <1> USE TransferAssumption DEF EngineIInv, EngineTypeOK, registries, disk, history, LateInv, Unleashed
  <1>1. ASSUME UNCHANGED disk, NEW u \in Transfers PROVE WroteNothing(u)' <=> WroteNothing(u)
    BY <1>1 DEF WroteNothing
  <1>2. ASSUME NEW t \in Transfers, Work(t) PROVE LateInv'
    <2> UNCHANGED plan /\ plan[t].target \in Targets /\ \A u \in Transfers : plan[u] \in Jobs
      BY <1>2, JobFacts DEF Work
    <2>1. /\ UNCHANGED <<requested, late, attempts>> /\ cancelled \ {t} \subseteq cancelled'
          /\ \A u \in Transfers \ {t} : pc'[u] = pc[u]
          /\ pc[t] # "enqueued" /\ pc'[t] # "enqueued"
      <3> USE DEF Go, Answer
      <3>1. ASSUME NEW r, Leave(t, r) PROVE \A u \in Transfers : pc'[u] = IF u = t THEN "answered" ELSE pc[u]
        BY <3>1 DEF Leave
      <3>2. CASE BeginTransfer(t)
        BY <3>1, <3>2 DEF BeginTransfer, Leave
      <3>3. CASE Lookup(t) \/ CheckCancel(t) \/ Allow(t) \/ Create(t)
        BY <3>1, <3>3 DEF Lookup, CheckCancel, Allow, Create, Break, Leave
      <3>4. CASE CopyChunk(t) \/ CopyEnd(t) \/ CopyCanceled(t) \/ CopyFails(t)
        BY <3>1, <3>4 DEF CopyChunk, CopyEnd, CopyCanceled, CopyFails, Break, Leave
      <3>5. CASE Verify(t) \/ CompleteTransfer(t) \/ FailTransfer(t)
        BY <3>1, <3>5 DEF Verify, CompleteTransfer, FailTransfer, Leave
      <3> QED BY <1>2, <3>2, <3>3, <3>4, <3>5 DEF Work
    <2>2. \A b \in Batches : b \in requested' => b \in cancelled'
      BY <2>1
    <2>3. t \in late => pc'[t] \notin Unleashed
      <3> SUFFICES ASSUME t \in late PROVE pc'[t] \notin Unleashed
        OBVIOUS
      <3>1. IsCancelled(t)
        BY DEF IsCancelled
      <3> QED BY <1>2, <3>1 DEF Work, Lookup, BeginTransfer, CheckCancel, Allow, Create, CopyChunk, CopyEnd,
                  CopyCanceled, CopyFails, Verify, CompleteTransfer, FailTransfer, Leave, Answer, Go
    <2>4. ASSUME NEW u \in Transfers, pc[u] = "enqueued" \/ u \in late, WroteNothing(u)
          PROVE  WroteNothing(u)'
      <3>1. CASE UNCHANGED disk
        BY <1>1, <2>4, <3>1
      <3>2. CASE Create(t) /\ Truncate(t)
        <4>1. u # t
          BY <2>4, <3>2 DEF Create
        <4> QED BY <2>4, <3>2, <4>1 DEF Truncate, WroteNothing
      <3>3. CASE CopyChunk(t)
        <4>1. u # t
          BY <2>4, <3>3 DEF CopyChunk
        <4> QED BY <2>4, <3>3, <4>1 DEF CopyChunk, WroteNothing
      <3>4. CASE FailTransfer(t) /\ Remove(t)
        BY <2>4, <3>4 DEF Remove, WroteNothing
      <3>5. \/ UNCHANGED disk \/ CopyChunk(t)
            \/ Create(t) /\ Truncate(t)
            \/ FailTransfer(t) /\ Remove(t)
        BY <1>2 DEF Work, Lookup, BeginTransfer, CheckCancel, Allow, Create, CopyEnd, CopyCanceled,
                    CopyFails, Verify, CompleteTransfer, FailTransfer, Cleanup, Leave, Break
      <3> QED BY <3>1, <3>2, <3>3, <3>4, <3>5
    <2> QED BY <2>1, <2>2, <2>3, <2>4
  <1>3. ASSUME NEW t \in Transfers, UNCHANGED plan, Start(t) PROVE LateInv'
    <2>1. plan[t].batch \in requested => plan[t].batch \in Batches
      BY <1>3, JobFacts DEF Jobs
    <2> QED BY <1>1, <1>3, <2>1 DEF Start, Go
  <1>4. ASSUME NEW t \in Transfers, UNCHANGED plan, RetryTransfer(t) PROVE LateInv'
    BY <1>1, <1>4 DEF RetryTransfer, Go
  <1>5. ASSUME NEW id \in Transfers \cup Batches, UNCHANGED plan, CancelTransfer(id) PROVE LateInv'
    BY <1>1, <1>5 DEF CancelTransfer, Cancellable, Terminal
  <1>6. ASSUME UNCHANGED plan, LinkChanges PROVE LateInv'
    BY <1>1, <1>6 DEF LinkChanges
  <1>7. CASE UNCHANGED engineVars
    BY <1>1, <1>7 DEF engineVars
  <1> QED BY <1>2, <1>3, <1>4, <1>5, <1>6, <1>7 DEF EngineNext, Surroundings

LEMMA IInvStep == EngineIInv /\ [EngineNext]_engineVars => EngineIInv'
  BY TypeStep, RowsStep, FailStep, KeptStep, ExistingStep, LateStep DEF EngineIInv

LEMMA IInvHolds == EngineSpec => []EngineIInv
  <1>1. EngineInit => EngineIInv
    BY InitEngineIInv
  <1> QED BY <1>1, IInvStep, PTL DEF EngineSpec

(* A file that was there before is neither overwritten nor cleaned away by *)
(* transfers that may not overwrite it, however many of them check, write, *)
(* fail and are tried again: the conflict checks of transfer/sftp.rs and   *)
(* the clean-up of transfer/download.rs.                                   *)
THEOREM ExistingFilesAreKept == EngineSpec => []ExistingFileKept
  <1>1. EngineIInv => ExistingFileKept
    BY DEF EngineIInv
  <1> QED BY <1>1, IInvHolds, PTL

(* A transfer begun after its batch was cancelled writes nothing, although *)
(* init_transfer resets the mark of the transfer and it may be tried       *)
(* again: the mark of the batch (transfer/state.rs) stays.                 *)
THEOREM CancelledBatchesWriteNoMore == EngineSpec => []BatchCancelHolds
  <1>1. EngineIInv => BatchCancelHolds
    <2> SUFFICES ASSUME EngineIInv, NEW t \in late
                 PROVE  WroteNothing(t)
      BY DEF BatchCancelHolds
    <2>1. t \in Transfers
      BY DEF EngineIInv, EngineTypeOK
    <2> QED BY <2>1 DEF EngineIInv, LateInv
  <1> QED BY <1>1, IInvHolds, PTL

(* The row of an answered command has ended and shows no error behind a    *)
(* success, whichever of events, answers and buttons came first.           *)
THEOREM AnsweredRowsAreFinal == EngineSpec => [](EngineTypeOK /\ AnsweredRowIsFinal)
  <1>1. EngineIInv => EngineTypeOK /\ AnsweredRowIsFinal
    BY DEF EngineIInv, RowsInv, AnsweredRowIsFinal
  <1> QED BY <1>1, IInvHolds, PTL

(* What a step of one transfer does to the files.                          *)
LEMMA WholeWork ==
  ASSUME EngineIInv, WholeInv, NEW t \in Transfers, Work(t)
  PROVE  WholeInv'
  <1> USE TransferAssumption DEF EngineIInv, EngineTypeOK, registries, disk, history, Writers
  <1>1. UNCHANGED plan /\ \A u \in Transfers : plan[u].target \in Targets
    BY JobFacts DEF Work
  <1>2. ASSUME UNCHANGED <<disk, sent>>,
               \A u \in Transfers : pc'[u] \in {"copy", "verify", "complete"} \/ result'[u] = "ok" =>
                 pc[u] \in {"copy", "verify", "complete"} \/ result[u] = "ok",
               \A u \in Transfers : pc'[u] \in {"verify", "complete"} \/ result'[u] = "ok" =>
                 sent[u] = Chunks,
               \A u \in Transfers : pc'[u] \in {"check", "allow", "create"} => sent[u] = 0
        PROVE  WholeInv'
    <2>1. ASSUME NEW u \in Transfers, NEW x PROVE Written(u, x)' <=> Written(u, x)
      BY <1>2 DEF Written
    <2> QED BY <1>1, <1>2, <2>1 DEF WholeInv
  <1>3. ASSUME Leave(t, "failed") \/ Leave(t, "conflict") \/ Leave(t, "canceled") \/ Break(t)
        PROVE  WholeInv'
    BY <1>2, <1>3 DEF Leave, Break, Answer, Go, WholeInv
  <1>4. CASE Lookup(t) \/ CheckCancel(t) \/ Allow(t) \/ CopyEnd(t) \/ CopyCanceled(t)
             \/ CopyFails(t) \/ Verify(t)
    <2>1. CASE Lookup(t)
      BY <1>2, <1>3, <2>1 DEF Lookup, Go, WholeInv
    <2>2. CASE CheckCancel(t)
      BY <1>2, <1>3, <2>2 DEF CheckCancel, Go, WholeInv
    <2>3. CASE Allow(t)
      BY <1>2, <1>3, <2>3 DEF Allow, Go, WholeInv
    <2>4. CASE CopyEnd(t)
      BY <1>2, <2>4 DEF CopyEnd, Go, WholeInv
    <2>5. CASE CopyCanceled(t) \/ CopyFails(t)
      BY <1>3, <2>5 DEF CopyCanceled, CopyFails
    <2>6. CASE Verify(t)
      <3>1. CASE ~Leave(t, "canceled")
        <4>1. /\ UNCHANGED <<disk, sent, result>> /\ pc'[t] \in {"complete", "fail"}
              /\ pc'[t] = "complete" => pc[t] = "verify"
              /\ \A u \in Transfers \ {t} : pc'[u] = pc[u]
          BY <2>6, <3>1 DEF Verify, Go
        <4> QED BY <1>2, <4>1 DEF WholeInv
      <3> QED BY <1>3, <2>6, <3>1
    <2> QED BY <1>4, <2>1, <2>2, <2>3, <2>4, <2>5, <2>6
  <1>5. CASE BeginTransfer(t) /\ ~Leave(t, "failed")
    <2>1. /\ UNCHANGED <<disk, result>> /\ pc'[t] \notin {"copy", "verify", "complete"}
          /\ result[t] # "ok" /\ sent'[t] = 0
          /\ \A u \in Transfers \ {t} : pc'[u] = pc[u] /\ sent'[u] = sent[u]
      BY <1>5 DEF BeginTransfer, Go, RowsInv
    <2>2. ASSUME NEW u \in Transfers \ {t}, NEW x PROVE Written(u, x)' <=> Written(u, x)
      BY <2>1 DEF Written
    <2> QED BY <1>1, <2>1, <2>2 DEF WholeInv
  <1>6. CASE Create(t) /\ ~Break(t)
    <2> DEFINE x == plan[t].target
    <2>1. /\ pc[t] = "create" /\ pc'[t] = "copy" /\ result[t] # "ok" /\ UNCHANGED <<sent, result>>
          /\ sent \in [Transfers -> 0..Chunks]
          /\ \A u \in Transfers \ {t} : pc'[u] = pc[u]
      BY <1>6 DEF Create, Go, RowsInv
    <2>2. /\ files'[x] = "new" /\ owner'[x] = t /\ t \in holders'[x]
          /\ \A i \in 1..Chunks : pieces'[x][i] = NoTransfer
      BY <1>1, <1>6 DEF Create, Truncate
    <2>3. ASSUME NEW y \in Targets, y # x
          PROVE  /\ files'[y] = files[y] /\ owner'[y] = owner[y]
                 /\ holders'[y] = holders[y] /\ pieces'[y] = pieces[y]
      BY <1>6, <2>3 DEF Create, Truncate
    <2>4. ASSUME NEW u \in Transfers \ {t}, Written(u, plan[u].target) PROVE Written(u, plan[u].target)'
      BY <1>1, <2>1, <2>2, <2>3, <2>4 DEF Written
    <2>5. Written(t, x)'
      <3>1. sent[t] = 0
        BY <2>1 DEF WholeInv
      <3> QED BY <1>1, <2>1, <2>2, <3>1 DEF Written
    <2>6. ASSUME NEW y \in Targets, NEW i \in 1..Chunks
          PROVE  pieces'[y][i] \in holders'[y] \cup {NoTransfer}
      <3>1. CASE y = x
        BY <2>2, <3>1
      <3>2. CASE y # x
        BY <2>3, <3>2 DEF WholeInv
      <3> QED BY <3>1, <3>2
    <2>7. ASSUME NEW u \in Transfers
          PROVE  /\ pc'[u] \in {"check", "allow", "create"} => sent'[u] = 0
                 /\ pc'[u] \in {"verify", "complete"} \/ result'[u] = "ok" => sent'[u] = Chunks
                 /\ pc'[u] \in {"copy", "verify", "complete"} \/ result'[u] = "ok"
                      => Written(u, plan[u].target)'
      <3>1. CASE u = t
        BY <2>1, <2>5, <3>1
      <3>2. CASE u # t
        BY <2>1, <2>4, <3>2 DEF WholeInv
      <3> QED BY <3>1, <3>2
    <2> QED BY <2>6, <2>7 DEF WholeInv
  <1>7. CASE CopyChunk(t)
    <2> DEFINE x == plan[t].target
    <2>1. /\ pc[t] = "copy" /\ result[t] # "ok" /\ sent[t] < Chunks
          /\ UNCHANGED <<files, holders, owner, pc, result>>
          /\ sent' = [sent EXCEPT ![t] = sent[t] + 1]
      BY <1>7 DEF CopyChunk, RowsInv
    <2>2. ASSUME NEW y \in Targets, NEW i \in 1..Chunks
          PROVE  \/ pieces'[y][i] = pieces[y][i]
                 \/ pieces'[y][i] = t /\ t \in holders[y]
      BY <1>7 DEF CopyChunk
    <2>3. sent[t] + 1 \in 1..Chunks /\ (t \in holders[x] => pieces'[x][sent[t] + 1] = t)
      BY <1>1, <1>7, <2>1 DEF CopyChunk
    <2>4. ASSUME NEW u \in Transfers \ {t}, Written(u, plan[u].target) PROVE Written(u, plan[u].target)'
      <3>1. sent'[u] = sent[u] /\ sent[u] \in 0..Chunks /\ plan[u].target \in Targets
        BY <1>1, <2>1
      <3>2. \A i \in 1..sent[u] : i \in 1..Chunks
        BY <3>1
      <3> QED BY <1>1, <2>1, <2>2, <2>4, <3>1, <3>2, ZenonT(40) DEF Written
    <2>5. Written(t, plan[t].target)'
      <3>1. Written(t, x)
        BY <2>1 DEF WholeInv
      <3>2. sent'[t] = sent[t] + 1 /\ sent[t] \in 0..Chunks
        BY <2>1
      <3>3. ASSUME owner[x] = t, NEW i \in 1..sent'[t] PROVE pieces'[x][i] # NoTransfer
        <4>1. CASE i = sent[t] + 1
          BY <2>3, <3>1, <3>3, <4>1 DEF Written
        <4>2. CASE i \in 1..sent[t]
          <5>1. i \in 1..Chunks /\ pieces[x][i] # NoTransfer /\ t # NoTransfer
            BY <3>1, <3>2, <3>3, <4>2 DEF Written
          <5> QED BY <1>1, <2>2, <5>1
        <4> QED BY <3>2, <3>3, <4>1, <4>2
      <3>4. plan'[t].target = x /\ owner'[x] = owner[x] /\ holders'[x] = holders[x] /\ files'[x] = files[x]
        BY <1>1, <2>1
      <3>5. owner[x] = t => /\ files[x] = "new" /\ t \in holders[x]
                            /\ \A i \in 1..sent'[t] : pieces'[x][i] # NoTransfer
        BY <3>1, <3>3 DEF Written
      <3>6. owner[x] # NoTransfer
        BY <3>1 DEF Written
      <3> QED BY <3>4, <3>5, <3>6 DEF Written
    <2>6. \A y \in Targets : \A i \in 1..Chunks : pieces'[y][i] \in holders'[y] \cup {NoTransfer}
      <3>1. \A y \in Targets : \A i \in 1..Chunks : pieces[y][i] \in holders[y] \cup {NoTransfer}
        BY DEF WholeInv
      <3>2. holders' = holders
        BY <2>1
      <3> HIDE DEF EngineIInv, EngineTypeOK
      <3> QED BY <2>2, <3>1, <3>2
    <2>7. ASSUME NEW u \in Transfers
          PROVE  /\ pc'[u] \in {"check", "allow", "create"} => sent'[u] = 0
                 /\ pc'[u] \in {"verify", "complete"} \/ result'[u] = "ok" => sent'[u] = Chunks
                 /\ pc'[u] \in {"copy", "verify", "complete"} \/ result'[u] = "ok" =>
                      Written(u, plan[u].target)'
      <3>1. CASE u = t
        BY <2>1, <2>5, <3>1
      <3>2. CASE u # t
        BY <2>1, <2>4, <3>2 DEF WholeInv
      <3> QED BY <3>1, <3>2
    <2> QED BY <2>6, <2>7 DEF WholeInv
  <1>8. CASE CompleteTransfer(t)
    BY <1>2, <1>8 DEF CompleteTransfer, Go, WholeInv
  <1>9. CASE FailTransfer(t)
    <2> DEFINE x == plan[t].target
    <2>1. /\ pc[t] = "fail" /\ pc'[t] = "answered" /\ result'[t] # "ok" /\ UNCHANGED sent
          /\ \A u \in Transfers \ {t} : pc'[u] = pc[u] /\ result'[u] = result[u]
      BY <1>9 DEF FailTransfer, Answer, Go
    <2>2. CASE UNCHANGED disk
      <3>1. ASSUME NEW u \in Transfers, NEW y PROVE Written(u, y)' <=> Written(u, y)
        BY <2>1, <2>2 DEF Written
      <3> QED BY <1>1, <2>1, <2>2, <3>1 DEF WholeInv
    <2>3. CASE Remove(t)
      <3>1. owner'[x] = t /\ \A i \in 1..Chunks : pieces'[x][i] = NoTransfer
        BY <1>1, <2>3 DEF Remove
      <3>2. ASSUME NEW y \in Targets, y # x
            PROVE  /\ files'[y] = files[y] /\ owner'[y] = owner[y]
                   /\ holders'[y] = holders[y] /\ pieces'[y] = pieces[y]
        BY <2>3, <3>2 DEF Remove
      <3>3. ASSUME NEW u \in Transfers \ {t}, Written(u, plan[u].target) PROVE Written(u, plan[u].target)'
        BY <1>1, <2>1, <3>1, <3>2, <3>3 DEF Written
      <3> QED BY <1>1, <2>1, <3>1, <3>2, <3>3 DEF WholeInv
    <2> QED BY <1>9, <2>2, <2>3 DEF FailTransfer, Cleanup
  <1> QED BY <1>3, <1>4, <1>5, <1>6, <1>7, <1>8, <1>9 DEF Work, BeginTransfer, Create

LEMMA WholeStep == EngineIInv /\ WholeInv /\ [EngineNext]_engineVars => WholeInv'
  <1> SUFFICES ASSUME EngineIInv, WholeInv, [EngineNext]_engineVars PROVE WholeInv'
    OBVIOUS
  <1> USE TransferAssumption DEF EngineIInv, EngineTypeOK, registries, disk, history
  <1>1. ASSUME NEW t \in Transfers, Work(t) PROVE WholeInv'
    BY <1>1, WholeWork
  <1>2. ASSUME UNCHANGED <<plan, disk, sent, result>>,
               \A u \in Transfers : pc'[u] \in {"check", "allow", "create", "copy", "verify", "complete"} =>
                 pc'[u] = pc[u]
        PROVE  WholeInv'
    <2>1. ASSUME NEW u \in Transfers, NEW x PROVE Written(u, x)' <=> Written(u, x)
      BY <1>2 DEF Written
    <2> QED BY <1>2, <2>1 DEF WholeInv
  <1>3. ASSUME NEW t \in Transfers, UNCHANGED plan, Start(t) PROVE WholeInv'
    BY <1>2, <1>3 DEF Start, Go
  <1>4. ASSUME NEW t \in Transfers, UNCHANGED plan, RetryTransfer(t) PROVE WholeInv'
    BY <1>2, <1>4 DEF RetryTransfer, Go
  <1>5. ASSUME NEW id \in Transfers \cup Batches, UNCHANGED plan, CancelTransfer(id) PROVE WholeInv'
    BY <1>2, <1>5 DEF CancelTransfer
  <1>6. ASSUME UNCHANGED plan, LinkChanges PROVE WholeInv'
    BY <1>2, <1>6 DEF LinkChanges
  <1>7. CASE UNCHANGED engineVars
    BY <1>2, <1>7 DEF engineVars
  <1> QED BY <1>1, <1>3, <1>4, <1>5, <1>6, <1>7 DEF EngineNext, Surroundings

(* What a command has answered is so, whatever transfers run beside it on  *)
(* whichever targets: its row has ended and agrees, and behind a success   *)
(* is a file with every piece written by itself or by one that was still   *)
(* copying into the file, until another creates or removes the target      *)
(* (transfer/upload.rs, transfer/download.rs).                             *)
THEOREM AnswersTellTheTruth == EngineSpec => []AnswersAreTrue
  <1>1. EngineInit => EngineIInv /\ WholeInv
    BY InitEngineIInv
  <1>2. EngineIInv /\ WholeInv /\ [EngineNext]_engineVars => (EngineIInv /\ WholeInv)'
    BY IInvStep, WholeStep
  <1>3. ASSUME EngineIInv, WholeInv PROVE CompletedIsWhole
    <2> SUFFICES ASSUME NEW t \in Transfers, result[t] = "ok"
                 PROVE  /\ owner[plan[t].target] # NoTransfer
                        /\ owner[plan[t].target] = t =>
                             /\ files[plan[t].target] = "new"
                             /\ \A i \in 1..Chunks :
                                  pieces[plan[t].target][i] \in holders[plan[t].target]
      BY DEF CompletedIsWhole
    <2>1. plan[t].target \in Targets
      BY <1>3, JobFacts DEF EngineIInv
    <2> QED BY <1>3, <2>1 DEF WholeInv, Written
  <1>4. EngineIInv /\ WholeInv => AnswersAreTrue
    BY <1>3 DEF EngineIInv, RowsInv, AnswersAreTrue, AnsweredRowIsFinal
  <1> QED BY <1>1, <1>2, <1>4, PTL DEF EngineSpec

-----------------------------------------------------------------------------
(***************************************************************************)
(* The rows of a batch in the windows.                                     *)
(***************************************************************************)

AllDone == \A c \in Children : at[c] = "completed"

(* A set of rows that does not show success too early.                     *)
Honest(rows) ==
  /\ \A c \in Children : rows[c] = "completed" => at[c] = "completed"
  /\ rows[Batch] = "completed" => AllDone

(* Only a child that has been retried is in the state "retry".             *)
Tried(rows) ==
  /\ rows[Batch] # "retry"
  /\ \A c \in Children : rows[c] = "retry" => tries[c] > 0

EngineInv ==
  /\ \A c \in Children : by[c] = Main /\ (at[c] \in {"queued", "running"} \/ c \in owed) => turn = c
  /\ \A c \in Children : by[c] # Main => tries[c] > 0
  /\ \A c \in owed : at[c] \in {"error", "canceled"}
  /\ turn = 0 => \A c \in Children : at[c] = "idle" /\ by[c] = Main

(* No window has heard of success too early, nor of a retry that was not.  *)
HonestInv ==
  /\ Honest(snapshot) /\ Tried(snapshot)
  /\ \A w \in Windows :
       /\ Honest(items[w]) /\ Tried(items[w])
       /\ Honest(pending[w]) /\ Tried(pending[w])
       /\ \A c \in Children : known[w][c] = "completed" => at[c] = "completed"
       /\ parent[w] = "completed" => AllDone
       /\ parent[w] # "retry"
       /\ \A i \in 1 .. Len(inbox[w]) :
            /\ inbox[w][i][2] = "completed" => at[inbox[w][i][1]] = "completed"
            /\ inbox[w][i][2] = "retry" => tries[inbox[w][i][1]] > 0

(* The success of a child is the last the main window hears of it.         *)
OrderInv ==
  /\ \A i, j \in 1 .. Len(inbox[Main]) :
       i < j /\ inbox[Main][i][2] = "completed" => inbox[Main][j][1] # inbox[Main][i][1]
  /\ \A c \in Children : known[Main][c] = "completed" =>
       \A i \in 1 .. Len(inbox[Main]) : inbox[Main][i][1] # c

(* It does hear of it.                                                     *)
HeardInv ==
  \A c \in Children : at[c] = "completed" =>
    \/ known[Main][c] = "completed"
    \/ \E i \in 1 .. Len(inbox[Main]) : inbox[Main][i] = <<c, "completed">>

AllKnown == \A c \in Children : known[Main][c] = "completed"

(* The end of a batch in the snapshot is also in the rows that may replace *)
(* the snapshot.                                                           *)
Held == \A w \in Subs : Open(w) => items[w][Batch] \in Ended

SnapshotInv == snapshot[Batch] \in Ended => items[Main][Batch] \in Ended \/ Held

(* The end of the batch waits for the frame, or is recorded.               *)
RecordInv ==
  AllKnown =>
    /\ pending[Main] # NoRows => pending[Main][Batch] \in Ended
    /\ pending[Main] = NoRows => items[Main][Batch] \in Ended \/ (snapshot[Batch] \in Ended /\ Held)

IInv == TypeOK /\ EngineInv /\ HonestInv /\ OrderInv /\ HeardInv /\ SnapshotInv /\ RecordInv

-----------------------------------------------------------------------------
(* Merging and aggregating.                                                *)

LEMMA MergeFacts ==
  ASSUME NEW old \in Slots, NEW new \in Slots
  PROVE  /\ Merge(old, new) \in {old, new}
         /\ new \in Ended => Merge(old, new) \in Ended
         /\ old \in Ended /\ new # "retry" => Merge(old, new) \in Ended
         /\ Rank(Merge(old, new)) < Rank(old) => new = "retry" /\ Merge(old, new) = "retry"
  BY DEF Merge, Rank, Slots, States, Ended

LEMMA AggregateFacts ==
  ASSUME NEW kids \in [Children -> Slots], NEW was \in Slots
  PROVE  /\ Aggregate(kids, was) \in States \ {"retry"}
         /\ Aggregate(kids, was) = "completed" <=> \A c \in Children : kids[c] = "completed"
  <1> DEFINE states == {kids[c] : c \in Children} \ {"none"}
  <1>1. PICK s : s = states
    OBVIOUS
  <1>2. Aggregate(kids, was) =
          CASE "error" \in s -> "error"
            [] "canceled" \in s -> "canceled"
            [] \A c \in Children : kids[c] = "completed" -> "completed"
            [] s \subseteq {"queued", "retry"} /\ was \notin {"running", "completed"} -> "queued"
            [] OTHER -> "running"
    BY <1>1 DEF Aggregate
  <1>3. 1 \in Children
    BY WindowAssumption DEF Children
  <1>4. (\A c \in Children : kids[c] = "completed") => s = {"completed"}
    BY <1>1, <1>3
  <1>5. Aggregate(kids, was) \in States \ {"retry"}
    BY <1>2 DEF States
  <1>6. (\A c \in Children : kids[c] = "completed") => Aggregate(kids, was) = "completed"
    BY <1>2, <1>4
  <1>7. Aggregate(kids, was) = "completed" => \A c \in Children : kids[c] = "completed"
    BY <1>2
  <1> QED BY <1>5, <1>6, <1>7

(* Merging honest rows gives honest rows.                                  *)
LEMMA MergedRows ==
  ASSUME NEW old \in [Rows -> Slots], NEW new \in [Rows -> Slots],
         Honest(old), Honest(new), Tried(old), Tried(new)
  PROVE  /\ MergeRows(old, new) \in [Rows -> Slots]
         /\ Honest(MergeRows(old, new)) /\ Tried(MergeRows(old, new))
         /\ new[Batch] \in Ended \/ old[Batch] \in Ended => MergeRows(old, new)[Batch] \in Ended
  <1>1. \A r \in Rows : /\ MergeRows(old, new)[r] = Merge(old[r], new[r])
                        /\ Merge(old[r], new[r]) \in {old[r], new[r]}
    BY MergeFacts DEF MergeRows
  <1>2. \A r \in Rows : MergeRows(old, new)[r] \in {old[r], new[r]}
    BY <1>1
  <1>3. MergeRows(old, new) \in [Rows -> Slots]
    BY <1>2 DEF MergeRows
  <1>4. Batch \in Rows /\ Children \subseteq Rows
    BY DEF Rows
  <1>5. Honest(MergeRows(old, new))
    BY <1>2, <1>4 DEF Honest
  <1>6. Tried(MergeRows(old, new))
    BY <1>2, <1>4 DEF Tried
  <1>7. new[Batch] \in Ended \/ old[Batch] \in Ended => Merge(old[Batch], new[Batch]) \in Ended
    BY <1>4, MergeFacts DEF Tried
  <1> QED BY <1>1, <1>3, <1>4, <1>5, <1>6, <1>7

-----------------------------------------------------------------------------
(* Nothing has been sent in the beginning.                                 *)

LEMMA InitIInv == Init => IInv
  <1> SUFFICES ASSUME Init PROVE IInv
    OBVIOUS
  <1>1. /\ 1 \in Children /\ Children \subseteq Rows /\ Batch \in Rows /\ Main \in Windows
        /\ N \in Nat /\ 0 \in 0 .. (N + 1) /\ 0 \in 0 .. MaxRetries /\ 0 \notin Children
    BY WindowAssumption DEF Children, Rows, Batch, Windows
  <1>2. NoRows \in [Rows -> Slots] /\ \A r \in Rows : NoRows[r] = "none"
    BY DEF NoRows, Slots
  <1>3. /\ \A w \in Windows : inbox[w] = <<>> /\ Len(inbox[w]) = 0
        /\ inbox \in [Windows -> Seq(Children \X States)]
    BY DEF Init
  <1>4. TypeOK
    BY <1>1, <1>2, <1>3 DEF Init, TypeOK, Slots, NoneKnown
  <1>5. EngineInv
    BY <1>1 DEF Init, EngineInv
  <1>6. Honest(NoRows) /\ Tried(NoRows)
    BY <1>1, <1>2 DEF Honest, Tried
  <1>7. HonestInv
    BY <1>3, <1>6 DEF Init, HonestInv, NoneKnown
  <1>8. OrderInv
    BY <1>1, <1>3 DEF Init, OrderInv, NoneKnown
  <1>9. HeardInv
    BY DEF Init, HeardInv
  <1>10. SnapshotInv
    BY <1>1, <1>2 DEF Init, SnapshotInv, Ended
  <1>11. RecordInv
    BY <1>1 DEF Init, RecordInv, AllKnown, NoneKnown
  <1> QED BY <1>4, <1>5, <1>7, <1>8, <1>9, <1>10, <1>11 DEF IInv

-----------------------------------------------------------------------------
(* The backend.                                                            *)

LEMMA BroadcastFacts ==
  ASSUME TypeOK, NEW c \in Children, NEW states \in Seq(States), Broadcast(c, states)
  PROVE  /\ inbox' \in [Windows -> Seq(Children \X States)]
         /\ \A w \in Windows :
              /\ inbox'[w] \in Seq(Children \X States)
              /\ Len(inbox[w]) \in Nat /\ Len(inbox'[w]) \in Nat
              /\ \A i \in 1 .. Len(inbox'[w]) :
                   \/ i \in 1 .. Len(inbox[w]) /\ inbox'[w][i] = inbox[w][i]
                   \/ \E j \in 1 .. Len(states) : i = Len(inbox[w]) + j /\ inbox'[w][i] = <<c, states[j]>>
         /\ Len(inbox'[Main]) = Len(inbox[Main]) + Len(states)
         /\ \A i \in 1 .. Len(inbox[Main]) : inbox'[Main][i] = inbox[Main][i]
         /\ \A j \in 1 .. Len(states), i \in Nat : i = Len(inbox[Main]) + j => inbox'[Main][i] = <<c, states[j]>>
  <1>1. PICK more : more = [i \in DOMAIN states |-> <<c, states[i]>>]
    OBVIOUS
  <1>2. Len(states) \in Nat /\ DOMAIN states = 1 .. Len(states) /\ \A i \in 1 .. Len(states) : states[i] \in States
    BY LenProperties
  <1>3. more = [i \in 1 .. Len(states) |-> <<c, states[i]>>]
    BY <1>1, <1>2
  <1>4. more \in Seq(Children \X States) /\ Len(more) = Len(states) /\ \A j \in 1 .. Len(states) : more[j] = <<c, states[j]>>
    BY <1>2, <1>3
  <1>5. inbox' = [w \in Windows |-> IF Hears(w) THEN inbox[w] \o more ELSE inbox[w]]
    BY <1>1 DEF Broadcast
  <1>6. \A w \in Windows : inbox[w] \in Seq(Children \X States) /\ Len(inbox[w]) \in Nat
    BY LenProperties DEF TypeOK
  <1>7. \A w \in Windows :
          /\ inbox[w] \o more \in Seq(Children \X States)
          /\ Len(inbox[w] \o more) = Len(inbox[w]) + Len(states)
          /\ \A i \in 1 .. Len(inbox[w]) + Len(states) :
               (inbox[w] \o more)[i] = IF i <= Len(inbox[w]) THEN inbox[w][i] ELSE more[i - Len(inbox[w])]
    <2> SUFFICES ASSUME NEW b \in Seq(Children \X States)
                 PROVE  /\ b \o more \in Seq(Children \X States)
                        /\ Len(b \o more) = Len(b) + Len(states)
                        /\ \A i \in 1 .. Len(b) + Len(states) :
                             (b \o more)[i] = IF i <= Len(b) THEN b[i] ELSE more[i - Len(b)]
      BY <1>6
    <2>1. more \in Seq(Children \X States) /\ Len(more) = Len(states)
      BY <1>4
    <2>2. /\ b \o more \in Seq(Children \X States)
          /\ Len(b \o more) = Len(b) + Len(more)
          /\ \A i \in 1 .. Len(b) + Len(more) :
               (b \o more)[i] = IF i <= Len(b) THEN b[i] ELSE more[i - Len(b)]
      BY <2>1, ConcatProperties
    <2> QED BY <2>1, <2>2
  <1>8. ASSUME NEW w \in Windows
        PROVE  /\ inbox'[w] \in Seq(Children \X States)
               /\ Len(inbox[w]) \in Nat /\ Len(inbox'[w]) \in Nat
               /\ \A i \in 1 .. Len(inbox'[w]) :
                    \/ i \in 1 .. Len(inbox[w]) /\ inbox'[w][i] = inbox[w][i]
                    \/ \E j \in 1 .. Len(states) : i = Len(inbox[w]) + j /\ inbox'[w][i] = <<c, states[j]>>
    <2>1. CASE ~ Hears(w)
      BY <1>5, <1>6, <2>1
    <2>2. CASE Hears(w)
      <3>1. inbox'[w] = inbox[w] \o more
        BY <1>5, <2>2
      <3>2. PICK q : q = inbox[w] \o more
        OBVIOUS
      <3>3. /\ inbox'[w] = q /\ q \in Seq(Children \X States) /\ Len(q) = Len(inbox[w]) + Len(states)
            /\ \A i \in 1 .. Len(inbox[w]) + Len(states) :
                 q[i] = IF i <= Len(inbox[w]) THEN inbox[w][i] ELSE more[i - Len(inbox[w])]
        BY <1>7, <3>1, <3>2
      <3>4. Len(inbox[w]) \in Nat
        BY <1>6
      <3>5. ASSUME NEW i \in 1 .. Len(q), ~ (i <= Len(inbox[w]))
            PROVE  \E j \in 1 .. Len(states) : i = Len(inbox[w]) + j /\ q[i] = <<c, states[j]>>
        <4>1. i - Len(inbox[w]) \in 1 .. Len(states) /\ i = Len(inbox[w]) + (i - Len(inbox[w]))
          BY <1>2, <3>3, <3>4, <3>5
        <4>2. q[i] = <<c, states[i - Len(inbox[w])]>>
          BY <1>4, <3>3, <3>5, <4>1
        <4> QED BY <4>1, <4>2
      <3>6. \A i \in 1 .. Len(q) : i <= Len(inbox[w]) => i \in 1 .. Len(inbox[w]) /\ q[i] = inbox[w][i]
        BY <1>2, <3>3, <3>4
      <3>7. Len(q) \in Nat
        BY <1>2, <3>3, <3>4
      <3>8. \A i \in 1 .. Len(q) :
              \/ i \in 1 .. Len(inbox[w]) /\ q[i] = inbox[w][i]
              \/ \E j \in 1 .. Len(states) : i = Len(inbox[w]) + j /\ q[i] = <<c, states[j]>>
        BY <3>5, <3>6
      <3> QED BY <3>3, <3>4, <3>7, <3>8
    <2> QED BY <2>1, <2>2
  <1>9. PICK q : q = inbox[Main] \o more
    OBVIOUS
  <1>10. Main \in Windows /\ inbox'[Main] = q
    BY <1>5, <1>9 DEF Windows, Hears
  <1>11. /\ Len(q) = Len(inbox[Main]) + Len(states) /\ Len(inbox[Main]) \in Nat
         /\ \A i \in 1 .. Len(inbox[Main]) + Len(states) :
              q[i] = IF i <= Len(inbox[Main]) THEN inbox[Main][i] ELSE more[i - Len(inbox[Main])]
    BY <1>6, <1>7, <1>9, <1>10
  <1>12. \A i \in 1 .. Len(inbox[Main]) : inbox'[Main][i] = inbox[Main][i]
    BY <1>2, <1>10, <1>11
  <1>13. ASSUME NEW j \in 1 .. Len(states), NEW i \in Nat, i = Len(inbox[Main]) + j
         PROVE  inbox'[Main][i] = <<c, states[j]>>
    <2>1. /\ i \in 1 .. Len(inbox[Main]) + Len(states)
          /\ ~ (i <= Len(inbox[Main]))
          /\ i - Len(inbox[Main]) = j
      BY <1>2, <1>11, <1>13
    <2> QED BY <1>4, <1>10, <1>11, <2>1
  <1>14. inbox' \in [Windows -> Seq(Children \X States)]
    BY <1>5, <1>8
  <1> QED BY <1>8, <1>10, <1>11, <1>12, <1>13, <1>14

(* A step of the backend about one child that had not completed.           *)
LEMMA EngineStep ==
  ASSUME IInv, NEW c \in Children, NEW s, at[c] # "completed", at' = [at EXCEPT ![c] = s],
         NEW states \in Seq(States), Broadcast(c, states),
         \A j \in 1 .. Len(states) : states[j] = "completed" => s = "completed" /\ Len(states) = 1,
         s = "completed" => states = <<"completed">>,
         \A j \in 1 .. Len(states) : states[j] = "retry" => tries[c] > 0,
         UNCHANGED <<tries, snapshot, items, pending, known, parent, phase>>
  PROVE  HonestInv' /\ OrderInv' /\ HeardInv' /\ SnapshotInv' /\ RecordInv'
  <1> USE DEF IInv
  <1>1. ~ AllDone
    BY DEF AllDone
  <1>2. \A d \in Children : at[d] = "completed" => at'[d] = "completed"
    BY DEF TypeOK
  <1>3. /\ \A rows : Honest(rows) => /\ \A d \in Children : rows[d] = "completed" => at'[d] = "completed"
                                     /\ rows[Batch] # "completed"
        /\ \A w \in Windows : parent[w] # "completed"
    BY <1>1, <1>2 DEF Honest, HonestInv
  <1>4. /\ \A w \in Windows :
              /\ inbox'[w] \in Seq(Children \X States)
              /\ Len(inbox[w]) \in Nat /\ Len(inbox'[w]) \in Nat
              /\ \A i \in 1 .. Len(inbox'[w]) :
                   \/ i \in 1 .. Len(inbox[w]) /\ inbox'[w][i] = inbox[w][i]
                   \/ \E j \in 1 .. Len(states) : i = Len(inbox[w]) + j /\ inbox'[w][i] = <<c, states[j]>>
         /\ Len(inbox'[Main]) = Len(inbox[Main]) + Len(states)
         /\ \A i \in 1 .. Len(inbox[Main]) : inbox'[Main][i] = inbox[Main][i]
         /\ \A j \in 1 .. Len(states), k \in Nat : k = Len(inbox[Main]) + j => inbox'[Main][k] = <<c, states[j]>>
    BY BroadcastFacts
  <1>5. Len(states) \in Nat /\ Main \in Windows /\ at'[c] = s
    BY LenProperties DEF Windows, TypeOK
  <1>6. \A w \in Windows : \A i \in 1 .. Len(inbox[w]) : inbox[w][i][1] \in Children
    BY ElementOfSeq DEF TypeOK
  <1>7. HonestInv'
    <2>1. \A rows : Honest(rows) => Honest(rows)'
      BY <1>3 DEF Honest
    <2>2. \A rows : Tried(rows) <=> Tried(rows)'
      BY DEF Tried
    <2>3. Honest(snapshot)' /\ Tried(snapshot)'
      BY <1>3 DEF HonestInv, Honest, Tried
    <2>4. ASSUME NEW w \in Windows
          PROVE  /\ Honest(items[w])' /\ Tried(items[w])'
                 /\ Honest(pending[w])' /\ Tried(pending[w])'
      BY <1>3 DEF HonestInv, Honest, Tried
    <2>5. ASSUME NEW w \in Windows
          PROVE  /\ \A d \in Children : known'[w][d] = "completed" => at'[d] = "completed"
                 /\ parent'[w] # "completed" /\ parent'[w] # "retry"
      BY <1>2, <1>3 DEF HonestInv
    <2>6. ASSUME NEW w \in Windows, NEW i \in 1 .. Len(inbox'[w])
          PROVE  /\ inbox'[w][i][2] = "completed" => at'[inbox'[w][i][1]] = "completed"
                 /\ inbox'[w][i][2] = "retry" => tries'[inbox'[w][i][1]] > 0
      <3>1. CASE i \in 1 .. Len(inbox[w]) /\ inbox'[w][i] = inbox[w][i]
        BY <1>2, <1>6, <3>1 DEF HonestInv
      <3>2. CASE \E j \in 1 .. Len(states) : inbox'[w][i] = <<c, states[j]>>
        BY <1>5, <3>2
      <3> QED BY <1>4, <3>1, <3>2
    <2> QED BY <2>3, <2>4, <2>5, <2>6 DEF HonestInv
  <1>8. OrderInv'
    <2>1. PICK b, q : b = inbox[Main] /\ q = inbox'[Main]
      OBVIOUS
    <2>2. /\ Len(b) \in Nat /\ Len(q) = Len(b) + Len(states)
          /\ \A i \in 1 .. Len(b) : q[i] = b[i] /\ b[i][1] \in Children
          /\ \A j \in 1 .. Len(states), i \in Nat : i = Len(b) + j => q[i] = <<c, states[j]>>
      <3>1. Len(b) \in Nat /\ Len(q) = Len(b) + Len(states)
        BY <1>4, <1>5, <2>1
      <3>2. \A i \in 1 .. Len(b) : q[i] = b[i] /\ b[i][1] \in Children
        BY <1>4, <1>5, <1>6, <2>1
      <3>3. \A j \in 1 .. Len(states), i \in Nat : i = Len(b) + j => q[i] = <<c, states[j]>>
        <4>1. \A j \in 1 .. Len(states), i \in Nat : i = Len(inbox[Main]) + j => inbox'[Main][i] = <<c, states[j]>>
          BY BroadcastFacts
        <4> QED BY <2>1, <4>1
      <3> QED BY <3>1, <3>2, <3>3
    <2>3. \A i \in 1 .. Len(q) : i \in 1 .. Len(b) \/ \E j \in 1 .. Len(states) : i = Len(b) + j
      <3> SUFFICES ASSUME NEW i \in 1 .. Len(q), i \notin 1 .. Len(b)
                   PROVE  \E j \in 1 .. Len(states) : i = Len(b) + j
        OBVIOUS
      <3>1. i - Len(b) \in 1 .. Len(states) /\ i = Len(b) + (i - Len(b))
        BY <1>5, <2>2
      <3> QED BY <3>1
    <2>4. /\ \A i, j \in 1 .. Len(b) : i < j /\ b[i][2] = "completed" => b[j][1] # b[i][1]
          /\ \A i \in 1 .. Len(b) : b[i][2] = "completed" => b[i][1] # c
      <3>1. \A i \in 1 .. Len(b) : b[i][2] = "completed" => at[b[i][1]] = "completed"
        BY <1>5, <2>1 DEF HonestInv
      <3>2. \A i, j \in 1 .. Len(b) : i < j /\ b[i][2] = "completed" => b[j][1] # b[i][1]
        BY <2>1 DEF OrderInv
      <3> QED BY <3>1, <3>2
    <2>5. ASSUME NEW i \in 1 .. Len(q), NEW j \in 1 .. Len(q), i < j, q[i][2] = "completed"
          PROVE  q[j][1] # q[i][1]
      <3>1. CASE i \in 1 .. Len(b) /\ j \in 1 .. Len(b)
        BY <2>2, <2>4, <2>5, <3>1
      <3>2. CASE i \in 1 .. Len(b) /\ j \notin 1 .. Len(b)
        <4>1. q[j][1] = c
          BY <2>2, <2>3, <3>2
        <4>2. q[i][1] # c
          BY <2>2, <2>4, <2>5, <3>2
        <4> QED BY <4>1, <4>2
      <3>3. CASE i \notin 1 .. Len(b)
        <4>1. PICK k \in 1 .. Len(states) : i = Len(b) + k
          BY <2>3, <3>3
        <4>2. states[k] = "completed"
          BY <2>2, <2>5, <4>1
        <4>3. Len(states) = 1
          BY <4>2
        <4> QED BY <2>2, <2>5, <4>1, <4>3
      <3> QED BY <3>1, <3>2, <3>3
    <2>6. ASSUME NEW d \in Children, known'[Main][d] = "completed", NEW i \in 1 .. Len(q)
          PROVE  q[i][1] # d
      <3>1. at[d] = "completed" /\ d # c
        BY <1>5, <2>6 DEF HonestInv
      <3>2. \A k \in 1 .. Len(b) : b[k][1] # d
        BY <2>1, <2>6 DEF OrderInv
      <3>3. CASE i \in 1 .. Len(b)
        BY <2>2, <3>2, <3>3
      <3>4. CASE i \notin 1 .. Len(b)
        <4>1. q[i][1] = c
          BY <2>2, <2>3, <3>4
        <4> QED BY <3>1, <4>1
      <3> QED BY <3>3, <3>4
    <2>7. /\ \A i, j \in 1 .. Len(q) : i < j /\ q[i][2] = "completed" => q[j][1] # q[i][1]
          /\ \A d \in Children : known'[Main][d] = "completed" => \A i \in 1 .. Len(q) : q[i][1] # d
      BY <2>5, <2>6
    <2> QED BY <2>1, <2>7 DEF OrderInv
  <1>9. HeardInv'
    <2> SUFFICES ASSUME NEW d \in Children, at'[d] = "completed"
                 PROVE  \/ known'[Main][d] = "completed"
                        \/ \E i \in 1 .. Len(inbox'[Main]) : inbox'[Main][i] = <<d, "completed">>
      BY DEF HeardInv
    <2>1. CASE d = c
      <3>1. states = <<"completed">>
        BY <1>5, <2>1
      <3>2. Len(states) = 1 /\ states[1] = "completed"
        BY <3>1
      <3>3. Len(inbox[Main]) + 1 \in 1 .. Len(inbox'[Main])
        BY <1>4, <1>5, <3>2
      <3>4. inbox'[Main][Len(inbox[Main]) + 1] = <<c, "completed">>
        BY <1>4, <1>5, <3>2
      <3> QED BY <2>1, <3>3, <3>4
    <2>2. CASE d # c
      <3>1. at[d] = "completed"
        BY <2>2 DEF TypeOK
      <3>2. CASE known[Main][d] = "completed"
        BY <3>2
      <3>3. CASE \E i \in 1 .. Len(inbox[Main]) : inbox[Main][i] = <<d, "completed">>
        <4>1. PICK i \in 1 .. Len(inbox[Main]) : inbox[Main][i] = <<d, "completed">>
          BY <3>3
        <4>2. i \in 1 .. Len(inbox'[Main]) /\ inbox'[Main][i] = <<d, "completed">>
          BY <1>4, <1>5, <4>1
        <4> QED BY <4>2
      <3> QED BY <3>1, <3>2, <3>3 DEF HeardInv
    <2> QED BY <2>1, <2>2
  <1>10. SnapshotInv'
    BY DEF SnapshotInv, Held, Open
  <1>11. RecordInv'
    BY DEF RecordInv, AllKnown, Held, Open
  <1> QED BY <1>7, <1>8, <1>9, <1>10, <1>11

LEMMA Frame ==
  /\ Main \in Windows /\ Subs \subseteq Windows /\ Main \notin Subs
  /\ Children \subseteq Rows /\ Batch \in Rows /\ Batch \notin Children
  /\ \A w \in Windows : w = Main \/ w \in Subs
  /\ \A v, w \in Subs : v = w
  /\ 1 \in Children /\ N \in Nat /\ "none" \notin Ended /\ Ended \subseteq Slots
  BY WindowAssumption DEF Windows, Rows, Batch, Children, Ended, Slots, States

LEMMA BeginIInv ==
  ASSUME IInv, NEW c \in Children, Begin(c)
  PROVE  IInv'
  <1> USE DEF IInv
  <1>0. PICK states : states = IF by[c] = Main THEN <<"queued">> ELSE <<"retry", "queued">>
    OBVIOUS
  <1>1. /\ at[c] = "idle" /\ (by[c] = Main => turn = c)
        /\ at' = [at EXCEPT ![c] = "queued"]
        /\ asked' = asked \ {c}
        /\ Broadcast(c, states)
        /\ UNCHANGED <<by, turn, owed, tries, snapshot, items, pending, known, parent, notice, phase>>
    BY <1>0 DEF Begin
  <1>2. /\ states \in Seq(States)
        /\ \A j \in 1 .. Len(states) : states[j] # "completed" /\ (states[j] = "retry" => by[c] # Main)
    <2>1. CASE by[c] = Main
      BY <1>0, <2>1 DEF States
    <2>2. CASE by[c] # Main
      BY <1>0, <2>2 DEF States
    <2> QED BY <2>1, <2>2
  <1>3. \A j \in 1 .. Len(states) : states[j] = "retry" => tries[c] > 0
    BY <1>2 DEF EngineInv
  <1>4. HonestInv' /\ OrderInv' /\ HeardInv' /\ SnapshotInv' /\ RecordInv'
    <2>1. at[c] # "completed" /\ \A j \in 1 .. Len(states) : states[j] # "completed"
      BY <1>1, <1>2
    <2>2. PICK s : s = "queued"
      OBVIOUS
    <2>3. /\ states \in Seq(States) /\ at' = [at EXCEPT ![c] = s] /\ Broadcast(c, states)
          /\ \A j \in 1 .. Len(states) : states[j] = "completed" => s = "completed" /\ Len(states) = 1
          /\ s = "completed" => states = <<"completed">>
      BY <1>1, <1>2, <2>1, <2>2
    <2>4. UNCHANGED <<tries, snapshot, items, pending, known, parent, phase>>
      BY <1>1
    <2> QED BY <1>3, <2>1, <2>3, <2>4, EngineStep
  <1>5. EngineInv'
    BY <1>1, Frame DEF EngineInv, TypeOK, Batch
  <1>6. TypeOK'
    <2>1. inbox' \in [Windows -> Seq(Children \X States)]
      BY <1>1, <1>2, BroadcastFacts
    <2> QED BY <1>1, <2>1 DEF TypeOK
  <1> QED BY <1>4, <1>5, <1>6

LEMMA RunIInv ==
  ASSUME IInv, NEW c \in Children, Run(c)
  PROVE  IInv'
  <1> USE DEF IInv
  <1>0. PICK states : states = <<"running">>
    OBVIOUS
  <1>1. /\ at[c] = "queued"
        /\ at' = [at EXCEPT ![c] = "running"]
        /\ Broadcast(c, states)
        /\ UNCHANGED <<by, turn, owed, asked, tries, snapshot, items, pending, known, parent, notice, phase>>
    BY <1>0 DEF Run
  <1>2. states \in Seq(States) /\ \A j \in 1 .. Len(states) : states[j] = "running"
    BY <1>0 DEF States
  <1>3. HonestInv' /\ OrderInv' /\ HeardInv' /\ SnapshotInv' /\ RecordInv'
    BY <1>1, <1>2, EngineStep
  <1>4. EngineInv'
    BY <1>1 DEF EngineInv, TypeOK
  <1>5. TypeOK'
    <2>1. inbox' \in [Windows -> Seq(Children \X States)]
      BY <1>1, <1>2, BroadcastFacts
    <2> QED BY <1>1, <2>1 DEF TypeOK
  <1> QED BY <1>3, <1>4, <1>5

LEMMA CompleteIInv ==
  ASSUME IInv, NEW c \in Children, Complete(c)
  PROVE  IInv'
  <1> USE DEF IInv
  <1>0. PICK states : states = <<"completed">>
    OBVIOUS
  <1>1. /\ at[c] = "running"
        /\ at' = [at EXCEPT ![c] = "completed"]
        /\ turn' = IF by[c] = Main THEN turn + 1 ELSE turn
        /\ asked' = asked \ {c}
        /\ Broadcast(c, states)
        /\ UNCHANGED <<by, owed, tries, snapshot, items, pending, known, parent, notice, phase>>
    BY <1>0 DEF Complete
  <1>2. states \in Seq(States) /\ Len(states) = 1 /\ \A j \in 1 .. Len(states) : states[j] = "completed"
    BY <1>0 DEF States
  <1>3. HonestInv' /\ OrderInv' /\ HeardInv' /\ SnapshotInv' /\ RecordInv'
    BY <1>0, <1>1, <1>2, EngineStep
  <1>4. turn \in Nat /\ (by[c] = Main => turn = c) /\ c \in 1 .. N /\ N \in Nat
    BY <1>1, Frame DEF EngineInv, TypeOK, Children
  <1>5. EngineInv'
    <2>1. ASSUME NEW d \in Children, by[d] = Main, at'[d] \in {"queued", "running"} \/ d \in owed
          PROVE  turn' = d
      <3>1. d # c
        BY <1>1, <2>1 DEF EngineInv, TypeOK
      <3>2. at'[d] = at[d]
        BY <1>1, <3>1 DEF TypeOK
      <3>3. turn = d
        BY <2>1, <3>2 DEF EngineInv
      <3>4. by[c] # Main
        BY <1>4, <3>1, <3>3
      <3> QED BY <1>1, <3>3, <3>4
    <2>2. \A d \in owed : at'[d] \in {"error", "canceled"}
      BY <1>1 DEF EngineInv, TypeOK
    <2>3. turn' # 0
      BY <1>1, <1>4 DEF EngineInv
    <2> QED BY <1>1, <2>1, <2>2, <2>3 DEF EngineInv
  <1>6. TypeOK'
    <2>1. inbox' \in [Windows -> Seq(Children \X States)]
      BY <1>1, <1>2, BroadcastFacts
    <2>2. turn' \in 0 .. (N + 1)
      BY <1>1, <1>4 DEF TypeOK
    <2> QED BY <1>1, <2>1, <2>2 DEF TypeOK, Ended
  <1> QED BY <1>3, <1>5, <1>6

LEMMA FailIInv ==
  ASSUME IInv, NEW c \in Children, NEW s \in {"error", "canceled"}, Fail(c, s)
  PROVE  IInv'
  <1> USE DEF IInv
  <1>0. PICK states : states = <<s>>
    OBVIOUS
  <1>1. /\ at[c] \in {"queued", "running"}
        /\ at' = [at EXCEPT ![c] = s]
        /\ owed' = owed \cup {c}
        /\ asked' \subseteq asked
        /\ UNCHANGED <<by, turn, tries, snapshot, items, pending, known, parent, notice, phase>>
        /\ Broadcast(c, states) \/ UNCHANGED inbox
    BY <1>0 DEF Fail
  <1>2. states \in Seq(States) /\ \A j \in 1 .. Len(states) : states[j] = s
    BY <1>0 DEF States
  <1>3. EngineInv'
    BY <1>1 DEF EngineInv, TypeOK
  <1>4. CASE Broadcast(c, states)
    <2>1. HonestInv' /\ OrderInv' /\ HeardInv' /\ SnapshotInv' /\ RecordInv'
      BY <1>1, <1>2, <1>4, EngineStep
    <2>2. inbox' \in [Windows -> Seq(Children \X States)]
      BY <1>2, <1>4, BroadcastFacts
    <2>3. TypeOK'
      BY <1>1, <2>2 DEF TypeOK, Ended
    <2> QED BY <1>3, <2>1, <2>3
  <1>5. CASE UNCHANGED inbox
    <2>1. ~ AllDone /\ \A d \in Children : at[d] = "completed" <=> at'[d] = "completed"
      BY <1>1 DEF AllDone, TypeOK
    <2>2. ~ AllDone'
      BY <2>1 DEF AllDone
    <2>3. Honest(snapshot)' /\ Tried(snapshot)'
      BY <1>1, <2>1 DEF HonestInv, Honest, Tried
    <2>4. ASSUME NEW w \in Windows
          PROVE  Honest(items[w])' /\ Tried(items[w])' /\ Honest(pending[w])' /\ Tried(pending[w])'
      BY <1>1, <2>1 DEF HonestInv, Honest, Tried
    <2>5. \A w \in Windows : \A i \in 1 .. Len(inbox[w]) : inbox[w][i][1] \in Children
      BY ElementOfSeq DEF TypeOK
    <2>6. HonestInv'
      BY <1>1, <1>5, <2>1, <2>3, <2>4, <2>5 DEF HonestInv
    <2>7. OrderInv' /\ SnapshotInv' /\ RecordInv'
      BY <1>1, <1>5 DEF OrderInv, SnapshotInv, RecordInv, AllKnown, Held, Open
    <2>8. HeardInv'
      BY <1>1, <1>5, <2>1 DEF HeardInv
    <2>9. TypeOK'
      BY <1>1, <1>5 DEF TypeOK, Ended
    <2> QED BY <1>3, <2>6, <2>7, <2>8, <2>9
  <1> QED BY <1>1, <1>4, <1>5

-----------------------------------------------------------------------------
(* The windows.                                                            *)

LEMMA TakeFacts ==
  ASSUME IInv, NEW w \in Windows, NEW c \in Children, NEW s \in States, Take(w, c, s),
         s = "completed" => at[c] = "completed", s = "retry" => tries[c] > 0
  PROVE  /\ known' \in [Windows -> [Children -> Slots]]
         /\ parent' \in [Windows -> Slots] /\ pending' \in [Windows -> [Rows -> Slots]]
         /\ \A v \in Windows \ {w} : known'[v] = known[v] /\ parent'[v] = parent[v] /\ pending'[v] = pending[v]
         /\ known'[w][c] = s /\ \A d \in Children \ {c} : known'[w][d] = known[w][d]
         /\ \A d \in Children : known'[w][d] = "completed" => at[d] = "completed"
         /\ parent'[w] = "completed" => AllDone
         /\ parent'[w] # "retry"
         /\ Honest(pending'[w]) /\ Tried(pending'[w])
         /\ (\A d \in Children : known'[w][d] = "completed") => pending'[w][Batch] \in Ended
  <1> USE DEF IInv
  <1>1. PICK kids, batch : kids = [known[w] EXCEPT ![c] = s] /\ batch = Aggregate(kids, parent[w])
    OBVIOUS
  <1>2. PICK mid, rows :
          /\ mid = [pending[w] EXCEPT ![c] = Merge(pending[w][c], s)]
          /\ rows = [mid EXCEPT ![Batch] = Merge(mid[Batch], batch)]
    OBVIOUS
  <1>16. /\ known' = [known EXCEPT ![w] = kids]
         /\ parent' = [parent EXCEPT ![w] = batch]
    BY <1>1 DEF Take
  <1>7. pending[w] \in [Rows -> Slots] /\ c \in Rows /\ c # Batch /\ Batch \in Rows
    BY Frame DEF TypeOK
  <1>17. pending' = [pending EXCEPT ![w] = rows]
    BY <1>1, <1>2, <1>7 DEF Take, TypeOK
  <1>3. /\ kids \in [Children -> Slots] /\ kids[c] = s /\ \A d \in Children \ {c} : kids[d] = known[w][d]
        /\ \A d \in Children : kids[d] = "completed" => at[d] = "completed"
    BY <1>1 DEF TypeOK, Slots, HonestInv
  <1>4. /\ batch \in States \ {"retry"} /\ batch \in Slots
        /\ batch = "completed" <=> \A d \in Children : kids[d] = "completed"
    <2>1. parent[w] \in Slots
      BY DEF TypeOK
    <2>2. PICK was : was = parent[w]
      OBVIOUS
    <2>3. /\ Aggregate(kids, was) \in States \ {"retry"}
          /\ Aggregate(kids, was) = "completed" <=> \A d \in Children : kids[d] = "completed"
      BY <1>3, <2>1, <2>2, AggregateFacts
    <2>4. batch = Aggregate(kids, was)
      BY <1>1, <2>2
    <2> QED BY <2>3, <2>4 DEF Slots
  <1>5. batch = "completed" => AllDone
    BY <1>3, <1>4 DEF AllDone
  <1>8. /\ Merge(pending[w][c], s) \in {pending[w][c], s}
        /\ Merge(pending[w][Batch], batch) \in {pending[w][Batch], batch}
        /\ batch \in Ended => Merge(pending[w][Batch], batch) \in Ended
    BY <1>4, <1>7, MergeFacts DEF Slots
  <1>9. /\ rows \in [Rows -> Slots]
        /\ rows[c] = Merge(pending[w][c], s) /\ rows[Batch] = Merge(pending[w][Batch], batch)
        /\ \A r \in Rows \ {c, Batch} : rows[r] = pending[w][r]
    <2>1. Merge(pending[w][c], s) \in Slots /\ Merge(pending[w][Batch], batch) \in Slots
      BY <1>4, <1>7, <1>8 DEF Slots
    <2>2. mid \in [Rows -> Slots] /\ mid[Batch] = pending[w][Batch] /\ mid[c] = Merge(pending[w][c], s)
          /\ \A r \in Rows \ {c} : mid[r] = pending[w][r]
      BY <1>2, <1>7, <2>1
    <2> QED BY <1>2, <1>7, <2>1, <2>2
  <1>10. Honest(rows)
    <2>1. \A d \in Children : rows[d] = "completed" => at[d] = "completed"
      BY <1>7, <1>8, <1>9, Frame DEF HonestInv, Honest
    <2>2. rows[Batch] = "completed" => AllDone
      BY <1>5, <1>8, <1>9 DEF HonestInv, Honest
    <2> QED BY <2>1, <2>2 DEF Honest
  <1>11. Tried(rows)
    <2>1. \A d \in Children : rows[d] = "retry" => tries[d] > 0
      BY <1>7, <1>8, <1>9, Frame DEF HonestInv, Tried
    <2>2. rows[Batch] # "retry"
      BY <1>4, <1>8, <1>9 DEF HonestInv, Tried
    <2> QED BY <2>1, <2>2 DEF Tried
  <1>12. known'[w] = kids /\ parent'[w] = batch /\ pending'[w] = rows
    BY <1>16, <1>17 DEF TypeOK
  <1>13. \A v \in Windows \ {w} : known'[v] = known[v] /\ parent'[v] = parent[v] /\ pending'[v] = pending[v]
    BY <1>16, <1>17 DEF TypeOK
  <1>14. /\ known' \in [Windows -> [Children -> Slots]]
         /\ parent' \in [Windows -> Slots] /\ pending' \in [Windows -> [Rows -> Slots]]
    BY <1>3, <1>4, <1>9, <1>16, <1>17 DEF TypeOK
  <1>15. (\A d \in Children : known'[w][d] = "completed") => pending'[w][Batch] \in Ended
    BY <1>4, <1>8, <1>9, <1>12 DEF Ended
  <1> QED BY <1>3, <1>4, <1>5, <1>10, <1>11, <1>12, <1>13, <1>14, <1>15

LEMMA PhaseFacts ==
  ASSUME TypeOK, NEW s, RequestWindow(s)
  PROVE  /\ phase' \in [Subs -> {"none", "opening", "mounted", "bound", "listening", "gone"}]
         /\ \A w \in Windows : Open(w)' <=> Open(w)
         /\ Held' <=> \A w \in Subs : Open(w) => items'[w][Batch] \in Ended
  <1>1. \A w \in Subs : /\ phase'[w] = phase[w] \/ (phase[w] = "none" /\ phase'[w] = "opening")
                        /\ phase[w] \in {"none", "opening", "mounted", "bound", "listening", "gone"}
    BY DEF RequestWindow, TypeOK
  <1>2. phase' \in [Subs -> {"none", "opening", "mounted", "bound", "listening", "gone"}]
    BY <1>1 DEF RequestWindow
  <1>3. \A w \in Windows : Open(w)' <=> Open(w)
    BY <1>1, Frame DEF Open
  <1>4. Held' <=> \A w \in Subs : Open(w) => items'[w][Batch] \in Ended
    BY <1>3, Frame DEF Held
  <1> QED BY <1>2, <1>3, <1>4

(* The events that wait behind the first one.                              *)
LEMMA HeadFacts ==
  ASSUME NEW b \in Seq(Children \X States), b # <<>>
  PROVE  /\ 1 \in 1 .. Len(b) /\ Head(b) = b[1] /\ b[1][1] \in Children /\ b[1][2] \in States
         /\ Len(b) \in Nat /\ Len(Tail(b)) = Len(b) - 1 /\ Tail(b) \in Seq(Children \X States)
         /\ \A i \in 1 .. Len(Tail(b)) : i + 1 \in 1 .. Len(b) /\ Tail(b)[i] = b[i + 1]
         /\ \A i \in 1 .. Len(b) : i # 1 => \E j \in 1 .. Len(Tail(b)) : Tail(b)[j] = b[i]
  <1>1. Len(b) \in Nat /\ Len(b) # 0
    BY EmptySeq, LenProperties
  <1>2. PICK q : q = Tail(b)
    OBVIOUS
  <1>3. q \in Seq(Children \X States) /\ Len(q) = Len(b) - 1 /\ \A i \in 1 .. Len(q) : q[i] = b[i + 1]
    BY <1>2, HeadTailProperties
  <1>4. Head(b) = b[1] /\ b[1] \in Children \X States
    BY <1>1, ElementOfSeq, HeadTailProperties
  <1>5. \A i \in 1 .. Len(q) : i + 1 \in 1 .. Len(b)
    BY <1>1, <1>3
  <1>6. ASSUME NEW i \in 1 .. Len(b), i # 1 PROVE \E j \in 1 .. Len(q) : q[j] = b[i]
    <2>1. i - 1 \in 1 .. Len(q) /\ (i - 1) + 1 = i
      BY <1>1, <1>3, <1>6
    <2> QED BY <1>3, <2>1
  <1> QED BY <1>1, <1>2, <1>3, <1>4, <1>5, <1>6

LEMMA ReceiveIInv ==
  ASSUME IInv, NEW w \in Windows, Receive(w)
  PROVE  IInv'
  <1> USE DEF IInv
  <1>1. PICK b, q, c, s : b = inbox[w] /\ q = Tail(b) /\ c = b[1][1] /\ s = b[1][2]
    OBVIOUS
  <1>2. b \in Seq(Children \X States) /\ b # <<>>
    BY <1>1 DEF Receive, TypeOK
  <1>3. /\ 1 \in 1 .. Len(b) /\ Head(b) = b[1] /\ c \in Children /\ s \in States
        /\ Len(b) \in Nat /\ Len(q) = Len(b) - 1 /\ q \in Seq(Children \X States)
        /\ \A i \in 1 .. Len(q) : i + 1 \in 1 .. Len(b) /\ q[i] = b[i + 1]
        /\ \A i \in 1 .. Len(b) : i # 1 => \E j \in 1 .. Len(q) : q[j] = b[i]
    BY <1>1, <1>2, HeadFacts
  <1>4. /\ inbox' = [inbox EXCEPT ![w] = q]
        /\ Take(w, c, s)
        /\ UNCHANGED <<at, by, turn, owed, asked, tries, snapshot, items, notice>>
        /\ IF w = Main THEN RequestWindow(parent'[Main]) ELSE UNCHANGED phase
    BY <1>1, <1>3 DEF Receive, engine
  <1>5. (s = "completed" => at[c] = "completed") /\ (s = "retry" => tries[c] > 0)
    BY <1>1, <1>3 DEF HonestInv
  <1>6. /\ known' \in [Windows -> [Children -> Slots]]
        /\ parent' \in [Windows -> Slots] /\ pending' \in [Windows -> [Rows -> Slots]]
        /\ \A v \in Windows \ {w} : known'[v] = known[v] /\ parent'[v] = parent[v] /\ pending'[v] = pending[v]
        /\ known'[w][c] = s /\ \A d \in Children \ {c} : known'[w][d] = known[w][d]
        /\ \A d \in Children : known'[w][d] = "completed" => at[d] = "completed"
        /\ parent'[w] = "completed" => AllDone
        /\ parent'[w] # "retry"
        /\ Honest(pending'[w]) /\ Tried(pending'[w])
        /\ (\A d \in Children : known'[w][d] = "completed") => pending'[w][Batch] \in Ended
    BY <1>3, <1>4, <1>5, TakeFacts
  <1>7. \A v \in Windows : inbox'[v] = IF v = w THEN q ELSE inbox[v]
    BY <1>4 DEF TypeOK
  <1>8. /\ phase' \in [Subs -> {"none", "opening", "mounted", "bound", "listening", "gone"}]
        /\ Held => Held'
    <2>1. CASE w = Main
      <3>1. PICK p : p = parent'[Main]
        OBVIOUS
      <3>2. RequestWindow(p)
        BY <1>4, <2>1, <3>1
      <3>3. /\ phase' \in [Subs -> {"none", "opening", "mounted", "bound", "listening", "gone"}]
            /\ Held' <=> \A v \in Subs : Open(v) => items'[v][Batch] \in Ended
        BY <3>2, PhaseFacts
      <3> QED BY <1>4, <3>3 DEF Held
    <2>2. CASE w # Main
      BY <1>4, <2>2 DEF Held, Open, TypeOK
    <2> QED BY <2>1, <2>2
  <1>9. TypeOK'
    <2>1. inbox' \in [Windows -> Seq(Children \X States)]
      BY <1>3, <1>4 DEF TypeOK
    <2> QED BY <1>4, <1>6, <1>8, <2>1 DEF TypeOK
  <1>10. EngineInv'
    BY <1>4 DEF EngineInv
  <1>11. HonestInv'
    <2>1. /\ \A rows : Honest(rows) <=> Honest(rows)'
          /\ \A rows : Tried(rows) <=> Tried(rows)'
          /\ AllDone' <=> AllDone
      BY <1>4 DEF Honest, Tried, AllDone
    <2>2. Honest(snapshot)' /\ Tried(snapshot)'
      BY <1>4 DEF HonestInv, Honest, Tried, AllDone
    <2>3. ASSUME NEW v \in Windows
          PROVE  Honest(items[v])' /\ Tried(items[v])'
      BY <1>4 DEF HonestInv, Honest, Tried, AllDone
    <2>4. ASSUME NEW v \in Windows
          PROVE  Honest(pending[v])' /\ Tried(pending[v])'
      <3>1. Honest(pending'[v]) /\ Tried(pending'[v])
        BY <1>6 DEF HonestInv
      <3> QED BY <1>4, <3>1 DEF Honest, Tried, AllDone
    <2>5. ASSUME NEW v \in Windows
          PROVE  /\ \A d \in Children : known'[v][d] = "completed" => at'[d] = "completed"
                 /\ parent'[v] = "completed" => AllDone'
                 /\ parent'[v] # "retry"
      BY <1>4, <1>6, <2>1 DEF HonestInv
    <2>6. ASSUME NEW v \in Windows, NEW i \in 1 .. Len(inbox'[v])
          PROVE  /\ inbox'[v][i][2] = "completed" => at'[inbox'[v][i][1]] = "completed"
                 /\ inbox'[v][i][2] = "retry" => tries'[inbox'[v][i][1]] > 0
      <3>1. CASE v = w
        <4>1. i + 1 \in 1 .. Len(b) /\ inbox'[v][i] = b[i + 1]
          BY <1>3, <1>7, <2>6, <3>1
        <4> QED BY <1>1, <1>4, <3>1, <4>1 DEF HonestInv
      <3>2. CASE v # w
        BY <1>4, <1>7, <2>6, <3>2 DEF HonestInv
      <3> QED BY <3>1, <3>2
    <2> QED BY <2>2, <2>3, <2>4, <2>5, <2>6 DEF HonestInv
  <1>12. CASE w = Main
    <2>1. OrderInv'
      <3>1. /\ \A i, j \in 1 .. Len(b) : i < j /\ b[i][2] = "completed" => b[j][1] # b[i][1]
            /\ \A d \in Children : known[Main][d] = "completed" => \A i \in 1 .. Len(b) : b[i][1] # d
        BY <1>1, <1>12 DEF OrderInv
      <3>2. inbox'[Main] = q
        BY <1>7, <1>12
      <3>3. ASSUME NEW i \in 1 .. Len(q), NEW j \in 1 .. Len(q), i < j, q[i][2] = "completed"
            PROVE  q[j][1] # q[i][1]
        <4>1. PICK k, l : k = i + 1 /\ l = j + 1
          OBVIOUS
        <4>2. k \in 1 .. Len(b) /\ l \in 1 .. Len(b) /\ q[i] = b[k] /\ q[j] = b[l]
          BY <1>3, <4>1
        <4>3. k < l
          BY <3>3, <4>1
        <4> QED BY <3>1, <3>3, <4>2, <4>3
      <3>4. ASSUME NEW d \in Children, known'[Main][d] = "completed", NEW i \in 1 .. Len(q)
            PROVE  q[i][1] # d
        <4>1. PICK k : k = i + 1
          OBVIOUS
        <4>2. k \in 1 .. Len(b) /\ 1 < k /\ q[i] = b[k]
          BY <1>3, <4>1
        <4>3. CASE d = c
          <5>1. s = "completed" /\ b[1][2] = "completed" /\ b[1][1] = d
            BY <1>1, <1>6, <1>12, <3>4, <4>3
          <5> QED BY <1>3, <3>1, <4>2, <5>1
        <4>4. CASE d # c
          BY <1>6, <1>12, <3>1, <3>4, <4>2, <4>4
        <4> QED BY <4>3, <4>4
      <3> QED BY <3>2, <3>3, <3>4 DEF OrderInv
    <2>2. HeardInv'
      <3> SUFFICES ASSUME NEW d \in Children, at[d] = "completed"
                   PROVE  \/ known'[Main][d] = "completed"
                          \/ \E i \in 1 .. Len(inbox'[Main]) : inbox'[Main][i] = <<d, "completed">>
        BY <1>4 DEF HeardInv
      <3>1. CASE known[Main][d] = "completed"
        <4>1. d # c
          BY <1>1, <1>3, <1>12, <3>1 DEF OrderInv
        <4> QED BY <1>6, <1>12, <3>1, <4>1
      <3>2. CASE \E i \in 1 .. Len(b) : b[i] = <<d, "completed">>
        <4>1. PICK i \in 1 .. Len(b) : b[i] = <<d, "completed">>
          BY <3>2
        <4>2. CASE i = 1
          <5>1. c = d /\ s = "completed"
            BY <1>1, <4>1, <4>2
          <5> QED BY <1>6, <1>12, <5>1
        <4>3. CASE i # 1
          <5>1. PICK j \in 1 .. Len(q) : q[j] = b[i]
            BY <1>3, <4>3
          <5>2. inbox'[Main] = q
            BY <1>7, <1>12
          <5> QED BY <4>1, <5>1, <5>2
        <4> QED BY <4>2, <4>3
      <3> QED BY <1>1, <1>12, <3>1, <3>2 DEF HeardInv
    <2>3. SnapshotInv'
      BY <1>4, <1>8 DEF SnapshotInv
    <2>4. RecordInv'
      <3>1. AllKnown' => pending'[Main][Batch] \in Ended
        BY <1>6, <1>12 DEF AllKnown
      <3>2. pending'[Main][Batch] \in Ended => pending'[Main] # NoRows
        BY Frame DEF NoRows
      <3> QED BY <3>1, <3>2 DEF RecordInv, NoRows
    <2> QED BY <1>9, <1>10, <1>11, <2>1, <2>2, <2>3, <2>4
  <1>13. CASE w # Main
    <2>1. inbox'[Main] = inbox[Main] /\ known'[Main] = known[Main] /\ pending'[Main] = pending[Main]
      BY <1>6, <1>7, <1>13, Frame
    <2>2. OrderInv' /\ HeardInv'
      <3>1. OrderInv'
        BY <2>1 DEF OrderInv
      <3>2. HeardInv'
        BY <1>4, <2>1 DEF HeardInv
      <3> QED BY <3>1, <3>2
    <2>3. SnapshotInv'
      BY <1>4, <1>8 DEF SnapshotInv
    <2>4. RecordInv'
      BY <1>4, <1>8, <2>1 DEF RecordInv, AllKnown, NoRows
    <2> QED BY <1>9, <1>10, <1>11, <2>2, <2>3, <2>4
  <1> QED BY <1>12, <1>13

(* Steps that only move rows about.                                        *)
LEMMA HonestStep ==
  ASSUME HonestInv, UNCHANGED <<at, tries>>, Honest(snapshot'), Tried(snapshot'),
         \A w \in Windows :
           /\ Honest(items'[w]) /\ Tried(items'[w]) /\ Honest(pending'[w]) /\ Tried(pending'[w])
           /\ known'[w] = known[w] \/ known'[w] = NoneKnown
           /\ parent'[w] = "completed" => AllDone
           /\ parent'[w] # "retry"
           /\ inbox'[w] = inbox[w] \/ inbox'[w] = <<>>
  PROVE  HonestInv'
  <1>1. Honest(snapshot)' /\ Tried(snapshot)' /\ (AllDone' <=> AllDone)
    BY DEF Honest, Tried, AllDone
  <1>2. ASSUME NEW w \in Windows
        PROVE  Honest(items[w])' /\ Tried(items[w])'
    <2>1. Honest(items'[w]) /\ Tried(items'[w])
      OBVIOUS
    <2> QED BY <2>1 DEF Honest, Tried, AllDone
  <1>3. ASSUME NEW w \in Windows
        PROVE  Honest(pending[w])' /\ Tried(pending[w])'
    <2>1. Honest(pending'[w]) /\ Tried(pending'[w])
      OBVIOUS
    <2> QED BY <2>1 DEF Honest, Tried, AllDone
  <1>4. ASSUME NEW w \in Windows
        PROVE  /\ \A c \in Children : known'[w][c] = "completed" => at'[c] = "completed"
               /\ parent'[w] = "completed" => AllDone'
               /\ parent'[w] # "retry"
    BY <1>1 DEF HonestInv, NoneKnown
  <1>5. ASSUME NEW w \in Windows, NEW i \in 1 .. Len(inbox'[w])
        PROVE  /\ inbox'[w][i][2] = "completed" => at'[inbox'[w][i][1]] = "completed"
               /\ inbox'[w][i][2] = "retry" => tries'[inbox'[w][i][1]] > 0
    <2>1. CASE inbox'[w] = inbox[w]
      BY <1>5, <2>1 DEF HonestInv
    <2>2. CASE inbox'[w] = <<>>
      <3>1. Len(inbox'[w]) = 0
        BY <2>2
      <3> QED BY <1>5, <3>1
    <2> QED BY <2>1, <2>2
  <1> QED BY <1>1, <1>2, <1>3, <1>4, <1>5 DEF HonestInv

(* No rows are good rows.                                                  *)
LEMMA NoRowsFacts ==
  NoRows \in [Rows -> Slots] /\ Honest(NoRows) /\ Tried(NoRows) /\ NoRows[Batch] = "none"
  BY Frame DEF NoRows, Honest, Tried, Slots

LEMMA EnqueueIInv ==
  ASSUME IInv, Enqueue
  PROVE  IInv'
  <1> USE DEF IInv
  <1>1. /\ turn = 0 /\ turn' = 1
        /\ parent' = [parent EXCEPT ![Main] = "queued"]
        /\ items' = [items EXCEPT ![Main][Batch] = Merge(items[Main][Batch], "queued")]
        /\ snapshot' = items'[Main]
        /\ notice' \subseteq notice \cup Subs
        /\ RequestWindow("queued")
        /\ UNCHANGED <<at, by, owed, asked, tries, pending, known, inbox>>
    BY DEF Enqueue, WriteSnapshot
  <1>2. /\ phase' \in [Subs -> {"none", "opening", "mounted", "bound", "listening", "gone"}]
        /\ Held' <=> \A w \in Subs : Open(w) => items'[w][Batch] \in Ended
    BY <1>1, PhaseFacts
  <1>3. PICK rows : rows = [items[Main] EXCEPT ![Batch] = Merge(items[Main][Batch], "queued")]
    OBVIOUS
  <1>4. items' = [items EXCEPT ![Main] = rows] /\ snapshot' = rows
    BY <1>1, <1>3, Frame DEF TypeOK
  <1>5. /\ rows \in [Rows -> Slots] /\ rows[Batch] \in {items[Main][Batch], "queued"}
        /\ \A c \in Children : rows[c] = items[Main][c]
    <2>1. items[Main] \in [Rows -> Slots] /\ "queued" \in Slots
      BY Frame DEF TypeOK, Slots, States
    <2>2. Merge(items[Main][Batch], "queued") \in {items[Main][Batch], "queued"}
      BY <2>1, MergeFacts, Frame
    <2> QED BY <1>3, <2>1, <2>2, Frame
  <1>6. Honest(rows) /\ Tried(rows)
    BY <1>5, Frame DEF HonestInv, Honest, Tried
  <1>7. TypeOK'
    <2>1. 1 \in 0 .. (N + 1)
      BY Frame
    <2> QED BY <1>1, <1>2, <1>4, <1>5, <2>1, Frame DEF TypeOK, Slots, States
  <1>8. \A c \in Children : at[c] = "idle" /\ by[c] = Main /\ c \notin owed
    BY <1>1 DEF EngineInv
  <1>9. EngineInv'
    BY <1>1, <1>8 DEF EngineInv
  <1>10. HonestInv'
    <2>1. ASSUME NEW w \in Windows
          PROVE  /\ Honest(items'[w]) /\ Tried(items'[w]) /\ Honest(pending'[w]) /\ Tried(pending'[w])
                 /\ known'[w] = known[w] /\ inbox'[w] = inbox[w]
                 /\ parent'[w] = "completed" => AllDone
                 /\ parent'[w] # "retry"
      BY <1>1, <1>4, <1>6 DEF HonestInv, TypeOK
    <2> QED BY <1>1, <1>4, <1>6, <2>1, HonestStep
  <1>11. OrderInv' /\ HeardInv'
    BY <1>1 DEF OrderInv, HeardInv
  <1>12. SnapshotInv'
    BY <1>4, Frame DEF SnapshotInv, TypeOK
  <1>13. ~ AllKnown'
    BY <1>1, <1>8, Frame DEF AllKnown, HonestInv
  <1>14. RecordInv'
    BY <1>13 DEF RecordInv
  <1> QED BY <1>7, <1>9, <1>10, <1>11, <1>12, <1>14

LEMMA FlushMainIInv ==
  ASSUME IInv, FlushMain
  PROVE  IInv'
  <1> USE DEF IInv
  <1>1. PICK base, merged :
          /\ base = [r \in Rows |-> IF snapshot[r] = "none" THEN items[Main][r] ELSE snapshot[r]]
          /\ merged = MergeRows(base, pending[Main])
    OBVIOUS
  <1>2. /\ pending[Main] # NoRows
        /\ pending' = [pending EXCEPT ![Main] = NoRows]
        /\ \/ /\ items' = [items EXCEPT ![Main] = merged]
              /\ snapshot' = merged
              /\ notice' \subseteq notice \cup Subs
           \/ /\ merged = base
              /\ UNCHANGED <<items, snapshot, notice>>
        /\ UNCHANGED <<at, by, turn, owed, asked, tries, known, parent, inbox, phase>>
    BY <1>1 DEF FlushMain, WriteSnapshot, engine
  <1>3. snapshot \in [Rows -> Slots] /\ items[Main] \in [Rows -> Slots] /\ pending[Main] \in [Rows -> Slots]
    BY Frame DEF TypeOK
  <1>4. /\ base \in [Rows -> Slots]
        /\ \A r \in Rows : base[r] = IF snapshot[r] = "none" THEN items[Main][r] ELSE snapshot[r]
    BY <1>1, <1>3
  <1>5. Honest(base) /\ Tried(base)
    <2>1. \A r \in Rows : base[r] \in {snapshot[r], items[Main][r]}
      BY <1>4
    <2> QED BY <2>1, Frame DEF HonestInv, Honest, Tried
  <1>6. /\ merged \in [Rows -> Slots] /\ Honest(merged) /\ Tried(merged)
        /\ pending[Main][Batch] \in Ended \/ base[Batch] \in Ended => merged[Batch] \in Ended
    <2>1. PICK p : p = pending[Main]
      OBVIOUS
    <2>2. p \in [Rows -> Slots] /\ Honest(p) /\ Tried(p)
      BY <1>3, <2>1, Frame DEF HonestInv
    <2>3. /\ MergeRows(base, p) \in [Rows -> Slots]
          /\ Honest(MergeRows(base, p)) /\ Tried(MergeRows(base, p))
          /\ p[Batch] \in Ended \/ base[Batch] \in Ended => MergeRows(base, p)[Batch] \in Ended
      BY <1>4, <1>5, <2>2, MergedRows
    <2> QED BY <1>1, <2>1, <2>3
  <1>7. TypeOK'
    <2>1. items' \in [Windows -> [Rows -> Slots]] /\ snapshot' \in [Rows -> Slots]
      <3>1. CASE items' = [items EXCEPT ![Main] = merged] /\ snapshot' = merged
        BY <1>6, <3>1 DEF TypeOK
      <3>2. CASE UNCHANGED <<items, snapshot>>
        BY <3>2 DEF TypeOK
      <3> QED BY <1>2, <3>1, <3>2
    <2>2. pending' \in [Windows -> [Rows -> Slots]]
      BY <1>2, NoRowsFacts DEF TypeOK
    <2>3. notice' \subseteq Subs
      BY <1>2 DEF TypeOK
    <2> QED BY <1>2, <2>1, <2>2, <2>3 DEF TypeOK
  <1>8. EngineInv' /\ OrderInv' /\ HeardInv'
    BY <1>2 DEF EngineInv, OrderInv, HeardInv
  <1>9. HonestInv'
    <2>1. ASSUME NEW w \in Windows
          PROVE  /\ Honest(items'[w]) /\ Tried(items'[w]) /\ Honest(pending'[w]) /\ Tried(pending'[w])
                 /\ known'[w] = known[w] /\ inbox'[w] = inbox[w]
                 /\ parent'[w] = "completed" => AllDone
                 /\ parent'[w] # "retry"
      <3>1. items'[w] \in {items[w], merged} /\ pending'[w] \in {pending[w], NoRows}
        BY <1>2, Frame DEF TypeOK
      <3> QED BY <1>2, <1>6, <3>1, NoRowsFacts DEF HonestInv
    <2>2. snapshot' \in {snapshot, merged}
      BY <1>2
    <2>3. Honest(snapshot') /\ Tried(snapshot')
      BY <1>6, <2>2 DEF HonestInv
    <2> QED BY <1>2, <2>1, <2>3, HonestStep
  <1>10. AllKnown' <=> AllKnown
    BY <1>2 DEF AllKnown
  <1>11. AllKnown => merged[Batch] \in Ended
    BY <1>2, <1>6 DEF RecordInv
  <1>12. pending'[Main] = NoRows
    BY <1>2, Frame DEF TypeOK
  <1>13. CASE items' = [items EXCEPT ![Main] = merged] /\ snapshot' = merged
    <2>1. items'[Main] = merged
      BY <1>13, Frame DEF TypeOK
    <2>2. SnapshotInv'
      BY <1>13, <2>1 DEF SnapshotInv
    <2>3. RecordInv'
      BY <1>10, <1>11, <1>12, <2>1 DEF RecordInv
    <2> QED BY <1>7, <1>8, <1>9, <2>2, <2>3
  <1>14. CASE merged = base /\ UNCHANGED <<items, snapshot>>
    <2>1. Held' <=> Held
      BY <1>2, <1>14 DEF Held, Open
    <2>2. SnapshotInv'
      BY <1>14, <2>1 DEF SnapshotInv
    <2>3. AllKnown => items[Main][Batch] \in Ended \/ (snapshot[Batch] \in Ended /\ Held)
      BY <1>4, <1>11, <1>14, Frame DEF SnapshotInv
    <2>4. RecordInv'
      BY <1>10, <1>12, <1>14, <2>1, <2>3 DEF RecordInv
    <2> QED BY <1>7, <1>8, <1>9, <2>2, <2>4
  <1> QED BY <1>2, <1>13, <1>14

(* A transfer window that writes the snapshot shows what it writes.        *)
LEMMA SubWrites ==
  ASSUME IInv, NEW w \in Subs, Open(w), NEW rows \in [Rows -> Slots],
         items' = [items EXCEPT ![w] = rows], snapshot' = rows,
         items[w][Batch] \in Ended => rows[Batch] \in Ended,
         known' = known, phase' = phase, pending'[Main] = pending[Main]
  PROVE  SnapshotInv' /\ RecordInv'
  <1> USE DEF IInv
  <1>1. /\ items'[Main] = items[Main] /\ items'[w] = rows
        /\ \A v \in Subs : v = w
    BY Frame DEF TypeOK
  <1>2. Held' <=> rows[Batch] \in Ended
    BY <1>1 DEF Held, Open
  <1>3. Held <=> items[w][Batch] \in Ended
    BY <1>1 DEF Held
  <1>4. SnapshotInv'
    BY <1>2 DEF SnapshotInv
  <1>5. RecordInv'
    BY <1>1, <1>2, <1>3 DEF RecordInv, AllKnown, NoRows
  <1> QED BY <1>4, <1>5

LEMMA FlushSubIInv ==
  ASSUME IInv, NEW w \in Subs, FlushSub(w)
  PROVE  IInv'
  <1> USE DEF IInv
  <1>1. PICK merged : merged = MergeRows(items[w], pending[w])
    OBVIOUS
  <1>2. /\ phase[w] = "listening"
        /\ pending' = [pending EXCEPT ![w] = NoRows]
        /\ \/ /\ items' = [items EXCEPT ![w] = merged]
              /\ snapshot' = merged
              /\ notice' \subseteq notice \cup Subs
           \/ UNCHANGED <<items, snapshot, notice>>
        /\ UNCHANGED <<at, by, turn, owed, asked, tries, known, parent, inbox, phase>>
    BY <1>1 DEF FlushSub, WriteSnapshot, engine
  <1>3. w \in Windows /\ w # Main
    BY Frame
  <1>4. /\ merged \in [Rows -> Slots] /\ Honest(merged) /\ Tried(merged)
        /\ items[w][Batch] \in Ended => merged[Batch] \in Ended
    <2>1. PICK p, i : p = pending[w] /\ i = items[w]
      OBVIOUS
    <2>2. /\ p \in [Rows -> Slots] /\ Honest(p) /\ Tried(p)
          /\ i \in [Rows -> Slots] /\ Honest(i) /\ Tried(i)
      BY <1>3, <2>1 DEF HonestInv, TypeOK
    <2>3. /\ MergeRows(i, p) \in [Rows -> Slots]
          /\ Honest(MergeRows(i, p)) /\ Tried(MergeRows(i, p))
          /\ p[Batch] \in Ended \/ i[Batch] \in Ended => MergeRows(i, p)[Batch] \in Ended
      BY <2>2, MergedRows
    <2> QED BY <1>1, <2>1, <2>3
  <1>5. TypeOK'
    <2>1. items' \in [Windows -> [Rows -> Slots]] /\ snapshot' \in [Rows -> Slots]
      <3>1. CASE items' = [items EXCEPT ![w] = merged] /\ snapshot' = merged
        BY <1>4, <3>1 DEF TypeOK
      <3>2. CASE UNCHANGED <<items, snapshot>>
        BY <3>2 DEF TypeOK
      <3> QED BY <1>2, <3>1, <3>2
    <2>2. pending' \in [Windows -> [Rows -> Slots]]
      BY <1>2, NoRowsFacts DEF TypeOK
    <2>3. notice' \subseteq Subs
      BY <1>2 DEF TypeOK
    <2> QED BY <1>2, <2>1, <2>2, <2>3 DEF TypeOK
  <1>6. EngineInv' /\ OrderInv' /\ HeardInv'
    BY <1>2 DEF EngineInv, OrderInv, HeardInv
  <1>7. HonestInv'
    <2>1. ASSUME NEW v \in Windows
          PROVE  /\ Honest(items'[v]) /\ Tried(items'[v]) /\ Honest(pending'[v]) /\ Tried(pending'[v])
                 /\ known'[v] = known[v] /\ inbox'[v] = inbox[v]
                 /\ parent'[v] = "completed" => AllDone
                 /\ parent'[v] # "retry"
      <3>1. items'[v] \in {items[v], merged} /\ pending'[v] \in {pending[v], NoRows}
        BY <1>2, <1>3 DEF TypeOK
      <3> QED BY <1>2, <1>4, <3>1, NoRowsFacts DEF HonestInv
    <2>2. snapshot' \in {snapshot, merged}
      BY <1>2
    <2>3. Honest(snapshot') /\ Tried(snapshot')
      BY <1>4, <2>2 DEF HonestInv
    <2> QED BY <1>2, <2>1, <2>3, HonestStep
  <1>8. pending'[Main] = pending[Main]
    BY <1>2, <1>3, Frame DEF TypeOK
  <1>9. SnapshotInv' /\ RecordInv'
    <2>1. CASE items' = [items EXCEPT ![w] = merged] /\ snapshot' = merged
      <3>1. Open(w)
        BY <1>2 DEF Open
      <3> QED BY <1>2, <1>4, <1>8, <2>1, <3>1, SubWrites
    <2>2. CASE UNCHANGED <<items, snapshot>>
      BY <1>2, <1>8, <2>2 DEF SnapshotInv, RecordInv, AllKnown, Held, Open, NoRows
    <2> QED BY <1>2, <2>1, <2>2
  <1> QED BY <1>5, <1>6, <1>7, <1>9

LEMMA StorageIInv ==
  ASSUME IInv, NEW w \in Subs, Storage(w)
  PROVE  IInv'
  <1> USE DEF IInv
  <1>1. PICK merged, was :
          /\ merged = MergeRows(items[w], snapshot)
          /\ was = IF snapshot[Batch] = "none" THEN parent[w] ELSE snapshot[Batch]
    OBVIOUS
  <1>2. /\ notice' = notice \ {w}
        /\ \/ items' = [items EXCEPT ![w] = merged] /\ parent' = [parent EXCEPT ![w] = was]
           \/ UNCHANGED <<items, parent>>
        /\ UNCHANGED <<at, by, turn, owed, asked, tries, snapshot, pending, known, inbox, phase>>
    BY <1>1 DEF Storage, engine
  <1>3. w \in Windows /\ w # Main
    BY Frame
  <1>4. /\ merged \in [Rows -> Slots] /\ Honest(merged) /\ Tried(merged)
        /\ items[w][Batch] \in Ended => merged[Batch] \in Ended
    <2>1. PICK i : i = items[w]
      OBVIOUS
    <2>2. /\ i \in [Rows -> Slots] /\ Honest(i) /\ Tried(i)
          /\ snapshot \in [Rows -> Slots] /\ Honest(snapshot) /\ Tried(snapshot)
      BY <1>3, <2>1 DEF HonestInv, TypeOK
    <2>3. /\ MergeRows(i, snapshot) \in [Rows -> Slots]
          /\ Honest(MergeRows(i, snapshot)) /\ Tried(MergeRows(i, snapshot))
          /\ snapshot[Batch] \in Ended \/ i[Batch] \in Ended => MergeRows(i, snapshot)[Batch] \in Ended
      BY <2>2, MergedRows
    <2> QED BY <1>1, <2>1, <2>3
  <1>5. was \in Slots /\ was # "retry" /\ (was = "completed" => AllDone)
    BY <1>1, <1>3, Frame DEF TypeOK, HonestInv, Honest, Tried
  <1>6. TypeOK'
    <2>1. items' \in [Windows -> [Rows -> Slots]] /\ parent' \in [Windows -> Slots]
      <3>1. CASE items' = [items EXCEPT ![w] = merged] /\ parent' = [parent EXCEPT ![w] = was]
        BY <1>4, <1>5, <3>1 DEF TypeOK
      <3>2. CASE UNCHANGED <<items, parent>>
        BY <3>2 DEF TypeOK
      <3> QED BY <1>2, <3>1, <3>2
    <2>2. notice' \subseteq Subs
      BY <1>2 DEF TypeOK
    <2> QED BY <1>2, <2>1, <2>2 DEF TypeOK
  <1>7. EngineInv' /\ OrderInv' /\ HeardInv'
    BY <1>2 DEF EngineInv, OrderInv, HeardInv
  <1>8. HonestInv'
    <2>1. ASSUME NEW v \in Windows
          PROVE  /\ Honest(items'[v]) /\ Tried(items'[v]) /\ Honest(pending'[v]) /\ Tried(pending'[v])
                 /\ known'[v] = known[v] /\ inbox'[v] = inbox[v]
                 /\ parent'[v] = "completed" => AllDone
                 /\ parent'[v] # "retry"
      <3>1. items'[v] \in {items[v], merged} /\ parent'[v] \in {parent[v], was}
        BY <1>2, <1>3 DEF TypeOK
      <3> QED BY <1>2, <1>4, <1>5, <3>1 DEF HonestInv
    <2>2. Honest(snapshot') /\ Tried(snapshot')
      BY <1>2 DEF HonestInv
    <2> QED BY <1>2, <2>1, <2>2, HonestStep
  <1>9. items'[Main] = items[Main] /\ (Held => Held')
    <2>1. items'[Main] = items[Main]
      BY <1>2, <1>3, Frame DEF TypeOK
    <2>2. ASSUME NEW v \in Subs, items[v][Batch] \in Ended PROVE items'[v][Batch] \in Ended
      BY <1>2, <1>3, <1>4, <2>2, Frame DEF TypeOK
    <2> QED BY <1>2, <2>1, <2>2 DEF Held, Open
  <1>10. SnapshotInv' /\ RecordInv'
    BY <1>2, <1>9 DEF SnapshotInv, RecordInv, AllKnown, NoRows
  <1> QED BY <1>6, <1>7, <1>8, <1>10

LEMMA MountIInv ==
  ASSUME IInv, NEW w \in Subs, Mount(w)
  PROVE  IInv'
  <1> USE DEF IInv
  <1>1. /\ phase' = [phase EXCEPT ![w] = "mounted"]
        /\ items' = [items EXCEPT ![w] = snapshot]
        /\ parent' = [parent EXCEPT ![w] = snapshot[Batch]]
        /\ UNCHANGED <<at, by, turn, owed, asked, tries, snapshot, pending, known, inbox, notice>>
    BY DEF Mount, engine
  <1>2. w \in Windows /\ w # Main /\ \A v \in Subs : v = w
    BY Frame
  <1>3. TypeOK'
    BY <1>1, Frame DEF TypeOK
  <1>4. EngineInv' /\ OrderInv' /\ HeardInv'
    BY <1>1 DEF EngineInv, OrderInv, HeardInv
  <1>5. HonestInv'
    <2>1. ASSUME NEW v \in Windows
          PROVE  /\ Honest(items'[v]) /\ Tried(items'[v]) /\ Honest(pending'[v]) /\ Tried(pending'[v])
                 /\ known'[v] = known[v] /\ inbox'[v] = inbox[v]
                 /\ parent'[v] = "completed" => AllDone
                 /\ parent'[v] # "retry"
      <3>1. items'[v] \in {items[v], snapshot} /\ parent'[v] \in {parent[v], snapshot[Batch]}
        BY <1>1 DEF TypeOK
      <3>2. snapshot[Batch] # "retry" /\ (snapshot[Batch] = "completed" => AllDone)
        BY DEF HonestInv, Honest, Tried
      <3> QED BY <1>1, <3>1, <3>2 DEF HonestInv
    <2>2. Honest(snapshot') /\ Tried(snapshot')
      BY <1>1 DEF HonestInv
    <2> QED BY <1>1, <2>1, <2>2, HonestStep
  <1>6. items'[Main] = items[Main] /\ items'[w] = snapshot
    BY <1>1, <1>2, Frame DEF TypeOK
  <1>7. snapshot[Batch] \in Ended => Held'
    BY <1>2, <1>6 DEF Held
  <1>8. SnapshotInv' /\ RecordInv'
    BY <1>1, <1>6, <1>7 DEF SnapshotInv, RecordInv, AllKnown, NoRows
  <1> QED BY <1>3, <1>4, <1>5, <1>8

LEMMA BindIInv ==
  ASSUME IInv, NEW w \in Subs, Bind(w)
  PROVE  IInv'
  <1> USE DEF IInv
  <1>1. /\ \/ phase[w] = "mounted" /\ phase' = [phase EXCEPT ![w] = "bound"]
           \/ phase[w] = "bound" /\ phase' = [phase EXCEPT ![w] = "listening"]
        /\ UNCHANGED <<at, by, turn, owed, asked, tries, snapshot, items, pending, known, parent, inbox, notice>>
    BY DEF Bind, engine, queues
  <1>2. TypeOK'
    BY <1>1 DEF TypeOK
  <1>3. EngineInv' /\ OrderInv' /\ HeardInv'
    BY <1>1 DEF EngineInv, OrderInv, HeardInv
  <1>4. HonestInv'
    BY <1>1 DEF HonestInv, Honest, Tried, AllDone
  <1>5. \A v \in Subs : Open(v)' <=> Open(v)
    BY <1>1 DEF Open, TypeOK
  <1>6. Held' <=> Held
    BY <1>1, <1>5 DEF Held
  <1>7. SnapshotInv' /\ RecordInv'
    BY <1>1, <1>6 DEF SnapshotInv, RecordInv, AllKnown, NoRows
  <1> QED BY <1>2, <1>3, <1>4, <1>7

LEMMA GoneIInv ==
  ASSUME IInv, NEW w \in Subs, Gone(w)
  PROVE  IInv'
  <1> USE DEF IInv
  <1>1. /\ phase' = [phase EXCEPT ![w] = "gone"]
        /\ items' = [items EXCEPT ![w] = NoRows]
        /\ pending' = [pending EXCEPT ![w] = NoRows]
        /\ known' = [known EXCEPT ![w] = NoneKnown]
        /\ parent' = [parent EXCEPT ![w] = "none"]
        /\ inbox' = [inbox EXCEPT ![w] = <<>>]
        /\ notice' = notice \ {w}
        /\ UNCHANGED <<at, by, turn, owed, asked, tries, snapshot>>
    BY DEF Gone, engine
  <1>2. w \in Windows /\ w # Main /\ \A v \in Subs : v = w
    BY Frame
  <1>3. TypeOK'
    <2>1. items' \in [Windows -> [Rows -> Slots]] /\ pending' \in [Windows -> [Rows -> Slots]]
      BY <1>1, NoRowsFacts DEF TypeOK
    <2>2. known' \in [Windows -> [Children -> Slots]] /\ parent' \in [Windows -> Slots]
      BY <1>1 DEF TypeOK, NoneKnown, Slots
    <2>3. inbox' \in [Windows -> Seq(Children \X States)]
      <3>1. <<>> \in Seq(Children \X States)
        OBVIOUS
      <3> QED BY <1>1, <3>1 DEF TypeOK
    <2>4. notice' \subseteq Subs
      BY <1>1 DEF TypeOK
    <2> QED BY <1>1, <2>1, <2>2, <2>3, <2>4 DEF TypeOK
  <1>4. /\ items'[Main] = items[Main] /\ pending'[Main] = pending[Main]
        /\ known'[Main] = known[Main] /\ inbox'[Main] = inbox[Main]
    BY <1>1, <1>2, Frame DEF TypeOK
  <1>5. EngineInv' /\ OrderInv' /\ HeardInv'
    <2>1. EngineInv'
      BY <1>1 DEF EngineInv
    <2>2. OrderInv'
      BY <1>4 DEF OrderInv
    <2>3. HeardInv'
      BY <1>1, <1>4 DEF HeardInv
    <2> QED BY <2>1, <2>2, <2>3
  <1>6. HonestInv'
    <2>1. ASSUME NEW v \in Windows
          PROVE  /\ Honest(items'[v]) /\ Tried(items'[v]) /\ Honest(pending'[v]) /\ Tried(pending'[v])
                 /\ known'[v] = known[v] \/ known'[v] = NoneKnown
                 /\ parent'[v] = "completed" => AllDone
                 /\ parent'[v] # "retry"
                 /\ inbox'[v] = inbox[v] \/ inbox'[v] = <<>>
      <3>1. items'[v] \in {items[v], NoRows} /\ pending'[v] \in {pending[v], NoRows}
        BY <1>1 DEF TypeOK
      <3>2. Honest(items'[v]) /\ Tried(items'[v]) /\ Honest(pending'[v]) /\ Tried(pending'[v])
        BY <3>1, NoRowsFacts DEF HonestInv
      <3>3. /\ known'[v] = known[v] \/ known'[v] = NoneKnown
            /\ inbox'[v] = inbox[v] \/ inbox'[v] = <<>>
            /\ parent'[v] = parent[v] \/ parent'[v] = "none"
        BY <1>1 DEF TypeOK
      <3> QED BY <3>2, <3>3 DEF HonestInv
    <2>2. Honest(snapshot') /\ Tried(snapshot')
      BY <1>1 DEF HonestInv
    <2> QED BY <1>1, <2>1, <2>2, HonestStep
  <1>7. Held'
    BY <1>1, <1>2 DEF Held, Open, TypeOK
  <1>8. SnapshotInv' /\ RecordInv'
    BY <1>1, <1>4, <1>7 DEF SnapshotInv, RecordInv, AllKnown, NoRows
  <1> QED BY <1>3, <1>5, <1>6, <1>8

LEMMA CancelIInv ==
  ASSUME IInv, NEW w \in Subs, NEW r \in Rows, Cancel(w, r)
  PROVE  IInv'
  <1> USE DEF IInv
  <1>1. PICK rows : rows = [items[w] EXCEPT ![r] = Merge(items[w][r], "canceled")]
    OBVIOUS
  <1>2. w \in Windows /\ w # Main
    BY Frame
  <1>3. /\ Open(w) /\ items[w][r] \in {"queued", "retry", "running"}
        /\ asked' = asked \cup {r}
        /\ items' = [items EXCEPT ![w] = rows] /\ snapshot' = rows
        /\ notice' \subseteq notice \cup Subs
        /\ UNCHANGED <<at, by, turn, owed, tries, pending, known, parent, inbox, phase>>
    BY <1>1, <1>2 DEF Cancel, SetRow, WriteSnapshot, queues, TypeOK
  <1>4. /\ rows \in [Rows -> Slots] /\ rows[r] \in {items[w][r], "canceled"}
        /\ \A q \in Rows \ {r} : rows[q] = items[w][q]
    <2>1. items[w] \in [Rows -> Slots] /\ "canceled" \in Slots
      BY <1>2 DEF TypeOK, Slots, States
    <2>2. Merge(items[w][r], "canceled") \in {items[w][r], "canceled"}
      BY <2>1, MergeFacts
    <2> QED BY <1>1, <2>1, <2>2
  <1>5. Honest(rows) /\ Tried(rows)
    BY <1>2, <1>4, Frame DEF HonestInv, Honest, Tried
  <1>6. items[w][Batch] \in Ended => rows[Batch] \in Ended
    BY <1>3, <1>4, Frame DEF Ended
  <1>7. TypeOK'
    <2>1. items' \in [Windows -> [Rows -> Slots]] /\ snapshot' \in [Rows -> Slots]
      BY <1>3, <1>4 DEF TypeOK
    <2>2. notice' \subseteq Subs /\ asked' \subseteq Rows
      BY <1>3 DEF TypeOK
    <2> QED BY <1>3, <2>1, <2>2 DEF TypeOK
  <1>8. EngineInv' /\ OrderInv' /\ HeardInv'
    BY <1>3 DEF EngineInv, OrderInv, HeardInv
  <1>9. HonestInv'
    <2>1. ASSUME NEW v \in Windows
          PROVE  /\ Honest(items'[v]) /\ Tried(items'[v]) /\ Honest(pending'[v]) /\ Tried(pending'[v])
                 /\ known'[v] = known[v] /\ inbox'[v] = inbox[v]
                 /\ parent'[v] = "completed" => AllDone
                 /\ parent'[v] # "retry"
      <3>1. items'[v] \in {items[v], rows}
        BY <1>3, <1>2 DEF TypeOK
      <3> QED BY <1>3, <1>5, <3>1 DEF HonestInv
    <2> QED BY <1>3, <1>5, <2>1, HonestStep
  <1>10. SnapshotInv' /\ RecordInv'
    BY <1>3, <1>4, <1>6, SubWrites
  <1> QED BY <1>7, <1>8, <1>9, <1>10

LEMMA RetryIInv ==
  ASSUME IInv, NEW w \in Subs, NEW c \in Children, Retry(w, c)
  PROVE  IInv'
  <1> USE DEF IInv
  <1>1. PICK rows : rows = [items[w] EXCEPT ![c] = "retry"]
    OBVIOUS
  <1>2. w \in Windows /\ w # Main /\ c \in Rows /\ c # Batch
    BY Frame
  <1>3. /\ Open(w) /\ at[c] = "error" /\ c \notin owed /\ tries[c] < MaxRetries
        /\ tries' = [tries EXCEPT ![c] = tries[c] + 1]
        /\ by' = [by EXCEPT ![c] = w]
        /\ at' = [at EXCEPT ![c] = "idle"]
        /\ items' = [items EXCEPT ![w] = rows] /\ snapshot' = rows
        /\ notice' \subseteq notice \cup Subs
        /\ UNCHANGED <<turn, owed, asked, pending, known, parent, inbox, phase>>
    BY <1>1, <1>2 DEF Retry, SetRow, WriteSnapshot, queues, TypeOK
  <1>4. /\ rows \in [Rows -> Slots] /\ rows[c] = "retry"
        /\ \A q \in Rows \ {c} : rows[q] = items[w][q]
    BY <1>1, <1>2 DEF TypeOK, Slots, States
  <1>5. /\ tries[c] \in Nat /\ tries'[c] > 0 /\ tries' \in [Children -> 0 .. MaxRetries]
        /\ \A d \in Children : tries[d] > 0 => tries'[d] > 0
    <2>1. tries \in [Children -> 0 .. MaxRetries] /\ tries[c] < MaxRetries /\ MaxRetries \in Nat
      BY <1>3, WindowAssumption DEF TypeOK
    <2>2. tries[c] + 1 \in 0 .. MaxRetries /\ tries[c] + 1 > 0 /\ tries[c] \in Nat
      BY <2>1
    <2> QED BY <1>3, <2>1, <2>2
  <1>6. /\ ~ AllDone
        /\ \A d \in Children : at'[d] = IF d = c THEN "idle" ELSE at[d]
        /\ \A d \in Children : at[d] = "completed" => at'[d] = "completed"
    BY <1>3 DEF AllDone, TypeOK
  <1>7. TypeOK'
    <2>1. items' \in [Windows -> [Rows -> Slots]] /\ snapshot' \in [Rows -> Slots]
      BY <1>3, <1>4 DEF TypeOK
    <2>2. notice' \subseteq Subs
      BY <1>3 DEF TypeOK
    <2>3. by' \in [Children -> Windows] /\ at' \in [Children -> {"idle", "queued", "running"} \cup Ended]
      BY <1>2, <1>3 DEF TypeOK
    <2> QED BY <1>3, <1>5, <2>1, <2>2, <2>3 DEF TypeOK
  <1>8. EngineInv'
    <2>1. turn # 0
      BY <1>3 DEF EngineInv
    <2>2. \A d \in Children : by'[d] = IF d = c THEN w ELSE by[d]
      BY <1>3 DEF TypeOK
    <2>3. \A d \in Children : by'[d] = Main /\ (at'[d] \in {"queued", "running"} \/ d \in owed') => turn' = d
      BY <1>2, <1>3, <1>6, <2>2 DEF EngineInv
    <2>4. \A d \in Children : by'[d] # Main => tries'[d] > 0
      BY <1>2, <1>5, <2>2 DEF EngineInv
    <2>5. \A d \in owed' : at'[d] \in {"error", "canceled"}
      BY <1>3, <1>6 DEF EngineInv, TypeOK
    <2> QED BY <1>3, <2>1, <2>3, <2>4, <2>5 DEF EngineInv
  <1>9. OrderInv'
    BY <1>3 DEF OrderInv
  <1>10. HeardInv'
    <2>1. \A d \in Children : at'[d] = "completed" => at[d] = "completed"
      BY <1>6
    <2>2. inbox'[Main] = inbox[Main] /\ known'[Main] = known[Main]
      BY <1>3
    <2> QED BY <2>1, <2>2 DEF HeardInv
  <1>11. HonestInv'
    <2>1. \A x : Honest(x) => /\ \A d \in Children : x[d] = "completed" => at'[d] = "completed"
                              /\ x[Batch] # "completed"
      BY <1>6 DEF Honest
    <2>2. \A x : Tried(x) => /\ \A d \in Children : x[d] = "retry" => tries'[d] > 0
                             /\ x[Batch] # "retry"
      BY <1>5 DEF Tried
    <2>3. /\ \A d \in Children : rows[d] = "completed" => at'[d] = "completed"
          /\ rows[Batch] # "completed"
          /\ \A d \in Children : rows[d] = "retry" => tries'[d] > 0
          /\ rows[Batch] # "retry"
      <3>1. Honest(items[w]) /\ Tried(items[w])
        BY <1>2 DEF HonestInv
      <3> QED BY <1>2, <1>4, <1>5, <2>1, <2>2, <3>1, Frame
    <2>4. Honest(snapshot)' /\ Tried(snapshot)'
      BY <1>3, <2>3 DEF Honest, Tried
    <2>5. ASSUME NEW v \in Windows PROVE Honest(items[v])' /\ Tried(items[v])'
      <3>1. items'[v] = rows \/ (items'[v] = items[v] /\ Honest(items[v]) /\ Tried(items[v]))
        BY <1>3 DEF TypeOK, HonestInv
      <3> QED BY <2>1, <2>2, <2>3, <3>1 DEF Honest, Tried
    <2>6. ASSUME NEW v \in Windows PROVE Honest(pending[v])' /\ Tried(pending[v])'
      <3>1. pending'[v] = pending[v] /\ Honest(pending[v]) /\ Tried(pending[v])
        BY <1>3 DEF HonestInv
      <3> QED BY <2>1, <2>2, <3>1 DEF Honest, Tried
    <2>7. ASSUME NEW v \in Windows
          PROVE  /\ \A d \in Children : known'[v][d] = "completed" => at'[d] = "completed"
                 /\ parent'[v] # "completed" /\ parent'[v] # "retry"
      BY <1>3, <1>6 DEF HonestInv
    <2>8. ASSUME NEW v \in Windows, NEW i \in 1 .. Len(inbox[v])
          PROVE  /\ inbox[v][i][2] = "completed" => at'[inbox[v][i][1]] = "completed"
                 /\ inbox[v][i][2] = "retry" => tries'[inbox[v][i][1]] > 0
      <3>1. inbox[v][i][1] \in Children
        BY <2>8, ElementOfSeq DEF TypeOK
      <3> QED BY <1>5, <1>6, <2>8, <3>1 DEF HonestInv
    <2> QED BY <1>3, <2>4, <2>5, <2>6, <2>7, <2>8 DEF HonestInv
  <1>12. SnapshotInv' /\ RecordInv'
    <2>1. items[w][Batch] \in Ended => rows[Batch] \in Ended
      BY <1>2, <1>4, Frame
    <2> QED BY <1>3, <1>4, <2>1, SubWrites
  <1> QED BY <1>7, <1>8, <1>9, <1>10, <1>11, <1>12

LEMMA RejectedIInv ==
  ASSUME IInv, NEW c \in Children, Rejected(c)
  PROVE  IInv'
  <1> USE DEF IInv
  <1>1. /\ c \in owed /\ owed' = owed \ {c}
        /\ UNCHANGED <<at, by, asked, tries, inbox>>
        /\ at[c] \in {"error", "canceled"}
    BY DEF Rejected, EngineInv
  <1>2. CASE by[c] = Main
    <2>1. PICK s : s = at[c]
      OBVIOUS
    <2>2. /\ turn' = N + 1 /\ Take(Main, c, s) /\ RequestWindow(parent'[Main])
          /\ UNCHANGED <<snapshot, items, notice>>
      BY <1>2, <2>1 DEF Rejected
    <2>3. s \in States /\ s # "completed" /\ s # "retry"
      BY <1>1, <2>1 DEF States
    <2>4. /\ known' \in [Windows -> [Children -> Slots]]
          /\ parent' \in [Windows -> Slots] /\ pending' \in [Windows -> [Rows -> Slots]]
          /\ \A v \in Windows \ {Main} : known'[v] = known[v] /\ parent'[v] = parent[v] /\ pending'[v] = pending[v]
          /\ known'[Main][c] = s /\ \A d \in Children \ {c} : known'[Main][d] = known[Main][d]
          /\ \A d \in Children : known'[Main][d] = "completed" => at[d] = "completed"
          /\ parent'[Main] = "completed" => AllDone
          /\ parent'[Main] # "retry"
          /\ Honest(pending'[Main]) /\ Tried(pending'[Main])
      BY <2>2, <2>3, TakeFacts, Frame
    <2>5. PICK p : p = parent'[Main]
      OBVIOUS
    <2>6. RequestWindow(p)
      BY <2>2, <2>5
    <2>7. /\ phase' \in [Subs -> {"none", "opening", "mounted", "bound", "listening", "gone"}]
          /\ Held' <=> \A w \in Subs : Open(w) => items'[w][Batch] \in Ended
      BY <2>6, PhaseFacts
    <2>8. TypeOK'
      <3>1. turn' \in 0 .. (N + 1)
        BY <2>2, Frame
      <3> QED BY <1>1, <2>2, <2>4, <2>7, <3>1 DEF TypeOK
    <2>9. EngineInv'
      <3>1. turn = c
        BY <1>1, <1>2 DEF EngineInv
      <3>2. \A d \in Children : ~ (by[d] = Main /\ (at[d] \in {"queued", "running"} \/ d \in owed'))
        BY <1>1, <3>1 DEF EngineInv
      <3>3. turn' # 0
        BY <2>2, Frame
      <3> QED BY <1>1, <3>2, <3>3 DEF EngineInv
    <2>10. HonestInv'
      <3>1. AllDone' <=> AllDone
        BY <1>1 DEF AllDone
      <3>2. Honest(snapshot)' /\ Tried(snapshot)'
        BY <1>1, <2>2 DEF HonestInv, Honest, Tried, AllDone
      <3>3. ASSUME NEW v \in Windows PROVE Honest(items[v])' /\ Tried(items[v])'
        BY <1>1, <2>2 DEF HonestInv, Honest, Tried, AllDone
      <3>4. ASSUME NEW v \in Windows PROVE Honest(pending[v])' /\ Tried(pending[v])'
        <4>1. Honest(pending'[v]) /\ Tried(pending'[v])
          BY <2>4 DEF HonestInv
        <4> QED BY <1>1, <4>1 DEF Honest, Tried, AllDone
      <3>5. ASSUME NEW v \in Windows
            PROVE  /\ \A d \in Children : known'[v][d] = "completed" => at'[d] = "completed"
                   /\ parent'[v] = "completed" => AllDone'
                   /\ parent'[v] # "retry"
        BY <1>1, <2>4, <3>1 DEF HonestInv
      <3> QED BY <1>1, <3>2, <3>3, <3>4, <3>5 DEF HonestInv
    <2>11. OrderInv'
      <3>1. \A d \in Children : known'[Main][d] = "completed" => known[Main][d] = "completed"
        BY <2>3, <2>4
      <3> QED BY <1>1, <3>1 DEF OrderInv
    <2>12. HeardInv'
      <3>1. \A d \in Children : at'[d] = "completed" => at[d] = "completed" /\ d # c
        BY <1>1
      <3> QED BY <1>1, <2>4, <3>1 DEF HeardInv
    <2>13. SnapshotInv'
      <3>1. Held => Held'
        BY <2>2, <2>7 DEF Held
      <3> QED BY <2>2, <3>1 DEF SnapshotInv
    <2>14. RecordInv'
      <3>1. ~ AllKnown'
        BY <2>3, <2>4 DEF AllKnown
      <3> QED BY <3>1 DEF RecordInv
    <2> QED BY <2>8, <2>9, <2>10, <2>11, <2>12, <2>13, <2>14
  <1>3. CASE by[c] # Main
    <2>1. PICK w : w = by[c]
      OBVIOUS
    <2>2. w \in Subs /\ w \in Windows /\ w # Main
      BY <1>3, <2>1, Frame DEF TypeOK
    <2>3. PICK rows : rows = [items[w] EXCEPT ![c] = Merge(items[w][c], "error")]
      OBVIOUS
    <2>4. /\ \/ /\ Open(w) /\ items' = [items EXCEPT ![w] = rows]
                /\ snapshot' = rows /\ notice' \subseteq notice \cup Subs
             \/ UNCHANGED <<items, snapshot, notice>>
          /\ UNCHANGED <<turn, pending, known, parent, phase>>
      BY <1>3, <2>1, <2>2, <2>3 DEF Rejected, SetRow, WriteSnapshot, TypeOK
    <2>5. /\ rows \in [Rows -> Slots] /\ rows[c] \in {items[w][c], "error"}
          /\ \A r \in Rows \ {c} : rows[r] = items[w][r]
      <3>1. items[w] \in [Rows -> Slots] /\ "error" \in Slots /\ c \in Rows
        BY <2>2, Frame DEF TypeOK, Slots, States
      <3>2. Merge(items[w][c], "error") \in {items[w][c], "error"}
        BY <3>1, MergeFacts
      <3> QED BY <2>3, <3>1, <3>2
    <2>6. Honest(rows) /\ Tried(rows)
      BY <2>2, <2>5, Frame DEF HonestInv, Honest, Tried
    <2>7. items[w][Batch] \in Ended => rows[Batch] \in Ended
      BY <2>5, Frame
    <2>8. TypeOK'
      <3>1. items' \in [Windows -> [Rows -> Slots]] /\ snapshot' \in [Rows -> Slots]
        <4>1. CASE items' = [items EXCEPT ![w] = rows] /\ snapshot' = rows
          BY <2>5, <4>1 DEF TypeOK
        <4>2. CASE UNCHANGED <<items, snapshot>>
          BY <4>2 DEF TypeOK
        <4> QED BY <2>4, <4>1, <4>2
      <3>2. notice' \subseteq Subs
        BY <2>4 DEF TypeOK
      <3> QED BY <1>1, <2>4, <3>1, <3>2 DEF TypeOK
    <2>9. EngineInv'
      BY <1>1, <2>4 DEF EngineInv
    <2>10. OrderInv' /\ HeardInv'
      BY <1>1, <2>4 DEF OrderInv, HeardInv
    <2>11. HonestInv'
      <3>1. ASSUME NEW v \in Windows
            PROVE  /\ Honest(items'[v]) /\ Tried(items'[v]) /\ Honest(pending'[v]) /\ Tried(pending'[v])
                   /\ known'[v] = known[v] /\ inbox'[v] = inbox[v]
                   /\ parent'[v] = "completed" => AllDone
                   /\ parent'[v] # "retry"
        <4>1. items'[v] \in {items[v], rows}
          BY <2>2, <2>4 DEF TypeOK
        <4> QED BY <1>1, <2>4, <2>6, <4>1 DEF HonestInv
      <3>2. snapshot' \in {snapshot, rows}
        BY <2>4
      <3>3. Honest(snapshot') /\ Tried(snapshot')
        BY <2>6, <3>2 DEF HonestInv
      <3> QED BY <1>1, <3>1, <3>3, HonestStep
    <2>12. SnapshotInv' /\ RecordInv'
      <3>1. CASE Open(w) /\ items' = [items EXCEPT ![w] = rows] /\ snapshot' = rows
        BY <2>2, <2>4, <2>5, <2>7, <3>1, SubWrites
      <3>2. CASE UNCHANGED <<items, snapshot>>
        BY <2>4, <3>2 DEF SnapshotInv, RecordInv, AllKnown, Held, Open, NoRows
      <3> QED BY <2>4, <3>1, <3>2
    <2> QED BY <2>8, <2>9, <2>10, <2>11, <2>12
  <1> QED BY <1>2, <1>3

LEMMA NextIInv == IInv /\ [Next]_vars => IInv'
  <1> SUFFICES ASSUME IInv, [Next]_vars PROVE IInv'
    OBVIOUS
  <1>1. CASE Enqueue
    BY <1>1, EnqueueIInv
  <1>2. CASE FlushMain
    BY <1>2, FlushMainIInv
  <1>3. CASE \E w \in Windows : Receive(w)
    BY <1>3, ReceiveIInv
  <1>4. ASSUME NEW w \in Subs, FlushSub(w) \/ Storage(w) \/ Mount(w) \/ Bind(w) \/ Gone(w)
        PROVE  IInv'
    BY <1>4, FlushSubIInv, StorageIInv, MountIInv, BindIInv, GoneIInv
  <1>5. ASSUME NEW w \in Subs, AutoClose(w) \/ UserCloses(w)
        PROVE  IInv'
    BY <1>4, <1>5 DEF AutoClose, UserCloses
  <1>6. CASE \E w \in Subs, r \in Rows : Cancel(w, r)
    BY <1>6, CancelIInv
  <1>7. CASE \E w \in Subs, c \in Children : Retry(w, c)
    BY <1>7, RetryIInv
  <1>8. ASSUME NEW c \in Children, Begin(c) \/ Run(c) \/ Complete(c) \/ Rejected(c)
        PROVE  IInv'
    BY <1>8, BeginIInv, RunIInv, CompleteIInv, RejectedIInv
  <1>9. CASE \E c \in Children, s \in {"error", "canceled"} : Fail(c, s)
    BY <1>9, FailIInv
  <1>10. CASE UNCHANGED vars
    <2> USE <1>10 DEF vars, engine, queues, IInv
    <2>1. TypeOK'
      BY DEF TypeOK
    <2>2. EngineInv'
      BY DEF EngineInv
    <2>3. HonestInv'
      BY DEF HonestInv, Honest, Tried, AllDone
    <2>4. OrderInv' /\ HeardInv'
      BY DEF OrderInv, HeardInv
    <2>5. SnapshotInv' /\ RecordInv'
      BY DEF SnapshotInv, RecordInv, AllKnown, Held, Open, NoRows
    <2> QED BY <2>1, <2>2, <2>3, <2>4, <2>5
  <1> QED BY <1>1, <1>2, <1>3, <1>4, <1>5, <1>6, <1>7, <1>8, <1>9, <1>10 DEF Next

LEMMA Invariance == Spec => []IInv
  <1>1. Init => IInv
    BY InitIInv
  <1>2. IInv /\ [Next]_vars => IInv'
    BY NextIInv
  <1> QED BY <1>1, <1>2, PTL DEF Spec

(* RowsAreTrue: whatever events a window missed, it shows no success the   *)
(* backend does not have; and once the main window has handled the success *)
(* of the last child, the end of the batch is in its rows or in the        *)
(* snapshot, although all windows overwrite that snapshot whole.           *)
THEOREM WindowsShowTheTruth == Spec => []RowsAreTrue
  <1>1. IInv => RowsAreTrue
    <2> SUFFICES ASSUME IInv PROVE RowsAreTrue
      OBVIOUS
    <2> USE DEF IInv
    <2>1. NoEarlySuccess
      <3> SUFFICES ASSUME NEW rows \in {items[w] : w \in Windows} \cup {snapshot}
                   PROVE  /\ \A c \in Children : rows[c] = "completed" => at[c] = "completed"
                          /\ rows[Batch] = "completed" => \A c \in Children : at[c] = "completed"
        BY DEF NoEarlySuccess
      <3>1. Honest(rows)
        BY DEF HonestInv
      <3> QED BY <3>1 DEF Honest, AllDone
    <2>2. CompletionIsRecorded
      <3> SUFFICES ASSUME SentThrough, inbox[Main] = <<>>, pending[Main] = NoRows
                   PROVE  items[Main][Batch] \in Ended \/ snapshot[Batch] \in Ended
        BY DEF CompletionIsRecorded
      <3>1. Len(inbox[Main]) = 0
        OBVIOUS
      <3>2. AllKnown
        BY <3>1 DEF AllKnown, HeardInv, SentThrough
      <3> QED BY <3>2 DEF RecordInv
    <2> QED BY <2>1, <2>2 DEF RowsAreTrue
  <1> QED BY <1>1, Invariance, PTL

(* What a step does to a row of an open transfer window.                   *)
LEMMA RowStep ==
  ASSUME IInv, [Next]_vars, NEW w \in Subs, Open(w), Open(w)', NEW r \in Rows
  PROVE  \/ items'[w][r] = items[w][r]
         \/ \E x \in Slots : /\ items'[w][r] = Merge(items[w][r], x)
                             /\ x = "retry" => r \in Children /\ tries'[r] > 0
         \/ items'[w][r] = "retry" /\ r \in Children /\ tries'[r] > 0
  <1> USE DEF IInv
  <1>0. /\ w \in Windows /\ w # Main /\ items \in [Windows -> [Rows -> Slots]]
        /\ \A v \in Subs : v = w
        /\ r \in Children \/ r = Batch
    BY Frame DEF TypeOK, Rows
  <1>1. CASE Enqueue
    BY <1>0, <1>1 DEF Enqueue
  <1>2. CASE FlushMain
    BY <1>0, <1>2 DEF FlushMain
  <1>3. ASSUME NEW v \in Windows, Receive(v) PROVE items'[w][r] = items[w][r]
    BY <1>3 DEF Receive
  <1>4. CASE FlushSub(w)
    <2>1. CASE items' = [items EXCEPT ![w] = MergeRows(items[w], pending[w])]
      <3>1. items'[w][r] = Merge(items[w][r], pending[w][r])
        BY <1>0, <2>1 DEF MergeRows
      <3>2. pending[w][r] \in Slots /\ (pending[w][r] = "retry" => r \in Children /\ tries'[r] > 0)
        BY <1>0, <1>4 DEF FlushSub, engine, TypeOK, HonestInv, Tried
      <3> QED BY <3>1, <3>2
    <2>2. CASE UNCHANGED items
      BY <2>2
    <2> QED BY <1>4, <2>1, <2>2 DEF FlushSub
  <1>5. CASE Storage(w)
    <2>1. CASE items' = [items EXCEPT ![w] = MergeRows(items[w], snapshot)]
      <3>1. items'[w][r] = Merge(items[w][r], snapshot[r])
        BY <1>0, <2>1 DEF MergeRows
      <3>2. snapshot[r] \in Slots /\ (snapshot[r] = "retry" => r \in Children /\ tries'[r] > 0)
        BY <1>0, <1>5 DEF Storage, engine, TypeOK, HonestInv, Tried
      <3> QED BY <3>1, <3>2
    <2>2. CASE UNCHANGED items
      BY <2>2
    <2> QED BY <1>5, <2>1, <2>2 DEF Storage
  <1>6. ~ Mount(w)
    BY <1>0 DEF Mount, Open
  <1>7. CASE Bind(w)
    BY <1>7 DEF Bind
  <1>8. ~ Gone(w)
    BY <1>0 DEF Gone, Open, TypeOK
  <1>9. ASSUME NEW q \in Rows, Cancel(w, q)
        PROVE  \/ items'[w][r] = items[w][r]
               \/ \E x \in Slots : items'[w][r] = Merge(items[w][r], x) /\ x # "retry"
    <2>1. items'[w][r] = IF r = q THEN Merge(items[w][r], "canceled") ELSE items[w][r]
      BY <1>0, <1>9 DEF Cancel, SetRow
    <2>2. "canceled" \in Slots
      BY DEF Slots, States
    <2> QED BY <2>1, <2>2
  <1>10. ASSUME NEW c \in Children, Retry(w, c)
         PROVE  \/ items'[w][r] = items[w][r]
                \/ items'[w][r] = "retry" /\ r \in Children /\ tries'[r] > 0
    <2>1. items'[w][r] = IF r = c THEN "retry" ELSE items[w][r]
      BY <1>0, <1>10, Frame DEF Retry, SetRow
    <2>2. tries'[c] = tries[c] + 1 /\ tries[c] \in 0 .. MaxRetries
      BY <1>10 DEF Retry, TypeOK
    <2>3. tries'[c] > 0
      BY <2>2, WindowAssumption
    <2> QED BY <2>1, <2>3
  <1>11. ASSUME NEW c \in Children, Begin(c) \/ Run(c) \/ Complete(c) PROVE items'[w][r] = items[w][r]
    BY <1>11 DEF Begin, Run, Complete
  <1>12. ASSUME NEW c \in Children, Rejected(c)
         PROVE  \/ items'[w][r] = items[w][r]
                \/ \E x \in Slots : items'[w][r] = Merge(items[w][r], x) /\ x # "retry"
    <2>1. CASE UNCHANGED items
      BY <2>1
    <2>2. CASE SetRow(by[c], c, Merge(items[by[c]][c], "error")) /\ by[c] # Main
      <3>1. by[c] = w
        BY <1>0, <2>2, Frame DEF TypeOK
      <3>2. items'[w][r] = IF r = c THEN Merge(items[w][r], "error") ELSE items[w][r]
        BY <1>0, <2>2, <3>1, Frame DEF SetRow
      <3>3. "error" \in Slots
        BY DEF Slots, States
      <3> QED BY <3>2, <3>3
    <2> QED BY <1>12, <2>1, <2>2 DEF Rejected
  <1>13. ASSUME NEW c \in Children, NEW s, Fail(c, s) PROVE items'[w][r] = items[w][r]
    BY <1>13 DEF Fail
  <1>14. CASE UNCHANGED vars
    BY <1>14 DEF vars
  <1>15. ASSUME NEW v \in Subs,
                FlushSub(v) \/ Storage(v) \/ Mount(v) \/ Bind(v) \/ AutoClose(v) \/ UserCloses(v)
         PROVE  FlushSub(w) \/ Storage(w) \/ Bind(w)
    <2>1. v = w
      BY <1>0
    <2> QED BY <1>6, <1>8, <1>15, <2>1 DEF AutoClose, UserCloses
  <1>16. CASE \E v \in Subs, q \in Rows : Cancel(v, q)
    BY <1>0, <1>9, <1>16
  <1>17. CASE \E v \in Subs, c \in Children : Retry(v, c)
    BY <1>0, <1>10, <1>17
  <1>18. CASE \E v \in Subs : FlushSub(v) \/ Storage(v) \/ Mount(v) \/ Bind(v) \/ AutoClose(v) \/ UserCloses(v)
    <2>1. FlushSub(w) \/ Storage(w) \/ Bind(w)
      BY <1>15, <1>18
    <2> QED BY <1>4, <1>5, <1>7, <2>1
  <1>19. CASE \E c \in Children : Begin(c) \/ Run(c) \/ Complete(c) \/ Rejected(c)
    BY <1>11, <1>12, <1>19
  <1> QED BY <1>1, <1>2, <1>3, <1>13, <1>14, <1>16, <1>17, <1>18, <1>19 DEF Next

(* OnlyRetryGoesBack: a row of an open transfer window falls back to an    *)
(* earlier state only because it is retried, whatever late events, batch   *)
(* rows and snapshots of the other windows it merges.                      *)
THEOREM RowsNeverFallBack == Spec => OnlyRetryGoesBack
  <1> DEFINE Kept == \A w \in Subs : Open(w) /\ Open(w)' =>
                       \A r \in Rows : Rank(items'[w][r]) < Rank(items[w][r]) =>
                         r \in Children /\ items'[w][r] = "retry" /\ tries'[r] > 0
  <1>1. IInv /\ [Next]_vars => [Kept]_vars
    <2> SUFFICES ASSUME IInv, [Next]_vars, NEW w \in Subs, Open(w), Open(w)', NEW r \in Rows,
                        Rank(items'[w][r]) < Rank(items[w][r])
                 PROVE  r \in Children /\ items'[w][r] = "retry" /\ tries'[r] > 0
      OBVIOUS
    <2>1. PICK old, new : old = items[w][r] /\ new = items'[w][r]
      OBVIOUS
    <2>2. old \in Slots /\ Rank(old) \in {0, 1, 2}
      BY <2>1, Frame DEF IInv, TypeOK, Rank
    <2>3. CASE new = old
      BY <2>1, <2>2, <2>3
    <2>4. CASE \E x \in Slots : new = Merge(old, x) /\ (x = "retry" => r \in Children /\ tries'[r] > 0)
      <3>1. PICK x \in Slots : new = Merge(old, x) /\ (x = "retry" => r \in Children /\ tries'[r] > 0)
        BY <2>4
      <3>2. Rank(Merge(old, x)) < Rank(old) => x = "retry" /\ Merge(old, x) = "retry"
        BY <2>2, MergeFacts
      <3> QED BY <2>1, <3>1, <3>2
    <2>5. CASE new = "retry" /\ r \in Children /\ tries'[r] > 0
      BY <2>1, <2>5
    <2>6. \/ items'[w][r] = items[w][r]
          \/ \E x \in Slots : /\ items'[w][r] = Merge(items[w][r], x)
                              /\ x = "retry" => r \in Children /\ tries'[r] > 0
          \/ items'[w][r] = "retry" /\ r \in Children /\ tries'[r] > 0
      BY RowStep
    <2> QED BY <2>1, <2>3, <2>4, <2>5, <2>6
  <1>2. Spec => [][Kept]_vars
    BY <1>1, Invariance, PTL DEF Spec
  <1> QED BY <1>2 DEF OnlyRetryGoesBack

=============================================================================
