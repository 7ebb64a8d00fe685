--------------------------- MODULE TransferEngine ---------------------------
(***************************************************************************)
(* Uploads and downloads (src-tauri/src/transfer): the registries of       *)
(* cancel marks and of retry data, the worker that runs a command, and the *)
(* row the transfer window shows for it (src/lib/bridge.ts,                *)
(* src/lib/transferQueue.ts, TransferWindowPage.tsx).                      *)
(*                                                                         *)
(* Each transfer command runs on a blocking thread of its own.  Its code   *)
(* is a match whose arms leave the whole function at the first error       *)
(* (`?`), and only what an arm returns as a value reaches the code after   *)
(* the match that cleans up, remembers the retry and reports the failure.  *)
(* The window makes up for it: a rejected command is shown as failed or    *)
(* canceled whatever was reported.                                         *)
(*                                                                         *)
(* The children of a batch are sent one after the other; cancelling the    *)
(* batch marks its own id, which the checks of the children also look at.  *)
(* Events reach the row at once: their delays are left out here.           *)
(***************************************************************************)
EXTENDS Naturals, FiniteSets

CONSTANTS
  Transfers,     \* transfer ids
  NoTransfer,    \* no transfer
  Batches,       \* batch ids
  NoBatch,       \* not in a batch
  Targets,       \* files written
  OldFiles,      \* the files that exist at the start
  Plans,         \* what the transfers may be asked to do
  Chunks,        \* pieces of a file
  MaxAttempts    \* bounds how often a transfer is tried

(* upload_remote_file, upload_local_file, download_remote_entry and        *)
(* prepare_remote_drag_file, which always overwrites; "none" is a folder   *)
(* over FTP.  A batch sends a transfer after the one before it.            *)
Jobs == {j \in [op: {"bytes", "upload", "download", "drag"},
                proto: {"sftp", "ftp", "none"},
                overwrite: BOOLEAN,
                target: Targets,
                batch: Batches \cup {NoBatch},
                after: Transfers \cup {NoTransfer}] :
           j.op = "drag" => j.overwrite}

ASSUME TransferAssumption ==
  /\ NoBatch \notin Batches \cup Transfers /\ NoTransfer \notin Transfers
  /\ Transfers \cap Batches = {}
  /\ OldFiles \subseteq Targets
  /\ Plans \subseteq [Transfers -> Jobs]
  /\ Chunks \in Nat \ {0} /\ MaxAttempts \in Nat \ {0}

VARIABLES
  plan,          \* what each transfer does: never changes
  cancelled,     \* CANCELLED_TRANSFERS
  retryOps,      \* TRANSFER_RETRY_OPERATIONS
  files,         \* whether each target is there, and since when
  pieces,        \* who wrote each piece of a target
  holders,       \* the transfers that have the file of a target open
  link,          \* the network works
  pc,            \* where the command of a transfer is
  existed,       \* target_existed_before
  sent,          \* chunks written
  result,        \* how the last command ended
  row,           \* the state the transfer window shows
  attempts,      \* commands issued for a transfer
  requested,     \* history: ids the user cancelled
  late,          \* history: transfers begun after their batch was cancelled
  owner          \* history: the transfer that last created or removed a target

registries == <<cancelled, retryOps>>
disk       == <<files, pieces, holders, owner>>
history    == <<attempts, requested, late>>
engineVars == <<plan, registries, disk, link, pc, existed, sent, result, row, history>>

Terminal == {"completed", "canceled", "error"}
Errors   == {"failed", "conflict"}

Downloads(t) == plan[t].op \in {"download", "drag"}

SftpUpload(t) == plan[t].proto = "sftp" /\ ~Downloads(t)
FtpUpload(t)  == plan[t].proto = "ftp" /\ ~Downloads(t)

(* The state mergeTransferProgress keeps: an older state does not come     *)
(* back, and an error or a cancellation is final.                          *)
RowRank(s) == CASE s = "queued" -> 0 [] s = "running" -> 1 [] OTHER -> 2

Shown(old, new) ==
  IF \/ RowRank(new) < RowRank(old)
     \/ old \in {"error", "canceled"}
    THEN old ELSE new

Show(t, s) == row' = [row EXCEPT ![t] = Shown(@, s)]

(* Mutant of IsCancelled: the batch is not looked at.                      *)
IsCancelledItself(t) == t \in cancelled

IsCancelled(t) == t \in cancelled \/ plan[t].batch \in cancelled

Go(t, to) == pc' = [pc EXCEPT ![t] = to]

(* The command is answered.  A rejection is shown as an error, or as       *)
(* canceled when the batch loop issued the command (invokeTransfer) and    *)
(* not the retry button (handleRetryTransfer).                             *)
Answer(t, r) ==
  /\ Go(t, "answered")
  /\ result' = [result EXCEPT ![t] = r]
  /\ Show(t, IF r = "canceled" /\ attempts[t] = 1 THEN "canceled" ELSE "error")

(* An error leaves the function from inside the match.                     *)
Leave(t, r) ==
  /\ Answer(t, r)
  /\ UNCHANGED <<registries, disk, existed, sent>>

(* The command fails with an error of the network, the server or the disk. *)
(* Only the failure of an FTP upload is a value of its arm.                *)
Break(t) ==
  IF FtpUpload(t)
    THEN /\ Go(t, "verifyError")
         /\ UNCHANGED <<registries, disk, existed, sent, result, row>>
    ELSE Leave(t, "failed")

(* running: SFTP says so for every piece, FTP before it starts curl.       *)
ShowRunning(t, proto) ==
  IF plan[t].proto = proto THEN Show(t, "running") ELSE UNCHANGED row

---------------------------------------------------------------------------
(* Commands.                                                               *)

(* The main window sends the transfers of a batch in turn, and stops at    *)
(* the first that fails.                                                   *)
Start(t) ==
  /\ pc[t] = "enqueued"
  /\ plan[t].after # NoTransfer =>
       result[plan[t].after] = "ok" /\ attempts[plan[t].after] = 1
  /\ attempts' = [attempts EXCEPT ![t] = 1]
  /\ late' = IF plan[t].batch \in requested THEN late \cup {t} ELSE late
  /\ Go(t, "begin")
  /\ UNCHANGED <<registries, disk, link, existed, sent, result, row, requested>>

(* The retry button of a failed row.                                       *)
RetryTransfer(t) ==
  /\ pc[t] = "answered"
  /\ row[t] = "error"
  /\ attempts[t] < MaxAttempts
  /\ attempts' = [attempts EXCEPT ![t] = @ + 1]
  /\ row' = [row EXCEPT ![t] = "queued"]
  /\ Go(t, "lookup")
  /\ UNCHANGED <<registries, disk, link, existed, sent, result, requested, late>>

(* retry_transfer finds the data of the operation, or fails.               *)
Lookup(t) ==
  /\ pc[t] = "lookup"
  /\ IF t \in retryOps
       THEN /\ Go(t, "begin")
            /\ UNCHANGED <<registries, disk, existed, sent, result, row>>
       ELSE Leave(t, "failed")
  /\ UNCHANGED <<link, history>>

(* The cancel button of a row that is not finished.  The children of a     *)
(* batch have no row while they run; the row of the batch is final when    *)
(* one of them failed.                                                     *)
Cancellable(id) ==
  \/ /\ id \in Transfers
     /\ plan[id].batch = NoBatch
     /\ row[id] \notin Terminal
  \/ /\ id \in Batches \ requested
     /\ \E t \in Transfers : plan[t].batch = id /\ row[t] \notin Terminal
     /\ \A t \in Transfers : plan[t].batch = id =>
          attempts[t] <= 1 /\ row[t] \notin {"error", "canceled"}

CancelTransfer(id) ==
  /\ Cancellable(id)
  /\ cancelled' = cancelled \cup {id}
  /\ requested' = requested \cup {id}
  /\ row' = [t \in Transfers |-> IF t = id THEN "canceled" ELSE row[t]]
  /\ UNCHANGED <<retryOps, disk, link, pc, existed, sent, result, attempts,
                 late>>

(* The network comes and goes.                                             *)
LinkChanges ==
  /\ link' = ~link
  /\ UNCHANGED <<registries, disk, pc, existed, sent, result, row, history>>

---------------------------------------------------------------------------
(* A command at work.                                                      *)

(* Reading the local path or resolving the download folder may fail before *)
(* anything is remembered.  Then the mark of an earlier attempt is reset   *)
(* (init_transfer).  A folder over FTP is refused where its function comes *)
(* to it.                                                                  *)
BeginTransfer(t) ==
  /\ pc[t] = "begin"
  /\ \/ /\ plan[t].op # "bytes"
        /\ Leave(t, "failed")
     \/ /\ cancelled' = cancelled \ {t}
        /\ retryOps' = IF plan[t].op \in {"upload", "download"}
                         THEN retryOps \cup {t} ELSE retryOps
        /\ existed' = [existed EXCEPT ![t] = files[plan[t].target] # "absent"]
        /\ sent' = [sent EXCEPT ![t] = 0]
        /\ Show(t, "queued")
        /\ Go(t, IF plan[t].proto = "none" /\ Downloads(t) THEN "fail"
                 ELSE "check")
        /\ UNCHANGED <<disk, result>>
  /\ UNCHANGED <<link, history>>

(* check_cancel, before anything is opened.  An FTP upload asks no leave;  *)
(* the bytes of the browser are staged in a file first.                    *)
CheckCancel(t) ==
  /\ pc[t] = "check"
  /\ \/ IsCancelled(t) /\ Leave(t, "canceled")
     \/ /\ ~IsCancelled(t)
        /\ FtpUpload(t) /\ plan[t].op = "bytes"
        /\ Leave(t, "failed")
     \/ /\ ~IsCancelled(t)
        /\ Go(t, CASE plan[t].proto = "none" -> "fail"
                   [] FtpUpload(t) -> "create"
                   [] OTHER -> "allow")
        /\ IF FtpUpload(t) THEN ShowRunning(t, "ftp") ELSE UNCHANGED row
        /\ UNCHANGED <<registries, disk, existed, sent, result>>
  /\ UNCHANGED <<link, history>>

(* SFTP opens its connection.  Then ensure_local_write_allowed,            *)
(* ensure_sftp_write_allowed or ensure_sftp_directory_allowed looks.       *)
Allow(t) ==
  /\ pc[t] = "allow"
  /\ \/ plan[t].proto = "sftp" /\ Leave(t, "failed")
     \/ /\ plan[t].proto = "sftp" => link
        /\ IF files[plan[t].target] = "absent" \/ plan[t].overwrite
             THEN /\ Go(t, "create")
                  /\ ShowRunning(t, "ftp")
                  /\ UNCHANGED <<registries, disk, existed, sent, result>>
             ELSE Leave(t, "conflict")
  /\ UNCHANGED <<link, history>>

Copying == {t \in Transfers : pc[t] = "copy"}

(* The target is created, or truncated under those that have it open.      *)
Truncate(t) ==
  LET x == plan[t].target IN
  /\ files'   = [files EXCEPT ![x] = "new"]
  /\ pieces'  = [pieces EXCEPT ![x] = [i \in 1..Chunks |-> NoTransfer]]
  /\ holders' = [holders EXCEPT ![x] = {t} \cup (@ \cap Copying)]
  /\ owner'   = [owner EXCEPT ![x] = t]

(* Over FTP curl does it.                                                  *)
Create(t) ==
  /\ pc[t] = "create"
  /\ \/ Break(t)
     \/ /\ link
        /\ Truncate(t)
        /\ Go(t, "copy")
        /\ UNCHANGED <<registries, existed, sent, result, row>>
  /\ UNCHANGED <<link, history>>

(* The loop over the bytes of the browser ends with its last piece.        *)
LoopIsOver(t) == plan[t].op = "bytes" /\ plan[t].proto = "sftp" /\ sent[t] = Chunks

(* SFTP looks at the marks before each piece.                              *)
MarkIsSeen(t) == plan[t].proto = "sftp" /\ IsCancelled(t) /\ ~LoopIsOver(t)

(* A piece is written where its writer is; into a file that was removed it *)
(* is lost.                                                                *)
CopyChunk(t) ==
  /\ pc[t] = "copy"
  /\ sent[t] < Chunks
  /\ ~MarkIsSeen(t)
  /\ link
  /\ sent' = [sent EXCEPT ![t] = @ + 1]
  /\ pieces' = IF t \in holders[plan[t].target]
                 THEN [pieces EXCEPT ![plan[t].target][sent[t] + 1] = t] ELSE pieces
  /\ ShowRunning(t, "sftp")
  /\ UNCHANGED <<registries, files, holders, owner, link, pc, existed, result, history>>

(* There is nothing more to read, which a download learns from the server; *)
(* curl is done.  What the target holds by now, nobody looks at.           *)
CopyEnd(t) ==
  /\ pc[t] = "copy"
  /\ sent[t] = Chunks
  /\ ~MarkIsSeen(t)
  /\ SftpUpload(t) \/ link
  /\ Go(t, IF plan[t].proto = "sftp" THEN "complete" ELSE "verify")
  /\ UNCHANGED <<registries, disk, link, existed, sent, result, row, history>>

CopyCanceled(t) ==
  /\ pc[t] = "copy"
  /\ MarkIsSeen(t)
  /\ Leave(t, "canceled")
  /\ UNCHANGED <<link, history>>

(* Mutant of CopyFails: a copy that stalls waits for the network.          *)
CopyFailsConnected(t) ==
  /\ pc[t] = "copy"
  /\ link
  /\ ~LoopIsOver(t)
  /\ Break(t)
  /\ UNCHANGED <<link, history>>

(* An error of the copy, or a write that makes no progress for too long.   *)
CopyFails(t) ==
  /\ pc[t] = "copy"
  /\ ~LoopIsOver(t)
  /\ Break(t)
  /\ UNCHANGED <<link, history>>

(* Mutant of Verify: what curl answered is lost.                           *)
VerifyNothing(t) ==
  /\ pc[t] \in {"verify", "verifyError"}
  /\ IF IsCancelled(t)
       THEN Leave(t, "canceled")
       ELSE /\ Go(t, "complete")
            /\ UNCHANGED <<registries, disk, existed, sent, result, row>>
  /\ UNCHANGED <<link, history>>

(* FTP looks at the marks once more when curl is done.                     *)
Verify(t) ==
  /\ pc[t] \in {"verify", "verifyError"}
  /\ IF IsCancelled(t)
       THEN Leave(t, "canceled")
       ELSE /\ Go(t, IF pc[t] = "verify" THEN "complete" ELSE "fail")
            /\ UNCHANGED <<registries, disk, existed, sent, result, row>>
  /\ UNCHANGED <<link, history>>

(* completed: the retry data and the mark go, the command succeeds.        *)
CompleteTransfer(t) ==
  /\ pc[t] = "complete"
  /\ retryOps' = retryOps \ {t}
  /\ cancelled' = cancelled \ {t}
  /\ Show(t, "completed")
  /\ result' = [result EXCEPT ![t] = "ok"]
  /\ Go(t, "answered")
  /\ UNCHANGED <<disk, link, existed, sent, history>>

(* remove_dir_all, remove_file: the target is gone, and lost for those     *)
(* that have it open.                                                      *)
Remove(t) ==
  LET x == plan[t].target IN
  /\ files'   = [files EXCEPT ![x] = "absent"]
  /\ pieces'  = [pieces EXCEPT ![x] = [i \in 1..Chunks |-> NoTransfer]]
  /\ holders' = [holders EXCEPT ![x] = {}]
  /\ owner'   = [owner EXCEPT ![x] = t]

(* Mutant of Cleanup: what was there before goes too.                      *)
CleanupAlways(t) == IF Downloads(t) THEN Remove(t) ELSE UNCHANGED disk

(* A failed download removes its target, unless it was there before.       *)
Cleanup(t) == IF Downloads(t) /\ ~existed[t] THEN Remove(t) ELSE UNCHANGED disk

(* The error of an arm: the browser's upload is remembered only here.      *)
FailTransfer(t) ==
  /\ pc[t] = "fail"
  /\ Cleanup(t)
  /\ retryOps' = IF plan[t].op = "bytes" THEN retryOps \cup {t} ELSE retryOps
  /\ cancelled' = cancelled \ {t}
  /\ Answer(t, "failed")
  /\ UNCHANGED <<link, existed, sent, history>>

---------------------------------------------------------------------------
EngineInit ==
  /\ plan \in Plans
  /\ cancelled = {}
  /\ retryOps = {}
  /\ files = [x \in Targets |-> IF x \in OldFiles THEN "old" ELSE "absent"]
  /\ pieces = [x \in Targets |-> [i \in 1..Chunks |-> NoTransfer]]
  /\ holders = [x \in Targets |-> {}]
  /\ link = TRUE
  /\ pc = [t \in Transfers |-> "enqueued"]
  /\ existed = [t \in Transfers |-> FALSE]
  /\ sent = [t \in Transfers |-> 0]
  /\ result = [t \in Transfers |-> "none"]
  /\ row = [t \in Transfers |-> "queued"]
  /\ attempts = [t \in Transfers |-> 0]
  /\ requested = {}
  /\ late = {}
  /\ owner = [x \in Targets |-> NoTransfer]

Work(t) ==
  /\ UNCHANGED plan
  /\ \/ Lookup(t) \/ BeginTransfer(t) \/ CheckCancel(t) \/ Allow(t) \/ Create(t)
     \/ CopyChunk(t) \/ CopyEnd(t) \/ CopyCanceled(t) \/ CopyFails(t) \/ Verify(t)
     \/ CompleteTransfer(t) \/ FailTransfer(t)

Surroundings ==
  /\ UNCHANGED plan
  /\ \/ \E t \in Transfers : Start(t) \/ RetryTransfer(t)
     \/ \E id \in Transfers \cup Batches : CancelTransfer(id)
     \/ LinkChanges

EngineNext == Surroundings \/ \E t \in Transfers : Work(t)

(* Where a command waits for the network as long as the network likes:     *)
(* curl is given no time limit, and of the calls of an SFTP connection     *)
(* only the writes of an upload have one of their own when they stall.     *)
AwaitsNetwork(t) ==
  \/ pc[t] = "allow" /\ plan[t].proto = "sftp"
  \/ pc[t] = "create"
  \/ pc[t] = "copy" /\ ~SftpUpload(t)

(* Blocking threads are scheduled, and what asks the network is answered   *)
(* while the network works.                                                *)
EngineFairness ==
  \A t \in Transfers : WF_engineVars(Work(t) /\ (AwaitsNetwork(t) => link))

EngineSpec == EngineInit /\ [][EngineNext]_engineVars

EngineFairSpec == EngineSpec /\ EngineFairness

---------------------------------------------------------------------------
(* Safety.                                                                 *)

Writers == Transfers \cup {NoTransfer}

Places == {"enqueued", "lookup", "begin", "check", "allow", "create", "copy",
           "verify", "verifyError", "complete", "fail", "answered"}

EngineTypeOK ==
  /\ plan \in Plans
  /\ cancelled \subseteq Transfers \cup Batches
  /\ retryOps \subseteq Transfers
  /\ files \in [Targets -> {"absent", "old", "new"}]
  /\ pieces \in [Targets -> [1..Chunks -> Writers]]
  /\ holders \in [Targets -> SUBSET Transfers]
  /\ link \in BOOLEAN
  /\ pc \in [Transfers -> Places]
  /\ existed \in [Transfers -> BOOLEAN]
  /\ sent \in [Transfers -> 0..Chunks]
  /\ result \in [Transfers -> {"none", "ok", "canceled"} \cup Errors]
  /\ row \in [Transfers -> {"queued", "running"} \cup Terminal]
  /\ attempts \in [Transfers -> 0..MaxAttempts]
  /\ requested \subseteq Transfers \cup Batches
  /\ late \subseteq Transfers
  /\ owner \in [Targets -> Writers]

(* An FTP upload overwrites whatever it was told.                          *)
MayOverwrite(t) == plan[t].overwrite \/ FtpUpload(t)

(* A file that was there before is neither overwritten nor cleaned away by *)
(* transfers that may not overwrite, in whatever order they check, create, *)
(* fail and are tried again.                                               *)
ExistingFileKept ==
  \A x \in OldFiles :
    \/ files[x] = "old"
    \/ \E t \in Transfers : plan[t].target = x /\ MayOverwrite(t)

(* Nothing on the disk is of a transfer.                                   *)
WroteNothing(t) ==
  \A x \in Targets : /\ files[x] = "new" => owner[x] # t
                     /\ \A i \in 1..Chunks : pieces[x][i] # t

(* Once a batch is cancelled, a transfer of it that had not begun writes   *)
(* nothing, although marks of single transfers are reset when they begin.  *)
BatchCancelHolds == \A t \in late : WroteNothing(t)

(* A command that succeeded wrote its target in full: no error on the way  *)
(* is taken for a success, and every piece is there for as long as nobody  *)
(* creates or removes the target after it.  A piece of another transfer is *)
(* only there if that one was still copying into the file it truncated.    *)
CompletedIsWhole ==
  \A t \in Transfers :
    LET x == plan[t].target IN
    result[t] = "ok" =>
      /\ owner[x] # NoTransfer
      /\ owner[x] = t =>
           files[x] = "new" /\ \A i \in 1..Chunks : pieces[x][i] \in holders[x]

(* The row of a command that was answered is final, and is no error when   *)
(* the command succeeded: whichever of events, answers and buttons came    *)
(* first.                                                                  *)
AnsweredRowIsFinal ==
  \A t \in Transfers :
    pc[t] = "answered" =>
      /\ row[t] \in Terminal
      /\ result[t] = "ok" => row[t] # "error"

(* What a command has answered is so: its row has ended and agrees, and    *)
(* behind a success is a whole file, until another transfer comes to it.   *)
AnswersAreTrue == EngineTypeOK /\ AnsweredRowIsFinal /\ CompletedIsWhole

---------------------------------------------------------------------------
(* Liveness.                                                               *)

(* Every command is answered if the network works again for good; and an   *)
(* SFTP upload that is copying is answered although the network may go and *)
(* not return.                                                             *)
CommandsEnd ==
  /\ <>[]link => \A t \in Transfers : pc[t] = "begin" ~> pc[t] = "answered"
  /\ \A t \in Transfers : pc[t] = "copy" /\ SftpUpload(t) ~> pc[t] = "answered"

=============================================================================
