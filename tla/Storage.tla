------------------------------ MODULE Storage ------------------------------
(***************************************************************************)
(* The state file of the application and its backups                       *)
(* (src-tauri/src/storage.rs, the state commands of commands.rs).          *)
(*                                                                         *)
(* Every command loads state.json, changes the model in memory and writes  *)
(* it back through a temporary file.  A file of the first schema is backed *)
(* up and rewritten when it is loaded.  The commands of one process run on *)
(* its main thread, one after the other; nothing keeps a second instance   *)
(* from working on the same file, so every process takes its own steps.    *)
(*                                                                         *)
(* Between any two steps a process may be killed and the power may fail,   *)
(* and every file operation may return an error.  A power failure tears a  *)
(* file whose data was not flushed, may undo the renames since the         *)
(* directory last reached the disk, and may tear the last backup (fs::copy *)
(* does not flush).  A temporary file left by a dead process has a name nobody  *)
(* uses again, so only that of a running process is kept here.             *)
(***************************************************************************)
EXTENDS Naturals, Sequences, FiniteSets, SequencesExt

CONSTANTS
  Procs,          \* running instances of the program
  NoProc,
  States,         \* the models a file can hold
  NoState,
  SeedState,      \* seed_storage()
  Changes,        \* the commands that save what they change
  Effect,         \* what they make of the model they have loaded
  NoFile,
  FirstFiles,     \* what the first start may find
  FirstBackups,   \* the backups of earlier runs of the program
  KeepCount,      \* MAX_MIGRATION_BACKUPS and MAX_EXPORT_BACKUPS
  MaxCommands,    \* bound: commands begun
  MaxFaults       \* bound: kills, power failures and broken copies

Forms == {"legacy", "current", "newer", "broken", "torn"}

Files == [form : Forms, model : States, flushed : BOOLEAN]

Reasons == {"migration", "export"}

Backups == [reason : Reasons, source : Files, whole : BOOLEAN,
            writer : Procs \union {NoProc}]

ASSUME StorageAssumption ==
  /\ NoProc \notin Procs
  /\ SeedState \in States
  /\ NoState \notin States
  /\ Changes \intersect {"bootstrap", "export", "none"} = {}
  /\ Effect \in [Changes -> [States -> States]]
  /\ NoFile \notin Files
  /\ FirstFiles \subseteq {NoFile} \union {f \in Files : f.flushed /\ f.form # "torn"}
  /\ FirstBackups \in Seq(Backups)
  /\ \A i \in DOMAIN FirstBackups : /\ FirstBackups[i].writer = NoProc
                                   /\ FirstBackups[i].source.form # "torn"
  /\ KeepCount \in Nat \ {0}
  /\ MaxCommands \in Nat
  /\ MaxFaults \in Nat

VARIABLES
  file,           \* state.json
  durable,        \* what the directory on the disk has for state.json
  backups,        \* the files in backups/, oldest first
  pc,             \* where a process is in its command
  op,             \* the command
  task,           \* what the copy or the write at hand is for
  loaded,         \* the model load_storage has decoded
  temp,           \* the temporary file
  answer,         \* how the last command of a process ended
  commands, faults  \* counters of the bounds

fileVars == <<file, durable, backups>>
localVars == <<op, task, loaded>>
procVars == <<pc, localVars, temp, answer>>
countVars == <<commands, faults>>
vars == <<fileVars, procVars, countVars>>

Queries == {"bootstrap", "export"}
Tasks   == {"seed", "migration", "export", "change"}

Go(p, to) == pc' = [pc EXCEPT ![p] = to]

Fault ==
  /\ faults < MaxFaults
  /\ faults' = faults + 1

(* A command's promise is resolved, and its local variables are gone.      *)
Resolve(p, how) ==
  /\ Go(p, "idle")
  /\ answer' = [answer EXCEPT ![p] = how]
  /\ op' = [op EXCEPT ![p] = "none"]
  /\ task' = [task EXCEPT ![p] = "none"]
  /\ loaded' = [loaded EXCEPT ![p] = NoState]

-----------------------------------------------------------------------------
(* One command.                                                            *)

Begin(p) ==
  /\ pc[p] = "idle"
  /\ commands < MaxCommands
  /\ commands' = commands + 1
  /\ \E c \in Changes \union Queries : op' = [op EXCEPT ![p] = c]
  /\ Go(p, "load")
  /\ answer' = [answer EXCEPT ![p] = "none"]
  /\ UNCHANGED <<fileVars, task, loaded, temp, faults>>

(* Mutant of Supported: migrate_storage_json takes what it cannot know.    *)
SupportedOrNewer(f) == f.form \in {"legacy", "current", "newer"}

(* migrate_storage_json succeeds: the version is not above the current     *)
(* one, and the migration and the decoding of the model do not fail.       *)
Supported(f) == f.form \in {"legacy", "current"}

Work(p, what, to) ==
  /\ Go(p, to)
  /\ task' = [task EXCEPT ![p] = what]

(* load_storage up to its first write.                                     *)
LoadSeed(p) ==
  /\ pc[p] = "load"
  /\ file = NoFile
  /\ loaded' = [loaded EXCEPT ![p] = SeedState]
  /\ Work(p, "seed", "create")
  /\ UNCHANGED <<fileVars, op, temp, answer, countVars>>

Load(p) ==
  /\ pc[p] = "load"
  /\ file # NoFile
  /\ Supported(file)
  /\ loaded' = [loaded EXCEPT ![p] = file.model]
  /\ IF file.form = "current"
       THEN Go(p, "loaded") /\ UNCHANGED task
       ELSE Work(p, "migration", "copy")
  /\ UNCHANGED <<fileVars, op, temp, answer, countVars>>

(* `?` and map_err: the error goes up to the window.                       *)
LoadFails(p) ==
  /\ pc[p] = "load"
  /\ file # NoFile
  /\ Resolve(p, "err")
  /\ UNCHANGED <<fileVars, temp, countVars>>

(* The rest of the command, with the model that load_storage returned.     *)
Answered(p) ==
  /\ pc[p] = "loaded"
  /\ op[p] = "bootstrap"
  /\ Resolve(p, "ok")
  /\ UNCHANGED <<fileVars, temp, countVars>>

Proceed(p) ==
  /\ pc[p] = "loaded"
  /\ \/ op[p] = "export" /\ Work(p, "export", "copy")
     \/ op[p] \in Changes /\ Work(p, "change", "create")
  /\ UNCHANGED <<fileVars, op, loaded, temp, answer, countVars>>

-----------------------------------------------------------------------------
(* create_storage_backup.                                                  *)

(* Mutant of Places: the prefix does not tell the reasons apart.           *)
PlacesOfAll(reason) == DOMAIN backups

Places(reason) == {i \in DOMAIN backups : backups[i].reason = reason}

OpenCopy(p) ==
  /\ pc[p] = "copy"
  /\ file # NoFile
  /\ backups' = Append(backups, [reason |-> task[p], source |-> file,
                                 whole |-> FALSE, writer |-> p])
  /\ Go(p, "copying")
  /\ UNCHANGED <<file, durable, localVars, temp, answer, countVars>>

(* The state of the backup p is writing, if nobody has removed it.         *)
Close(p, whole) ==
  backups' = [i \in DOMAIN backups |->
                IF backups[i].writer = p
                  THEN [backups[i] EXCEPT !.whole = whole, !.writer = NoProc]
                  ELSE backups[i]]

EndCopy(p) ==
  /\ pc[p] = "copying"
  /\ Close(p, TRUE)
  /\ Go(p, "prune")
  /\ UNCHANGED <<file, durable, localVars, temp, answer, countVars>>

(* Mutant of CopyFails: load_storage goes on without its backup.           *)
CopyFailsUnnoticed(p) ==
  /\ pc[p] = "copy"
  /\ Go(p, IF task[p] = "migration" THEN "create" ELSE "idle")
  /\ UNCHANGED <<fileVars, localVars, temp, answer, countVars>>

CopyFails(p) ==
  /\ \/ pc[p] = "copy" /\ UNCHANGED <<backups, faults>>
     \/ pc[p] = "copying" /\ Close(p, FALSE) /\ Fault
  /\ Resolve(p, "err")
  /\ UNCHANGED <<file, durable, temp, commands>>

(* The backups of a reason but the newest KeepCount.                       *)
Outdated(reason) ==
  {i \in Places(reason) : Cardinality({j \in Places(reason) : j > i}) >= KeepCount}

(* prune_storage_backups removes the newest of them first.                 *)
Prune(p) ==
  /\ pc[p] = "prune"
  /\ \E i \in Outdated(task[p]) :
       /\ \A j \in Outdated(task[p]) : j <= i
       /\ backups' = RemoveAt(backups, i)
  /\ UNCHANGED <<file, durable, procVars, countVars>>

(* It ends with the last of them or the first that cannot be removed, and  *)
(* create_storage_backup ignores the error.                                *)
EndPrune(p) ==
  /\ pc[p] = "prune"
  /\ \/ task[p] = "migration" /\ Go(p, "create") /\ UNCHANGED <<localVars, answer>>
     \/ task[p] = "export" /\ Resolve(p, "ok")
  /\ UNCHANGED <<fileVars, temp, countVars>>

-----------------------------------------------------------------------------
(* write_file_atomically.                                                  *)

(* The model a process is about to write.                                  *)
Output(p) == IF task[p] = "change" THEN Effect[op[p]][loaded[p]] ELSE loaded[p]

WriteStep(p, from, to, left) ==
  /\ pc[p] = from
  /\ Go(p, to)
  /\ temp' = [temp EXCEPT ![p] = left]
  /\ UNCHANGED <<fileVars, localVars, answer, countVars>>

Create(p) == WriteStep(p, "create", "write", "partial")

Write(p) == WriteStep(p, "write", "sync", "written")

(* Mutant of Sync: the data is left to the operating system.               *)
SyncLater(p) == WriteStep(p, "sync", "rename", "written")

Sync(p) == WriteStep(p, "sync", "rename", "flushed")

(* What the temporary file of p becomes as state.json.                     *)
Written(p) == [form    |-> IF temp[p] = "partial" THEN "torn" ELSE "current",
               model   |-> Output(p),
               flushed |-> temp[p] = "flushed"]

(* Mutant of Rename: the command goes on as soon as the rename is tried.   *)
RenameMaybe(p) ==
  /\ pc[p] = "rename"
  /\ file' \in {file, Written(p)}
  /\ temp' = [temp EXCEPT ![p] = "none"]
  /\ Go(p, IF task[p] = "change" THEN "done" ELSE "loaded")
  /\ UNCHANGED <<durable, backups, localVars, answer, countVars>>

Rename(p) ==
  /\ pc[p] = "rename"
  /\ file' = Written(p)
  /\ temp' = [temp EXCEPT ![p] = "none"]
  /\ Go(p, IF task[p] = "change" THEN "done" ELSE "loaded")
  /\ UNCHANGED <<durable, backups, localVars, answer, countVars>>

WriteFails(p) ==
  /\ pc[p] \in {"create", "write", "sync", "rename"}
  /\ Go(p, "discard")
  /\ UNCHANGED <<fileVars, localVars, temp, answer, countVars>>

(* The temporary file is removed, or is not, and the error returned.       *)
Discard(p) ==
  /\ pc[p] = "discard"
  /\ temp' = [temp EXCEPT ![p] = "none"]
  /\ Resolve(p, "err")
  /\ UNCHANGED <<fileVars, countVars>>

Finish(p) ==
  /\ pc[p] = "done"
  /\ Resolve(p, "ok")
  /\ UNCHANGED <<fileVars, temp, countVars>>

-----------------------------------------------------------------------------
(* The surroundings.                                                       *)

Start(p) ==
  /\ pc[p] = "off"
  /\ Go(p, "idle")
  /\ UNCHANGED <<fileVars, localVars, temp, answer, countVars>>

Down(P) ==
  LET Reset(var, to) == [p \in Procs |-> IF p \in P THEN to ELSE var[p]]
  IN /\ pc'     = Reset(pc, "off")
     /\ op'     = Reset(op, "none")
     /\ task'   = Reset(task, "none")
     /\ loaded' = Reset(loaded, NoState)
     /\ temp'   = Reset(temp, "none")
     /\ answer' = Reset(answer, "none")
     /\ UNCHANGED commands

(* A backup whose writer dies stays as far as it got.                      *)
Abandoned(P, b) == IF b.writer \in P THEN [b EXCEPT !.writer = NoProc] ELSE b

Quit(p) ==
  /\ pc[p] = "idle"
  /\ Down({p})
  /\ UNCHANGED <<fileVars, faults>>

Kill(p) ==
  /\ pc[p] \notin {"off", "idle"}
  /\ Fault
  /\ Down({p})
  /\ backups' = [i \in DOMAIN backups |-> Abandoned({p}, backups[i])]
  /\ UNCHANGED <<file, durable>>

(* The operating system writes the directory to the disk.                  *)
Settle ==
  /\ durable # file
  /\ durable' = file
  /\ UNCHANGED <<file, backups, procVars, countVars>>

(* What is left of a file when the power has failed.                       *)
Survivor(f) ==
  IF f = NoFile THEN f
  ELSE [f EXCEPT !.form = IF f.flushed THEN @ ELSE "torn", !.flushed = TRUE]

PowerFails ==
  /\ Fault
  /\ Down(Procs)
  /\ \E f \in {file, durable} : file' = Survivor(f) /\ durable' = Survivor(f)
  /\ \E kept \in BOOLEAN :
       backups' = [i \in DOMAIN backups |->
                     [Abandoned(Procs, backups[i]) EXCEPT
                        !.whole = @ /\ (kept \/ i < Len(backups))]]

(* The user puts a whole backup back, as docs/storage.md tells to.         *)
Restore ==
  /\ \A p \in Procs : pc[p] = "off"
  /\ \E i \in DOMAIN backups :
       /\ backups[i].whole
       /\ file' = [backups[i].source EXCEPT !.flushed = TRUE]
  /\ durable' = file'
  /\ UNCHANGED <<backups, procVars, countVars>>

-----------------------------------------------------------------------------
Init ==
  /\ file \in FirstFiles
  /\ durable = file
  /\ backups = FirstBackups
  /\ pc = [p \in Procs |-> "off"]
  /\ op = [p \in Procs |-> "none"]
  /\ task = [p \in Procs |-> "none"]
  /\ loaded = [p \in Procs |-> NoState]
  /\ temp = [p \in Procs |-> "none"]
  /\ answer = [p \in Procs |-> "none"]
  /\ commands = 0
  /\ faults = 0

Step(p) ==
  \/ Begin(p) \/ LoadSeed(p) \/ Load(p) \/ LoadFails(p)
  \/ Answered(p) \/ Proceed(p)
  \/ OpenCopy(p) \/ EndCopy(p) \/ CopyFails(p) \/ Prune(p) \/ EndPrune(p)
  \/ Create(p) \/ Write(p) \/ Sync(p) \/ Rename(p)
  \/ WriteFails(p) \/ Discard(p) \/ Finish(p)

Next ==
  \/ \E p \in Procs : Step(p) \/ Start(p) \/ Quit(p) \/ Kill(p)
  \/ Settle
  \/ PowerFails
  \/ Restore

Spec == Init /\ [][Next]_vars

-----------------------------------------------------------------------------
(* Properties.                                                             *)

(* Type invariant of the state file and of the processes: what lies at the *)
(* path of state.json and what load_storage and write_file_atomically hold *)
(* between two steps.                                                      *)
TypeOK ==
  /\ file \in {NoFile} \union Files
  /\ durable \in {NoFile} \union Files
  /\ backups \in Seq(Backups)
  /\ pc \in [Procs -> {"off", "idle", "load", "loaded", "copy", "copying",
                       "prune", "create", "write", "sync", "rename",
                       "discard", "done"}]
  /\ op \in [Procs -> Changes \union Queries \union {"none"}]
  /\ task \in [Procs -> Tasks \union {"none"}]
  /\ loaded \in [Procs -> States \union {NoState}]
  /\ temp \in [Procs -> {"none", "partial", "written", "flushed"}]
  /\ answer \in [Procs -> {"none", "ok", "err"}]
  /\ commands \in 0..MaxCommands
  /\ faults \in 0..MaxFaults

Whole(f) == f # NoFile => f.form # "torn" /\ f.flushed

(* Neither a kill nor a power failure at any point, nor a second instance  *)
(* writing at the same time, leaves a state.json that is not a whole state *)
(* some command wrote: write_file_atomically flushes before it renames.    *)
StateIsWhole == Whole(file) /\ Whole(durable)

(* A program that is running never replaces a file it cannot read in full: *)
(* one of a newer build, or one that does not decode (docs/storage.md:     *)
(* newer schemas are rejected "instead of being downgraded").              *)
UnsupportedIsKept ==
  [][(\E p \in Procs : pc[p] # "off") /\ file # NoFile
       /\ file.form \in {"newer", "broken"} => file' = file]_vars

(* When a file of the first schema is replaced, a whole backup with its    *)
(* content is there, although kills leave torn backups behind, and other   *)
(* migrations and exports prune.                                           *)
MigrationKeepsOriginal ==
  [][file # NoFile /\ file.form = "legacy" /\ file'.form = "current"
       /\ (\E p \in Procs : pc[p] # "off")
       => \E i \in DOMAIN backups' :
            backups'[i].whole /\ backups'[i].source.model = file.model
                             /\ backups'[i].source.form = "legacy"]_vars

CountOf(reason) == Cardinality({i \in DOMAIN backups : backups[i].reason = reason})

(* Pruning the backups of one reason never takes those of the other, and   *)
(* never leaves fewer than KeepCount of its own, whoever else prunes, and  *)
(* however far the removal got.                                            *)
NewestAreKept ==
  [][\A reason \in Reasons :
       CountOf(reason)' < CountOf(reason) => CountOf(reason)' >= KeepCount]_vars

(* The state file keeps the promise of StateFile: a command that was       *)
(* accepted has replaced the state by what it made of what it read, one    *)
(* that was refused has not, and failures bring nothing else about.        *)
StoredState(f) == IF f = NoFile THEN SeedState ELSE f.model

ProgressOf(p) ==
  CASE pc[p] = "off"  -> "idle"
    [] pc[p] = "idle" -> (CASE answer[p] = "none" -> "idle"
                            [] answer[p] = "ok"   -> "accepted"
                            [] answer[p] = "err"  -> "refused")
    [] pc[p] = "load" -> "begun"
    [] pc[p] = "done" -> "replaced"
    [] OTHER          -> "read"

Abstract == INSTANCE StateFile
  WITH state    <- StoredState(file),
       safe     <- StoredState(durable),
       progress <- [p \in Procs |-> ProgressOf(p)],
       snapshot <- loaded,
       NoOp     <- "none"

ImplementsStateFile == Abstract!Spec

=============================================================================
