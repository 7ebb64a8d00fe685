----------------------------- MODULE StateFile -----------------------------
(***************************************************************************)
(* What the stored state of the application promises, whatever fails: the  *)
(* abstract specification of storage.rs.                                   *)
(*                                                                         *)
(* A command reads the state, and replaces it at most once by what it      *)
(* makes of what it has read.  It is accepted only after that, and refused *)
(* only if it has not been done.  A process that dies leaves the state as  *)
(* it is; a power failure may bring an earlier one back, but nothing else. *)
(* There is no isolation: two processes may overwrite each other's work.   *)
(***************************************************************************)

CONSTANTS
  Procs,        \* instances of the program
  States,       \* the contents of the stored state
  Changes,      \* the commands that change it
  Queries,      \* the commands that do not
  Effect,       \* what a change makes of a state
  NoOp,         \* no command
  NoState       \* nothing read

VARIABLES
  state,        \* the state a command would read
  safe,         \* the state the next power failure may bring back
  progress,     \* how far the command of a process is
  op,           \* the command a process is carrying out
  snapshot      \* the state it has read

vars == <<state, safe, progress, op, snapshot>>

Resting == {"idle", "accepted", "refused"}

Move(p, from, to) ==
  /\ progress[p] \in from
  /\ progress' = [progress EXCEPT ![p] = to]

Begin(p) ==
  /\ Move(p, Resting, "begun")
  /\ \E c \in Changes \union Queries : op' = [op EXCEPT ![p] = c]
  /\ UNCHANGED <<state, safe, snapshot>>

Read(p) ==
  /\ Move(p, {"begun"}, "read")
  /\ snapshot' = [snapshot EXCEPT ![p] = state]
  /\ UNCHANGED <<state, safe, op>>

(* A command is over, and what it held is gone.                            *)
Drop(p) ==
  /\ op' = [op EXCEPT ![p] = NoOp]
  /\ snapshot' = [snapshot EXCEPT ![p] = NoState]

(* The first start and the migration write what they have read.            *)
Restate(p) ==
  /\ progress[p] = "read"
  /\ state' = snapshot[p]
  /\ UNCHANGED <<safe, progress, op, snapshot>>

Replace(p) ==
  /\ Move(p, {"read"}, "replaced")
  /\ op[p] \in Changes
  /\ state' = Effect[op[p]][snapshot[p]]
  /\ UNCHANGED <<safe, op, snapshot>>

Accept(p) ==
  /\ Move(p, IF op[p] \in Changes THEN {"replaced"} ELSE {"read"}, "accepted")
  /\ Drop(p)
  /\ UNCHANGED <<state, safe>>

Refuse(p) ==
  /\ Move(p, {"begun", "read"}, "refused")
  /\ Drop(p)
  /\ UNCHANGED <<state, safe>>

Die(p) ==
  /\ progress' = [progress EXCEPT ![p] = "idle"]
  /\ Drop(p)
  /\ UNCHANGED <<state, safe>>

Settle ==
  /\ safe' = state
  /\ UNCHANGED <<state, progress, op, snapshot>>

PowerFails ==
  /\ progress' = [p \in Procs |-> "idle"]
  /\ state' \in {state, safe}
  /\ safe' = state'
  /\ op' = [p \in Procs |-> NoOp]
  /\ snapshot' = [p \in Procs |-> NoState]

(* The user replaces the file while no instance is running.                *)
Restore ==
  /\ \A p \in Procs : progress[p] = "idle"
  /\ state' \in States
  /\ safe' = state'
  /\ UNCHANGED <<progress, op, snapshot>>

Init ==
  /\ state \in States
  /\ safe = state
  /\ progress = [p \in Procs |-> "idle"]
  /\ op = [p \in Procs |-> NoOp]
  /\ snapshot = [p \in Procs |-> NoState]

Next ==
  \/ \E p \in Procs : \/ Begin(p) \/ Read(p) \/ Restate(p) \/ Replace(p)
                      \/ Accept(p) \/ Refuse(p) \/ Die(p)
  \/ Settle
  \/ PowerFails
  \/ Restore

Spec == Init /\ [][Next]_vars

=============================================================================
