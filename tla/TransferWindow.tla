--------------------------- MODULE TransferWindow ---------------------------
(***************************************************************************)
(* The rows of one batch of transfers as the windows show them             *)
(* (src/lib/transferQueue.ts, transferBatch.ts, transferWindow.ts,         *)
(* state/openXTermStoreTransfers.ts, TransferWindowPage.tsx).              *)
(*                                                                         *)
(* The main window runs the batch: it enqueues the batch row, then sends   *)
(* the children one after the other.  The backend broadcasts progress; a   *)
(* rejected command adds an event that only the main window sees.  Every   *)
(* window keeps its own rows, what it knows of the children, and payloads  *)
(* that wait for the next frame.  The windows share one snapshot in        *)
(* localStorage: the main window reads it in every flush, a transfer       *)
(* window when it opens and when the browser tells it of a change, and     *)
(* both overwrite it whole.  Bytes and messages are left out, but a        *)
(* payload that leaves the states alone may still change a row.            *)
(***************************************************************************)
EXTENDS Naturals, Sequences, FiniteSets

CONSTANTS
  Main,        \* the main window
  Subs,        \* the transfer window of the batch, if one can be opened
  N,           \* children of the batch
  MaxRetries,  \* bounds how often a child is retried
  MaxLag       \* bounds the events a window is behind

ASSUME WindowAssumption ==
  /\ Main \notin Subs /\ \A v, w \in Subs : v = w
  /\ N \in Nat \ {0, 1} /\ MaxRetries \in Nat /\ MaxLag \in Nat \ {0}

Windows  == {Main} \cup Subs
Children == 1 .. N
Batch    == 0                      \* the row of the batch itself
Rows     == {Batch} \cup Children

(* "retry" is the state queued with the message "Retrying transfer".       *)
States   == {"queued", "retry", "running", "completed", "canceled", "error"}
Slots    == States \cup {"none"}
Ended    == {"completed", "canceled", "error"}
NoRows   == [r \in Rows |-> "none"]
NoneKnown == [c \in Children |-> "none"]

VARIABLES
  at,          \* the backend's state of each child
  by,          \* the window whose command runs it
  turn,        \* the child the batch loop sends; past the last, it is over
  owed,        \* children whose command is rejected, their window not told
  asked,       \* ids the user cancelled
  tries,       \* retries begun
  snapshot,    \* "openxterm.transfer.queue"
  items,       \* transferItems; the state of TransferWindowPage
  pending,     \* pendingTransferPayloads; pendingItemsRef
  known,       \* batchChildren
  parent,      \* batchParents
  inbox,       \* broadcast events not handled yet
  notice,      \* windows with a storage event to come
  phase        \* where a transfer window is

engine == <<at, by, turn, owed, asked, tries>>
queues == <<pending, known, parent, inbox>>
vars   == <<engine, snapshot, items, queues, notice, phase>>

---------------------------------------------------------------------------
(* Merging.                                                                *)

Rank(s) == CASE s \in {"none", "queued", "retry"} -> 0 [] s = "running" -> 1 [] OTHER -> 2

(* Mutant of Merge: what comes later replaces what was there.              *)
MergeLatest(old, new) == IF new = "none" THEN old ELSE new

Merge(old, new) ==
  LET keep == \/ Rank(new) < Rank(old)
              \/ new = "queued" /\ Rank(old) # 0
              \/ old \in {"error", "canceled"} /\ new # old
  IN IF new = "none" \/ (old # "none" /\ new # "retry" /\ keep) THEN old ELSE new

MergeRows(old, new) == [r \in Rows |-> Merge(old[r], new[r])]

(* Mutant of Aggregate: the children that reported are all there are.      *)
AggregateKnown(kids, was) ==
  LET states == {kids[c] : c \in Children} \ {"none"}
  IN CASE "error" \in states -> "error"
       [] "canceled" \in states -> "canceled"
       [] states = {"completed"} -> "completed"
       [] OTHER -> "running"

(* Mutant of Aggregate: one child too many is awaited.                     *)
AggregateNever(kids, was) ==
  LET states == {kids[c] : c \in Children} \ {"none"}
  IN CASE "error" \in states -> "error"
       [] "canceled" \in states -> "canceled"
       [] OTHER -> "running"

(* aggregateBatchProgress: the state of the batch, from what the window    *)
(* knows of the children and the state it had.                             *)
Aggregate(kids, was) ==
  LET states == {kids[c] : c \in Children} \ {"none"}
  IN CASE "error" \in states -> "error"
       [] "canceled" \in states -> "canceled"
       [] \A c \in Children : kids[c] = "completed" -> "completed"
       [] states \subseteq {"queued", "retry"} /\ was \notin {"running", "completed"} -> "queued"
       [] OTHER -> "running"

---------------------------------------------------------------------------
(* The windows.                                                            *)

Open(w) == w = Main \/ phase[w] \in {"mounted", "bound", "listening"}
Hears(w) == w = Main \/ phase[w] = "listening"

(* A write tells the other windows if it changes the value.                *)
WriteSnapshot(w, rows) ==
  /\ snapshot' = rows
  /\ notice' = IF rows = snapshot THEN notice ELSE notice \cup {v \in Subs \ {w} : Open(v)}

(* A window takes a payload of a child: the child and the batch row wait   *)
(* for the frame.                                                          *)
Take(w, c, s) ==
  LET kids  == [known[w] EXCEPT ![c] = s]
      batch == Aggregate(kids, parent[w])
  IN /\ known' = [known EXCEPT ![w] = kids]
     /\ parent' = [parent EXCEPT ![w] = batch]
     /\ pending' = [pending EXCEPT ![w][c] = Merge(@, s), ![w][Batch] = Merge(@, batch)]

(* requestTransferWindow: one request for the batch, while it is under way. *)
RequestWindow(s) ==
  phase' = [w \in Subs |-> IF phase[w] = "none" /\ s \notin Ended THEN "opening" ELSE phase[w]]

(* The main window enqueues the batch.                                     *)
Enqueue ==
  /\ turn = 0
  /\ turn' = 1
  /\ parent' = [parent EXCEPT ![Main] = "queued"]
  /\ items' = [items EXCEPT ![Main][Batch] = Merge(@, "queued")]
  /\ WriteSnapshot(Main, items'[Main])
  /\ RequestWindow("queued")
  /\ UNCHANGED <<at, by, owed, asked, tries, pending, known, inbox>>

Receive(w) ==
  /\ inbox[w] # <<>>
  /\ inbox' = [inbox EXCEPT ![w] = Tail(@)]
  /\ Take(w, Head(inbox[w])[1], Head(inbox[w])[2])
  /\ IF w = Main THEN RequestWindow(parent'[Main]) ELSE UNCHANGED phase
  /\ UNCHANGED <<engine, snapshot, items, notice>>

(* The frame of the main window merges into its rows overlaid with the     *)
(* snapshot; unchanged rows are dropped with the overlay.                  *)
FlushMain ==
  LET base   == [r \in Rows |-> IF snapshot[r] = "none" THEN items[Main][r] ELSE snapshot[r]]
      merged == MergeRows(base, pending[Main])
  IN /\ pending[Main] # NoRows
     /\ pending' = [pending EXCEPT ![Main] = NoRows]
     /\ \/ /\ items' = [items EXCEPT ![Main] = merged]
           /\ WriteSnapshot(Main, merged)
        \/ /\ merged = base
           /\ UNCHANGED <<items, snapshot, notice>>
     /\ UNCHANGED <<engine, known, parent, inbox, phase>>

(* The frame of a transfer window merges into its own rows.                *)
FlushSub(w) ==
  LET merged == MergeRows(items[w], pending[w])
  IN /\ phase[w] = "listening" /\ pending[w] # NoRows
     /\ pending' = [pending EXCEPT ![w] = NoRows]
     /\ \/ /\ items' = [items EXCEPT ![w] = merged]
           /\ WriteSnapshot(w, merged)
        \/ /\ merged = items[w]
           /\ UNCHANGED <<items, snapshot, notice>>
     /\ UNCHANGED <<engine, known, parent, inbox, phase>>

(* A storage event: lost before the effect has run, else the snapshot of   *)
(* now is merged.                                                          *)
Storage(w) ==
  /\ w \in notice
  /\ notice' = notice \ {w}
  /\ IF phase[w] \in {"bound", "listening"}
       THEN /\ items' = [items EXCEPT ![w] = MergeRows(@, snapshot)]
            /\ parent' = [parent EXCEPT ![w] = IF snapshot[Batch] = "none" THEN @ ELSE snapshot[Batch]]
       ELSE UNCHANGED <<items, parent>>
  /\ UNCHANGED <<engine, snapshot, pending, known, inbox, phase>>

(* A transfer window opens: it renders the snapshot, its effect binds the  *)
(* storage listener, and the listener of the events follows.               *)
Mount(w) ==
  /\ phase[w] = "opening"
  /\ phase' = [phase EXCEPT ![w] = "mounted"]
  /\ items' = [items EXCEPT ![w] = snapshot]
  /\ parent' = [parent EXCEPT ![w] = snapshot[Batch]]
  /\ UNCHANGED <<engine, snapshot, pending, known, inbox, notice>>

Bind(w) ==
  /\ \/ phase[w] = "mounted" /\ phase' = [phase EXCEPT ![w] = "bound"]
     \/ phase[w] = "bound" /\ phase' = [phase EXCEPT ![w] = "listening"]
  /\ UNCHANGED <<engine, snapshot, items, queues, notice>>

(* Its memory goes with a window.                                          *)
Gone(w) ==
  /\ phase' = [phase EXCEPT ![w] = "gone"]
  /\ items' = [items EXCEPT ![w] = NoRows]
  /\ pending' = [pending EXCEPT ![w] = NoRows]
  /\ known' = [known EXCEPT ![w] = NoneKnown]
  /\ parent' = [parent EXCEPT ![w] = "none"]
  /\ inbox' = [inbox EXCEPT ![w] = <<>>]
  /\ notice' = notice \ {w}
  /\ UNCHANGED <<engine, snapshot>>

(* orderedItems: the batch with its failed children.                       *)
Visible(w) ==
  IF items[w][Batch] = "none" THEN {c \in Children : items[w][c] # "none"}
  ELSE {Batch} \cup {c \in Children : items[w][c] \in {"error", "canceled"}}

(* The close timers: all rows over, or no row at all.                      *)
AutoClose(w) ==
  /\ w \in Subs /\ Open(w)
  /\ \A r \in Visible(w) : items[w][r] \in {"completed", "canceled"}
  /\ Gone(w)

UserCloses(w) == w \in Subs /\ Open(w) /\ Gone(w)

(* A window replaces one of its rows and writes them all.                  *)
SetRow(w, r, s) ==
  /\ items' = [items EXCEPT ![w][r] = s]
  /\ WriteSnapshot(w, items'[w])

Cancel(w, r) ==
  /\ w \in Subs /\ Open(w) /\ r \in Visible(w)
  /\ items[w][r] \in {"queued", "retry", "running"}
  /\ asked' = asked \cup {r}
  /\ SetRow(w, r, Merge(items[w][r], "canceled"))
  /\ UNCHANGED <<at, by, turn, owed, tries, queues, phase>>

Retry(w, c) ==
  /\ w \in Subs /\ Open(w) /\ c \in Visible(w)
  /\ items[w][c] = "error" /\ at[c] = "error" /\ c \notin owed
  /\ tries[c] < MaxRetries
  /\ tries' = [tries EXCEPT ![c] = @ + 1]
  /\ by' = [by EXCEPT ![c] = w]
  /\ at' = [at EXCEPT ![c] = "idle"]
  /\ SetRow(w, c, "retry")
  /\ UNCHANGED <<turn, owed, asked, queues, phase>>

---------------------------------------------------------------------------
(* The backend, as TransferEngine has it in detail.                        *)

Broadcast(c, states) ==
  /\ \A w \in Windows : Len(inbox[w]) < MaxLag
  /\ inbox' = [w \in Windows |->
    IF Hears(w) THEN inbox[w] \o [i \in DOMAIN states |-> <<c, states[i]>>] ELSE inbox[w]]

Begin(c) ==
  /\ at[c] = "idle" /\ (by[c] = Main => turn = c)
  /\ at' = [at EXCEPT ![c] = "queued"]
  /\ asked' = asked \ {c}
  /\ Broadcast(c, IF by[c] = Main THEN <<"queued">> ELSE <<"retry", "queued">>)
  /\ UNCHANGED <<by, turn, owed, tries, snapshot, items, pending, known, parent, notice, phase>>

Run(c) ==
  /\ at[c] = "queued"
  /\ at' = [at EXCEPT ![c] = "running"]
  /\ Broadcast(c, <<"running">>)
  /\ UNCHANGED <<by, turn, owed, asked, tries, snapshot, items, pending, known, parent, notice, phase>>

(* Success; the loop goes on with the next child.                          *)
Complete(c) ==
  /\ at[c] = "running"
  /\ at' = [at EXCEPT ![c] = "completed"]
  /\ turn' = IF by[c] = Main THEN turn + 1 ELSE turn
  /\ asked' = asked \ {c}
  /\ Broadcast(c, <<"completed">>)
  /\ UNCHANGED <<by, owed, tries, snapshot, items, pending, known, parent, notice, phase>>

(* Failure: FTP reports it, the early returns of SFTP do not.              *)
Fail(c, s) ==
  /\ at[c] \in {"queued", "running"}
  /\ s = "canceled" => {c, Batch} \cap asked # {}
  /\ at' = [at EXCEPT ![c] = s]
  /\ owed' = owed \cup {c}
  /\ \/ Broadcast(c, <<s>>) /\ asked' = asked \ {c}
     \/ UNCHANGED <<inbox, asked>>
  /\ UNCHANGED <<by, turn, tries, snapshot, items, pending, known, parent, notice, phase>>

(* The command is rejected: the loop of the main window stops and          *)
(* invokeTransfer reports the failure there; a retry shows it in its       *)
(* window.                                                                 *)
Rejected(c) ==
  /\ c \in owed
  /\ owed' = owed \ {c}
  /\ UNCHANGED <<at, by, asked, tries, inbox>>
  /\ IF by[c] = Main
       THEN /\ turn' = N + 1
            /\ Take(Main, c, at[c])
            /\ RequestWindow(parent'[Main])
            /\ UNCHANGED <<snapshot, items, notice>>
       ELSE /\ IF Open(by[c]) THEN SetRow(by[c], c, Merge(items[by[c]][c], "error"))
                              ELSE UNCHANGED <<snapshot, items, notice>>
            /\ UNCHANGED <<turn, pending, known, parent, phase>>

---------------------------------------------------------------------------
Init ==
  /\ at = [c \in Children |-> "idle"] /\ by = [c \in Children |-> Main]
  /\ turn = 0 /\ owed = {} /\ asked = {} /\ tries = [c \in Children |-> 0]
  /\ snapshot = NoRows
  /\ items = [w \in Windows |-> NoRows] /\ pending = [w \in Windows |-> NoRows]
  /\ known = [w \in Windows |-> NoneKnown]
  /\ parent = [w \in Windows |-> "none"] /\ inbox = [w \in Windows |-> <<>>]
  /\ notice = {} /\ phase = [w \in Subs |-> "none"]

Next ==
  \/ Enqueue \/ FlushMain
  \/ \E w \in Windows : Receive(w)
  \/ \E w \in Subs : FlushSub(w) \/ Storage(w) \/ Mount(w) \/ Bind(w) \/ AutoClose(w) \/ UserCloses(w)
  \/ \E w \in Subs, r \in Rows : Cancel(w, r)
  \/ \E w \in Subs, c \in Children : Retry(w, c)
  \/ \E c \in Children : Begin(c) \/ Run(c) \/ Complete(c) \/ Rejected(c)
  \/ \E c \in Children, s \in {"error", "canceled"} : Fail(c, s)

(* Events reach the main window and its frames fire.  Nothing else need    *)
(* happen: commands may hang, a transfer window may never load or hear.    *)
Fairness == WF_vars(FlushMain) /\ WF_vars(Receive(Main))

Spec == Init /\ [][Next]_vars /\ Fairness

---------------------------------------------------------------------------
TypeOK ==
  /\ at \in [Children -> {"idle", "queued", "running"} \cup Ended]
  /\ by \in [Children -> Windows] /\ turn \in 0 .. (N + 1)
  /\ owed \subseteq Children /\ asked \subseteq Rows /\ tries \in [Children -> 0 .. MaxRetries]
  /\ snapshot \in [Rows -> Slots]
  /\ items \in [Windows -> [Rows -> Slots]] /\ pending \in [Windows -> [Rows -> Slots]]
  /\ known \in [Windows -> [Children -> Slots]] /\ parent \in [Windows -> Slots]
  /\ inbox \in [Windows -> Seq(Children \X States)]
  /\ notice \subseteq Subs
  /\ phase \in [Subs -> {"none", "opening", "mounted", "bound", "listening", "gone"}]

(* No window and no snapshot shows success before the backend has it: a    *)
(* row that says completed stands for a completed child, and the batch for *)
(* all of them, whichever events the window missed.                        *)
NoEarlySuccess ==
  \A rows \in {items[w] : w \in Windows} \cup {snapshot} :
    /\ \A c \in Children : rows[c] = "completed" => at[c] = "completed"
    /\ rows[Batch] = "completed" => \A c \in Children : at[c] = "completed"

(* In an open transfer window a row never falls back, whatever mix of      *)
(* late events, snapshots and batch rows comes in; only a retry of that    *)
(* row takes it back.                                                      *)
OnlyRetryGoesBack ==
  [][\A w \in Subs : Open(w) /\ Open(w)' =>
       \A r \in Rows : Rank(items'[w][r]) < Rank(items[w][r]) =>
         r \in Children /\ items'[w][r] = "retry" /\ tries'[r] > 0]_vars

(* When the last child has completed and the main window has handled what  *)
(* it got, the end of the batch is in the main window or in the snapshot   *)
(* it overlays, and stays there, although the windows overwrite each       *)
(* other's snapshot and the main window drops overlays that change         *)
(* nothing.  (A failure has no such promise: it may come without an event, *)
(* and a late frame then buries it.)                                       *)
SentThrough == \A c \in Children : at[c] = "completed" /\ by[c] = Main
CompletionIsRecorded ==
  SentThrough /\ inbox[Main] = <<>> /\ pending[Main] = NoRows =>
    items[Main][Batch] \in Ended \/ snapshot[Batch] \in Ended

(* What the windows show of a batch is so: no success before its time, and *)
(* its end not lost once the main window has heard of it.                  *)
RowsAreTrue == TypeOK /\ NoEarlySuccess /\ CompletionIsRecorded

(* Once the last child has completed, the end of the batch comes to be     *)
(* recorded for good, however the events, the frames and the snapshots of  *)
(* the windows cross.                                                      *)
CompletionArrives ==
  SentThrough ~> [](items[Main][Batch] \in Ended \/ snapshot[Batch] \in Ended)

=============================================================================
