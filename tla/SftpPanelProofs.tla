--------------------------- MODULE SftpPanelProofs ---------------------------
(***************************************************************************)
(* What the SFTP panel promises, for any hosts, directories, names and     *)
(* operations under way: nothing of the user's is lost unasked, what it    *)
(* shows is so, and half a deletion is told.                               *)
(***************************************************************************)
EXTENDS SftpPanel, FiniteSetTheorems, SequenceTheorems, TLAPS

Contents == {Nothing} \cup Files \cup Folders
ItemSet  == [name : Names, to : Names, action : {"error", "overwrite"}]
OpSet    ==
  [kind : {"load", "auto", "follow", "create", "rename", "delete", "download", "upload", "folder"},
   link : Links, dir : Dirs, place : Dirs,
   at : {"resolve", "inspect", "asked", "unheard", "run", "list"},
   wire : {"none", "sent", "checked", "ok", "error"}, todo : Seq(Names), plan : Seq(ItemSet),
   all : {"ask", "skip", "overwrite", "rename"}, known : SUBSET Names,
   entries : [Names -> Contents], alone : BOOLEAN]

(* An operation that waits for an answer has a name to settle, one that    *)
(* runs has a command to send, and nothing is asked before a rename or a   *)
(* deletion.                                                               *)
OpOK(op) ==
  /\ op \in OpSet
  /\ op.at \in {"asked", "unheard"} => op.todo # <<>>
  /\ op.at = "run" => op.plan # <<>>
  /\ op.kind \in {"rename", "delete"} => op.at \in {"run", "list"}

OpsInv ==
  /\ ops \in [Slots -> OpSet \cup {Idle}]
  /\ \A o \in Busy : OpOK(ops[o])

Clicked == Links \X Dirs \X Names

PanelInv ==
  /\ preferred \in Links \cup {"null", "undefined"}
  /\ shown \in [Links -> [path : Dirs \cup {"unseen"}, entries : [Names -> Contents]]]
  /\ loading \in BOOLEAN
  /\ picked \subseteq Clicked
  /\ form \in Clicked \cup {NoPlace}
  /\ cwd \in [Links -> Dirs]

DialogInv ==
  dialog = 0 \/ (dialog \in Slots /\ ops[dialog] # Idle /\ ops[dialog].at = "asked")

HostInv ==
  /\ host \in [Links -> [Dirs -> [Names -> Contents]]]
  /\ disk \in [Names -> {Nothing} \cup Files]

HistoryInv ==
  history \in [allowed : SUBSET ((Links \cup {Here}) \X (Dirs \cup {Here}) \X Names),
              behind : SUBSET Links, told : BOOLEAN, strayed : BOOLEAN]

TypeInv == OpsInv /\ PanelInv /\ DialogInv /\ HostInv /\ HistoryInv

(* A selection and a form are of the link that is selected, until it       *)
(* changes under them.                                                     *)
PickedInv ==
  history.strayed \/
    /\ \A p \in picked : p[1] = preferred
    /\ form # NoPlace => form[1] = preferred

Permitted(p, h) == h.strayed \/ p \in h.allowed

PlaceFor(op, n) ==
  IF op.kind = "download" THEN <<Here, Here, n>> ELSE <<op.link, op.place, n>>

(* What an operation was told to take away or to overwrite, and what it    *)
(* found free, is allowed or was never there.                              *)
May(op, h) ==
  /\ op.kind \in {"rename", "delete"} =>
       \A i \in DOMAIN op.plan : Permitted(PlaceFor(op, op.plan[i].name), h)
  /\ \A i \in DOMAIN op.plan :
       op.plan[i].action = "overwrite" => Permitted(PlaceFor(op, op.plan[i].to), h)
  /\ op.all = "overwrite" =>
       \A i \in DOMAIN op.todo : Permitted(PlaceFor(op, op.todo[i]), h)
  /\ op.wire = "checked" =>
       /\ op.kind = "upload"
       /\ \/ Before[op.place][op.plan[1].to] = Nothing
          \/ Permitted(PlaceFor(op, op.plan[1].to), h)

LeaveInv == \A o \in Busy : May(ops[o], history)

(* Half a tree stays behind where a deletion failed.                       *)
HalfInv ==
  (\E l \in Links, d \in Dirs, n \in Names : host[l][d][n] = "half")
    => history.told \/ \E o \in Busy : /\ ops[o].kind = "delete" /\ ops[o].at = "run"
                                       /\ ops[o].wire = "error"

(* Who has a link to itself has had it from the start, and lists what is   *)
(* there.                                                                  *)
AloneInv ==
  \A o \in Busy : ops[o].alone =>
    /\ \A q \in Busy : ops[q].link = ops[o].link => q = o
    /\ ops[o].at = "list" /\ ops[o].wire = "ok" =>
         ops[o].entries = host[ops[o].link][ops[o].dir]

(* A listing is current, known to be behind, or about to be replaced by an *)
(* operation that ends with a listing or a failure.                        *)
Replacing(op, l) == op.link = l /\ op.kind # "download" /\ op.at \in {"run", "list"}

ShownInv ==
  \A l \in Links :
    \/ l \in history.behind \/ shown[l].path = "unseen"
    \/ shown[l].entries = host[l][shown[l].path]
    \/ \E o \in Busy : Replacing(ops[o], l)

IInv ==
  /\ TypeInv /\ PickedInv /\ LeaveInv /\ OldFilesKept /\ HalfInv /\ AloneInv /\ ShownInv
  /\ LoadingIsWarranted

---------------------------------------------------------------------------
(* The library's enumeration of a finite set.                              *)
LEMMA Enumerated ==
  ASSUME NEW S \in SUBSET Names
  PROVE  /\ SetToSeq(S) \in Seq(S)
         /\ S # {} => SetToSeq(S) # <<>>
  <1> DEFINE n == Cardinality(S)
             f == SetToSeq(S)
  <1>1. IsFiniteSet(S) /\ n \in Nat /\ ExistsBijection(1 .. n, S)
    BY PanelAssumption, FS_Subset, FS_CardinalityType
  <1>2. \E g \in [1 .. n -> S] : IsInjective(g)
    BY <1>1 DEF ExistsBijection, Bijection, Injection
  <1>3. f \in [1 .. n -> S]
    BY <1>2 DEF SetToSeq
  <1>4. f \in Seq(S)
    BY <1>1, <1>3, SeqDef
  <1>5. S # {} => n # 0
    BY <1>1, FS_EmptySet
  <1>6. n # 0 => f # <<>>
    BY <1>1, <1>3
  <1> QED BY <1>4, <1>5, <1>6

LEMMA TailOf ==
  ASSUME NEW S, NEW s \in Seq(S), s # <<>>
  PROVE  /\ Head(s) = s[1] /\ 1 \in DOMAIN s /\ s[1] \in S
         /\ Tail(s) \in Seq(S)
         /\ \A i \in DOMAIN Tail(s) : i + 1 \in DOMAIN s /\ Tail(s)[i] = s[i + 1]
  OBVIOUS

LEMMA Joined ==
  ASSUME NEW S, NEW s \in Seq(S), NEW t \in Seq(S)
  PROVE  /\ s \o t \in Seq(S)
         /\ \A i \in DOMAIN (s \o t) :
              (\E j \in DOMAIN s : (s \o t)[i] = s[j]) \/ \E j \in DOMAIN t : (s \o t)[i] = t[j]
  <1>1. \A i \in DOMAIN (s \o t) : i \in DOMAIN s \/ i - Len(s) \in DOMAIN t
    OBVIOUS
  <1> QED BY <1>1

LEMMA BeforeType ==
  /\ First \in Names /\ Before \in [Dirs -> [Names -> Contents]]
  /\ \A d \in Dirs, n \in Names : Before[d][n] \in {Nothing, "old", "tree"}
  /\ Before[Root] \in [Names -> {Nothing} \cup Files]
  <1>1. First \in Names
    BY PanelAssumption DEF First
  <1> QED BY <1>1, PanelAssumption DEF Before, Contents, Files, Folders, Nothing

(* What the user has allowed is not taken back.                            *)
LEMMA MayStays ==
  ASSUME NEW op, NEW g, NEW h, May(op, g), g.strayed => h.strayed, g.allowed \subseteq h.allowed
  PROVE  May(op, h)
  BY DEF May, Permitted

LEMMA OpIsBusy ==
  ASSUME NEW op \in OpSet PROVE op # Idle
  <1>1. op.kind # "idle" /\ Idle.kind = "idle"
    BY DEF OpSet, Idle
  <1> QED BY <1>1

LEMMA InitIInv == Init => IInv
  <1> SUFFICES ASSUME Init PROVE IInv
    OBVIOUS
  <1>1. Busy = {} /\ ops = [o \in Slots |-> Idle]
    BY DEF Busy, Init
  <1>2. preferred \in Links
    BY PanelAssumption DEF Init
  <1>3. HostInv
    BY BeforeType DEF HostInv, Init
  <1>4. Unseen \in [path : Dirs \cup {"unseen"}, entries : [Names -> Contents]] /\ Unseen.path = "unseen"
    BY DEF Unseen, Contents
  <1>5. /\ shown \in [Links -> [path : Dirs \cup {"unseen"}, entries : [Names -> Contents]]]
        /\ picked \subseteq Clicked
        /\ \A p \in picked : p[1] = preferred
        /\ \A l \in Links : shown[l].path = "unseen" \/ shown[l].entries = host[l][shown[l].path]
    <2>1. CASE shown = [l \in Links |-> Unseen] /\ picked = {}
      BY <1>4, <2>1
    <2>2. ASSUME NEW d \in Dirs,
                 shown = [[l \in Links |-> Unseen] EXCEPT ![preferred] = [path |-> d, entries |-> Before[d]]],
                 picked = {<<preferred, d, First>>}
          PROVE  /\ shown \in [Links -> [path : Dirs \cup {"unseen"}, entries : [Names -> Contents]]]
                 /\ picked \subseteq Clicked
                 /\ \A p \in picked : p[1] = preferred
                 /\ \A l \in Links : shown[l].path = "unseen" \/ shown[l].entries = host[l][shown[l].path]
      <3> DEFINE r == [path |-> d, entries |-> Before[d]]
      <3>1. r \in [path : Dirs \cup {"unseen"}, entries : [Names -> Contents]]
        BY BeforeType
      <3>2. \A l \in Links : shown[l] = IF l = preferred THEN r ELSE Unseen
        BY <1>2, <2>2
      <3>3. \A l \in Links : host[l] = Before
        BY DEF Init
      <3>4. shown \in [Links -> [path : Dirs \cup {"unseen"}, entries : [Names -> Contents]]]
        BY <1>2, <1>4, <2>2, <3>1
      <3>5. \A l \in Links : shown[l].path = "unseen" \/ shown[l].entries = host[l][shown[l].path]
        BY <1>4, <3>2, <3>3
      <3> QED BY <1>2, <2>2, <3>4, <3>5, BeforeType DEF Clicked
    <2> QED BY <2>1, <2>2 DEF Init
  <1>6. PanelInv
    BY <1>2, <1>5, PanelAssumption DEF PanelInv, Init
  <1>7. HistoryInv
    BY DEF HistoryInv, Init
  <1>8. OpsInv /\ DialogInv /\ LeaveInv /\ AloneInv
    BY <1>1 DEF OpsInv, DialogInv, LeaveInv, AloneInv, Init
  <1>9. PickedInv
    BY <1>5 DEF PickedInv, Init
  <1>10. OldFilesKept
    BY DEF OldFilesKept, Init
  <1>11. HalfInv
    BY BeforeType DEF HalfInv, Nothing, Init
  <1>12. ShownInv
    BY <1>5 DEF ShownInv
  <1> QED BY <1>3, <1>6, <1>7, <1>8, <1>9, <1>10, <1>11, <1>12 DEF IInv, TypeInv, LoadingIsWarranted, Init

---------------------------------------------------------------------------
(* What an operation keeps while it lasts.                                 *)
Goes(old, new) == new.kind = old.kind /\ new.link = old.link /\ new.alone = old.alone

(* One operation goes on, or ends.                                         *)
LEMMA OneGoesOn ==
  ASSUME OpsInv, NEW o \in Busy, NEW r \in OpSet, OpOK(r), ops' = [ops EXCEPT ![o] = r]
  PROVE  /\ OpsInv' /\ Busy' = Busy /\ o \in Slots
         /\ ops'[o] = r /\ \A q \in Slots : q # o => ops'[q] = ops[q]
  <1>1. ops \in [Slots -> OpSet \cup {Idle}] /\ o \in Slots
    BY DEF OpsInv, Busy
  <1>2. ops' \in [Slots -> OpSet \cup {Idle}] /\ ops'[o] = r /\ \A q \in Slots : q # o => ops'[q] = ops[q]
    BY <1>1
  <1>3. r # Idle
    BY OpIsBusy
  <1>4. Busy' = Busy
    BY <1>2, <1>3 DEF Busy
  <1> QED BY <1>1, <1>2, <1>4 DEF OpsInv

LEMMA OneEnds ==
  ASSUME OpsInv, NEW o \in Busy, Finish(o)
  PROVE  /\ OpsInv' /\ Busy' = Busy \ {o} /\ o \in Slots /\ loading' = FALSE
         /\ ops'[o] = Idle /\ \A q \in Slots : q # o => ops'[q] = ops[q]
  <1>1. ops \in [Slots -> OpSet \cup {Idle}] /\ o \in Slots /\ ops' = [ops EXCEPT ![o] = Idle]
    BY DEF OpsInv, Busy, Finish
  <1>2. ops' \in [Slots -> OpSet \cup {Idle}] /\ ops'[o] = Idle /\ \A q \in Slots : q # o => ops'[q] = ops[q]
    BY <1>1
  <1>3. Busy' = Busy \ {o}
    BY <1>2 DEF Busy
  <1> QED BY <1>1, <1>2, <1>3 DEF OpsInv, Finish

LEMMA LeaveKept ==
  ASSUME LeaveInv, history.strayed => history'.strayed, history.allowed \subseteq history'.allowed,
         \A q \in Busy' : (q \in Busy /\ ops'[q] = ops[q]) \/ May(ops'[q], history')
  PROVE  LeaveInv'
  <1> SUFFICES ASSUME NEW q \in Busy' PROVE May(ops'[q], history')
    BY DEF LeaveInv
  <1>1. CASE q \in Busy /\ ops'[q] = ops[q]
    BY <1>1, MayStays DEF LeaveInv
  <1> QED BY <1>1

LEMMA AloneKept ==
  ASSUME AloneInv,
         \A q \in Busy' : q \in Busy /\ Goes(ops[q], ops'[q]),
         \A q \in Busy' : ops'[q].alone /\ ops'[q].at = "list" /\ ops'[q].wire = "ok" =>
           ops'[q].entries = host'[ops'[q].link][ops'[q].dir]
  PROVE  AloneInv'
  BY DEF AloneInv, Goes

(* Without a change on the hosts, those that list have what is there.      *)
LEMMA AloneUnderWindow ==
  ASSUME AloneInv, host' = host,
         \A q \in Busy' : q \in Busy /\ Goes(ops[q], ops'[q]),
         \A q \in Busy' : ops'[q] = ops[q] \/ ops'[q].at # "list" \/ ops'[q].wire # "ok"
  PROVE  AloneInv'
  <1>1. \A q \in Busy' : ops'[q].alone /\ ops'[q].at = "list" /\ ops'[q].wire = "ok" =>
           ops'[q].entries = host'[ops'[q].link][ops'[q].dir]
    BY DEF AloneInv, Goes
  <1> QED BY <1>1, AloneKept

LEMMA HalfKept ==
  ASSUME HalfInv, host' = host, history.told => history'.told,
         \A q \in Busy : \/ q \in Busy' /\ ops'[q] = ops[q]
                         \/ ~ (ops[q].kind = "delete" /\ ops[q].at = "run" /\ ops[q].wire = "error")
  PROVE  HalfInv'
  BY DEF HalfInv

LEMMA ShownKept ==
  ASSUME ShownInv, host' = host, shown' = shown, history.behind \subseteq history'.behind,
         \A q \in Busy : \/ q \in Busy' /\ ops'[q].link = ops[q].link /\ ops'[q].kind = ops[q].kind
                            /\ (ops[q].at \in {"run", "list"} => ops'[q].at \in {"run", "list"})
                         \/ ops[q].kind = "download" \/ ops[q].at \notin {"run", "list"}
                         \/ ops[q].link \in history'.behind
  PROVE  ShownInv'
  BY DEF ShownInv, Replacing

LEMMA FilesKept ==
  ASSUME OldFilesKept, host' = host, disk' = disk,
         history.strayed => history'.strayed, history.allowed \subseteq history'.allowed
  PROVE  OldFilesKept'
  BY DEF OldFilesKept
---------------------------------------------------------------------------
(* An operation begins.                                                    *)

LEMMA PathType ==
  ASSUME PanelInv, Selected # NoLink
  PROVE  /\ Selected \in Links /\ Selected = preferred
         /\ Path \in Dirs /\ Listing \subseteq Names /\ Highlighted \subseteq Names
  BY PanelAssumption DEF PanelInv, Selected, Path, PathOf, Snapshot, Listing, Highlighted

(* What nothing of the rest has changed.                                   *)
Waits(op) == op.wire \in {"none", "sent"} /\ op.all = "ask"

LEMMA StartKeeps ==
  ASSUME IInv, NEW o \in Slots, NEW op \in OpSet, OpOK(op), op.link = Selected,
         op.alone = (BusyOn(Selected) = {}), Waits(op), op.at # "asked", May(op, history'),
         Start(o, op), Quiet,
         history'.strayed = history.strayed, history'.behind = history.behind,
         history'.told = history.told, history.allowed \subseteq history'.allowed
  PROVE  /\ OpsInv' /\ DialogInv' /\ HostInv' /\ LeaveInv' /\ OldFilesKept' /\ HalfInv' /\ AloneInv'
         /\ ShownInv' /\ LoadingIsWarranted'
  <1> USE DEF IInv, TypeInv
  <1>1. /\ host' = host /\ disk' = disk /\ shown' = shown /\ dialog' = dialog
        /\ Selected # NoLink /\ ops[o] = Idle /\ loading' = TRUE
    BY DEF Start, Quiet, remote
  <1>2. ops' = [q \in Slots |-> IF q = o THEN op
                  ELSE IF q \in BusyOn(Selected) THEN [ops[q] EXCEPT !.alone = FALSE] ELSE ops[q]]
    BY DEF Start
  <1>3. ops'[o] = op /\ o \notin Busy
    BY <1>1, <1>2 DEF Busy
  <1>4. \A q \in Busy : q \in Slots /\ q # o /\ ops[q] \in OpSet /\ OpOK(ops[q])
    BY <1>3, OpIsBusy DEF OpsInv, Busy
  <1>5. ASSUME NEW q \in Busy
        PROVE  /\ ops'[q] \in OpSet /\ OpOK(ops'[q])
               /\ ops'[q].kind = ops[q].kind /\ ops'[q].link = ops[q].link /\ ops'[q].dir = ops[q].dir
               /\ ops'[q].place = ops[q].place /\ ops'[q].at = ops[q].at /\ ops'[q].wire = ops[q].wire
               /\ ops'[q].todo = ops[q].todo /\ ops'[q].plan = ops[q].plan /\ ops'[q].all = ops[q].all
               /\ ops'[q].entries = ops[q].entries
               /\ ops'[q].alone = (ops[q].alone /\ ops[q].link # Selected)
    <2>1. CASE ops[q].link = Selected
      <3>1. ops'[q] = [ops[q] EXCEPT !.alone = FALSE]
        BY <1>2, <1>4, <2>1 DEF BusyOn
      <3>2. ops[q] \in OpSet /\ OpOK(ops[q])
        BY <1>4
      <3>3. ops'[q] \in OpSet
        BY <3>1, <3>2 DEF OpSet
      <3>4. /\ ops'[q].kind = ops[q].kind /\ ops'[q].link = ops[q].link /\ ops'[q].dir = ops[q].dir
            /\ ops'[q].place = ops[q].place /\ ops'[q].at = ops[q].at /\ ops'[q].wire = ops[q].wire
            /\ ops'[q].todo = ops[q].todo /\ ops'[q].plan = ops[q].plan /\ ops'[q].all = ops[q].all
            /\ ops'[q].entries = ops[q].entries /\ ops'[q].alone = FALSE
        BY <3>1, <3>2 DEF OpSet
      <3> QED BY <2>1, <3>2, <3>3, <3>4 DEF OpOK
    <2>2. CASE ops[q].link # Selected
      <3>1. ops'[q] = ops[q]
        BY <1>2, <1>4, <2>2 DEF BusyOn
      <3>2. ops[q].alone \in BOOLEAN
        BY <1>4 DEF OpSet
      <3> QED BY <1>4, <2>2, <3>1, <3>2
    <2> QED BY <2>1, <2>2
  <1>6. \A q \in Slots : q \notin Busy => ops[q] = Idle
    BY DEF Busy
  <1>7. \A q \in Slots : q \notin Busy /\ q # o => ops'[q] = Idle
    BY <1>2, <1>6 DEF BusyOn
  <1>8. Busy' = Busy \cup {o}
    BY <1>3, <1>4, <1>5, <1>7, OpIsBusy DEF Busy
  <1>9. OpsInv'
    <2>1. \A q \in Slots : ops'[q] \in OpSet \cup {Idle}
      BY <1>3, <1>5, <1>7
    <2>2. ops' \in [Slots -> OpSet \cup {Idle}]
      BY <1>2, <2>1
    <2> QED BY <1>3, <1>5, <1>8, <2>2 DEF OpsInv
  <1>10. DialogInv'
    <2>1. dialog # 0 => dialog \in Busy
      BY DEF DialogInv, Busy
    <2> QED BY <1>1, <1>4, <1>5, <1>8, <2>1, OpIsBusy DEF DialogInv
  <1>11. LeaveInv'
    <2>1. ASSUME NEW q \in Busy PROVE May(ops'[q], history')
      <3>1. May(ops[q], history')
        BY MayStays DEF LeaveInv
      <3> QED BY <1>5, <3>1 DEF May, PlaceFor
    <2> QED BY <1>3, <1>8, <2>1 DEF LeaveInv
  <1>12. OldFilesKept'
    BY <1>1, FilesKept
  <1>13. HalfInv'
    BY <1>1, <1>5, <1>8 DEF HalfInv
  <1>14. AloneInv'
    <2>1. SUFFICES ASSUME NEW p \in Busy', ops'[p].alone
                   PROVE  /\ \A q \in Busy' : ops'[q].link = ops'[p].link => q = p
                          /\ ops'[p].at = "list" /\ ops'[p].wire = "ok" =>
                               ops'[p].entries = host'[ops'[p].link][ops'[p].dir]
      BY DEF AloneInv
    <2>2. CASE p = o
      <3>1. \A q \in Busy : ops[q].link # Selected
        BY <1>3, <2>1, <2>2 DEF BusyOn
      <3> QED BY <1>3, <1>5, <1>8, <2>2, <3>1 DEF Waits
    <2>3. CASE p \in Busy
      <3>1. ops[p].alone /\ ops[p].link # Selected
        BY <1>5, <2>1, <2>3
      <3> QED BY <1>1, <1>3, <1>5, <1>8, <2>3, <3>1 DEF AloneInv
    <2> QED BY <1>8, <2>2, <2>3
  <1>15. ShownInv'
    BY <1>1, <1>5, <1>8 DEF ShownInv, Replacing
  <1>16. LoadingIsWarranted'
    BY <1>8 DEF LoadingIsWarranted
  <1> QED BY <1>1, <1>9, <1>10, <1>11, <1>12, <1>13, <1>14, <1>15, <1>16 DEF HostInv
(* Nothing is allowed that needs the user's word.                          *)
LEMMA MayAtOnce ==
  ASSUME NEW op \in OpSet, NEW h, Waits(op), op.kind \notin {"rename", "delete"},
         \A i \in DOMAIN op.plan : op.plan[i].action = "error"
  PROVE  May(op, h)
  BY DEF May, Waits

(* The panel around a new operation.                                       *)
LEMMA PanelAtStart ==
  ASSUME PanelInv, PickedInv, Quiet, picked' = picked, form' = form, loading' = TRUE,
         history'.strayed = history.strayed
  PROVE  PanelInv' /\ PickedInv'
  BY DEF PanelInv, PickedInv, Quiet

(* Those that only look, create or bring something new.                    *)
LEMMA PlainStart ==
  ASSUME IInv, Quiet, UNCHANGED <<picked, form, history>>,
         NEW kind \in {"load", "auto", "follow", "create", "download", "upload", "folder"},
         NEW dir \in Dirs, NEW place \in Dirs, NEW at \in {"resolve", "inspect", "run", "list"},
         NEW todo \in Seq(Names), NEW plan \in Seq(ItemSet), at = "run" => plan # <<>>,
         \A i \in DOMAIN plan : plan[i].action = "error",
         NEW op, op = Operation(kind, dir, place, at, todo, plan), StartAny(op)
  PROVE  IInv'
  <1>0. PanelInv /\ PickedInv /\ HistoryInv
    BY DEF IInv, TypeInv
  <1>1. PICK o \in Slots : Start(o, op)
    BY DEF StartAny
  <1>2. Selected # NoLink /\ loading' = TRUE
    BY <1>1 DEF Start
  <1>3. /\ op \in OpSet /\ OpOK(op)
        /\ op.kind = kind /\ op.link = Selected /\ op.alone = (BusyOn(Selected) = {}) /\ op.at = at
        /\ op.wire \in {"none", "sent"} /\ op.todo = todo /\ op.plan = plan /\ op.all = "ask"
    <2>1. Selected \in Links /\ Listing \subseteq Names
      BY <1>0, <1>2, PathType
    <2>2. Unseen.entries \in [Names -> Contents]
      BY DEF Unseen, Contents
    <2>3. op \in OpSet
      BY <2>1, <2>2 DEF Operation, OpSet
    <2>4. /\ op.kind = kind /\ op.link = Selected /\ op.alone = (BusyOn(Selected) = {}) /\ op.at = at
          /\ op.wire \in {"none", "sent"} /\ op.todo = todo /\ op.plan = plan /\ op.all = "ask"
      BY DEF Operation
    <2> QED BY <2>3, <2>4 DEF OpOK
  <1>4. May(op, history')
    BY <1>3, MayAtOnce DEF Waits
  <1>5. /\ OpsInv' /\ DialogInv' /\ HostInv' /\ LeaveInv' /\ OldFilesKept' /\ HalfInv' /\ AloneInv'
        /\ ShownInv' /\ LoadingIsWarranted'
    BY <1>1, <1>3, <1>4, StartKeeps DEF Waits
  <1>6. PanelInv' /\ PickedInv'
    BY <1>0, <1>2, PanelAtStart
  <1>7. HistoryInv'
    BY <1>0 DEF HistoryInv
  <1> QED BY <1>5, <1>6, <1>7 DEF IInv, TypeInv

LEMMA OneItem ==
  ASSUME NEW n \in Names, NEW to \in Names
  PROVE  /\ <<Item(n, to, "error")>> \in Seq(ItemSet) /\ <<Item(n, to, "error")>> # <<>>
         /\ \A i \in DOMAIN <<Item(n, to, "error")>> :
              <<Item(n, to, "error")>>[i] = Item(n, to, "error")
         /\ Item(n, to, "error").action = "error" /\ Item(n, to, "error").name = n
  BY DEF Item, ItemSet

LEMMA StartStep ==
  ASSUME IInv,
         \/ \E d \in Dirs : Open(d)
         \/ \E n \in Typed : CreateFolder(n) \/ UploadFolder(n)
         \/ \E batch \in Batches : Upload(batch)
         \/ Download \/ AutoLoad \/ FollowTerminal
  PROVE  IInv'
  <1>1. PanelInv
    BY DEF IInv, TypeInv
  <1>2. Root \in Dirs /\ Typed \subseteq Names /\ <<>> \in Seq(ItemSet) /\ <<>> \in Seq(Names)
        /\ \A i \in DOMAIN <<>> : <<>>[i].action = "error"
    BY PanelAssumption
  <1>3. ASSUME NEW op, StartAny(op) PROVE Path \in Dirs /\ Highlighted \in SUBSET Names
    BY <1>1, <1>3, PathType DEF StartAny, Start
  <1>4. ASSUME NEW d \in Dirs, Open(d) PROVE IInv'
    <2>9. /\ Quiet /\ UNCHANGED <<picked, form, history>>
          /\ StartAny(Operation("load", d, d, "list", <<>>, <<>>))
      BY <1>4 DEF Open
    <2> QED BY <1>2, <2>9, PlainStart
  <1>5. ASSUME NEW n \in Typed, CreateFolder(n) PROVE IInv'
    <2>1. Path \in Dirs /\ n \in Names
      BY <1>2, <1>3, <1>5 DEF CreateFolder
    <2>9. /\ Quiet /\ UNCHANGED <<picked, form, history>>
          /\ StartAny(Operation("create", Path, Path, "run", <<>>, <<Item(n, n, "error")>>))
      BY <1>5 DEF CreateFolder
    <2>2. /\ <<Item(n, n, "error")>> \in Seq(ItemSet) /\ <<Item(n, n, "error")>> # <<>>
          /\ \A i \in DOMAIN <<Item(n, n, "error")>> : <<Item(n, n, "error")>>[i].action = "error"
      BY <2>1, OneItem
    <2> QED BY <1>2, <2>1, <2>2, <2>9, PlainStart
  <1>6. ASSUME NEW n \in Typed, UploadFolder(n) PROVE IInv'
    <2>1. Path \in Dirs /\ <<n>> \in Seq(Names)
      BY <1>2, <1>3, <1>6 DEF UploadFolder
    <2>9. /\ Quiet /\ UNCHANGED <<picked, form, history>>
          /\ StartAny(Operation("folder", Path, Path, "resolve", <<n>>, <<>>))
      BY <1>6 DEF UploadFolder
    <2> QED BY <1>2, <2>1, <2>9, PlainStart
  <1>7. ASSUME NEW batch \in Batches, Upload(batch) PROVE IInv'
    <2>1. Path \in Dirs /\ batch \in Seq(Names)
      BY <1>3, <1>7, PanelAssumption DEF Upload
    <2>9. /\ Quiet /\ UNCHANGED <<picked, form, history>>
          /\ StartAny(Operation("upload", Path, Path, "resolve", batch, <<>>))
      BY <1>7 DEF Upload
    <2> QED BY <1>2, <2>1, <2>9, PlainStart
  <1>8. ASSUME Download PROVE IInv'
    <2>1. Highlighted \in SUBSET Names /\ Path \in Dirs
      BY <1>3, <1>8 DEF Download
    <2>2. Chosen \in Seq(Names)
      BY <2>1, Enumerated DEF Chosen
    <2>9. /\ Quiet /\ UNCHANGED <<picked, form, history>>
          /\ StartAny(Operation("download", Path, Path, "inspect", Chosen, <<>>))
      BY <1>8 DEF Download
    <2> QED BY <1>2, <2>1, <2>2, <2>9, PlainStart
  <1>9. ASSUME AutoLoad PROVE IInv'
    <2>9. /\ Quiet /\ UNCHANGED <<picked, form, history>>
          /\ StartAny(Operation("auto", Root, Root, "list", <<>>, <<>>))
      BY <1>9 DEF AutoLoad
    <2> QED BY <1>2, <2>9, PlainStart
  <1>10. ASSUME FollowTerminal PROVE IInv'
    <2>0. Selected \in Links
      BY <1>1, <1>10 DEF FollowTerminal, Follows, Selected
    <2>1. cwd[Selected] \in Dirs
      BY <1>1, <2>0 DEF PanelInv
    <2>9. /\ Quiet /\ UNCHANGED <<picked, form, history>>
          /\ StartAny(Operation("follow", cwd[Selected], cwd[Selected], "list", <<>>, <<>>))
      BY <1>10 DEF FollowTerminal
    <2> QED BY <1>2, <2>1, <2>9, PlainStart
  <1> QED BY <1>4, <1>5, <1>6, <1>7, <1>8, <1>9, <1>10

(* Those that take something away: the user pointed at it.                 *)
LEMMA PointedStart ==
  ASSUME IInv, Quiet, UNCHANGED <<picked, form>>,
         NEW kind \in {"rename", "delete"}, NEW place \in Dirs, Path \in Dirs,
         NEW plan \in Seq(ItemSet), plan # <<>>, \A i \in DOMAIN plan : plan[i].action = "error",
         NEW op, op = Operation(kind, Path, place, "run", <<>>, plan), StartAny(op),
         NEW places \in SUBSET Clicked, Allow(places),
         history.strayed \/ \A i \in DOMAIN plan : <<Selected, place, plan[i].name>> \in places
  PROVE  IInv'
  <1> USE DEF IInv, TypeInv
  <1>1. PICK o \in Slots : Start(o, op)
    BY DEF StartAny
  <1>2. Selected # NoLink /\ loading' = TRUE
    BY <1>1 DEF Start
  <1>3. <<>> \in Seq(Names)
    OBVIOUS
  <1>4. /\ op \in OpSet /\ OpOK(op)
        /\ op.kind = kind /\ op.link = Selected /\ op.alone = (BusyOn(Selected) = {}) /\ op.at = "run"
        /\ op.wire \in {"none", "sent"} /\ op.todo = <<>> /\ op.plan = plan /\ op.all = "ask"
        /\ op.place = place
    <2>1. Selected \in Links /\ Listing \subseteq Names
      BY <1>2, PathType
    <2>2. Unseen.entries \in [Names -> Contents]
      BY DEF Unseen, Contents
    <2> QED BY <1>3, <2>1, <2>2 DEF Operation, OpSet, OpOK
  <1>5. /\ history'.strayed = history.strayed /\ history'.behind = history.behind
        /\ history'.told = history.told /\ history'.allowed = history.allowed \cup places
        /\ HistoryInv'
    <2>1. places \subseteq (Links \cup {Here}) \X (Dirs \cup {Here}) \X Names
      BY DEF Clicked
    <2> QED BY <2>1 DEF HistoryInv, Allow
  <1>6. May(op, history')
    BY <1>4, <1>5 DEF May, Permitted, PlaceFor
  <1>7. /\ OpsInv' /\ DialogInv' /\ HostInv' /\ LeaveInv' /\ OldFilesKept' /\ HalfInv' /\ AloneInv'
        /\ ShownInv' /\ LoadingIsWarranted'
    BY <1>1, <1>4, <1>5, <1>6, StartKeeps DEF Waits
  <1>8. PanelInv' /\ PickedInv'
    BY <1>2, <1>5, PanelAtStart
  <1> QED BY <1>5, <1>7, <1>8

LEMMA RenameStep ==
  ASSUME IInv, NEW n \in Typed, Rename(n)
  PROVE  IInv'
  <1> DEFINE plan == <<Item(form[3], n, "error")>>
  <1>1. PanelInv /\ PickedInv
    BY DEF IInv, TypeInv
  <1>2. n \in Names
    BY PanelAssumption
  <1>3. /\ Quiet /\ UNCHANGED <<picked, form>> /\ Allow({form}) /\ form # NoPlace
        /\ StartAny(Operation("rename", Path, form[2], "run", <<>>, plan))
    BY DEF Rename
  <1>4. Selected # NoLink
    BY <1>3 DEF StartAny, Start
  <1>5. Path \in Dirs /\ Selected = preferred
    BY <1>1, <1>4, PathType
  <1>6. form \in Clicked
    BY <1>1, <1>3 DEF PanelInv
  <1>7. form[2] \in Dirs /\ form[3] \in Names /\ form = <<form[1], form[2], form[3]>>
    BY <1>6 DEF Clicked
  <1>8. /\ plan \in Seq(ItemSet) /\ plan # <<>>
        /\ \A i \in DOMAIN plan : plan[i].action = "error" /\ plan[i].name = form[3]
    BY <1>2, <1>7, OneItem
  <1>9. history.strayed \/ \A i \in DOMAIN plan : <<Selected, form[2], plan[i].name>> \in {form}
    BY <1>1, <1>3, <1>5, <1>7, <1>8 DEF PickedInv
  <1>10. {form} \in SUBSET Clicked
    BY <1>6
  <1> HIDE DEF plan
  <1> QED BY <1>3, <1>5, <1>7, <1>8, <1>9, <1>10, PointedStart

LEMMA DeleteStep ==
  ASSUME IInv, DeleteEntries
  PROVE  IInv'
  <1> DEFINE plan == AsItems(Chosen)
  <1>1. PanelInv /\ PickedInv
    BY DEF IInv, TypeInv
  <1>2. /\ Quiet /\ UNCHANGED <<picked, form>> /\ Allow(picked) /\ Highlighted # {}
        /\ StartAny(Operation("delete", Path, Path, "run", <<>>, plan))
    BY DEF DeleteEntries
  <1>3. Selected # NoLink
    BY <1>2 DEF StartAny, Start
  <1>4. Path \in Dirs /\ Selected = preferred /\ Highlighted \in SUBSET Names
    BY <1>1, <1>3, PathType
  <1>5. Chosen \in Seq(Highlighted) /\ Chosen # <<>>
    BY <1>2, <1>4, Enumerated DEF Chosen
  <1>6. \A i \in DOMAIN Chosen : Chosen[i] \in Highlighted
    BY <1>5
  <1>7. DOMAIN plan = DOMAIN Chosen /\ \A i \in DOMAIN plan : plan[i] = Item(Chosen[i], Chosen[i], "error")
    BY DEF AsItems
  <1>8. \A n \in Names : Item(n, n, "error") \in ItemSet
    BY DEF Item, ItemSet
  <1>9. plan \in [DOMAIN Chosen -> ItemSet]
    BY <1>4, <1>6, <1>8 DEF AsItems
  <1>10. Len(Chosen) \in Nat /\ DOMAIN Chosen = 1 .. Len(Chosen) /\ Len(Chosen) # 0
    BY <1>5
  <1>11. plan \in Seq(ItemSet) /\ plan # <<>>
    BY <1>7, <1>9, <1>10, SeqDef
  <1>12. \A i \in DOMAIN plan : plan[i].action = "error" /\ plan[i].name \in Highlighted
    BY <1>6, <1>7 DEF Item
  <1>13. history.strayed \/ \A n \in Highlighted : <<Selected, Path, n>> \in picked
    <2>1. SUFFICES ASSUME ~ history.strayed, NEW n \in Highlighted PROVE <<Selected, Path, n>> \in picked
      OBVIOUS
    <2>2. PICK p \in picked : p[2] = Path /\ p[3] = n
      BY DEF Highlighted
    <2>3. p[1] = Selected /\ p \in Clicked
      BY <1>1, <1>4, <2>1 DEF PickedInv, PanelInv
    <2>4. p = <<Selected, Path, n>>
      BY <2>2, <2>3 DEF Clicked
    <2> QED BY <2>4
  <1>14. picked \in SUBSET Clicked
    BY <1>1 DEF PanelInv
  <1> HIDE DEF plan
  <1>15. history.strayed \/ \A i \in DOMAIN plan : <<Selected, Path, plan[i].name>> \in picked
    BY <1>12, <1>13
  <1> QED BY <1>2, <1>4, <1>11, <1>12, <1>14, <1>15, PointedStart
---------------------------------------------------------------------------
(* Steps of the panel that send nothing.                                   *)

LEMMA OpsUntouched ==
  ASSUME IInv, UNCHANGED <<remote, dialog, ops>>, loading' => loading,
         \A l \in Links : shown'[l] = shown[l] \/ shown'[l].path = "unseen",
         history'.behind = history.behind, history'.told = history.told,
         history'.allowed = history.allowed, history.strayed => history'.strayed
  PROVE  /\ OpsInv' /\ DialogInv' /\ HostInv' /\ LeaveInv' /\ OldFilesKept' /\ HalfInv' /\ AloneInv'
         /\ ShownInv' /\ LoadingIsWarranted'
  <1> USE DEF IInv, TypeInv
  <1>1. ops' = ops /\ Busy' = Busy /\ host' = host /\ disk' = disk /\ dialog' = dialog
    BY DEF Busy, remote
  <1>2. OpsInv' /\ DialogInv' /\ HostInv'
    BY <1>1 DEF OpsInv, DialogInv, HostInv
  <1>3. LeaveInv'
    BY <1>1, LeaveKept
  <1>4. OldFilesKept'
    BY <1>1, FilesKept
  <1>5. HalfInv'
    BY <1>1 DEF HalfInv
  <1>6. AloneInv'
    BY <1>1 DEF AloneInv
  <1>7. ShownInv'
    BY <1>1 DEF ShownInv, Replacing
  <1>8. LoadingIsWarranted'
    BY <1>1 DEF LoadingIsWarranted
  <1> QED BY <1>2, <1>3, <1>4, <1>5, <1>6, <1>7, <1>8

LEMMA PanelStep ==
  ASSUME IInv,
         \/ \E n \in Names : SelectEntry(n) \/ StartRename(n)
         \/ ToggleFollow \/ LinksChange \/ CaughtUp
         \/ \E l \in Links, d \in Dirs : CwdChanges(l, d)
  PROVE  IInv'
  <1>1. PanelInv /\ PickedInv /\ HistoryInv
    BY DEF IInv, TypeInv
  <1>2. ASSUME NEW n \in Names, SelectEntry(n) \/ StartRename(n) PROVE IInv'
    <2>1. /\ Selected # NoLink /\ n \in Listing /\ Quiet /\ UNCHANGED <<loading, ops, history>>
          /\ picked' \subseteq picked \cup {<<Selected, Path, n>>}
          /\ form' = form \/ form' = <<Selected, Path, n>>
      BY <1>2 DEF SelectEntry, StartRename, Pick
    <2>2. Selected \in Links /\ Selected = preferred /\ Path \in Dirs
      BY <1>1, <2>1, PathType
    <2>3. PanelInv' /\ PickedInv'
      BY <1>1, <2>1, <2>2 DEF PanelInv, PickedInv, Clicked, Quiet
    <2> QED BY <1>1, <2>1, <2>3, OpsUntouched DEF IInv, TypeInv, HistoryInv, Quiet
  <1>3. ASSUME ToggleFollow PROVE IInv'
    <2>1. UNCHANGED <<remote, preferred, shown, loading, picked, form, dialog, cwd, ops, history>>
      BY <1>3 DEF ToggleFollow
    <2>2. PanelInv' /\ PickedInv' /\ HistoryInv'
      BY <1>1, <2>1 DEF PanelInv, PickedInv, HistoryInv
    <2> QED BY <2>1, <2>2, OpsUntouched DEF IInv, TypeInv
  <1>4. ASSUME LinksChange PROVE IInv'
    <2>1. /\ UNCHANGED <<remote, picked, form, dialog, cwd, ops>>
          /\ preferred' \in Links \cup {"null", "undefined"}
          /\ loading' = (loading /\ preferred' # "null")
          /\ shown' = IF preferred' = "undefined" THEN [l \in Links |-> Unseen] ELSE shown
          /\ history' = [history EXCEPT !.strayed = @ \/ picked # {} \/ form # NoPlace]
      BY <1>4 DEF LinksChange
    <2>2. /\ history'.behind = history.behind /\ history'.told = history.told
          /\ history'.allowed = history.allowed
          /\ history'.strayed = (history.strayed \/ picked # {} \/ form # NoPlace)
      BY <1>1, <2>1 DEF HistoryInv
    <2>3. HistoryInv'
      BY <1>1, <2>1 DEF HistoryInv
    <2>4. PickedInv'
      BY <2>1, <2>2 DEF PickedInv
    <2>5. /\ shown' \in [Links -> [path : Dirs \cup {"unseen"}, entries : [Names -> Contents]]]
          /\ \A l \in Links : shown'[l] = shown[l] \/ shown'[l].path = "unseen"
      BY <1>1, <2>1 DEF PanelInv, Unseen, Contents
    <2>6. PanelInv'
      BY <1>1, <2>1, <2>5 DEF PanelInv
    <2> QED BY <2>1, <2>2, <2>3, <2>4, <2>5, <2>6, OpsUntouched DEF IInv, TypeInv
  <1>5. ASSUME NEW l \in Links, NEW d \in Dirs, CwdChanges(l, d) PROVE IInv'
    <2>1. /\ UNCHANGED <<remote, preferred, shown, loading, picked, form, dialog, ops, history>>
          /\ cwd' = [cwd EXCEPT ![l] = d]
      BY <1>5 DEF CwdChanges
    <2>2. PanelInv' /\ PickedInv' /\ HistoryInv'
      BY <1>1, <2>1 DEF PanelInv, PickedInv, HistoryInv
    <2> QED BY <2>1, <2>2, OpsUntouched DEF IInv, TypeInv
  <1>6. ASSUME CaughtUp PROVE IInv'
    <2>1. UNCHANGED <<remote, preferred, shown, loading, picked, form, dialog, cwd, ops, history>>
      BY <1>6 DEF CaughtUp
    <2>2. PanelInv' /\ PickedInv' /\ HistoryInv'
      BY <1>1, <2>1 DEF PanelInv, PickedInv, HistoryInv
    <2> QED BY <2>1, <2>2, OpsUntouched DEF IInv, TypeInv
  <1> QED BY <1>2, <1>3, <1>4, <1>5, <1>6
---------------------------------------------------------------------------
(* An operation goes on in the window.                                     *)

LEMMA BusyType ==
  ASSUME OpsInv, NEW o \in Busy
  PROVE  o \in Slots /\ ops[o] \in OpSet /\ OpOK(ops[o]) /\ ops[o] # Idle
  BY OpIsBusy DEF OpsInv, Busy

LEMMA GoesOnKeeps ==
  ASSUME IInv, NEW o \in Busy, NEW r \in OpSet, OpOK(r), Goes(ops[o], r),
         ops' = [ops EXCEPT ![o] = r], UNCHANGED <<remote, shown, loading>>,
         dialog' = 0 \/ (dialog' = dialog /\ dialog # o), May(r, history'),
         ops[o].at \in {"run", "list"} => r.at \in {"run", "list"},
         r.at # "list" \/ r.wire # "ok",
         ~ (ops[o].kind = "delete" /\ ops[o].at = "run" /\ ops[o].wire = "error"),
         history.strayed => history'.strayed, history.allowed \subseteq history'.allowed,
         history.behind \subseteq history'.behind, history.told => history'.told
  PROVE  /\ OpsInv' /\ DialogInv' /\ HostInv' /\ LeaveInv' /\ OldFilesKept' /\ HalfInv' /\ AloneInv'
         /\ ShownInv' /\ LoadingIsWarranted'
  <1> USE DEF IInv, TypeInv
  <1>1. /\ OpsInv' /\ Busy' = Busy /\ o \in Slots
        /\ ops'[o] = r /\ \A q \in Slots : q # o => ops'[q] = ops[q]
    BY OneGoesOn
  <1>2. Busy \subseteq Slots
    BY DEF Busy
  <1>3. \A q \in Busy' : q \in Busy /\ Goes(ops[q], ops'[q])
    BY <1>1, <1>2 DEF Goes
  <1>4. host' = host /\ disk' = disk
    BY DEF remote
  <1>5. DialogInv'
    BY <1>1, PanelAssumption DEF DialogInv
  <1>6. LeaveInv'
    BY <1>1, <1>2, LeaveKept
  <1>7. OldFilesKept'
    BY <1>4, FilesKept
  <1>8. HalfInv'
    BY <1>1, <1>2, <1>4, HalfKept
  <1>9. AloneInv'
    BY <1>1, <1>2, <1>3, <1>4, AloneUnderWindow
  <1>10. ShownInv'
    BY <1>1, <1>2, <1>3, <1>4, ShownKept DEF Goes
  <1>11. LoadingIsWarranted'
    BY <1>1 DEF LoadingIsWarranted
  <1> QED BY <1>1, <1>4, <1>5, <1>6, <1>7, <1>8, <1>9, <1>10, <1>11 DEF HostInv

LEMMA EndKeeps ==
  ASSUME IInv, NEW o \in Busy, Finish(o), UNCHANGED <<remote, dialog>>, ops[o].at # "asked",
         ops[o].kind = "delete" /\ ops[o].at = "run" /\ ops[o].wire = "error" => history'.told,
         history.strayed => history'.strayed, history.allowed \subseteq history'.allowed,
         history.told => history'.told
  PROVE  /\ OpsInv' /\ DialogInv' /\ HostInv' /\ LeaveInv' /\ OldFilesKept' /\ HalfInv' /\ AloneInv'
         /\ LoadingIsWarranted' /\ loading' = FALSE
         /\ \A q \in Busy : q # o => q \in Busy' /\ ops'[q] = ops[q]
  <1> USE DEF IInv, TypeInv
  <1>1. /\ OpsInv' /\ Busy' = Busy \ {o} /\ o \in Slots /\ loading' = FALSE
        /\ ops'[o] = Idle /\ \A q \in Slots : q # o => ops'[q] = ops[q]
    BY OneEnds
  <1>2. Busy \subseteq Slots
    BY DEF Busy
  <1>3. \A q \in Busy' : q \in Busy /\ ops'[q] = ops[q] /\ Goes(ops[q], ops'[q])
    BY <1>1, <1>2 DEF Goes
  <1>4. host' = host /\ disk' = disk
    BY DEF remote
  <1>5. DialogInv'
    BY <1>1 DEF DialogInv
  <1>6. LeaveInv'
    BY <1>3, LeaveKept
  <1>7. OldFilesKept'
    BY <1>4, FilesKept
  <1>8. HalfInv'
    BY <1>1, <1>2, <1>4 DEF HalfInv
  <1>9. AloneInv'
    BY <1>3, <1>4, AloneUnderWindow
  <1>10. LoadingIsWarranted'
    BY <1>1 DEF LoadingIsWarranted
  <1>11. \A q \in Busy : q # o => q \in Busy' /\ ops'[q] = ops[q]
    BY <1>1, <1>2
  <1> QED BY <1>1, <1>4, <1>5, <1>6, <1>7, <1>8, <1>9, <1>10, <1>11 DEF HostInv

---------------------------------------------------------------------------
(* A name is settled.                                                      *)

LEMMA SettleType ==
  ASSUME NEW op \in OpSet, OpOK(op), op.kind \notin {"rename", "delete"}, op.todo # <<>>,
         NEW more \in Seq(ItemSet), NEW all \in {"ask", "skip", "overwrite", "rename"},
         NEW r, r = Settle(op, more, all)
  PROVE  /\ r \in OpSet /\ OpOK(r) /\ Goes(op, r) /\ r.place = op.place /\ r.all = all
         /\ r.todo = Tail(op.todo) /\ r.plan = op.plan \o more
         /\ r.at \in {"inspect", "resolve"} /\ r.wire \in {"sent", "none"}
  <1>1. op.todo \in Seq(Names) /\ op.plan \in Seq(ItemSet)
    BY DEF OpSet
  <1>2. Tail(op.todo) \in Seq(Names) /\ op.plan \o more \in Seq(ItemSet)
    BY <1>1, TailOf, Joined
  <1>3. /\ r.kind = op.kind /\ r.link = op.link /\ r.alone = op.alone /\ r.place = op.place /\ r.all = all
        /\ r.todo = Tail(op.todo) /\ r.plan = op.plan \o more
        /\ r.at \in {"inspect", "resolve"} /\ r.wire \in {"sent", "none"}
    BY DEF Settle, OpSet
  <1>4. r \in OpSet
    <2>1. PICK t \in Seq(Names) : t = Tail(op.todo)
      BY <1>2
    <2>2. PICK p \in Seq(ItemSet) : p = op.plan \o more
      BY <1>2
    <2>3. PICK at \in {"inspect", "resolve"} : at = IF op.kind = "download" THEN "inspect" ELSE "resolve"
      OBVIOUS
    <2>4. PICK wire \in {"sent", "none"} : wire = IF op.kind = "download" THEN "sent" ELSE "none"
      OBVIOUS
    <2>5. r = [op EXCEPT !.todo = t, !.plan = p, !.all = all, !.at = at, !.wire = wire]
      BY <2>1, <2>2, <2>3, <2>4 DEF Settle
    <2>6. PICK q \in OpSet : q = [op EXCEPT !.todo = t, !.plan = p]
      <3>1. [op EXCEPT !.todo = t, !.plan = p] \in OpSet
        BY DEF OpSet
      <3> QED BY <3>1
    <2>7. r = [q EXCEPT !.all = all, !.at = at, !.wire = wire]
      BY <2>5, <2>6 DEF OpSet
    <2>8. [q EXCEPT !.all = all, !.at = at, !.wire = wire] \in OpSet
      BY DEF OpSet
    <2> QED BY <2>7, <2>8
  <1> QED BY <1>3, <1>4 DEF OpOK, Goes

LEMMA MaySettle ==
  ASSUME NEW op \in OpSet, OpOK(op), op.kind \notin {"rename", "delete"}, op.todo # <<>>,
         NEW more \in Seq(ItemSet), NEW all \in {"ask", "skip", "overwrite", "rename"}, NEW h, May(op, h),
         \A i \in DOMAIN more :
           more[i].action = "overwrite" => Permitted(PlaceFor(op, more[i].to), h),
         all = "overwrite" => \A i \in DOMAIN op.todo : Permitted(PlaceFor(op, op.todo[i]), h),
         NEW r, r = Settle(op, more, all)
  PROVE  May(r, h)
  <1>1. /\ Goes(op, r) /\ r.place = op.place /\ r.all = all
        /\ r.todo = Tail(op.todo) /\ r.plan = op.plan \o more /\ r.wire \in {"sent", "none"}
    BY SettleType
  <1>2. \A n : PlaceFor(r, n) = PlaceFor(op, n)
    BY <1>1 DEF PlaceFor, Goes
  <1>3. op.todo \in Seq(Names) /\ op.plan \in Seq(ItemSet)
    BY DEF OpSet
  <1>4. \A i \in DOMAIN r.todo : i + 1 \in DOMAIN op.todo /\ r.todo[i] = op.todo[i + 1]
    BY <1>1, <1>3, TailOf
  <1>5. all = "overwrite" => \A i \in DOMAIN r.todo : Permitted(PlaceFor(op, r.todo[i]), h)
    BY <1>4
  <1>6. \A i \in DOMAIN r.plan : (\E j \in DOMAIN op.plan : r.plan[i] = op.plan[j])
                               \/ \E j \in DOMAIN more : r.plan[i] = more[j]
    <2>1. PICK s \in Seq(ItemSet) : s = op.plan
      BY <1>3
    <2>2. \A i \in DOMAIN (s \o more) : (\E j \in DOMAIN s : (s \o more)[i] = s[j])
                                        \/ \E j \in DOMAIN more : (s \o more)[i] = more[j]
      BY Joined
    <2> QED BY <1>1, <2>1, <2>2
  <1>7. \A j \in DOMAIN op.plan : op.plan[j].action = "overwrite" => Permitted(PlaceFor(op, op.plan[j].to), h)
    BY DEF May
  <1>8. \A i \in DOMAIN r.plan : r.plan[i].action = "overwrite" => Permitted(PlaceFor(op, r.plan[i].to), h)
    BY <1>6, <1>7
  <1> QED BY <1>1, <1>2, <1>5, <1>8 DEF May, Goes

LEMMA DecisionType ==
  ASSUME NEW o, NEW n \in Names, NEW choice \in {"ask", "skip", "overwrite", "rename"},
         NEW more \in Decisions(o, n, choice)
  PROVE  /\ more \in Seq(ItemSet)
         /\ \A i \in DOMAIN more : more[i].action = "overwrite" => choice = "overwrite" /\ more[i].to = n
  <1>1. CASE choice = "skip"
    BY <1>1 DEF Decisions
  <1>2. CASE choice = "overwrite"
    <2>1. more = <<Item(n, n, "overwrite")>>
      BY <1>2 DEF Decisions
    <2> QED BY <1>2, <2>1 DEF Item, ItemSet
  <1>3. CASE choice = "rename"
    <2>1. PICK to \in Names : more = <<Item(n, to, "error")>>
      BY <1>3 DEF Decisions
    <2> QED BY <2>1 DEF Item, ItemSet
  <1>4. choice # "ask"
    BY DEF Decisions
  <1> QED BY <1>1, <1>2, <1>3, <1>4
LEMMA PlanStep ==
  ASSUME IInv, NEW o \in Busy, ops[o].at \in {"resolve", "inspect", "asked"}, ops[o].todo # <<>>,
         NEW more \in Seq(ItemSet), NEW all \in {"ask", "skip", "overwrite", "rename"},
         Next1(o, more, all),
         UNCHANGED <<remote, preferred, shown, loading, picked, form, cwd>>,
         dialog' = 0 \/ (dialog' = dialog /\ ops[o].at # "asked"),
         HistoryInv', history'.strayed = history.strayed, history.allowed \subseteq history'.allowed,
         history'.behind = history.behind, history'.told = history.told,
         \A i \in DOMAIN more :
           more[i].action = "overwrite" => Permitted(PlaceFor(ops[o], more[i].to), history'),
         all = "overwrite" =>
           \A i \in DOMAIN ops[o].todo : Permitted(PlaceFor(ops[o], ops[o].todo[i]), history')
  PROVE  IInv'
  <1> USE DEF IInv, TypeInv
  <1>1. ops[o] \in OpSet /\ OpOK(ops[o]) /\ ops[o].kind \notin {"rename", "delete"}
    BY BusyType DEF OpOK
  <1>2. May(ops[o], history')
    BY MayStays DEF LeaveInv
  <1>3. PICK r : r = Settle(ops[o], more, all)
    OBVIOUS
  <1>4. PICK op : op = ops[o]
    OBVIOUS
  <1>5. PICK h : h = history'
    OBVIOUS
  <1>6. /\ r \in OpSet /\ OpOK(r) /\ Goes(op, r) /\ r.at \in {"inspect", "resolve"}
    BY <1>1, <1>3, <1>4, SettleType
  <1>7. May(r, h)
    BY <1>1, <1>2, <1>3, <1>4, <1>5, MaySettle
  <1>8. dialog' = 0 \/ (dialog' = dialog /\ dialog # o)
    BY PanelAssumption, BusyType DEF DialogInv
  <1>9. /\ OpsInv' /\ DialogInv' /\ HostInv' /\ LeaveInv' /\ OldFilesKept' /\ HalfInv' /\ AloneInv'
        /\ ShownInv' /\ LoadingIsWarranted'
    BY <1>3, <1>4, <1>5, <1>6, <1>7, <1>8, GoesOnKeeps DEF Next1
  <1>10. PanelInv' /\ PickedInv'
    BY DEF PanelInv, PickedInv
  <1> QED BY <1>9, <1>10

LEMMA HeadOfTodo ==
  ASSUME OpsInv, NEW o \in Busy, ops[o].todo # <<>>
  PROVE  /\ Head(ops[o].todo) \in Names
         /\ \E i \in DOMAIN ops[o].todo : Head(ops[o].todo) = ops[o].todo[i]
  <1>1. PICK s \in Seq(Names) : s = ops[o].todo
    BY BusyType DEF OpSet
  <1> QED BY <1>1, TailOf

LEMMA WaitType ==
  ASSUME NEW op \in OpSet, OpOK(op), op.kind \notin {"rename", "delete"}, op.todo # <<>>,
         NEW r, r = [op EXCEPT !.at = "asked", !.wire = "none"] \/ r = [op EXCEPT !.at = "unheard"]
  PROVE  /\ r \in OpSet /\ OpOK(r) /\ r.at \in {"asked", "unheard"} /\ r.wire \in {op.wire, "none"}
         /\ r.kind = op.kind /\ r.link = op.link /\ r.alone = op.alone
         /\ r.place = op.place /\ r.todo = op.todo /\ r.plan = op.plan /\ r.all = op.all
  <1>1. r \in OpSet
    <2>1. CASE r = [op EXCEPT !.at = "asked", !.wire = "none"]
      BY <2>1 DEF OpSet
    <2>2. CASE r = [op EXCEPT !.at = "unheard"]
      BY <2>2 DEF OpSet
    <2> QED BY <2>1, <2>2
  <1>2. /\ r.at \in {"asked", "unheard"} /\ r.wire \in {op.wire, "none"}
        /\ r.kind = op.kind /\ r.link = op.link /\ r.alone = op.alone
        /\ r.place = op.place /\ r.todo = op.todo /\ r.plan = op.plan /\ r.all = op.all
    BY DEF OpSet
  <1> QED BY <1>1, <1>2 DEF OpOK

(* The question of one operation replaces that of another.                 *)
LEMMA AskStep ==
  ASSUME IInv, NEW o \in Busy, Resolving(o), Ask(o),
         UNCHANGED <<remote, preferred, shown, loading, picked, form, cwd, history>>
  PROVE  IInv'
  <1> USE DEF IInv, TypeInv
  <1>1. /\ o \in Slots /\ ops[o].todo # <<>> /\ ops[o].at \in {"resolve", "inspect"}
        /\ ops[o].kind \notin {"rename", "delete"}
    BY BusyType DEF Resolving, OpOK
  <1>2. \A q \in Busy : q \in Slots /\ ops[q] \in OpSet /\ OpOK(ops[q])
    BY BusyType
  <1>3. \A q \in Slots : q \notin Busy => ops[q] = Idle
    BY DEF Busy
  <1>4. dialog # 0 => dialog \in Busy /\ ops[dialog].at = "asked" /\ dialog # o
    BY <1>1 DEF DialogInv, Busy
  <1>5. 0 \notin Slots
    BY PanelAssumption
  <1>6. \A q \in Slots : q \notin Busy => ops'[q] = Idle
    BY <1>1, <1>3, <1>4, <1>5 DEF Ask
  <1>7. ASSUME NEW q \in Busy
        PROVE  /\ ops'[q] \in OpSet /\ OpOK(ops'[q])
               /\ ops'[q].kind = ops[q].kind /\ ops'[q].link = ops[q].link /\ ops'[q].alone = ops[q].alone
               /\ ops'[q].place = ops[q].place /\ ops'[q].todo = ops[q].todo /\ ops'[q].plan = ops[q].plan
               /\ ops'[q].all = ops[q].all /\ ops'[q].wire \in {ops[q].wire, "none"}
               /\ \/ ops'[q] = ops[q]
                  \/ ops'[q].at \in {"asked", "unheard"} /\ ops[q].at \notin {"run", "list"}
               /\ q = o => ops'[q].at = "asked"
    <2>1. CASE q = o
      <3>1. ops'[q] = [ops[q] EXCEPT !.at = "asked", !.wire = "none"]
        BY <1>1, <2>1 DEF Ask
      <3>2. ops'[q].at = "asked"
        BY <1>2, <3>1 DEF OpSet
      <3> QED BY <1>1, <1>2, <2>1, <3>1, <3>2, WaitType
    <2>2. CASE q # o /\ q = dialog
      <3>1. ops'[q] = [ops[q] EXCEPT !.at = "unheard"]
        BY <1>2, <2>2 DEF Ask
      <3>2. ops[q] \in OpSet /\ OpOK(ops[q]) /\ ops[q].at = "asked"
        BY <1>2, <1>4, <1>5, <2>2
      <3>3. ops[q].kind \notin {"rename", "delete"} /\ ops[q].todo # <<>>
        BY <3>2 DEF OpOK
      <3>4. /\ ops'[q] \in OpSet /\ OpOK(ops'[q])
            /\ ops'[q].at \in {"asked", "unheard"} /\ ops'[q].wire \in {ops[q].wire, "none"}
            /\ ops'[q].kind = ops[q].kind /\ ops'[q].link = ops[q].link /\ ops'[q].alone = ops[q].alone
            /\ ops'[q].place = ops[q].place /\ ops'[q].todo = ops[q].todo /\ ops'[q].plan = ops[q].plan
            /\ ops'[q].all = ops[q].all
        <4>1. PICK r, op : r = ops'[q] /\ op = ops[q]
          OBVIOUS
        <4>2. r = [op EXCEPT !.at = "asked", !.wire = "none"] \/ r = [op EXCEPT !.at = "unheard"]
          BY <3>1, <4>1
        <4>3. op \in OpSet /\ OpOK(op) /\ op.kind \notin {"rename", "delete"} /\ op.todo # <<>>
          BY <3>2, <3>3, <4>1
        <4>4. /\ r \in OpSet /\ OpOK(r) /\ r.at \in {"asked", "unheard"} /\ r.wire \in {op.wire, "none"}
              /\ r.kind = op.kind /\ r.link = op.link /\ r.alone = op.alone
              /\ r.place = op.place /\ r.todo = op.todo /\ r.plan = op.plan /\ r.all = op.all
          BY <4>2, <4>3, WaitType
        <4> QED BY <4>1, <4>4
      <3> QED BY <2>2, <3>2, <3>4
    <2>3. CASE q # o /\ q # dialog
      <3>1. ops'[q] = ops[q]
        BY <1>2, <2>3 DEF Ask
      <3> QED BY <1>2, <2>3, <3>1
    <2> QED BY <2>1, <2>2, <2>3
  <1>8. Busy' = Busy
    BY <1>2, <1>6, <1>7, OpIsBusy DEF Busy
  <1>9. OpsInv'
    <2>1. \A q \in Slots : ops'[q] \in OpSet \cup {Idle}
      BY <1>6, <1>7
    <2>2. ops' \in [Slots -> OpSet \cup {Idle}]
      BY <2>1 DEF Ask
    <2> QED BY <1>7, <1>8, <2>2 DEF OpsInv
  <1>10. DialogInv'
    <2>1. dialog' = o /\ ops'[o] \in OpSet /\ ops'[o].at = "asked"
      BY <1>7 DEF Ask
    <2> QED BY <1>1, <2>1, OpIsBusy DEF DialogInv
  <1>11. LeaveInv'
    <2>1. SUFFICES ASSUME NEW q \in Busy PROVE May(ops'[q], history)
      BY <1>8 DEF LeaveInv
    <2>2. May(ops[q], history)
      BY DEF LeaveInv
    <2> QED BY <1>7, <2>2 DEF May, PlaceFor
  <1>12. host' = host /\ disk' = disk
    BY DEF remote
  <1>13. OldFilesKept'
    BY <1>12, FilesKept
  <1>14. HalfInv'
    BY <1>7, <1>8, <1>12, HalfKept
  <1>15. AloneInv'
    BY <1>7, <1>8, <1>12, AloneUnderWindow DEF Goes
  <1>16. ShownInv'
    BY <1>7, <1>8, <1>12, ShownKept
  <1>17. LoadingIsWarranted'
    BY <1>8 DEF LoadingIsWarranted
  <1>18. PanelInv' /\ PickedInv' /\ HistoryInv' /\ HostInv'
    BY <1>12 DEF PanelInv, PickedInv, HistoryInv, HostInv
  <1> QED BY <1>9, <1>10, <1>11, <1>13, <1>14, <1>15, <1>16, <1>17, <1>18
LEMMA ResolveStep ==
  ASSUME IInv, NEW o \in Slots, Resolve(o)
  PROVE  IInv'
  <1> USE DEF IInv, TypeInv
  <1>1. o \in Busy /\ Resolving(o) /\ ops[o].todo # <<>> /\ ops[o].at \in {"resolve", "inspect"}
    BY DEF Resolve, Resolving, Busy
  <1>2. UNCHANGED <<remote, preferred, shown, loading, picked, form, cwd, history>>
    BY DEF Resolve
  <1>3. HistoryInv'
    BY <1>2 DEF HistoryInv
  <1> DEFINE n == Head(ops[o].todo)
             all == ops[o].all
  <1>4. n \in Names /\ all \in {"ask", "skip", "overwrite", "rename"}
    BY <1>1, HeadOfTodo, BusyType DEF OpSet
  <1>5. all = "overwrite" =>
           /\ \A i \in DOMAIN ops[o].todo : Permitted(PlaceFor(ops[o], ops[o].todo[i]), history')
           /\ Permitted(PlaceFor(ops[o], n), history')
    <2>1. all = "overwrite" => \A i \in DOMAIN ops[o].todo : Permitted(PlaceFor(ops[o], ops[o].todo[i]), history)
      BY <1>1 DEF LeaveInv, May
    <2>2. \E i \in DOMAIN ops[o].todo : n = ops[o].todo[i]
      BY <1>1, HeadOfTodo
    <2> QED BY <1>2, <2>1, <2>2
  <1>6. CASE Next1(o, <<Item(n, n, "error")>>, all) /\ UNCHANGED dialog
    <2>1. /\ <<Item(n, n, "error")>> \in Seq(ItemSet)
          /\ \A i \in DOMAIN <<Item(n, n, "error")>> : <<Item(n, n, "error")>>[i].action = "error"
      BY <1>4, OneItem
    <2>2. PICK more : more = <<Item(n, n, "error")>>
      OBVIOUS
    <2>3. Next1(o, more, all) /\ UNCHANGED dialog /\ more \in Seq(ItemSet)
          /\ \A i \in DOMAIN more : more[i].action # "overwrite"
      BY <1>6, <2>1, <2>2
    <2> QED BY <1>1, <1>2, <1>3, <1>4, <1>5, <2>3, PlanStep
  <1>7. ASSUME NEW more \in Decisions(o, n, all), Next1(o, more, all), UNCHANGED dialog
        PROVE  IInv'
    <2>1. /\ more \in Seq(ItemSet)
          /\ \A i \in DOMAIN more : more[i].action = "overwrite" => all = "overwrite" /\ more[i].to = n
      BY <1>4, DecisionType
    <2>2. \A i \in DOMAIN more :
            more[i].action = "overwrite" => Permitted(PlaceFor(ops[o], more[i].to), history')
      BY <1>5, <2>1
    <2> QED BY <1>1, <1>2, <1>3, <1>4, <1>5, <1>7, <2>1, <2>2, PlanStep
  <1>8. CASE Ask(o)
    BY <1>1, <1>2, <1>8, AskStep
  <1> QED BY <1>6, <1>7, <1>8 DEF Resolve

LEMMA AnswerStep ==
  ASSUME IInv, NEW choice \in {"overwrite", "skip", "rename"}, NEW all \in BOOLEAN,
         AnswerDialog(choice, all)
  PROVE  IInv'
  <1> USE DEF IInv, TypeInv
  <1> DEFINE o == dialog
             n == Head(ops[o].todo)
             places == {PlaceOf(o, m) : m \in IF all THEN ToSet(ops[o].todo) ELSE {n}}
             new == IF all THEN choice ELSE ops[o].all
  <1>1. o \in Busy /\ ops[o].at = "asked" /\ ops[o].todo # <<>>
    <2>1. o \in Busy /\ ops[o].at = "asked"
      BY DEF AnswerDialog, DialogInv, Busy
    <2> QED BY <2>1, BusyType DEF OpOK
  <1>2. /\ UNCHANGED <<remote, preferred, shown, loading, picked, form, cwd>> /\ dialog' = 0
    BY DEF AnswerDialog
  <1>3. /\ n \in Names /\ new \in {"ask", "skip", "overwrite", "rename"}
        /\ ops[o] \in OpSet
        /\ ops[o].todo \in Seq(Names)
    BY <1>1, HeadOfTodo, BusyType DEF OpSet
  <1>4. \A m : PlaceOf(o, m) = PlaceFor(ops[o], m)
    BY DEF PlaceOf, PlaceFor
  <1>5. places \subseteq (Links \cup {Here}) \X (Dirs \cup {Here}) \X Names
    BY <1>3 DEF PlaceOf, ToSet, OpSet
  <1>6. history' = IF choice # "overwrite" THEN history ELSE [history EXCEPT !.allowed = @ \cup places]
    BY DEF AnswerDialog
  <1> HIDE DEF places
  <1>7. /\ HistoryInv' /\ history'.strayed = history.strayed /\ history'.behind = history.behind
        /\ history'.told = history.told
        /\ history'.allowed = IF choice # "overwrite" THEN history.allowed ELSE history.allowed \cup places
    BY <1>5, <1>6 DEF HistoryInv
  <1>8. choice = "overwrite" => Permitted(PlaceFor(ops[o], n), history')
    <2>1. PlaceFor(ops[o], n) \in places
      <3>1. \E i \in DOMAIN ops[o].todo : n = ops[o].todo[i]
        BY <1>1, HeadOfTodo
      <3> QED BY <1>4, <3>1 DEF places, ToSet
    <2> QED BY <1>7, <2>1 DEF Permitted
  <1>9. new = "overwrite" =>
           \A i \in DOMAIN ops[o].todo : Permitted(PlaceFor(ops[o], ops[o].todo[i]), history')
    <2>1. CASE all
      <3>1. \A i \in DOMAIN ops[o].todo : PlaceFor(ops[o], ops[o].todo[i]) \in places
        BY <1>4, <2>1 DEF places, ToSet
      <3> QED BY <1>7, <2>1, <3>1 DEF Permitted
    <2>2. CASE ~ all
      <3>1. ops[o].all = "overwrite" =>
              \A i \in DOMAIN ops[o].todo : Permitted(PlaceFor(ops[o], ops[o].todo[i]), history)
        BY <1>1 DEF LeaveInv, May
      <3> QED BY <1>7, <2>2, <3>1 DEF Permitted
    <2> QED BY <2>1, <2>2
  <1>10. PICK more \in Decisions(o, n, choice) : Next1(o, more, new)
    BY DEF AnswerDialog
  <1>11. /\ more \in Seq(ItemSet)
         /\ \A i \in DOMAIN more : more[i].action = "overwrite" => choice = "overwrite" /\ more[i].to = n
    BY <1>3, DecisionType
  <1>12. \A i \in DOMAIN more :
            more[i].action = "overwrite" => Permitted(PlaceFor(ops[o], more[i].to), history')
    BY <1>8, <1>11
  <1>13. PICK a : a = new
    OBVIOUS
  <1>14. PICK q \in Busy : q = o
    BY <1>1
  <1> HIDE DEF o, n, new
  <1> QED BY <1>1, <1>2, <1>3, <1>7, <1>9, <1>10, <1>11, <1>12, <1>13, <1>14, PlanStep
---------------------------------------------------------------------------
(* The transfers begin, the next command is sent, the listing follows.     *)

LEMMA SentType ==
  ASSUME NEW op \in OpSet, NEW at \in {"run", "list"}, NEW plan \in Seq(ItemSet),
         NEW r, r = Sending(op, at, plan)
  PROVE  /\ r \in OpSet
         /\ r.kind = op.kind /\ r.link = op.link /\ r.alone = op.alone /\ r.at = at /\ r.wire = "sent"
         /\ r.place = op.place /\ r.todo = op.todo /\ r.plan = plan /\ r.all = op.all
  <1>1. r \in OpSet
    BY DEF OpSet, Sending
  <1>2. /\ r.kind = op.kind /\ r.link = op.link /\ r.alone = op.alone /\ r.at = at /\ r.wire = "sent"
        /\ r.place = op.place /\ r.todo = op.todo /\ r.plan = plan /\ r.all = op.all
    BY DEF OpSet, Sending
  <1> QED BY <1>1, <1>2

(* What is left of a plan is allowed as the whole of it.                   *)
LEMMA MaySend ==
  ASSUME NEW op, NEW r, NEW h, May(op, h), Goes(op, r), r.wire = "sent", r.place = op.place,
         r.todo = op.todo, r.all = op.all,
         \A i \in DOMAIN r.plan : \E j \in DOMAIN op.plan : r.plan[i] = op.plan[j]
  PROVE  May(r, h)
  BY DEF May, Goes, PlaceFor

LEMMA SendStep ==
  ASSUME IInv, NEW o \in Busy, ops[o].at # "asked", ops[o].wire # "error" \/ ops[o].kind # "delete",
         NEW at \in {"run", "list"}, NEW plan \in Seq(ItemSet), at = "run" => plan # <<>>,
         \A i \in DOMAIN plan : \E j \in DOMAIN ops[o].plan : plan[i] = ops[o].plan[j],
         Send(o, at, plan),
         UNCHANGED <<remote, preferred, shown, loading, picked, dialog, cwd, history>>,
         form' \in {form, NoPlace}
  PROVE  IInv'
  <1> USE DEF IInv, TypeInv
  <1>1. PICK op \in OpSet : op = ops[o]
    BY BusyType
  <1>2. PICK r : r = Sending(op, at, plan)
    OBVIOUS
  <1>3. ops' = [ops EXCEPT ![o] = r]
    BY <1>2, <1>1 DEF Send
  <1>4. /\ r \in OpSet /\ OpOK(r) /\ Goes(op, r) /\ r.at = at /\ r.wire = "sent"
        /\ r.place = op.place /\ r.todo = op.todo /\ r.plan = plan /\ r.all = op.all
    <2>1. /\ r \in OpSet
          /\ r.kind = op.kind /\ r.link = op.link /\ r.alone = op.alone /\ r.at = at /\ r.wire = "sent"
          /\ r.place = op.place /\ r.todo = op.todo /\ r.plan = plan /\ r.all = op.all
      BY <1>2, SentType
    <2> QED BY <2>1 DEF OpOK, Goes
  <1>5. May(op, history')
    BY <1>1, MayStays DEF LeaveInv
  <1>6. May(r, history')
    <2>1. PICK h : h = history'
      OBVIOUS
    <2>2. May(r, h)
      BY <1>1, <1>4, <1>5, <2>1, MaySend
    <2> QED BY <2>1, <2>2
  <1>7. dialog # o
    BY PanelAssumption, BusyType DEF DialogInv
  <1>8. /\ OpsInv' /\ DialogInv' /\ HostInv' /\ LeaveInv' /\ OldFilesKept' /\ HalfInv' /\ AloneInv'
        /\ ShownInv' /\ LoadingIsWarranted'
    BY <1>1, <1>3, <1>4, <1>6, <1>7, GoesOnKeeps
  <1>9. PanelInv' /\ PickedInv' /\ HistoryInv'
    BY DEF PanelInv, PickedInv, HistoryInv
  <1> QED BY <1>8, <1>9

LEMMA FinishStep ==
  ASSUME IInv, NEW o \in Busy, Finish(o), UNCHANGED <<remote, preferred, shown, dialog, cwd>>,
         ops[o].at # "asked", picked' \subseteq picked, form' \in {form, NoPlace}, HistoryInv',
         ops[o].kind = "delete" /\ ops[o].at = "run" /\ ops[o].wire = "error" => history'.told,
         ops[o].kind = "download" \/ ops[o].at \notin {"run", "list"} \/ ops[o].link \in history'.behind,
         history'.strayed = history.strayed, history'.allowed = history.allowed,
         history.behind \subseteq history'.behind, history.told => history'.told
  PROVE  IInv'
  <1> USE DEF IInv, TypeInv
  <1>1. /\ OpsInv' /\ DialogInv' /\ HostInv' /\ LeaveInv' /\ OldFilesKept' /\ HalfInv' /\ AloneInv'
        /\ LoadingIsWarranted' /\ loading' = FALSE
        /\ \A q \in Busy : q # o => q \in Busy' /\ ops'[q] = ops[q]
    BY EndKeeps
  <1>2. ShownInv'
    BY <1>1, ShownKept DEF remote
  <1>3. PanelInv' /\ PickedInv'
    BY <1>1 DEF PanelInv, PickedInv
  <1> QED BY <1>1, <1>2, <1>3

LEMMA ResolvedStep ==
  ASSUME IInv, NEW o \in Slots, Resolved(o)
  PROVE  IInv'
  <1> USE DEF IInv, TypeInv
  <1>1. o \in Busy /\ ops[o].at \in {"resolve", "inspect"}
    BY DEF Resolved, Busy
  <1>2. ops[o] \in OpSet /\ OpOK(ops[o]) /\ ops[o].plan \in Seq(ItemSet) /\ ops[o].kind \notin {"rename", "delete"}
    BY <1>1, BusyType DEF OpOK, OpSet
  <1>3. UNCHANGED <<remote, preferred, shown, picked, form, dialog, cwd, history>>
    BY DEF Resolved
  <1>4. HistoryInv'
    BY <1>3 DEF HistoryInv
  <1>5. CASE Finish(o)
    BY <1>1, <1>2, <1>3, <1>4, <1>5, FinishStep
  <1>6. ASSUME ops[o].plan # <<>>, Send(o, "run", ops[o].plan), UNCHANGED loading
        PROVE  IInv'
    <2>1. PICK p \in Seq(ItemSet) : p = ops[o].plan
      BY <1>2
    <2>2. Send(o, "run", p) /\ p # <<>>
      BY <1>6, <2>1
    <2> QED BY <1>1, <1>2, <1>3, <1>6, <2>1, <2>2, SendStep
  <1> QED BY <1>5, <1>6 DEF Resolved
LEMMA RanStep ==
  ASSUME IInv, NEW o \in Slots, Ran(o)
  PROVE  IInv'
  <1> USE DEF IInv, TypeInv
  <1>1. o \in Busy /\ ops[o].at = "run" /\ ops[o].wire = "ok"
    BY DEF Ran, Answered, Busy
  <1>2. ops[o] \in OpSet /\ ops[o].plan \in Seq(ItemSet) /\ ops[o].plan # <<>>
    BY <1>1, BusyType DEF OpOK, OpSet
  <1>3. UNCHANGED <<remote, preferred, shown, picked, dialog, cwd, history>> /\ form' \in {form, NoPlace}
    BY DEF Ran
  <1>4. HistoryInv'
    BY <1>3 DEF HistoryInv
  <1>5. CASE ops[o].kind = "download" /\ Finish(o)
    BY <1>1, <1>3, <1>4, <1>5, FinishStep
  <1>6. ASSUME Tail(ops[o].plan) # <<>>, Send(o, "run", Tail(ops[o].plan)), UNCHANGED loading
        PROVE  IInv'
    <2>1. PICK s \in Seq(ItemSet) : s = ops[o].plan
      BY <1>2
    <2>2. /\ Tail(s) \in Seq(ItemSet)
          /\ \A i \in DOMAIN Tail(s) : i + 1 \in DOMAIN s /\ Tail(s)[i] = s[i + 1]
      BY <1>2, <2>1, TailOf
    <2>3. PICK p : p = Tail(s)
      OBVIOUS
    <2>4. /\ Send(o, "run", p) /\ p # <<>> /\ p \in Seq(ItemSet)
          /\ \A i \in DOMAIN p : \E j \in DOMAIN ops[o].plan : p[i] = ops[o].plan[j]
      BY <1>6, <2>1, <2>2, <2>3
    <2> QED BY <1>1, <1>3, <1>6, <2>4, SendStep
  <1>7. ASSUME Send(o, "list", <<>>), UNCHANGED loading
        PROVE  IInv'
    <2>1. PICK p : p = <<>>
      OBVIOUS
    <2>2. Send(o, "list", p) /\ p \in Seq(ItemSet) /\ DOMAIN p = {}
      BY <1>7, <2>1
    <2> QED BY <1>1, <1>3, <1>7, <2>2, SendStep
  <1> QED BY <1>5, <1>6, <1>7 DEF Ran

LEMMA FailsStep ==
  ASSUME IInv, NEW o \in Slots, Fails(o)
  PROVE  IInv'
  <1> USE DEF IInv, TypeInv
  <1>1. o \in Busy /\ ops[o].at \in {"run", "inspect"}
    BY DEF Fails, Answered, Busy
  <1>2. ops[o].link \in Links
    BY <1>1, BusyType DEF OpSet
  <1>3. /\ UNCHANGED <<remote, preferred, shown, picked, form, dialog, cwd>> /\ Finish(o)
        /\ history' = [history EXCEPT !.behind = @ \cup {ops[o].link},
                                      !.told = @ \/ ops[o].kind = "delete"]
    BY DEF Fails
  <1>4. /\ HistoryInv' /\ history'.strayed = history.strayed /\ history'.allowed = history.allowed
        /\ history'.behind = history.behind \cup {ops[o].link}
        /\ history'.told = (history.told \/ ops[o].kind = "delete")
    BY <1>2, <1>3 DEF HistoryInv
  <1> QED BY <1>1, <1>3, <1>4, FinishStep

LEMMA ListedStep ==
  ASSUME IInv, NEW o \in Slots, Listed(o)
  PROVE  IInv'
  <1> USE DEF IInv, TypeInv
  <1> DEFINE l == ops[o].link
             ok == ops[o].wire = "ok"
             d == ops[o].dir
             e == ops[o].entries
  <1>1. o \in Busy /\ ops[o].at = "list"
    BY DEF Listed, Answered, Busy
  <1>2. l \in Links /\ d \in Dirs /\ e \in [Names -> Contents] /\ ok \in BOOLEAN
    BY <1>1, BusyType DEF OpSet
  <1>3. /\ UNCHANGED <<remote, preferred, form, dialog, cwd>> /\ Finish(o)
        /\ shown' = IF ok THEN [shown EXCEPT ![l] = [path |-> d, entries |-> e]] ELSE shown
        /\ picked' \in {picked, {}}
        /\ history' = [history EXCEPT !.behind = IF ok /\ ops[o].alone THEN @ \ {l} ELSE @ \cup {l}]
    BY DEF Listed
  <1>4. /\ HistoryInv' /\ history'.strayed = history.strayed /\ history'.allowed = history.allowed
        /\ history'.told = history.told
        /\ history'.behind = IF ok /\ ops[o].alone THEN history.behind \ {l} ELSE history.behind \cup {l}
    BY <1>2, <1>3 DEF HistoryInv
  <1>5. /\ OpsInv' /\ DialogInv' /\ HostInv' /\ LeaveInv' /\ OldFilesKept' /\ HalfInv' /\ AloneInv'
        /\ LoadingIsWarranted' /\ loading' = FALSE
        /\ \A q \in Busy : q # o => q \in Busy' /\ ops'[q] = ops[q]
    BY <1>1, <1>3, <1>4, EndKeeps
  <1>6. ok /\ ops[o].alone => e = host[l][d]
    BY <1>1 DEF AloneInv
  <1>7. host' = host
    BY <1>3 DEF remote
  <1>8. /\ shown' \in [Links -> [path : Dirs \cup {"unseen"}, entries : [Names -> Contents]]]
        /\ \A k \in Links : k # l => shown'[k] = shown[k]
        /\ ok => shown'[l].path = d /\ shown'[l].entries = e
    BY <1>2, <1>3 DEF PanelInv
  <1> HIDE DEF l, ok, d, e
  <1>9. ShownInv'
    <2>1. SUFFICES ASSUME NEW k \in Links
                   PROVE  \/ k \in history'.behind \/ shown'[k].path = "unseen"
                          \/ shown'[k].entries = host'[k][shown'[k].path]
                          \/ \E q \in Busy' : Replacing(ops'[q], k)
      BY DEF ShownInv
    <2>2. CASE k = l
      BY <1>4, <1>6, <1>7, <1>8, <2>2
    <2>3. CASE k # l
      <3>1. ~ Replacing(ops[o], k)
        BY <2>3 DEF Replacing, l
      <3>2. \/ k \in history.behind \/ shown[k].path = "unseen"
            \/ shown[k].entries = host[k][shown[k].path]
            \/ \E q \in Busy : Replacing(ops[q], k)
        BY DEF ShownInv
      <3>3. (\E q \in Busy : Replacing(ops[q], k)) => \E q \in Busy' : Replacing(ops'[q], k)
        BY <1>5, <3>1
      <3> QED BY <1>4, <1>7, <1>8, <2>3, <3>2, <3>3
    <2> QED BY <2>2, <2>3
  <1>10. PanelInv' /\ PickedInv'
    BY <1>3, <1>4, <1>5, <1>8 DEF PanelInv, PickedInv
  <1> QED BY <1>4, <1>5, <1>9, <1>10
---------------------------------------------------------------------------
(* A host serves a command.                                                *)

(* Nothing is remembered but, at most, what a host replaced by a rename.   *)
Granted ==
  /\ HistoryInv' /\ history.allowed \subseteq history'.allowed
  /\ history'.behind = history.behind /\ history'.told = history.told
  /\ history'.strayed = history.strayed

LEMMA NothingGranted ==
  ASSUME HistoryInv, UNCHANGED history
  PROVE  Granted
  BY DEF HistoryInv, Granted

LEMMA StillPermitted ==
  ASSUME Granted, NEW p, Permitted(p, history)
  PROVE  Permitted(p, history')
  BY DEF Granted, Permitted

(* What is replaced on a host or on the disk was not there before, or is   *)
(* allowed.                                                                *)
OnlyAllowed ==
  /\ \A l \in Links, d \in Dirs, n \in Names :
       \/ host'[l][d][n] = host[l][d][n] \/ Before[d][n] = Nothing
       \/ Permitted(<<l, d, n>>, history')
  /\ \A n \in Names :
       \/ disk'[n] = disk[n] \/ Before[Root][n] = Nothing
       \/ Permitted(<<Here, Here, n>>, history')

LEMMA ServeKeeps ==
  ASSUME IInv, NEW o \in Busy, NEW r \in OpSet, OpOK(r), Goes(ops[o], r), r.at = ops[o].at,
         ops' = [ops EXCEPT ![o] = r], UNCHANGED panel, Granted,
         ops[o].at # "asked", ops[o].wire # "error", May(r, history'),
         HostInv', OnlyAllowed,
         \A l \in Links : l # ops[o].link => host'[l] = host[l],
         host' = host \/ (ops[o].at = "run" /\ ops[o].kind # "download"),
         r.at = "list" /\ r.wire = "ok" => r.entries = host'[r.link][r.dir],
         \A l \in Links, d \in Dirs, n \in Names : host'[l][d][n] = "half" =>
           \/ \E k \in Links, e \in Dirs, m \in Names : host[k][e][m] = "half"
           \/ r.kind = "delete" /\ r.at = "run" /\ r.wire = "error"
  PROVE  IInv'
  <1> USE DEF IInv, TypeInv
  <1>1. /\ OpsInv' /\ Busy' = Busy /\ o \in Slots
        /\ ops'[o] = r /\ \A q \in Slots : q # o => ops'[q] = ops[q]
    BY OneGoesOn
  <1>2. Busy \subseteq Slots /\ \A q \in Busy : ops[q].link \in Links
    BY BusyType DEF OpSet
  <1>3. /\ UNCHANGED <<preferred, shown, loading, picked, form, dialog, cwd>>
        /\ HistoryInv' /\ history.allowed \subseteq history'.allowed
        /\ history'.behind = history.behind /\ history'.told = history.told
        /\ history'.strayed = history.strayed
    BY DEF panel, Granted
  <1>4. PanelInv' /\ PickedInv' /\ HistoryInv'
    BY <1>3 DEF PanelInv, PickedInv
  <1>5. DialogInv'
    BY <1>1, <1>3, PanelAssumption DEF DialogInv
  <1>6. LeaveInv'
    BY <1>1, <1>2, <1>3, LeaveKept
  <1>7. OldFilesKept'
    BY <1>3 DEF OldFilesKept, OnlyAllowed, Permitted
  <1>8. HalfInv'
    <2>1. (\E l \in Links, d \in Dirs, n \in Names : host'[l][d][n] = "half") =>
            \/ \E k \in Links, e \in Dirs, m \in Names : host[k][e][m] = "half"
            \/ r.kind = "delete" /\ r.at = "run" /\ r.wire = "error"
      OBVIOUS
    <2>2. CASE r.kind = "delete" /\ r.at = "run" /\ r.wire = "error"
      BY <1>1, <2>2 DEF HalfInv
    <2>3. CASE \E k \in Links, e \in Dirs, m \in Names : host[k][e][m] = "half"
      BY <1>1, <1>2, <1>3, <2>3 DEF HalfInv
    <2> QED BY <2>1, <2>2, <2>3 DEF HalfInv
  <1>9. AloneInv'
    <2>1. \A q \in Busy' : q \in Busy /\ Goes(ops[q], ops'[q])
      BY <1>1, <1>2 DEF Goes
    <2>2. SUFFICES ASSUME NEW q \in Busy', ops'[q].alone, ops'[q].at = "list", ops'[q].wire = "ok"
                   PROVE  ops'[q].entries = host'[ops'[q].link][ops'[q].dir]
      BY <2>1, AloneKept
    <2>3. CASE q = o
      BY <1>1, <2>2, <2>3
    <2>4. CASE q # o
      <3>1. ops'[q] = ops[q] /\ q \in Busy
        BY <1>1, <1>2, <2>4
      <3>2. ops[q].link # ops[o].link
        BY <2>2, <2>4, <3>1 DEF AloneInv
      <3>3. host'[ops[q].link] = host[ops[q].link]
        BY <1>2, <3>1, <3>2
      <3> QED BY <2>2, <3>1, <3>3 DEF AloneInv
    <2> QED BY <2>3, <2>4
  <1>10. ShownInv'
    <2>1. \A q \in Busy : ops'[q].link = ops[q].link /\ ops'[q].kind = ops[q].kind /\ ops'[q].at = ops[q].at
      BY <1>1, <1>2 DEF Goes
    <2>2. CASE host' = host
      BY <1>1, <1>3, <2>1, <2>2 DEF ShownInv, Replacing
    <2>3. CASE ops[o].at = "run" /\ ops[o].kind # "download"
      <3>1. Replacing(ops'[o], ops[o].link)
        BY <1>1, <2>1, <2>3 DEF Replacing
      <3> QED BY <1>1, <1>3, <2>1, <3>1 DEF ShownInv, Replacing
    <2> QED BY <2>2, <2>3
  <1>11. LoadingIsWarranted'
    BY <1>1, <1>3 DEF LoadingIsWarranted
  <1> QED BY <1>1, <1>4, <1>5, <1>6, <1>7, <1>8, <1>9, <1>10, <1>11
LEMMA ReplyType ==
  ASSUME NEW op \in OpSet, OpOK(op), NEW wire \in {"checked", "ok", "error"},
         NEW r, r = [op EXCEPT !.wire = wire]
  PROVE  /\ r \in OpSet /\ OpOK(r) /\ Goes(op, r) /\ r.at = op.at /\ r.wire = wire
         /\ r.place = op.place /\ r.todo = op.todo /\ r.plan = op.plan /\ r.all = op.all
  <1>1. r \in OpSet
    BY DEF OpSet
  <1>2. /\ r.kind = op.kind /\ r.link = op.link /\ r.alone = op.alone /\ r.at = op.at /\ r.wire = wire
        /\ r.place = op.place /\ r.todo = op.todo /\ r.plan = op.plan /\ r.all = op.all
    BY DEF OpSet
  <1> QED BY <1>1, <1>2 DEF OpOK, Goes

LEMMA ReplyKeeps ==
  ASSUME IInv, NEW o \in Busy, NEW wire \in {"checked", "ok", "error"}, Reply(o, wire),
         UNCHANGED panel, Granted,
         ops[o].at \in {"list", "inspect", "run"}, ops[o].wire # "error",
         ops[o].at = "list" => wire = "error",
         HostInv', OnlyAllowed,
         \A l \in Links : l # ops[o].link => host'[l] = host[l],
         host' = host \/ (ops[o].at = "run" /\ ops[o].kind # "download"),
         wire = "checked" =>
           /\ ops[o].kind = "upload"
           /\ \/ Before[ops[o].place][ops[o].plan[1].to] = Nothing
              \/ Permitted(PlaceFor(ops[o], ops[o].plan[1].to), history),
         \A l \in Links, d \in Dirs, n \in Names : host'[l][d][n] = "half" =>
           \/ \E k \in Links, e \in Dirs, m \in Names : host[k][e][m] = "half"
           \/ ops[o].kind = "delete" /\ ops[o].at = "run" /\ wire = "error"
  PROVE  IInv'
  <1>1. OpsInv /\ May(ops[o], history)
    BY DEF IInv, TypeInv, LeaveInv
  <1>2. PICK r, op : op = ops[o] /\ r = [op EXCEPT !.wire = wire]
    OBVIOUS
  <1>3. op \in OpSet /\ OpOK(op)
    BY <1>1, <1>2, BusyType
  <1>4. /\ r \in OpSet /\ OpOK(r) /\ Goes(op, r) /\ r.at = op.at /\ r.wire = wire
        /\ r.place = op.place /\ r.todo = op.todo /\ r.plan = op.plan /\ r.all = op.all
    BY <1>2, <1>3, ReplyType
  <1>5. ops' = [ops EXCEPT ![o] = r]
    BY <1>2 DEF Reply
  <1>6. May(r, history')
    <2>1. May(op, history')
      BY <1>1, <1>2, StillPermitted DEF May
    <2>2. wire = "checked" =>
            /\ op.kind = "upload"
            /\ \/ Before[op.place][op.plan[1].to] = Nothing
               \/ Permitted(PlaceFor(op, op.plan[1].to), history')
      BY <1>2, StillPermitted
    <2> QED BY <1>4, <2>1, <2>2 DEF May, Goes, PlaceFor
  <1>7. r.kind = ops[o].kind /\ (r.at = "list" => r.wire # "ok")
    BY <1>2, <1>4 DEF Goes
  <1>8. Goes(ops[o], r) /\ r.at = ops[o].at
    BY <1>2, <1>4
  <1> QED BY <1>4, <1>5, <1>6, <1>7, <1>8, ServeKeeps

(* Without a change on the hosts and the disk.                             *)
LEMMA SameHosts ==
  ASSUME HostInv, UNCHANGED remote
  PROVE  HostInv' /\ OnlyAllowed
  BY DEF HostInv, OnlyAllowed, remote

LEMMA SameHistory ==
  ASSUME IInv, UNCHANGED history
  PROVE  Granted
  BY NothingGranted DEF IInv, TypeInv

LEMMA NothingServed ==
  ASSUME IInv, NEW o \in Busy, NEW wire \in {"checked", "ok", "error"}, Reply(o, wire),
         UNCHANGED <<remote, panel, history>>,
         ops[o].at \in {"list", "inspect", "run"}, ops[o].wire # "error",
         ops[o].at = "list" => wire = "error",
         wire = "checked" =>
           /\ ops[o].kind = "upload"
           /\ \/ Before[ops[o].place][ops[o].plan[1].to] = Nothing
              \/ Permitted(PlaceFor(ops[o], ops[o].plan[1].to), history)
  PROVE  IInv'
  <1>1. HostInv' /\ OnlyAllowed /\ host' = host
    BY SameHosts DEF IInv, TypeInv, remote
  <1> QED BY <1>1, SameHistory, ReplyKeeps

(* One entry of the directory the operation works in.                      *)
LEMMA EntryServed ==
  ASSUME IInv, NEW o \in Busy, NEW wire \in {"ok", "error"}, Reply(o, wire),
         UNCHANGED <<disk, panel, history>>,
         ops[o].at = "run", ops[o].kind # "download", ops[o].wire # "error",
         NEW n \in Names, NEW what \in Contents, Put(o, n, what),
         \/ At(o, n) = what \/ Before[ops[o].place][n] = Nothing
         \/ Permitted(<<ops[o].link, ops[o].place, n>>, history),
         what = "half" => At(o, n) = "half" \/ (ops[o].kind = "delete" /\ wire = "error")
  PROVE  IInv'
  <1>1. HostInv /\ ops[o].link \in Links /\ ops[o].place \in Dirs
    BY BusyType DEF IInv, TypeInv, OpSet
  <1>2. PICK k \in Links, e \in Dirs : k = ops[o].link /\ e = ops[o].place
    BY <1>1
  <1>3. host' = [host EXCEPT ![k][e][n] = what]
    BY <1>2 DEF Put
  <1>4. /\ HostInv'
        /\ \A l \in Links, d \in Dirs, m \in Names :
             host'[l][d][m] = IF l = k /\ d = e /\ m = n THEN what ELSE host[l][d][m]
        /\ \A l \in Links : l # k => host'[l] = host[l]
    BY <1>1, <1>3 DEF HostInv
  <1>5. OnlyAllowed
    BY <1>2, <1>4 DEF OnlyAllowed, At
  <1>6. Granted
    BY SameHistory
  <1>7. \A l \in Links, d \in Dirs, m \in Names : host'[l][d][m] = "half" =>
          \/ \E j \in Links, c \in Dirs, q \in Names : host[j][c][q] = "half"
          \/ ops[o].kind = "delete" /\ ops[o].at = "run" /\ wire = "error"
    BY <1>2, <1>4 DEF At
  <1> QED BY <1>1, <1>2, <1>4, <1>5, <1>6, <1>7, ReplyKeeps

LEMMA ServedType ==
  ASSUME IInv, NEW o \in Slots, NEW kind, NEW wire, Serve(o, kind, wire)
  PROVE  /\ o \in Busy /\ ops[o].at = "run" /\ ops[o].kind = kind /\ ops[o].wire = wire
         /\ ops[o].link \in Links /\ ops[o].place \in Dirs
         /\ 1 \in DOMAIN ops[o].plan /\ Now(o) = ops[o].plan[1]
         /\ Now(o).name \in Names /\ Now(o).to \in Names /\ Now(o).action \in {"error", "overwrite"}
         /\ HostInv /\ OldFilesKept /\ May(ops[o], history)
         /\ At(o, Now(o).to) \in Contents
  <1>1. o \in Busy /\ ops[o].at = "run" /\ ops[o].kind = kind /\ ops[o].wire = wire
    BY DEF Serve, Sent, Busy
  <1>2. OpsInv /\ HostInv /\ OldFilesKept /\ May(ops[o], history)
    BY <1>1 DEF IInv, TypeInv, LeaveInv
  <1>3. ops[o] \in OpSet /\ ops[o].plan # <<>>
    BY <1>1, <1>2, BusyType DEF OpOK
  <1>4. PICK s \in Seq(ItemSet) : s = ops[o].plan
    BY <1>3 DEF OpSet
  <1>5. 1 \in DOMAIN ops[o].plan /\ Now(o) = ops[o].plan[1] /\ Now(o) \in ItemSet
    BY <1>3, <1>4, TailOf DEF Now
  <1>6. /\ Now(o).name \in Names /\ Now(o).to \in Names /\ Now(o).action \in {"error", "overwrite"}
        /\ ops[o].link \in Links /\ ops[o].place \in Dirs
    BY <1>3, <1>5 DEF ItemSet, OpSet
  <1>7. At(o, Now(o).to) \in Contents
    BY <1>2, <1>6 DEF At, HostInv
  <1> QED BY <1>1, <1>2, <1>5, <1>6, <1>7

(* What was there before and is there no more may be replaced.             *)
LEMMA GoneOrAllowed ==
  ASSUME OldFilesKept, NEW l \in Links, NEW d \in Dirs, NEW n \in Names
  PROVE  \/ Before[d][n] = Nothing \/ host[l][d][n] = Before[d][n]
         \/ Permitted(<<l, d, n>>, history)
  BY DEF OldFilesKept, Permitted

LEMMA MakeFolderStep ==
  ASSUME IInv, NEW o \in Slots, MakeFolder(o), UNCHANGED <<disk, panel, history>>
  PROVE  IInv'
  <1>1. Serve(o, "create", "sent")
    BY DEF MakeFolder
  <1>2. /\ o \in Busy /\ ops[o].at = "run" /\ ops[o].kind = "create" /\ ops[o].wire = "sent"
        /\ ops[o].link \in Links /\ ops[o].place \in Dirs /\ Now(o).to \in Names /\ OldFilesKept
    BY <1>1, ServedType
  <1>3. CASE At(o, Now(o).to) = Nothing
    <2>1. Reply(o, "ok") /\ Put(o, Now(o).to, "folder")
      BY <1>3 DEF MakeFolder
    <2>2. PICK n \in Names : n = Now(o).to
      BY <1>2
    <2>3. Before[ops[o].place][n] = Nothing \/ Permitted(<<ops[o].link, ops[o].place, n>>, history)
      BY <1>2, <1>3, <2>2, GoneOrAllowed DEF At
    <2>4. PICK what : what = "folder"
      OBVIOUS
    <2>5. what \in Contents /\ Put(o, n, what) /\ what # "half"
      BY <2>1, <2>2, <2>4 DEF Contents, Folders
    <2> QED BY <1>2, <2>1, <2>3, <2>5, EntryServed
  <1>4. CASE Reply(o, "error") /\ UNCHANGED host
    BY <1>2, <1>4, NothingServed DEF remote
  <1> QED BY <1>3, <1>4 DEF MakeFolder

LEMMA DeleteOneStep ==
  ASSUME IInv, NEW o \in Slots, Delete(o), UNCHANGED <<disk, panel, history>>
  PROVE  IInv'
  <1>1. Serve(o, "delete", "sent")
    BY DEF Delete
  <1>2. /\ o \in Busy /\ ops[o].at = "run" /\ ops[o].kind = "delete" /\ ops[o].wire = "sent"
        /\ ops[o].link \in Links /\ ops[o].place \in Dirs /\ Now(o).name \in Names
        /\ 1 \in DOMAIN ops[o].plan /\ Now(o) = ops[o].plan[1] /\ May(ops[o], history)
    BY <1>1, ServedType
  <1>3. PICK n \in Names : n = Now(o).name
    BY <1>2
  <1>4. Permitted(<<ops[o].link, ops[o].place, n>>, history)
    BY <1>2, <1>3 DEF May, PlaceFor
  <1>5. CASE Reply(o, "ok") /\ Put(o, n, Nothing)
    <2>1. PICK what : what = Nothing
      OBVIOUS
    <2>2. what \in Contents /\ what # "half" /\ Put(o, n, what)
      BY <1>5, <2>1 DEF Contents, Nothing
    <2> QED BY <1>2, <1>4, <1>5, <2>2, EntryServed
  <1>6. CASE Reply(o, "error") /\ UNCHANGED host
    BY <1>2, <1>6, NothingServed DEF remote
  <1>7. CASE Reply(o, "error") /\ Put(o, n, "half")
    <2>1. PICK what : what = "half"
      OBVIOUS
    <2>2. what \in Contents /\ Put(o, n, what)
      BY <1>7, <2>1 DEF Contents, Folders
    <2> QED BY <1>2, <1>4, <1>7, <2>2, EntryServed
  <1> QED BY <1>3, <1>5, <1>6, <1>7 DEF Delete

LEMMA CheckWriteStep ==
  ASSUME IInv, NEW o \in Slots, CheckWrite(o), UNCHANGED <<disk, panel, history>>
  PROVE  IInv'
  <1>1. Serve(o, "upload", "sent") /\ UNCHANGED remote
    BY DEF CheckWrite, remote
  <1>2. /\ o \in Busy /\ ops[o].at = "run" /\ ops[o].kind = "upload" /\ ops[o].wire = "sent"
        /\ ops[o].link \in Links /\ ops[o].place \in Dirs /\ Now(o).to \in Names /\ OldFilesKept
        /\ 1 \in DOMAIN ops[o].plan /\ Now(o) = ops[o].plan[1] /\ May(ops[o], history)
        /\ Now(o).action \in {"error", "overwrite"}
    BY <1>1, ServedType
  <1>3. CASE Reply(o, "error")
    BY <1>1, <1>2, <1>3, NothingServed
  <1>4. CASE Reply(o, "checked") /\ (At(o, Now(o).to) = Nothing \/ Now(o).action # "error")
    <2>1. \/ Before[ops[o].place][Now(o).to] = Nothing
          \/ Permitted(PlaceFor(ops[o], Now(o).to), history)
      <3>1. CASE At(o, Now(o).to) = Nothing
        BY <1>2, <3>1, GoneOrAllowed DEF At, PlaceFor
      <3>2. CASE Now(o).action = "overwrite"
        BY <1>2, <3>2 DEF May
      <3> QED BY <1>2, <1>4, <3>1, <3>2
    <2> QED BY <1>1, <1>2, <1>4, <2>1, NothingServed
  <1> QED BY <1>3, <1>4 DEF CheckWrite

LEMMA WriteStep ==
  ASSUME IInv, NEW o \in Slots, Write(o), UNCHANGED <<disk, panel, history>>
  PROVE  IInv'
  <1>1. Serve(o, "upload", "checked")
    BY DEF Write
  <1>2. /\ o \in Busy /\ ops[o].at = "run" /\ ops[o].kind = "upload" /\ ops[o].wire = "checked"
        /\ ops[o].link \in Links /\ ops[o].place \in Dirs /\ Now(o).to \in Names
        /\ Now(o) = ops[o].plan[1] /\ May(ops[o], history)
    BY <1>1, ServedType
  <1>3. CASE Reply(o, "error") /\ UNCHANGED host
    BY <1>2, <1>3, NothingServed DEF remote
  <1>4. CASE Reply(o, "ok") /\ Put(o, Now(o).to, "new")
    <2>1. PICK n \in Names : n = Now(o).to
      BY <1>2
    <2>2. Before[ops[o].place][n] = Nothing \/ Permitted(<<ops[o].link, ops[o].place, n>>, history)
      BY <1>2, <2>1 DEF May, PlaceFor
    <2>3. PICK what : what = "new"
      OBVIOUS
    <2>4. what \in Contents /\ Put(o, n, what) /\ what # "half"
      BY <1>4, <2>1, <2>3 DEF Contents, Files
    <2> QED BY <1>2, <1>4, <2>2, <2>4, EntryServed
  <1> QED BY <1>3, <1>4 DEF Write

LEMMA WriteFolderStep ==
  ASSUME IInv, NEW o \in Slots, WriteFolder(o), UNCHANGED <<disk, panel, history>>
  PROVE  IInv'
  <1>1. Serve(o, "folder", "sent")
    BY DEF WriteFolder
  <1>2. /\ o \in Busy /\ ops[o].at = "run" /\ ops[o].kind = "folder" /\ ops[o].wire = "sent"
        /\ ops[o].link \in Links /\ ops[o].place \in Dirs /\ Now(o).to \in Names /\ OldFilesKept
        /\ 1 \in DOMAIN ops[o].plan /\ Now(o) = ops[o].plan[1] /\ May(ops[o], history)
    BY <1>1, ServedType
  <1>3. CASE Reply(o, "error") /\ UNCHANGED host
    BY <1>2, <1>3, NothingServed DEF remote
  <1>4. ASSUME NEW wire \in {"ok", "error"}, Reply(o, wire),
               NEW what \in Contents, Put(o, Now(o).to, what),
               IF At(o, Now(o).to) = Nothing \/ Now(o).action = "overwrite"
                 THEN what = "folder" ELSE what = At(o, Now(o).to)
        PROVE  IInv'
    <2>1. PICK n \in Names : n = Now(o).to
      BY <1>2
    <2>2. \/ At(o, n) = what \/ Before[ops[o].place][n] = Nothing
          \/ Permitted(<<ops[o].link, ops[o].place, n>>, history)
      <3>1. CASE At(o, n) = Nothing
        BY <1>2, <3>1, GoneOrAllowed DEF At
      <3>2. CASE Now(o).action = "overwrite"
        BY <1>2, <2>1, <3>2 DEF May, PlaceFor
      <3> QED BY <1>4, <2>1, <3>1, <3>2
    <2>3. Put(o, n, what) /\ (what = "half" => At(o, n) = "half")
      BY <1>4, <2>1
    <2> QED BY <1>2, <1>4, <2>2, <2>3, EntryServed
  <1>5. At(o, Now(o).to) \in Contents /\ "folder" \in Contents
    BY <1>1, ServedType DEF Contents, Folders
  <1> QED BY <1>3, <1>4, <1>5 DEF WriteFolder

LEMMA MoveEntryStep ==
  ASSUME IInv, NEW o \in Slots, MoveEntry(o), UNCHANGED <<disk, panel>>
  PROVE  IInv'
  <1>1. Serve(o, "rename", "sent")
    BY DEF MoveEntry
  <1>2. /\ o \in Busy /\ ops[o].at = "run" /\ ops[o].kind = "rename" /\ ops[o].wire = "sent"
        /\ ops[o].link \in Links /\ ops[o].place \in Dirs /\ Now(o).to \in Names /\ Now(o).name \in Names
        /\ 1 \in DOMAIN ops[o].plan /\ Now(o) = ops[o].plan[1] /\ May(ops[o], history)
        /\ HostInv /\ OldFilesKept
    BY <1>1, ServedType
  <1>3. ASSUME NEW wire \in {"ok", "error"}, Reply(o, wire), UNCHANGED <<host, history>> PROVE IInv'
    BY <1>2, <1>3, NothingServed DEF remote
  <1>4. PICK k \in Links, e \in Dirs, from \in Names, to \in Names :
          k = ops[o].link /\ e = ops[o].place /\ from = Now(o).name /\ to = Now(o).to
    BY <1>2
  <1>5. ASSUME from # to, Reply(o, "ok"),
               host' = [host EXCEPT ![k][e] = [host[k][e] EXCEPT ![to] = host[k][e][from], ![from] = Nothing]],
               Allow(IF host[k][e][to] = Nothing THEN {} ELSE {<<k, e, to>>})
        PROVE  IInv'
    <2>0. /\ Granted
          /\ host[k][e][to] # Nothing => <<k, e, to>> \in history'.allowed
      BY <1>5 DEF IInv, TypeInv, HistoryInv, Granted, Allow
    <2>1. PICK dir : dir = [host[k][e] EXCEPT ![to] = host[k][e][from], ![from] = Nothing]
      OBVIOUS
    <2>2. host[k][e] \in [Names -> Contents] /\ host[k][e][from] \in Contents /\ Nothing \in Contents
      BY <1>2 DEF HostInv, Contents
    <2>3. /\ dir \in [Names -> Contents]
          /\ \A n \in Names : dir[n] = IF n = from THEN Nothing
                                       ELSE IF n = to THEN host[k][e][from] ELSE host[k][e][n]
      BY <1>5, <2>1, <2>2
    <2>4. host' = [host EXCEPT ![k][e] = dir]
      BY <1>5, <2>1
    <2>5. /\ HostInv'
          /\ \A l \in Links, d \in Dirs, n \in Names :
               host'[l][d][n] = IF l = k /\ d = e THEN dir[n] ELSE host[l][d][n]
          /\ \A l \in Links : l # k => host'[l] = host[l]
      BY <1>2, <2>3, <2>4 DEF HostInv
    <2>6. Permitted(<<k, e, from>>, history')
      <3>1. Permitted(<<k, e, from>>, history)
        BY <1>2, <1>4 DEF May, PlaceFor
      <3> QED BY <2>0, <3>1, StillPermitted
    <2>7. Before[e][to] = Nothing \/ Permitted(<<k, e, to>>, history')
      <3>1. ASSUME host[k][e][to] = Nothing
            PROVE  Before[e][to] = Nothing \/ Permitted(<<k, e, to>>, history)
        BY <1>2, <3>1, GoneOrAllowed
      <3>2. Permitted(<<k, e, to>>, history) => Permitted(<<k, e, to>>, history')
        BY <2>0, StillPermitted
      <3> QED BY <2>0, <3>1, <3>2 DEF Permitted
    <2>8. OnlyAllowed
      BY <2>3, <2>5, <2>6, <2>7 DEF OnlyAllowed
    <2>9. \A l \in Links, d \in Dirs, n \in Names : host'[l][d][n] = "half" =>
            \E j \in Links, c \in Dirs, m \in Names : host[j][c][m] = "half"
      <3>1. SUFFICES ASSUME NEW l \in Links, NEW d \in Dirs, NEW n \in Names, host'[l][d][n] = "half"
                     PROVE  \E j \in Links, c \in Dirs, m \in Names : host[j][c][m] = "half"
        OBVIOUS
      <3>2. host[l][d][n] = "half" \/ host[k][e][from] = "half" \/ host[k][e][n] = "half"
        BY <2>3, <2>5, <3>1 DEF Nothing
      <3>3. \E j \in Links : \E c \in Dirs : \E m \in Names : host[j][c][m] = "half"
        BY <3>2
      <3> QED BY <3>3
    <2>10. PICK wire \in {"checked", "ok", "error"} : wire = "ok"
      OBVIOUS
    <2>11. /\ Reply(o, wire) /\ UNCHANGED panel
           /\ \A l \in Links : l # ops[o].link => host'[l] = host[l]
           /\ ops[o].at \in {"list", "inspect", "run"} /\ ops[o].at # "list"
           /\ ops[o].kind # "download" /\ ops[o].wire # "error"
      BY <1>2, <1>4, <1>5, <2>5, <2>10
    <2>12. \A l \in Links, d \in Dirs, n \in Names : host'[l][d][n] = "half" =>
             \/ \E j \in Links, c \in Dirs, m \in Names : host[j][c][m] = "half"
             \/ ops[o].kind = "delete" /\ ops[o].at = "run" /\ wire = "error"
      BY <2>9
    <2> QED BY <1>2, <2>0, <2>5, <2>8, <2>10, <2>11, <2>12, ReplyKeeps
  <1> QED BY <1>3, <1>4, <1>5 DEF MoveEntry, At

LEMMA ReceiveStep ==
  ASSUME IInv, NEW o \in Slots, Receive(o), UNCHANGED <<panel, history>>
  PROVE  IInv'
  <1>1. Serve(o, "download", "sent") /\ host' = host
    BY DEF Receive
  <1>2. /\ o \in Busy /\ ops[o].at = "run" /\ ops[o].kind = "download" /\ ops[o].wire = "sent"
        /\ Now(o).to \in Names /\ Now(o).action \in {"error", "overwrite"}
        /\ 1 \in DOMAIN ops[o].plan /\ Now(o) = ops[o].plan[1] /\ May(ops[o], history)
        /\ HostInv /\ OldFilesKept
    BY <1>1, ServedType
  <1>3. CASE Reply(o, "error") /\ UNCHANGED disk
    BY <1>1, <1>2, <1>3, NothingServed DEF remote
  <1>4. ASSUME disk[Now(o).to] = Nothing \/ Now(o).action = "overwrite", Reply(o, "ok"),
               disk' = [disk EXCEPT ![Now(o).to] = "new"]
        PROVE  IInv'
    <2>1. PICK n \in Names : n = Now(o).to
      BY <1>2
    <2>2. HostInv' /\ \A m \in Names : disk'[m] = IF m = n THEN "new" ELSE disk[m]
      BY <1>1, <1>2, <1>4, <2>1 DEF HostInv, Files
    <2>3. Before[Root][n] = Nothing \/ Permitted(<<Here, Here, n>>, history)
      <3>1. CASE disk[n] = Nothing
        BY <1>2, <3>1 DEF OldFilesKept, Permitted
      <3>2. CASE Now(o).action = "overwrite"
        BY <1>2, <2>1, <3>2 DEF May, PlaceFor
      <3> QED BY <1>4, <2>1, <3>1, <3>2
    <2>4. OnlyAllowed
      BY <1>1, <2>2, <2>3 DEF OnlyAllowed
    <2>5. Granted
      BY SameHistory
    <2> QED BY <1>1, <1>2, <1>4, <2>2, <2>4, <2>5, ReplyKeeps
  <1> QED BY <1>2, <1>3, <1>4 DEF Receive

LEMMA RefuseStep ==
  ASSUME IInv, NEW o \in Slots, Refuse(o), UNCHANGED <<disk, panel, history>>
  PROVE  IInv'
  <1>1. PICK at \in {"list", "inspect", "run"} : Sent(o, at, "sent")
    BY DEF Refuse
  <1>2. o \in Busy /\ ops[o].at \in {"list", "inspect", "run"} /\ ops[o].wire = "sent"
    BY <1>1 DEF Sent, Busy
  <1>3. Reply(o, "error") /\ UNCHANGED remote
    BY DEF Refuse, remote
  <1> QED BY <1>2, <1>3, NothingServed

(* What was found is kept with the operation.                              *)
LEMMA FoundStep ==
  ASSUME IInv, NEW o \in Busy, ops[o].at \in {"list", "inspect"}, ops[o].wire = "sent",
         NEW entries \in [Names -> Contents], Found(o, entries),
         ops[o].at = "list" => entries = host[ops[o].link][ops[o].dir],
         UNCHANGED <<remote, panel, history>>
  PROVE  IInv'
  <1>1. OpsInv /\ HostInv /\ May(ops[o], history)
    BY DEF IInv, TypeInv, LeaveInv
  <1>2. PICK op \in OpSet : op = ops[o]
    BY <1>1, BusyType
  <1>3. PICK r : r = [op EXCEPT !.wire = "ok", !.entries = entries]
    OBVIOUS
  <1>4. /\ r \in OpSet
        /\ r.kind = op.kind /\ r.link = op.link /\ r.alone = op.alone /\ r.at = op.at /\ r.wire = "ok"
        /\ r.place = op.place /\ r.todo = op.todo /\ r.plan = op.plan /\ r.all = op.all
        /\ r.dir = op.dir /\ r.entries = entries
    BY <1>3 DEF OpSet
  <1>5. OpOK(op)
    BY <1>1, <1>2, BusyType
  <1>6. OpOK(r) /\ Goes(ops[o], r)
    BY <1>2, <1>4, <1>5 DEF OpOK, Goes
  <1>7. May(r, history') /\ Granted
    BY <1>1, <1>2, <1>4, SameHistory DEF May, PlaceFor
  <1>8. ops' = [ops EXCEPT ![o] = r]
    BY <1>2, <1>3 DEF Found
  <1>9. HostInv' /\ OnlyAllowed /\ host' = host
    BY <1>1, SameHosts DEF remote
  <1>10. r.at = ops[o].at /\ (r.at = "list" /\ r.wire = "ok" => r.entries = host'[r.link][r.dir])
    BY <1>2, <1>4, <1>9
  <1> QED BY <1>4, <1>6, <1>7, <1>8, <1>9, <1>10, ServeKeeps

LEMMA LookStep ==
  ASSUME IInv, NEW o \in Slots, List(o) \/ Inspect(o), UNCHANGED <<disk, panel, history>>
  PROVE  IInv'
  <1>1. o \in Busy /\ ops[o].at \in {"list", "inspect"} /\ ops[o].wire = "sent" /\ UNCHANGED remote
    BY DEF List, Inspect, Sent, Busy, remote
  <1>2. HostInv /\ ops[o].link \in Links /\ ops[o].dir \in Dirs
    BY <1>1, BusyType DEF IInv, TypeInv, OpSet
  <1>3. CASE List(o)
    <2>1. ops[o].at = "list" /\ Found(o, host[ops[o].link][ops[o].dir])
      BY <1>3 DEF List, Sent
    <2>2. PICK entries \in [Names -> Contents] : entries = host[ops[o].link][ops[o].dir]
      BY <1>2 DEF HostInv
    <2> QED BY <1>1, <2>1, <2>2, FoundStep
  <1>4. CASE Inspect(o)
    <2>1. ops[o].at = "inspect" /\ Found(o, disk)
      BY <1>4 DEF Inspect, Sent
    <2>2. PICK entries \in [Names -> Contents] : entries = disk
      BY <1>2 DEF HostInv, Contents
    <2> QED BY <1>1, <2>1, <2>2, FoundStep
  <1> QED BY <1>3, <1>4
---------------------------------------------------------------------------
LEMMA HostStep ==
  ASSUME IInv, NEW o \in Slots, Host(o)
  PROVE  IInv'
  <1>1. UNCHANGED panel
    BY DEF Host
  <1>2. CASE Receive(o) /\ UNCHANGED history
    BY <1>1, <1>2, ReceiveStep
  <1>3. CASE Refuse(o) /\ UNCHANGED <<disk, history>>
    BY <1>1, <1>3, RefuseStep
  <1>4. CASE (List(o) \/ Inspect(o)) /\ UNCHANGED <<disk, history>>
    BY <1>1, <1>4, LookStep
  <1>5. CASE MakeFolder(o) /\ UNCHANGED <<disk, history>>
    BY <1>1, <1>5, MakeFolderStep
  <1>6. CASE MoveEntry(o) /\ UNCHANGED disk
    BY <1>1, <1>6, MoveEntryStep
  <1>7. CASE Delete(o) /\ UNCHANGED <<disk, history>>
    BY <1>1, <1>7, DeleteOneStep
  <1>8. CASE CheckWrite(o) /\ UNCHANGED <<disk, history>>
    BY <1>1, <1>8, CheckWriteStep
  <1>9. CASE Write(o) /\ UNCHANGED <<disk, history>>
    BY <1>1, <1>9, WriteStep
  <1>10. CASE WriteFolder(o) /\ UNCHANGED <<disk, history>>
    BY <1>1, <1>10, WriteFolderStep
  <1> QED BY <1>2, <1>3, <1>4, <1>5, <1>6, <1>7, <1>8, <1>9, <1>10 DEF Host

LEMMA NextIInv ==
  ASSUME IInv, [Next]_vars
  PROVE  IInv'
  <1>1. ASSUME User PROVE IInv'
    <2>1. CASE \/ \E d \in Dirs : Open(d)
               \/ \E n \in Typed : CreateFolder(n) \/ UploadFolder(n)
               \/ \E batch \in Batches : Upload(batch)
               \/ Download
      BY <2>1, StartStep
    <2>2. CASE \E n \in Typed : Rename(n)
      BY <2>2, RenameStep
    <2>3. CASE DeleteEntries
      BY <2>3, DeleteStep
    <2>4. CASE \/ \E n \in Names : SelectEntry(n) \/ StartRename(n)
               \/ ToggleFollow \/ LinksChange
               \/ \E l \in Links, d \in Dirs : CwdChanges(l, d)
      BY <2>4, PanelStep
    <2> QED BY <1>1, <2>1, <2>2, <2>3, <2>4 DEF User
  <1>2. CASE Answers
    BY <1>2, AnswerStep DEF Answers
  <1>3. CASE AutoLoad \/ FollowTerminal \/ CaughtUp
    BY <1>3, StartStep, PanelStep
  <1>4. ASSUME NEW o \in Slots, Window(o) PROVE IInv'
    BY <1>4, ResolveStep, ResolvedStep, RanStep, FailsStep, ListedStep DEF Window
  <1>5. ASSUME NEW o \in Slots, Host(o) PROVE IInv'
    BY <1>5, HostStep
  <1>6. ASSUME UNCHANGED vars PROVE IInv'
    <2>1. /\ UNCHANGED <<host, disk, preferred, shown, loading, picked, form, dialog, cwd, ops, history>>
          /\ Busy' = Busy
      BY <1>6 DEF vars, remote, panel, Busy
    <2>2. TypeInv' /\ PickedInv'
      BY <2>1 DEF IInv, TypeInv, OpsInv, PanelInv, DialogInv, HostInv, HistoryInv, PickedInv
    <2>3. LeaveInv' /\ OldFilesKept' /\ HalfInv' /\ AloneInv' /\ LoadingIsWarranted'
      BY <2>1 DEF IInv, LeaveInv, OldFilesKept, HalfInv, AloneInv, LoadingIsWarranted
    <2>4. ShownInv'
      BY <2>1 DEF IInv, ShownInv, Replacing
    <2> QED BY <2>2, <2>3, <2>4 DEF IInv
  <1> QED BY <1>1, <1>2, <1>3, <1>4, <1>5, <1>6 DEF Next

LEMMA Inductive == Spec => []IInv
  BY InitIInv, NextIInv, PTL DEF Spec

(* Nothing that was on a host or on the disk is taken away, replaced or    *)
(* moved unless the user pointed at it: every command of the panel checks  *)
(* the name it writes to, however many operations run over the same        *)
(* directory and whatever answers come late.                               *)
THEOREM OldFilesAreKept == Spec => []OldFilesKept
  <1>1. IInv => OldFilesKept
    BY DEF IInv
  <1> QED BY <1>1, Inductive, PTL

(* What the panel shows of a link no operation works on is what the host   *)
(* has, unless an operation failed or was overtaken there; the lock of its *)
(* buttons has an operation behind it; and the question on the screen      *)
(* belongs to an operation that waits for it.                              *)
THEOREM PanelShowsTheTruth == Spec => []PanelIsTrue
  <1>1. ASSUME IInv PROVE PanelIsTrue
    <2>1. TypeOK
      <3>1. \A p \in Clicked : p[1] \in Links /\ p[2] \in Dirs /\ p[3] \in Names
        BY DEF Clicked
      <3>2. HostInv /\ picked \subseteq Clicked /\ form \in Clicked \cup {NoPlace} /\ DialogInv
        BY <1>1 DEF IInv, TypeInv, PanelInv
      <3>3. host \in [Links -> [Dirs -> [Names -> {Nothing} \cup Files \cup Folders]]]
            /\ disk \in [Names -> {Nothing} \cup Files]
        BY <3>2 DEF HostInv, Contents
      <3>4. dialog # 0 => ops[dialog] # Idle /\ ops[dialog].at = "asked"
        BY <3>2 DEF DialogInv
      <3> QED BY <3>1, <3>2, <3>3, <3>4 DEF TypeOK
    <2>2. ShownIsCurrent
      <3>1. SUFFICES ASSUME NEW l \in Links, l \notin history.behind, BusyOn(l) = {},
                            shown[l].path # "unseen"
                     PROVE  shown[l].entries = host[l][shown[l].path]
        BY DEF ShownIsCurrent
      <3>2. ~ \E o \in Busy : Replacing(ops[o], l)
        BY <3>1 DEF BusyOn, Replacing
      <3> QED BY <1>1, <3>1, <3>2 DEF IInv, ShownInv
    <2>3. LoadingIsWarranted
      BY <1>1 DEF IInv
    <2> QED BY <2>1, <2>2, <2>3 DEF PanelIsTrue
  <1> QED BY <1>1, Inductive, PTL

(* A tree that is half deleted was reported, or its deletion is about to   *)
(* be: the failure of a deletion in the middle does not pass for success.  *)
THEOREM HalfADeletionIsTold == Spec => []HalfIsTold
  <1>1. ASSUME IInv PROVE HalfIsTold
    BY <1>1 DEF IInv, HalfInv, HalfIsTold
  <1> QED BY <1>1, Inductive, PTL

=============================================================================
