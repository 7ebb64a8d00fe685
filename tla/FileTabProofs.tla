--------------------------- MODULE FileTabProofs ---------------------------
(***************************************************************************)
(* Proofs about the file tabs and the properties windows, for any          *)
(* sessions, directories, names, windows, operations and bounds: a tab     *)
(* lists what is there, what is deleted was chosen, and what a window      *)
(* reports is so.                                                          *)
(***************************************************************************)
EXTENDS FileTab, SequenceTheorems, TLAPS

Ids     == {Nothing.id, New("none").id} \cup (Servers \X Dirs \X Names)
Entry   == [id : Ids, mode : Modes \cup {"none"}]
Listing == [Names -> Entry]
Wires   == {"none", "sent", "ok", "error", "refused"}
Kinds   == {"load", "create", "upload", "delete", "download"}

JobSet ==
  [kind : Kinds, server : Servers, dir : Dirs, name : Names \cup {"none"}, seen : Entry,
   stray : BOOLEAN, known : SUBSET Names, over : BOOLEAN, at : {"list", "resolve", "run"},
   wire : Wires, entries : Listing, mounted : BOOLEAN]

WindowSet ==
  [at : {"asked", "open", "failed", "empty", "reload", "gone", "done"},
   server : Servers \cup {"none"}, dir : Dirs \cup {"none"}, name : Names \cup {"none"},
   seen : Entry, path : Dirs \cup {"none"},
   draft : [name : Names \cup {"none"}, mode : Modes \cup {"none"}],
   step : {"none", "rename", "chmod"}, wire : Wires, error : {"none", "error", "refused"},
   moved : Names \cup {"none"}]

HistorySet ==
  [excused : BOOLEAN, crossed : BOOLEAN, wrong : BOOLEAN, strays : SUBSET Windows]

Types ==
  /\ host \in [Servers -> [Dirs -> Listing]] /\ ops \in [Slots -> JobSet \cup {Idle}]
  /\ windows \in [Windows -> WindowSet \cup {Off}]
  /\ payloads \subseteq Windows /\ events \in Seq([server : Servers, path : Dirs])
  /\ writers \subseteq Servers \X Dirs \X (Windows \cup {OfTab})
  /\ faults \in Nat /\ session \in Servers \cup {Away} /\ path \in Dirs
  /\ snapshot \in [of : Servers \cup {Away}, path : Dirs, entries : Listing]
  /\ menu \in [of : Servers \cup {Away}, path : Dirs, name : Names \cup {"none"}, entry : Entry]
  /\ history \in HistorySet /\ busy \in BOOLEAN

-----------------------------------------------------------------------------
(* Nobody has changed the directory.                                       *)
Pristine(s, d) == ~ \E k \in writers : k[1] = s /\ k[2] = d

(* A listing of s and d that was made before anybody changed them.         *)
FromStart(s, d, entries) == Pristine(s, d) => entries = Before[s][d]

(* Hosts change where a writer is noted.                                   *)
HostInv ==
  /\ \A s \in Servers, d \in Dirs : FromStart(s, d, host[s][d])
  /\ \A k \in writers : k[3] \in Windows => windows[k[3]] # Off

(* What an operation of kind k is at.                                      *)
JobForm(j) ==
  /\ j.at = "list" => j.kind # "download"
  /\ j.at = "run" => j.kind # "load"
  /\ j.at = "resolve" => j.kind \in {"upload", "download"} /\ j.wire = "none"
  /\ j.at # "resolve" => j.wire # "none"
  /\ j.kind # "load" => j.name \in Names

(* An answer that lists, and an entry to be deleted.                       *)
JobTrue(j) ==
  /\ j.at = "list" /\ j.wire = "ok" => FromStart(j.server, j.dir, j.entries)
  /\ j.kind = "delete" /\ ~ j.stray /\ Pristine(j.server, j.dir) =>
       j.seen = Before[j.server][j.dir][j.name]

JobInv == \A o \in Busy : JobForm(ops[o]) /\ JobTrue(ops[o])

(* The tab shows listings of its own session.                              *)
TabInv ==
  /\ snapshot = Null \/ snapshot.of \in Servers
  /\ snapshot # Null => path = snapshot.path
  /\ session = Away => snapshot = Null /\ menu = NoMenu /\ Mine = {}
  /\ history.crossed => history.excused
  /\ ~ history.crossed => \A o \in Mine : ops[o].server = session
  /\ ~ history.crossed /\ snapshot # Null => snapshot.of = session
  /\ snapshot # Null => FromStart(snapshot.of, snapshot.path, snapshot.entries)

(* A menu has an entry of the listing it was opened in.                    *)
MenuInv ==
  menu # NoMenu =>
    /\ menu.of \in Servers /\ menu.name \in Names /\ menu.entry # Nothing
    /\ Pristine(menu.of, menu.path) => menu.entry = Before[menu.of][menu.path][menu.name]

-----------------------------------------------------------------------------
(* The operation will list its directory, or fail.                         *)
Refreshes(j) ==
  j.at = "list" \/ (j.at = "run" /\ j.wire = "ok" /\ j.kind # "download")

(* A window of this session is still to tell the tab of its change.        *)
Tells(s) ==
  \/ \E w \in Windows : windows[w] # Off /\ windows[w].server = s /\ windows[w].wire \in {"sent", "ok"}
  \/ \E i \in 1 .. Len(events) : events[i].server = s

(* One operation at a time, and what is out of date will be listed anew.   *)
FreshInv ==
  ~ history.excused =>
    /\ \A o, p \in Busy : o = p
    /\ session # Away => \A o \in Busy : ops[o].mounted
    /\ session # Away /\ snapshot # Null /\ snapshot.entries # host[snapshot.of][snapshot.path] =>
         (\E o \in Busy : Refreshes(ops[o])) \/ Tells(session)
    /\ \A o \in Mine : ops[o].at = "list" /\ ops[o].wire = "ok"
                       /\ ops[o].entries # host[ops[o].server][ops[o].dir] => Tells(session)
    /\ \A w \in Windows : windows[w] # Off =>
         windows[w].wire \notin {"error", "refused"} /\ (windows[w].at = "gone" => windows[w].wire = "none")

-----------------------------------------------------------------------------
(* What a window is at.                                                    *)
WindowForm(r) ==
  /\ r.at \in {"asked", "open", "done"} \/ r.wire # "none" =>
       /\ r.server \in Servers /\ r.dir \in Dirs /\ r.path \in Dirs /\ r.name \in Names
       /\ r.seen # Nothing
  /\ r.wire # "none" => r.at \in {"open", "gone"} /\ r.step # "none" /\ r.error = "none"
  /\ r.at = "open" /\ r.wire = "none" => r.step = "none"
  /\ r.at = "asked" => r.step = "none"
  /\ r.at = "gone" => r.wire \in {"none", "sent"}
  /\ r.step # "none" => r.draft.name \in Names /\ r.draft.mode \in Modes
  /\ r.step = "rename" => r.draft.name # r.name
  /\ r.error # "none" => r.at = "open"

(* The name the entry of the window has by now.                            *)
Place(r) == IF r.moved = "none" THEN r.name ELSE r.moved
(* The mode of the file of the window, as far as its commands are done.    *)
ModeOf(r) == IF r.at = "done" \/ (r.step = "chmod" /\ r.wire = "ok") THEN r.draft.mode ELSE r.seen.mode

(* A command has found something under the new name, or put it there.      *)
Moved(r) ==
  \/ r.at = "done" \/ r.wire = "ok"
  \/ r.step = "chmod" /\ r.wire = "sent" /\ r.draft.name # r.name

(* The directory made the command of the window fail.                      *)
Failed(r) == r.wire = "error" \/ r.error = "error"

(* What is so of a window that is alone with its directory, when the       *)
(* directory is dir, and own says that its entry is of there: its entry is *)
(* where it was, or where the window has put it.                           *)
OwnFile(r, dir, own) ==
  /\ Moved(r) => dir[r.draft.name] # Nothing
  /\ own =>
       /\ Place(r) \in Names
       /\ dir[Place(r)] = [id |-> r.seen.id, mode |-> ModeOf(r)]
       /\ \A x \in Names : x # Place(r) => dir[x] = Nothing \/ dir[x].id # r.seen.id
       /\ r.moved # "none" => r.moved # r.name /\ dir[r.name] = Nothing
       /\ Moved(r) => Place(r) = r.draft.name
       /\ Failed(r) => r.moved # "none" \/ (dir[r.draft.name] # Nothing /\ dir[r.draft.name].id # r.seen.id)

OwnInv(w) ==
  LET r == windows[w] IN
  r # Off /\ r.at \in {"asked", "open", "done"} /\ Alone(w) =>
    OwnFile(r, host[r.server][r.dir], w \notin history.strays)

WindowInv ==
  /\ \A w \in Windows : windows[w] # Off => WindowForm(windows[w])
  /\ \A w \in Windows : OwnInv(w)
  /\ PayloadsAreTaken

IInv ==
  Types /\ HostInv /\ JobInv /\ TabInv /\ MenuInv /\ FreshInv /\ WindowInv /\ DeletedWasChosen
-----------------------------------------------------------------------------
(* The constants of the model have their types.                            *)
LEMMA ConstFacts ==
  /\ Nothing \in Entry /\ Null \in [of : Servers \cup {Away}, path : Dirs, entries : Listing]
  /\ NoMenu \in [of : Servers \cup {Away}, path : Dirs, name : Names \cup {"none"}, entry : Entry]
  /\ Idle \notin JobSet /\ Off \notin WindowSet /\ FirstMode \in Modes /\ Root \in Dirs
  /\ \A m \in Modes : New(m) \in Entry
  /\ \A s \in Servers, d \in Dirs :
       /\ Before[s][d] \in Listing
       /\ \A n \in Names : Before[s][d][n] = IF n \in Names \ Hidden THEN [id |-> <<s, d, n>>, mode |-> FirstMode]
                                             ELSE Nothing
  <1>1. Nothing \in Entry
    BY DEF Nothing, Entry, Ids
  <1>2. Root \in Dirs /\ FirstMode \in Modes
    BY PropertiesAssumption, TabAssumption DEF FirstMode
  <1>3. Null \in [of : Servers \cup {Away}, path : Dirs, entries : Listing]
    BY <1>1, <1>2 DEF Null, Listing
  <1>4. NoMenu \in [of : Servers \cup {Away}, path : Dirs, name : Names \cup {"none"}, entry : Entry]
    BY <1>1, <1>2 DEF NoMenu
  <1>5. Idle \notin JobSet
    <2>1. Idle.kind = "idle"
      BY DEF Idle
    <2>2. \A j \in JobSet : j.kind # "idle"
      BY DEF JobSet, Kinds
    <2> QED BY <2>1, <2>2
  <1>6. Off \notin WindowSet
    <2>1. Off.at = "off"
      BY DEF Off
    <2>2. \A r \in WindowSet : r.at # "off"
      BY DEF WindowSet
    <2> QED BY <2>1, <2>2
  <1>7. \A m \in Modes : New(m) \in Entry
    BY DEF New, Entry, Ids
  <1>8. ASSUME NEW s \in Servers, NEW d \in Dirs
        PROVE  /\ Before[s][d] \in Listing
               /\ \A n \in Names : Before[s][d][n] = IF n \in Names \ Hidden
                                                     THEN [id |-> <<s, d, n>>, mode |-> FirstMode] ELSE Nothing
    <2>1. Before[s][d] = [n \in Names |-> IF n \in Names \ Hidden THEN [id |-> <<s, d, n>>, mode |-> FirstMode]
                                          ELSE Nothing]
      BY DEF Before
    <2>2. ASSUME NEW n \in Names PROVE [id |-> <<s, d, n>>, mode |-> FirstMode] \in Entry
      BY <1>2 DEF Entry, Ids
    <2> QED BY <1>1, <2>1, <2>2 DEF Listing
  <1> QED BY <1>1, <1>2, <1>3, <1>4, <1>5, <1>6, <1>7, <1>8

(* What an operation that begins is.                                       *)
LEMMA JobFacts ==
  ASSUME Types, TabInv, NEW kind \in Kinds, NEW s \in Servers, NEW d \in Dirs,
         NEW n \in Names \cup {"none"}, kind # "load" => n \in Names,
         kind = "delete" /\ ~ history.crossed => snapshot # Null /\ s = session /\ d = snapshot.path
  PROVE  LET j == Job(kind, s, d, n) IN
         /\ j \in JobSet /\ JobForm(j) /\ JobTrue(j) /\ j.server = s /\ j.mounted
         /\ j.wire # "ok" /\ (j.at = "list" <=> kind = "load") /\ j.kind = kind
  <1> DEFINE j == Job(kind, s, d, n)
  <1>1. /\ j.kind = kind /\ j.server = s /\ j.dir = d /\ j.name = n /\ j.mounted = TRUE
        /\ j.seen = (IF kind = "delete" THEN snapshot.entries[n] ELSE Nothing)
        /\ j.stray = (kind = "delete" /\ history.crossed)
        /\ j.known = {x \in Names : kind = "upload" /\ snapshot.entries[x] # Nothing}
        /\ j.over = FALSE /\ j.entries = Null.entries
        /\ j.at = (IF kind = "load" THEN "list" ELSE IF kind \in {"upload", "download"} THEN "resolve" ELSE "run")
        /\ j.wire = (IF kind \in {"upload", "download"} THEN "none" ELSE "sent")
    BY DEF Job, Asking
  <1>2. snapshot.entries \in Listing /\ history.crossed \in BOOLEAN
    BY DEF Types, HistorySet
  <1>3. j.seen \in Entry
    BY <1>1, <1>2, ConstFacts DEF Listing
  <1>4. Null.entries \in Listing
    BY ConstFacts
  <1>5. j \in JobSet
    <2>1. j = [kind |-> j.kind, server |-> j.server, dir |-> j.dir, name |-> j.name,
               seen |-> j.seen, stray |-> j.stray, known |-> j.known, over |-> j.over,
               at |-> j.at, wire |-> j.wire, entries |-> j.entries, mounted |-> j.mounted]
      BY DEF Job
    <2>2. /\ j.known \in SUBSET Names /\ j.stray \in BOOLEAN
          /\ j.at \in {"list", "resolve", "run"} /\ j.wire \in Wires
      BY <1>1, <1>2 DEF Wires
    <2> HIDE DEF j
    <2> QED BY <1>1, <1>3, <1>4, <2>1, <2>2 DEF JobSet
  <1> HIDE DEF j
  <1>6. JobForm(j)
    BY <1>1 DEF JobForm
  <1>7. j.kind = "delete" /\ ~ j.stray /\ Pristine(j.server, j.dir) =>
          j.seen = Before[j.server][j.dir][j.name]
    <2>1. SUFFICES ASSUME kind = "delete", ~ history.crossed, Pristine(s, d)
                   PROVE  snapshot.entries[n] = Before[s][d][n]
      BY <1>1
    <2>2. snapshot # Null /\ s = session /\ d = snapshot.path
      BY <2>1
    <2>3. snapshot.of = s
      BY <2>1, <2>2 DEF TabInv
    <2>4. snapshot.entries = Before[s][d]
      BY <2>1, <2>2, <2>3 DEF TabInv, FromStart
    <2> QED BY <2>4
  <1>8. JobTrue(j)
    <2>1. j.wire # "ok"
      BY <1>1
    <2> QED BY <1>7, <2>1 DEF JobTrue
  <1> QED BY <1>1, <1>5, <1>6, <1>8 DEF j

(* One slot gets an operation, or is idle again.                           *)
LEMMA SlotFacts ==
  ASSUME Types, NEW o \in Slots, NEW j \in JobSet \cup {Idle}, ops' = [ops EXCEPT ![o] = j]
  PROVE  /\ ops' \in [Slots -> JobSet \cup {Idle}] /\ ops'[o] = j
         /\ \A p \in Slots : p # o => ops'[p] = ops[p]
         /\ \A p : p \in Busy' <=> (p \in Busy /\ p # o) \/ (p = o /\ j # Idle)
         /\ \A p : p \in Mine' <=> (p \in Mine /\ p # o) \/ (p = o /\ j # Idle /\ j.mounted)
  <1>1. ops \in [Slots -> JobSet \cup {Idle}]
    BY DEF Types
  <1>2. /\ ops' \in [Slots -> JobSet \cup {Idle}] /\ ops'[o] = j
        /\ \A p \in Slots : p # o => ops'[p] = ops[p]
    BY <1>1
  <1>3. \A p : p \in Busy' <=> (p \in Busy /\ p # o) \/ (p = o /\ j # Idle)
    BY <1>2 DEF Busy
  <1>4. \A p : p \in Mine' <=> (p \in Mine /\ p # o) \/ (p = o /\ j # Idle /\ j.mounted)
    BY <1>2, <1>3 DEF Mine
  <1> QED BY <1>2, <1>3, <1>4

LEMMA BusyFacts ==
  ASSUME Types, NEW o \in Busy
  PROVE  o \in Slots /\ ops[o] \in JobSet /\ ops[o] # Idle
  BY DEF Types, Busy

-----------------------------------------------------------------------------
(* What is so of a step that begins an operation, in slot o.               *)
Starting(o, j) ==
  /\ ops[o] = Idle /\ ops' = [ops EXCEPT ![o] = j] /\ busy' = TRUE
  /\ JobForm(j) /\ JobTrue(j) /\ j.server = session' /\ j.mounted /\ j.wire # "ok"
  /\ UNCHANGED <<host, windows, payloads, writers, faults>>
  /\ session' \in Servers
  /\ \/ /\ session' = session /\ menu' = menu /\ history'.crossed = history.crossed
        /\ (snapshot' = snapshot /\ path' = path) \/ (snapshot' = Null /\ path' = Root)
     \/ /\ menu' \in {NoMenu, menu} /\ history'.crossed = (Mine # {})
        /\ snapshot' = Null /\ path' = Root
  /\ history'.excused = (history.excused \/ Busy # {})
  /\ history' \in HistorySet /\ history'.wrong = history.wrong /\ history'.strays = history.strays
  /\ \/ events' = events
     \/ events # <<>> /\ events' = Tail(events) /\ Head(events).server = session /\ j.at = "list"

Starts == \E o \in Slots, j \in JobSet : Starting(o, j)

(* An entry that is seen belongs to a listing.                             *)
LEMMA SeenFacts ==
  ASSUME Types, TabInv, NEW n \in Visible
  PROVE  n \in Names /\ snapshot # Null /\ session \in Servers /\ snapshot.entries[n] \in Entry
         /\ snapshot.entries[n] # Nothing /\ snapshot.path \in Dirs
  <1>1. n \in Names /\ snapshot.entries[n] # Nothing
    BY DEF Visible
  <1>2. snapshot # Null
    BY <1>1 DEF Null
  <1>3. session \in Servers
    BY <1>2 DEF TabInv, Types
  <1>4. snapshot.entries[n] \in Entry /\ snapshot.path \in Dirs
    BY <1>1 DEF Types, Listing
  <1> QED BY <1>1, <1>2, <1>3, <1>4

(* The record of what is excusable, after a step that may overlap.         *)
LEMMA OverlapsFacts ==
  ASSUME Types, Overlaps
  PROVE  /\ history' \in HistorySet /\ history'.wrong = history.wrong
         /\ history'.strays = history.strays /\ history'.crossed = history.crossed
         /\ history'.excused = (history.excused \/ Busy # {})
  BY DEF Types, HistorySet, Overlaps

(* An operation of the active session that begins.                         *)
LEMMA BeginsHere ==
  ASSUME Types, TabInv, NEW kind \in Kinds, NEW d \in Dirs, NEW n \in Names \cup {"none"},
         kind # "load" => n \in Names, kind = "delete" => snapshot # Null /\ d = snapshot.path,
         session \in Servers, Begin(Job(kind, session, d, n)), Overlaps,
         UNCHANGED <<host, windows, payloads, writers, faults, session, menu>>,
         (snapshot' = snapshot /\ path' = path) \/ (snapshot' = Null /\ path' = Root),
         \/ events' = events
         \/ kind = "load" /\ events # <<>> /\ events' = Tail(events) /\ Head(events).server = session
  PROVE  Starts
  <1>1. PICK j : j = Job(kind, session, d, n)
    OBVIOUS
  <1>2. /\ j \in JobSet /\ JobForm(j) /\ JobTrue(j) /\ j.server = session /\ j.mounted
        /\ j.wire # "ok" /\ (j.at = "list" <=> kind = "load")
    BY <1>1, JobFacts
  <1>3. PICK o \in Slots : ops[o] = Idle /\ ops' = [ops EXCEPT ![o] = j] /\ busy' = TRUE
    BY <1>1 DEF Begin
  <1>4. Starting(o, j)
    BY <1>2, <1>3, OverlapsFacts DEF Starting
  <1> QED BY <1>2, <1>4 DEF Starts

(* Each of these begins one operation.                                     *)
LEMMA StartsFacts ==
  ASSUME Types, TabInv
  PROVE  /\ \A s \in Servers : SwitchTab(s) => Starts
         /\ \A d \in Dirs : Load(d) => Starts
         /\ \A n \in Names : CreateFolder(n) \/ Upload(n) => Starts
         /\ Renders \/ DeleteSelected \/ DownloadSelected => Starts
         /\ HearResult /\ Head(events).server = session => Starts
  <1> USE DEF Still, Unmoved
  <1>0. /\ "load" \in Kinds /\ "create" \in Kinds /\ "upload" \in Kinds /\ "delete" \in Kinds
        /\ "download" \in Kinds /\ Root \in Dirs
    BY ConstFacts DEF Kinds
  <1>1. ASSUME NEW s \in Servers, SwitchTab(s)
        PROVE  Starts
    <2>1. PICK j : j = Job("load", s, Root, "none")
      OBVIOUS
    <2>2. /\ j \in JobSet /\ JobForm(j) /\ JobTrue(j) /\ j.server = s /\ j.mounted /\ j.wire # "ok"
      BY <1>0, <2>1, JobFacts
    <2>3. PICK o \in Slots : ops[o] = Idle /\ ops' = [ops EXCEPT ![o] = j] /\ busy' = TRUE
      BY <1>1, <2>1 DEF SwitchTab, Enter, Begin
    <2>4. /\ history' \in HistorySet /\ history'.wrong = history.wrong
          /\ history'.strays = history.strays /\ history'.crossed = (Mine # {})
          /\ history'.excused = (history.excused \/ Busy # {})
      BY <1>1 DEF SwitchTab, Types, HistorySet
    <2>5. /\ session' = s /\ snapshot' = Null /\ path' = Root /\ menu' \in {NoMenu, menu}
          /\ UNCHANGED <<host, windows, payloads, events, writers, faults>>
      BY <1>1 DEF SwitchTab, Enter
    <2>6. Starting(o, j)
      BY <2>2, <2>3, <2>4, <2>5 DEF Starting
    <2> QED BY <2>2, <2>6 DEF Starts
  <1>2. ASSUME NEW d \in Dirs, Load(d)
        PROVE  Starts
    <2>1. /\ session \in Servers /\ Begin(Job("load", session, d, "none")) /\ Overlaps
          /\ UNCHANGED <<host, windows, payloads, events, writers, faults, session, menu, snapshot, path>>
      BY <1>2 DEF Load, Types
    <2> QED BY <1>0, <2>1, BeginsHere
  <1>3. ASSUME NEW n \in Names, CreateFolder(n)
        PROVE  Starts
    <2>1. /\ session \in Servers /\ Begin(Job("create", session, path, n)) /\ Overlaps
          /\ UNCHANGED <<host, windows, payloads, events, writers, faults, session, menu, snapshot, path>>
          /\ path \in Dirs
      BY <1>3 DEF CreateFolder, Types
    <2> QED BY <1>0, <2>1, BeginsHere
  <1>4. ASSUME NEW n \in Names, Upload(n)
        PROVE  Starts
    <2>1. /\ session \in Servers /\ Begin(Job("upload", session, path, n)) /\ Overlaps
          /\ UNCHANGED <<host, windows, payloads, events, writers, faults, session, menu, snapshot, path>>
          /\ path \in Dirs
      BY <1>4 DEF Upload, Types
    <2> QED BY <1>0, <2>1, BeginsHere
  <1>5. ASSUME Renders
        PROVE  Starts
    <2>1. /\ Begin(Job("load", session, Root, "none")) /\ Overlaps
          /\ UNCHANGED <<host, windows, payloads, events, writers, faults, session, menu>>
          /\ snapshot' = Null /\ path' = Root
      BY <1>5 DEF Renders, Enter
    <2>2. session \in Servers
      BY <1>5, TabAssumption DEF Renders
    <2> QED BY <1>0, <2>1, <2>2, BeginsHere
  <1>6. ASSUME DeleteSelected
        PROVE  Starts
    <2>1. /\ Begin(Job("delete", session, snapshot.path, selected)) /\ Overlaps
          /\ UNCHANGED <<host, windows, payloads, events, writers, faults, session, menu, snapshot, path>>
          /\ selected \in Visible
      BY <1>6 DEF DeleteSelected, HasSelected
    <2>2. snapshot # Null /\ session \in Servers /\ snapshot.path \in Dirs /\ selected \in Names
      BY <2>1, SeenFacts
    <2> QED BY <1>0, <2>1, <2>2, BeginsHere
  <1>7. ASSUME DownloadSelected
        PROVE  Starts
    <2>1. /\ Begin(Job("download", session, snapshot.path, selected)) /\ Overlaps
          /\ UNCHANGED <<host, windows, payloads, events, writers, faults, session, menu, snapshot, path>>
          /\ selected \in Visible
      BY <1>7 DEF DownloadSelected, HasSelected
    <2>2. snapshot # Null /\ session \in Servers /\ snapshot.path \in Dirs /\ selected \in Names
      BY <2>1, SeenFacts
    <2> QED BY <1>0, <2>1, <2>2, BeginsHere
  <1>8. ASSUME HearResult, Head(events).server = session
        PROVE  Starts
    <2>1. events # <<>> /\ events' = Tail(events)
      BY <1>8 DEF HearResult
    <2>2. Head(events) \in [server : Servers, path : Dirs]
      BY <2>1, HeadTailProperties DEF Types
    <2>3. /\ Begin(Job("load", session, Head(events).path, "none")) /\ Overlaps
          /\ UNCHANGED <<host, windows, payloads, writers, faults, session, menu, snapshot, path>>
      BY <1>8 DEF HearResult
    <2>4. session \in Servers /\ Head(events).path \in Dirs
      BY <1>8, <2>2
    <2> QED BY <1>0, <1>8, <2>1, <2>3, <2>4, BeginsHere
  <1> QED BY <1>1, <1>2, <1>3, <1>4, <1>5, <1>6, <1>7, <1>8

(* While writers only grow, what is of the start stays so.                 *)
LEMMA PristineKeeps ==
  ASSUME writers \subseteq writers'
  PROVE  /\ \A s, d : Pristine(s, d)' => Pristine(s, d)
         /\ \A s, d, e : FromStart(s, d, e) => FromStart(s, d, e)'
         /\ \A j : JobTrue(j) => JobTrue(j)'
  <1>1. \A s, d : Pristine(s, d)' => Pristine(s, d)
    BY DEF Pristine
  <1>2. \A s, d, e : FromStart(s, d, e) => FromStart(s, d, e)'
    BY <1>1 DEF FromStart
  <1>3. \A j : JobTrue(j) => JobTrue(j)'
    BY <1>1, <1>2 DEF JobTrue
  <1> QED BY <1>1, <1>2, <1>3

(* A slot that is busy has an operation that keeps its form.               *)
LEMMA JobInvKeeps ==
  ASSUME writers \subseteq writers', JobInv, NEW o, NEW j,
         j # Idle => JobForm(j) /\ JobTrue(j)', ops'[o] = j,
         \A p : p \in Busy' => p = o \/ (p \in Busy /\ ops'[p] = ops[p]),
         o \in Busy' => j # Idle
  PROVE  JobInv'
  <1> SUFFICES ASSUME NEW p \in Busy' PROVE JobForm(ops[p])' /\ JobTrue(ops[p])'
    BY DEF JobInv
  <1>1. PICK q : q = ops'[p]
    OBVIOUS
  <1>2. JobForm(q) /\ JobTrue(q)'
    <2>1. CASE p = o
      BY <1>1, <2>1
    <2>2. CASE p # o
      <3>1. p \in Busy /\ q = ops[p]
        BY <1>1, <2>2
      <3>2. JobForm(q) /\ JobTrue(q)
        BY <3>1 DEF JobInv
      <3> QED BY <3>2, PristineKeeps
    <2> QED BY <2>1, <2>2
  <1> QED BY <1>1, <1>2 DEF JobForm, JobTrue, FromStart, Pristine

(* A window that is not changed is as it was, when only its own commands   *)
(* change its directory without a trace of somebody else.                  *)
LEMMA OwnKeeps ==
  ASSUME NEW v \in Windows, OwnInv(v), windows'[v] = windows[v],
         history.strays \subseteq history'.strays, writers \subseteq writers',
         \/ host'[windows[v].server][windows[v].dir] = host[windows[v].server][windows[v].dir]
         \/ \E k \in writers' : k[1] = windows[v].server /\ k[2] = windows[v].dir /\ k[3] # v
  PROVE  OwnInv(v)'
  <1> SUFFICES ASSUME windows[v] # Off, windows[v].at \in {"asked", "open", "done"}, Alone(v)'
               PROVE  OwnInv(v)'
    BY DEF OwnInv
  <1>1. Alone(v)
    BY DEF Alone
  <1>2. host'[windows[v].server][windows[v].dir] = host[windows[v].server][windows[v].dir]
    BY DEF Alone
  <1>3. PICK r : r = windows[v]
    OBVIOUS
  <1>4. OwnFile(r, host[r.server][r.dir], v \notin history.strays)
    BY <1>1, <1>3 DEF OwnInv
  <1>5. OwnFile(r, host'[r.server][r.dir], v \notin history'.strays)
    BY <1>2, <1>3, <1>4 DEF OwnFile
  <1>6. windows'[v] = r
    BY <1>3
  <1> QED BY <1>5, <1>6 DEF OwnInv, OwnFile, Place, Failed, ModeOf, Moved

(* What the windows are is a matter of these variables only.               *)
LEMMA WindowsKeep ==
  ASSUME WindowInv, history'.strays = history.strays,
         UNCHANGED <<host, windows, payloads, writers, faults>>
  PROVE  WindowInv'
  <1>1. ASSUME NEW v \in Windows PROVE OwnInv(v)'
    <2>1. OwnInv(v)
      BY DEF WindowInv
    <2> QED BY <2>1, OwnKeeps
  <1>2. \A v \in Windows : windows'[v] # Off => WindowForm(windows'[v])
    BY DEF WindowInv
  <1>3. PayloadsAreTaken'
    BY DEF WindowInv, PayloadsAreTaken
  <1> QED BY <1>1, <1>2, <1>3 DEF WindowInv, WindowForm

(* A step that begins an operation keeps the invariant.                    *)
LEMMA StartsKeep ==
  ASSUME IInv, Starts
  PROVE  IInv'
  <1>0. PICK o \in Slots, j \in JobSet : Starting(o, j)
    BY DEF Starts
  <1>1. Types /\ HostInv /\ JobInv /\ TabInv /\ MenuInv /\ FreshInv /\ WindowInv /\ DeletedWasChosen
    BY DEF IInv
  <1>2. /\ ops[o] = Idle /\ ops' = [ops EXCEPT ![o] = j] /\ j # Idle /\ JobForm(j) /\ JobTrue(j)
        /\ j.server = session' /\ j.mounted /\ j.wire # "ok"
    BY <1>0, ConstFacts DEF Starting
  <1>3. UNCHANGED <<host, windows, payloads, writers, faults>> /\ session' \in Servers
    BY <1>0 DEF Starting
  <1>4. /\ ops' \in [Slots -> JobSet \cup {Idle}] /\ ops'[o] = j
        /\ \A p \in Slots : p # o => ops'[p] = ops[p]
        /\ \A p : p \in Busy' <=> (p \in Busy /\ p # o) \/ p = o
        /\ \A p : p \in Mine' <=> (p \in Mine /\ p # o) \/ p = o
    BY <1>1, <1>2, SlotFacts
  <1>5. o \notin Busy /\ Mine \subseteq Busy /\ Busy \subseteq Slots
    BY <1>2 DEF Busy, Mine
  <1>6. \A p \in Busy : p # o /\ ops'[p] = ops[p]
    BY <1>4, <1>5
  <1>7. Types'
    <2>1. events' \in Seq([server : Servers, path : Dirs])
      <3>1. events \in Seq([server : Servers, path : Dirs])
        BY <1>1 DEF Types
      <3>2. events # <<>> => Tail(events) \in Seq([server : Servers, path : Dirs])
        BY <3>1, HeadTailProperties
      <3> QED BY <1>0, <3>1, <3>2 DEF Starting
    <2>2. snapshot' \in [of : Servers \cup {Away}, path : Dirs, entries : Listing] /\ path' \in Dirs
      BY <1>0, <1>1, ConstFacts DEF Starting, Types
    <2>3. menu' \in [of : Servers \cup {Away}, path : Dirs, name : Names \cup {"none"}, entry : Entry]
      BY <1>0, <1>1, ConstFacts DEF Starting, Types
    <2>4. history' \in HistorySet /\ busy' \in BOOLEAN
      BY <1>0 DEF Starting
    <2> QED BY <1>1, <1>3, <1>4, <2>1, <2>2, <2>3, <2>4 DEF Types
  <1>8. HostInv'
    BY <1>1, <1>3 DEF HostInv, FromStart, Pristine
  <1>9. JobInv'
    <2>1. JobTrue(j)'
      BY <1>2, <1>3, PristineKeeps
    <2> QED BY <1>1, <1>2, <1>3, <1>4, <1>6, <2>1, JobInvKeeps
  <1>10. TabInv'
    <2>1. snapshot' = Null \/ snapshot'.of \in Servers
      BY <1>0, <1>1 DEF Starting, TabInv
    <2>2. snapshot' # Null => path' = snapshot'.path
      BY <1>0, <1>1 DEF Starting, TabInv
    <2>3. session' # Away
      BY <1>3, TabAssumption
    <2>4. history'.crossed => history'.excused
      BY <1>0, <1>1, <1>5 DEF Starting, TabInv, Types, HistorySet
    <2>5. ~ history'.crossed => \A p \in Mine' : ops'[p].server = session'
      <3> SUFFICES ASSUME ~ history'.crossed, NEW p \in Mine' PROVE ops'[p].server = session'
        OBVIOUS
      <3>1. CASE p = o
        BY <1>2, <1>4, <3>1
      <3>2. CASE p # o
        <4>1. p \in Mine /\ ops'[p] = ops[p]
          BY <1>4, <1>5, <1>6, <3>2
        <4>2. session' = session /\ history'.crossed = history.crossed
          BY <1>0, <4>1 DEF Starting
        <4> QED BY <1>1, <4>1, <4>2 DEF TabInv
      <3> QED BY <3>1, <3>2
    <2>6. ~ history'.crossed /\ snapshot' # Null => snapshot'.of = session'
      BY <1>0, <1>1 DEF Starting, TabInv
    <2>7. snapshot' # Null => FromStart(snapshot.of, snapshot.path, snapshot.entries)'
      <3> SUFFICES ASSUME snapshot' # Null PROVE FromStart(snapshot.of, snapshot.path, snapshot.entries)'
        OBVIOUS
      <3>1. snapshot' = snapshot
        BY <1>0 DEF Starting
      <3> QED BY <1>1, <1>3, <3>1 DEF TabInv, FromStart, Pristine
    <2> QED BY <2>1, <2>2, <2>3, <2>4, <2>5, <2>6, <2>7 DEF TabInv
  <1>11. MenuInv'
    BY <1>0, <1>1, <1>3 DEF Starting, MenuInv, Pristine
  <1>12. FreshInv'
    <2> SUFFICES ASSUME ~ history'.excused
                 PROVE  /\ \A p, q \in Busy' : p = q
                        /\ session' # Away => \A p \in Busy' : ops'[p].mounted
                        /\ session' # Away /\ snapshot' # Null /\ snapshot'.entries # host'[snapshot'.of][snapshot'.path] =>
                             (\E p \in Busy' : Refreshes(ops'[p])) \/ Tells(session)'
                        /\ \A p \in Mine' : ops'[p].at = "list" /\ ops'[p].wire = "ok"
                             /\ ops'[p].entries # host'[ops'[p].server][ops'[p].dir] => Tells(session)'
                        /\ \A w \in Windows : windows'[w] # Off =>
                             windows'[w].wire \notin {"error", "refused"} /\ (windows'[w].at = "gone" => windows'[w].wire = "none")
      BY DEF FreshInv
    <2>1. ~ history.excused /\ Busy = {} /\ Mine = {}
      BY <1>0, <1>1, <1>5 DEF Starting, Types, HistorySet
    <2>2. \A p : p \in Busy' => p = o
      BY <1>4, <2>1
    <2>3. \A p : p \in Mine' => p = o
      BY <1>4, <2>1
    <2>4. o \in Busy' /\ ops'[o].mounted
      BY <1>2, <1>4
    <2>5. ASSUME session' # Away, snapshot' # Null, snapshot'.entries # host'[snapshot'.of][snapshot'.path]
          PROVE  (\E p \in Busy' : Refreshes(ops'[p])) \/ Tells(session)'
      <3>1. snapshot' = snapshot /\ session' = session
        BY <1>0, <2>5 DEF Starting
      <3>2. Tells(session)
        BY <1>1, <1>3, <2>1, <2>5, <3>1 DEF FreshInv
      <3>3. CASE events' = events
        BY <1>3, <3>1, <3>2, <3>3 DEF Tells
      <3>4. CASE j.at = "list"
        BY <1>4, <2>4, <3>4 DEF Refreshes
      <3> QED BY <1>0, <3>3, <3>4 DEF Starting
    <2>6. \A w \in Windows : windows'[w] # Off =>
            windows'[w].wire \notin {"error", "refused"} /\ (windows'[w].at = "gone" => windows'[w].wire = "none")
      BY <1>1, <1>3, <2>1 DEF FreshInv
    <2> QED BY <1>2, <1>4, <2>2, <2>3, <2>4, <2>5, <2>6
  <1>13. WindowInv' /\ DeletedWasChosen'
    <2>1. history'.strays = history.strays /\ history'.wrong = history.wrong
      BY <1>0 DEF Starting
    <2> QED BY <1>1, <1>3, <2>1, WindowsKeep DEF DeletedWasChosen
  <1> QED BY <1>7, <1>8, <1>9, <1>10, <1>11, <1>12, <1>13 DEF IInv

-----------------------------------------------------------------------------
(* Steps in which the user only looks, and results for another session.    *)
Looks ==
  /\ UNCHANGED <<host, windows, payloads, writers, faults, session, snapshot, path, busy, ops, history>>
  /\ \/ menu' = menu
     \/ \E n \in Visible :
          menu' = [of |-> snapshot.of, path |-> snapshot.path, name |-> n, entry |-> snapshot.entries[n]]
  /\ \/ events' = events
     \/ events # <<>> /\ events' = Tail(events) /\ Head(events).server # session

LEMMA LooksFacts ==
  /\ \A n \in Names : SelectEntry(n) \/ DragOut(n) \/ OpenMenu(n) => Looks
  /\ ShowHidden => Looks
  /\ HearResult /\ Head(events).server # session => Looks
  <1>1. \A n \in Names : SelectEntry(n) \/ DragOut(n) => Looks
    BY DEF SelectEntry, DragOut, Still, Looks
  <1>2. \A n \in Names : OpenMenu(n) => Looks
    BY DEF OpenMenu, Still, Looks
  <1>3. ShowHidden => Looks
    BY DEF ShowHidden, Still, Looks
  <1>4. HearResult /\ Head(events).server # session => Looks
    BY DEF HearResult, Looks
  <1> QED BY <1>1, <1>2, <1>3, <1>4

LEMMA LooksKeep ==
  ASSUME IInv, Looks
  PROVE  IInv'
  <1>1. Types /\ HostInv /\ JobInv /\ TabInv /\ MenuInv /\ FreshInv /\ WindowInv /\ DeletedWasChosen
    BY DEF IInv
  <1>2. UNCHANGED <<host, windows, payloads, writers, faults, session, snapshot, path, busy, ops, history>>
    BY DEF Looks
  <1>3. events' \in Seq([server : Servers, path : Dirs]) /\ (Tells(session) => Tells(session)')
    <2>1. events \in Seq([server : Servers, path : Dirs])
      BY <1>1 DEF Types
    <2>2. CASE events' = events
      BY <1>2, <2>1, <2>2 DEF Tells
    <2>3. CASE events # <<>> /\ events' = Tail(events) /\ Head(events).server # session
      <3>1. events' \in Seq([server : Servers, path : Dirs]) /\ Len(events') = Len(events) - 1
            /\ \A i \in 1 .. Len(events') : events'[i] = events[i + 1]
        BY <2>1, <2>3, HeadTailProperties
      <3>2. Head(events) = events[1] /\ Len(events) \in Nat
        BY <2>1, <2>3
      <3>3. ASSUME NEW i \in 1 .. Len(events), events[i].server = session
            PROVE  \E k \in 1 .. Len(events') : events'[k].server = session
        <4>1. i # 1
          BY <2>3, <3>2, <3>3
        <4>2. i - 1 \in 1 .. Len(events') /\ events'[i - 1] = events[i]
          BY <3>1, <3>2, <4>1
        <4> QED BY <3>3, <4>2
      <3> QED BY <1>2, <3>1, <3>3 DEF Tells
    <2> QED BY <2>2, <2>3 DEF Looks
  <1>4. /\ menu' \in [of : Servers \cup {Away}, path : Dirs, name : Names \cup {"none"}, entry : Entry]
        /\ MenuInv' /\ (session' = Away => menu' = NoMenu)
    <2>1. CASE menu' = menu
      BY <1>1, <1>2, <2>1 DEF MenuInv, Types, TabInv, Pristine
    <2>2. ASSUME NEW n \in Visible,
                 menu' = [of |-> snapshot.of, path |-> snapshot.path, name |-> n, entry |-> snapshot.entries[n]]
          PROVE  /\ menu' \in [of : Servers \cup {Away}, path : Dirs, name : Names \cup {"none"}, entry : Entry]
                 /\ MenuInv' /\ (session' = Away => menu' = NoMenu)
      <3>1. /\ n \in Names /\ snapshot # Null /\ session \in Servers /\ snapshot.entries[n] \in Entry
            /\ snapshot.entries[n] # Nothing /\ snapshot.path \in Dirs
        BY <1>1, SeenFacts
      <3>2. session' # Away
        BY <1>2, <3>1, TabAssumption
      <3>3. /\ snapshot.of \in Servers
            /\ Pristine(snapshot.of, snapshot.path) =>
                 snapshot.entries[n] = Before[snapshot.of][snapshot.path][n]
        BY <1>1, <3>1 DEF TabInv, FromStart
      <3>4. /\ menu'.of = snapshot.of /\ menu'.path = snapshot.path /\ menu'.name = n
            /\ menu'.entry = snapshot.entries[n]
        BY <2>2
      <3>5. MenuInv'
        BY <1>2, <3>1, <3>3, <3>4 DEF MenuInv, Pristine
      <3> QED BY <2>2, <3>1, <3>2, <3>3, <3>5
    <2> QED BY <2>1, <2>2 DEF Looks
  <1>5. Types'
    BY <1>1, <1>2, <1>3, <1>4 DEF Types
  <1>6. HostInv' /\ JobInv'
    BY <1>1, <1>2 DEF HostInv, FromStart, Pristine, JobInv, Busy, JobForm, JobTrue
  <1>7. TabInv'
    BY <1>1, <1>2, <1>4 DEF TabInv, Mine, Busy, FromStart, Pristine
  <1>8. FreshInv'
    BY <1>1, <1>2, <1>3 DEF FreshInv, Mine, Busy
  <1>9. WindowInv' /\ DeletedWasChosen'
    BY <1>1, <1>2, WindowsKeep DEF DeletedWasChosen
  <1> QED BY <1>4, <1>5, <1>6, <1>7, <1>8, <1>9 DEF IInv

(* The tab is left: its operations go on for nobody.                       *)
LEMMA LeaveKeeps ==
  ASSUME IInv, LeaveTab
  PROVE  IInv'
  <1>1. Types /\ HostInv /\ JobInv /\ TabInv /\ MenuInv /\ FreshInv /\ WindowInv /\ DeletedWasChosen
    BY DEF IInv
  <1>2. /\ session' = Away /\ snapshot' = Null /\ path' = Root /\ busy' = FALSE /\ menu' = NoMenu
        /\ ops' = [o \in Slots |-> IF o \in Busy THEN [ops[o] EXCEPT !.mounted = FALSE] ELSE Idle]
        /\ UNCHANGED <<host, windows, payloads, events, writers, faults, history>>
    BY DEF LeaveTab, Still
  <1>3. \A o \in Slots : /\ o \in Busy => /\ ops'[o] \in JobSet /\ ops'[o] # Idle /\ ops'[o].mounted = FALSE
                                         /\ ops'[o] = [ops[o] EXCEPT !.mounted = FALSE]
                         /\ o \notin Busy => ops'[o] = Idle
    <2> SUFFICES ASSUME NEW o \in Slots
                 PROVE  /\ o \in Busy => /\ ops'[o] \in JobSet /\ ops'[o] # Idle /\ ops'[o].mounted = FALSE
                                         /\ ops'[o] = [ops[o] EXCEPT !.mounted = FALSE]
                        /\ o \notin Busy => ops'[o] = Idle
      OBVIOUS
    <2>1. ops'[o] = IF o \in Busy THEN [ops[o] EXCEPT !.mounted = FALSE] ELSE Idle
      BY <1>2
    <2>2. ASSUME o \in Busy
          PROVE  [ops[o] EXCEPT !.mounted = FALSE] \in JobSet /\ [ops[o] EXCEPT !.mounted = FALSE].mounted = FALSE
      <3>1. PICK j \in JobSet : j = ops[o]
        BY <1>1, <2>2, BusyFacts
      <3>2. [j EXCEPT !.mounted = FALSE] \in JobSet /\ [j EXCEPT !.mounted = FALSE].mounted = FALSE
        BY DEF JobSet
      <3> QED BY <3>1, <3>2
    <2> QED BY <2>1, <2>2, ConstFacts
  <1>4. ops' \in [Slots -> JobSet \cup {Idle}]
    BY <1>2, <1>3
  <1>5. Busy' = Busy /\ Mine' = {}
    BY <1>3 DEF Busy, Mine
  <1>6. Types'
    BY <1>1, <1>2, <1>4, ConstFacts DEF Types
  <1>7. HostInv' /\ MenuInv'
    BY <1>1, <1>2 DEF HostInv, FromStart, Pristine, MenuInv
  <1>8. JobInv'
    <2> SUFFICES ASSUME NEW o \in Busy' PROVE JobForm(ops[o])' /\ JobTrue(ops[o])'
      BY DEF JobInv
    <2>1. o \in Busy /\ o \in Slots /\ ops[o] \in JobSet /\ JobForm(ops[o]) /\ JobTrue(ops[o])
      BY <1>1, <1>5, BusyFacts DEF JobInv
    <2>2. PICK j \in JobSet : j = ops[o]
      BY <2>1
    <2>3. PICK i : i = ops'[o]
      OBVIOUS
    <2>4. i = [j EXCEPT !.mounted = FALSE]
      BY <1>3, <2>1, <2>2, <2>3
    <2>5. /\ i.kind = j.kind /\ i.server = j.server /\ i.dir = j.dir /\ i.name = j.name /\ i.seen = j.seen
          /\ i.stray = j.stray /\ i.at = j.at /\ i.wire = j.wire /\ i.entries = j.entries
      BY <2>4 DEF JobSet
    <2>6. JobForm(j) /\ JobTrue(j)
      BY <2>1, <2>2
    <2>7. JobForm(i) /\ JobTrue(i)
      BY <2>5, <2>6 DEF JobForm, JobTrue
    <2> QED BY <1>2, <2>3, <2>7 DEF JobForm, JobTrue, FromStart, Pristine
  <1>9. TabInv'
    BY <1>1, <1>2, <1>5 DEF TabInv
  <1>10. FreshInv'
    BY <1>1, <1>2, <1>5 DEF FreshInv
  <1>11. WindowInv' /\ DeletedWasChosen'
    BY <1>1, <1>2, WindowsKeep DEF DeletedWasChosen
  <1> QED BY <1>6, <1>7, <1>8, <1>9, <1>10, <1>11 DEF IInv

(* A properties window is asked for.                                       *)
LEMMA OpensKeep ==
  ASSUME IInv, NEW w \in Windows, OpenProperties(w)
  PROVE  IInv'
  <1>1. Types /\ HostInv /\ JobInv /\ TabInv /\ MenuInv /\ FreshInv /\ WindowInv /\ DeletedWasChosen
    BY DEF IInv
  <1>2. /\ session \in Servers /\ menu' = NoMenu
        /\ UNCHANGED <<host, events, writers, faults, session, snapshot, path, busy, ops>>
    BY <1>1 DEF OpenProperties, Types
  <1> DEFINE Asked(d, n, e) ==
               [at |-> "asked", server |-> session, dir |-> d, name |-> n, seen |-> e,
                path |-> path, draft |-> NoDraft, step |-> "none", wire |-> "none", error |-> "none",
                moved |-> "none"]
  <1>3. PICK of, d, n, e : /\ windows' = [windows EXCEPT ![w] = Asked(d, n, e)]
                           /\ d \in Dirs /\ n \in Names /\ e \in Entry /\ e # Nothing
                           /\ MayStray(w, of)
                           /\ Pristine(of, d) => e = Before[of][d][n]
    <2>1. CASE /\ HasSelected /\ MayStray(w, snapshot.of)
               /\ windows' = [windows EXCEPT ![w] = Asked(snapshot.path, selected, snapshot.entries[selected])]
      <3>1. /\ selected \in Names /\ snapshot # Null /\ snapshot.entries[selected] \in Entry
            /\ snapshot.entries[selected] # Nothing /\ snapshot.path \in Dirs
        BY <1>1, <2>1, SeenFacts DEF HasSelected
      <3>2. Pristine(snapshot.of, snapshot.path) =>
              snapshot.entries[selected] = Before[snapshot.of][snapshot.path][selected]
        BY <1>1, <3>1 DEF TabInv, FromStart
      <3> HIDE DEF Asked
      <3> QED BY <2>1, <3>1, <3>2
    <2>2. CASE /\ menu # NoMenu /\ MayStray(w, menu.of)
               /\ windows' = [windows EXCEPT ![w] = Asked(menu.path, menu.name, menu.entry)]
      <3>1. menu.path \in Dirs /\ menu.entry \in Entry
        BY <1>1 DEF Types
      <3> HIDE DEF Asked
      <3> QED BY <1>1, <2>2, <3>1 DEF MenuInv
    <2>3. \/ /\ HasSelected /\ MayStray(w, snapshot.of)
             /\ Request(w, session, snapshot.path, selected, snapshot.entries[selected], path)
          \/ /\ menu # NoMenu /\ MayStray(w, menu.of)
             /\ Request(w, session, menu.path, menu.name, menu.entry, path)
      BY DEF OpenProperties
    <2> QED BY <2>1, <2>2, <2>3 DEF Request, Set
  <1>4. PICK r : r = Asked(d, n, e)
    OBVIOUS
  <1>5. windows[w] = Off /\ windows' = [windows EXCEPT ![w] = r] /\ payloads' = payloads \cup {w}
    BY <1>3, <1>4 DEF OpenProperties, Request
  <1>6. path \in Dirs /\ history \in HistorySet
    BY <1>1 DEF Types
  <1>7. r \in WindowSet
    BY <1>2, <1>3, <1>4, <1>6 DEF WindowSet, NoDraft, Wires
  <1>8. r # Off
    BY <1>7, ConstFacts
  <1>9. /\ windows' \in [Windows -> WindowSet \cup {Off}] /\ windows'[w] = r
        /\ \A v \in Windows : v # w => windows'[v] = windows[v]
    BY <1>1, <1>5, <1>7 DEF Types
  <1>10. /\ history' \in HistorySet /\ history'.excused = history.excused
         /\ history'.crossed = history.crossed /\ history'.wrong = history.wrong
         /\ history.strays \subseteq history'.strays
         /\ of # session => w \in history'.strays
    BY <1>3, <1>6 DEF HistorySet, MayStray
  <1>11. Types'
    BY <1>1, <1>2, <1>5, <1>9, <1>10, ConstFacts DEF Types
  <1>12. HostInv'
    <2>1. \A k \in writers' : k[3] \in Windows => windows'[k[3]] # Off
      BY <1>1, <1>2, <1>8, <1>9 DEF HostInv
    <2> QED BY <1>1, <1>2, <2>1 DEF HostInv, FromStart, Pristine
  <1>13. JobInv'
    BY <1>1, <1>2 DEF FromStart, Pristine, JobInv, Busy, JobForm, JobTrue
  <1>14. TabInv' /\ MenuInv'
    BY <1>1, <1>2, <1>10 DEF TabInv, Mine, Busy, FromStart, Pristine, MenuInv
  <1>15. FreshInv'
    <2>1. Tells(session) => Tells(session)'
      BY <1>2, <1>5, <1>9 DEF Tells
    <2>2. r.wire = "none"
      BY <1>4
    <2>3. ~ history.excused =>
            \A v \in Windows : windows'[v] # Off =>
              windows'[v].wire \notin {"error", "refused"} /\ (windows'[v].at = "gone" => windows'[v].wire = "none")
      BY <1>1, <1>9, <2>2 DEF FreshInv
    <2> QED BY <1>1, <1>2, <1>10, <2>1, <2>3 DEF FreshInv, Mine, Busy
  <1>16. WindowInv'
    <2>1. WindowForm(r)
      BY <1>2, <1>3, <1>4, <1>6 DEF WindowForm, NoDraft
    <2>2. \A v \in Windows : windows'[v] # Off => WindowForm(windows'[v])
      BY <1>1, <1>9, <2>1 DEF WindowInv
    <2>3. OwnInv(w)'
      <3> SUFFICES ASSUME Alone(w)'
                   PROVE  OwnInv(w)'
        BY DEF OwnInv
      <3>2. Pristine(session, d)
        <4> SUFFICES ASSUME NEW k \in writers, k[1] = session, k[2] = d PROVE FALSE
          BY DEF Pristine
        <4>1. k[3] = w
          BY <1>2, <1>4, <1>9 DEF Alone
        <4> QED BY <1>1, <1>5, <4>1 DEF HostInv
      <3>3. host[session][d] = Before[session][d]
        BY <1>1, <1>2, <1>3, <3>2 DEF HostInv, FromStart
      <3>4. PICK dir : dir = host'[session][d]
        OBVIOUS
      <3>5. \A x \in Names : dir[x] = Nothing \/ dir[x] = [id |-> <<session, d, x>>, mode |-> FirstMode]
        BY <1>2, <1>3, <3>3, <3>4, ConstFacts
      <3>6. ASSUME NEW x \in Names
            PROVE  \/ dir[x] = Nothing
                   \/ dir[x].id = <<session, d, x>> /\ dir[x] = [id |-> dir[x].id, mode |-> dir[x].mode]
        <4>1. PICK i : i = <<session, d, x>>
          OBVIOUS
        <4>2. dir[x] = Nothing \/ dir[x] = [id |-> i, mode |-> FirstMode]
          BY <3>5, <4>1
        <4>3. ASSUME dir[x] = [id |-> i, mode |-> FirstMode]
              PROVE  dir[x].id = i /\ dir[x] = [id |-> dir[x].id, mode |-> dir[x].mode]
          BY <4>3
        <4> QED BY <4>1, <4>2, <4>3
      <3>7. /\ r.at = "asked" /\ r.server = session /\ r.dir = d /\ r.name = n /\ r.seen = e
            /\ r.step = "none" /\ r.wire = "none" /\ r.error = "none" /\ r.moved = "none"
        BY <1>4
      <3>8. ModeOf(r) = e.mode /\ ~ Moved(r) /\ Place(r) = n /\ ~ Failed(r)
        BY <3>7 DEF ModeOf, Moved, Place, Failed
      <3>9. ASSUME w \notin history'.strays
            PROVE  /\ dir[n] = [id |-> e.id, mode |-> e.mode]
                   /\ \A x \in Names : x # n => dir[x] = Nothing \/ dir[x].id # e.id
        <4>1. of = session
          BY <1>10, <3>9
        <4>2. e = dir[n]
          BY <1>2, <1>3, <3>2, <3>3, <3>4, <4>1
        <4>3. e.id = <<session, d, n>> /\ e = [id |-> e.id, mode |-> e.mode]
          BY <1>3, <3>6, <4>2
        <4>4. ASSUME NEW x \in Names, x # n, dir[x] # Nothing
              PROVE  dir[x].id # e.id
          <5>1. dir[x].id = <<session, d, x>>
            BY <3>6, <4>4
          <5>2. <<session, d, x>> # <<session, d, n>>
            BY <4>4
          <5> QED BY <4>3, <5>1, <5>2
        <4> QED BY <4>2, <4>3, <4>4
      <3>10. OwnFile(r, dir, w \notin history'.strays)
        BY <1>3, <3>7, <3>8, <3>9 DEF OwnFile
      <3> QED BY <1>9, <3>4, <3>7, <3>10 DEF OwnInv, OwnFile, Place, Failed, ModeOf, Moved
    <2>4. \A v \in Windows : OwnInv(v)'
      <3> SUFFICES ASSUME NEW v \in Windows, v # w PROVE OwnInv(v)'
        BY <2>3
      <3>1. OwnInv(v) /\ windows'[v] = windows[v]
        BY <1>1, <1>9 DEF WindowInv
      <3> QED BY <1>2, <1>10, <3>1, OwnKeeps
    <2>5. PayloadsAreTaken'
      BY <1>1, <1>4, <1>5, <1>8, <1>9 DEF WindowInv, PayloadsAreTaken, Types
    <2> QED BY <2>2, <2>4, <2>5 DEF WindowInv, WindowForm
  <1>17. DeletedWasChosen'
    BY <1>1, <1>10 DEF DeletedWasChosen
  <1> QED BY <1>11, <1>12, <1>13, <1>14, <1>15, <1>16, <1>17 DEF IInv

-----------------------------------------------------------------------------
(* What is so of a step of operation o, which becomes j.                   *)
Going(o, j) ==
  /\ ops' = [ops EXCEPT ![o] = j] /\ busy' \in BOOLEAN
  /\ j # Idle => /\ j.server = ops[o].server /\ j.dir = ops[o].dir /\ j.mounted = ops[o].mounted
                 /\ JobForm(j) /\ JobTrue(j)'
                 /\ (j.at = "list" /\ j.wire = "ok" => j.entries = host'[j.server][j.dir])
  /\ UNCHANGED <<windows, payloads, events, session, menu>>
  /\ faults' \in Nat
  /\ history' \in HistorySet /\ history'.crossed = history.crossed /\ history'.wrong = history.wrong
  /\ history'.strays = history.strays /\ (history.excused => history'.excused)
  /\ \/ host' = host /\ writers' = writers
     \/ \E n \in Names, e \in Entry :
          /\ host' = [host EXCEPT ![ops[o].server][ops[o].dir][n] = e]
          /\ writers' = writers \cup {<<ops[o].server, ops[o].dir, OfTab>>}
  /\ \/ snapshot' = snapshot /\ path' = path
     \/ /\ ops[o].mounted /\ ops[o].at = "list" /\ ops[o].wire = "ok" /\ host' = host
        /\ snapshot' = [of |-> ops[o].server, path |-> ops[o].dir, entries |-> ops[o].entries]
        /\ path' = ops[o].dir
  /\ ~ history'.excused /\ ops[o].mounted /\ snapshot' = snapshot /\ (Refreshes(ops[o]) \/ host' # host) =>
       \/ j # Idle /\ Refreshes(j)
       \/ snapshot' = [of |-> ops[o].server, path |-> ops[o].dir, entries |-> ops[o].entries]
            /\ ops[o].at = "list" /\ ops[o].wire = "ok" /\ host' = host

Goes == \E o \in Busy, j \in JobSet \cup {Idle} : Going(o, j)

(* A host and what is written down of it, when a tab's command changes it. *)
LEMMA GoesHost ==
  ASSUME Types, NEW o \in Busy, NEW j, Going(o, j)
  PROVE  /\ host' \in [Servers -> [Dirs -> Listing]] /\ writers \subseteq writers'
         /\ writers' \subseteq Servers \X Dirs \X (Windows \cup {OfTab})
         /\ \A k \in writers' : k[3] \in Windows => k \in writers
         /\ \A s \in Servers, d \in Dirs :
              host'[s][d] = host[s][d] \/ <<s, d, OfTab>> \in writers'
  <1>1. ops[o].server \in Servers /\ ops[o].dir \in Dirs
    BY BusyFacts DEF JobSet
  <1>2. CASE host' = host /\ writers' = writers
    BY <1>2 DEF Types
  <1>3. ASSUME NEW n \in Names, NEW e \in Entry,
               host' = [host EXCEPT ![ops[o].server][ops[o].dir][n] = e],
               writers' = writers \cup {<<ops[o].server, ops[o].dir, OfTab>>}
        PROVE  /\ host' \in [Servers -> [Dirs -> Listing]] /\ writers \subseteq writers'
               /\ writers' \subseteq Servers \X Dirs \X (Windows \cup {OfTab})
               /\ \A k \in writers' : k[3] \in Windows => k \in writers
               /\ \A s \in Servers, d \in Dirs :
                    host'[s][d] = host[s][d] \/ <<s, d, OfTab>> \in writers'
    <2>1. PICK t \in Servers, c \in Dirs : t = ops[o].server /\ c = ops[o].dir
      BY <1>1
    <2>2. host \in [Servers -> [Dirs -> [Names -> Entry]]]
      BY DEF Types, Listing
    <2>3. host' = [host EXCEPT ![t] = [host[t] EXCEPT ![c] = [host[t][c] EXCEPT ![n] = e]]]
      BY <1>3, <2>1
    <2>4. [host[t][c] EXCEPT ![n] = e] \in [Names -> Entry]
      BY <2>2
    <2>5. host' \in [Servers -> [Dirs -> Listing]]
      BY <2>2, <2>3, <2>4 DEF Listing
    <2>6. writers' \subseteq Servers \X Dirs \X (Windows \cup {OfTab})
      BY <1>3, <2>1 DEF Types
    <2>7. \A k \in writers' : k[3] \in Windows => k \in writers
      BY <1>3, TabAssumption
    <2>8. ASSUME NEW s \in Servers, NEW d \in Dirs, host'[s][d] # host[s][d]
          PROVE  <<s, d, OfTab>> \in writers'
      <3>1. s = t /\ d = c
        BY <2>2, <2>3, <2>8
      <3> QED BY <1>3, <2>1, <3>1
    <2> QED BY <1>3, <2>5, <2>6, <2>7, <2>8
  <1> QED BY <1>2, <1>3 DEF Going

(* A step of an operation keeps the invariant.                             *)
LEMMA GoesKeep ==
  ASSUME IInv, Goes
  PROVE  IInv'
  <1>0. PICK o \in Busy, j \in JobSet \cup {Idle} : Going(o, j)
    BY DEF Goes
  <1>1. Types /\ HostInv /\ JobInv /\ TabInv /\ MenuInv /\ FreshInv /\ WindowInv /\ DeletedWasChosen
    BY DEF IInv
  <1>2. PICK i \in JobSet : i = ops[o]
    BY <1>1, BusyFacts
  <1>3. /\ o \in Slots /\ i # Idle /\ JobForm(i) /\ JobTrue(i)
    BY <1>1, <1>2, BusyFacts DEF JobInv
  <1>4. /\ host' \in [Servers -> [Dirs -> Listing]] /\ writers \subseteq writers'
        /\ writers' \subseteq Servers \X Dirs \X (Windows \cup {OfTab})
        /\ \A k \in writers' : k[3] \in Windows => k \in writers
        /\ \A s \in Servers, d \in Dirs : host'[s][d] = host[s][d] \/ <<s, d, OfTab>> \in writers'
    BY <1>0, <1>1, GoesHost
  <1>5. /\ ops' \in [Slots -> JobSet \cup {Idle}] /\ ops'[o] = j
        /\ \A p \in Slots : p # o => ops'[p] = ops[p]
        /\ \A p : p \in Busy' <=> (p \in Busy /\ p # o) \/ (p = o /\ j # Idle)
        /\ \A p : p \in Mine' <=> (p \in Mine /\ p # o) \/ (p = o /\ j # Idle /\ j.mounted)
    BY <1>0, <1>1, <1>3, SlotFacts DEF Going
  <1>6. /\ Busy \subseteq Slots /\ Mine \subseteq Busy /\ (o \in Mine <=> i.mounted)
    BY <1>2 DEF Busy, Mine
  <1>7. UNCHANGED <<windows, payloads, events, session, menu>>
    BY <1>0 DEF Going
  <1>8. /\ history' \in HistorySet /\ history'.crossed = history.crossed /\ history'.wrong = history.wrong
        /\ history'.strays = history.strays /\ (history.excused => history'.excused)
    BY <1>0 DEF Going
  <1>9. j # Idle => /\ j.server = i.server /\ j.dir = i.dir /\ j.mounted = i.mounted
                    /\ JobForm(j) /\ JobTrue(j)'
                    /\ (j.at = "list" /\ j.wire = "ok" => j.entries = host'[j.server][j.dir])
    BY <1>0, <1>2 DEF Going
  <1>10. \/ snapshot' = snapshot /\ path' = path
         \/ /\ i.mounted /\ i.at = "list" /\ i.wire = "ok" /\ host' = host
            /\ snapshot' = [of |-> i.server, path |-> i.dir, entries |-> i.entries]
            /\ path' = i.dir
    BY <1>0, <1>2 DEF Going
  <1>11. i.server \in Servers /\ i.dir \in Dirs /\ i.entries \in Listing
    BY DEF JobSet
  <1>12. Types'
    <2>1. snapshot' \in [of : Servers \cup {Away}, path : Dirs, entries : Listing] /\ path' \in Dirs
      BY <1>1, <1>10, <1>11 DEF Types
    <2>2. busy' \in BOOLEAN /\ faults' \in Nat
      BY <1>0 DEF Going
    <2> QED BY <1>1, <1>4, <1>5, <1>7, <1>8, <2>1, <2>2 DEF Types
  <1>13. HostInv'
    <2>1. \A s \in Servers, d \in Dirs : FromStart(s, d, host[s][d])'
      <3> SUFFICES ASSUME NEW s \in Servers, NEW d \in Dirs, Pristine(s, d)'
                   PROVE  host'[s][d] = Before[s][d]
        BY DEF FromStart
      <3>1. host'[s][d] = host[s][d]
        BY <1>4 DEF Pristine
      <3>2. Pristine(s, d)
        BY <1>4, PristineKeeps
      <3> QED BY <1>1, <3>1, <3>2 DEF HostInv, FromStart
    <2> QED BY <1>1, <1>4, <1>7, <2>1 DEF HostInv
  <1>14. JobInv'
    <2>1. \A p \in Busy' : p = o \/ (p \in Busy /\ ops'[p] = ops[p])
      BY <1>5, <1>6
    <2> QED BY <1>1, <1>4, <1>5, <1>9, <2>1, JobInvKeeps
  <1>15. TabInv'
    <2>1. snapshot' = Null \/ snapshot'.of \in Servers
      BY <1>1, <1>10, <1>11 DEF TabInv
    <2>2. snapshot' # Null => path' = snapshot'.path
      BY <1>1, <1>10 DEF TabInv
    <2>3. Mine' \subseteq Mine
      BY <1>5, <1>6, <1>9
    <2>4. session' = Away => snapshot' = Null /\ menu' = NoMenu /\ Mine' = {}
      BY <1>1, <1>6, <1>7, <1>10, <2>3 DEF TabInv
    <2>5. history'.crossed => history'.excused
      BY <1>1, <1>8 DEF TabInv
    <2>6. ~ history'.crossed => \A p \in Mine' : ops'[p].server = session'
      <3> SUFFICES ASSUME ~ history'.crossed, NEW p \in Mine' PROVE ops'[p].server = session'
        OBVIOUS
      <3>1. p \in Mine /\ ops[p].server = session
        BY <1>1, <1>8, <2>3 DEF TabInv
      <3>2. ops'[p].server = ops[p].server
        BY <1>2, <1>5, <1>6, <1>9
      <3> QED BY <1>7, <3>1, <3>2
    <2>7. ~ history'.crossed /\ snapshot' # Null => snapshot'.of = session'
      BY <1>1, <1>2, <1>6, <1>7, <1>8, <1>10 DEF TabInv
    <2>8. snapshot' # Null => FromStart(snapshot.of, snapshot.path, snapshot.entries)'
      <3> SUFFICES ASSUME snapshot' # Null PROVE FromStart(snapshot.of, snapshot.path, snapshot.entries)'
        OBVIOUS
      <3>1. CASE snapshot' = snapshot
        <4>1. FromStart(snapshot.of, snapshot.path, snapshot.entries)
          BY <1>1, <3>1 DEF TabInv
        <4> QED BY <1>4, <3>1, <4>1 DEF FromStart, Pristine
      <3>2. CASE snapshot' # snapshot
        <4>1. /\ snapshot'.of = i.server /\ snapshot'.path = i.dir /\ snapshot'.entries = i.entries
              /\ i.at = "list" /\ i.wire = "ok"
          BY <1>10, <3>2
        <4>2. FromStart(i.server, i.dir, i.entries)
          BY <1>3, <4>1 DEF JobTrue
        <4> QED BY <1>4, <4>1, <4>2 DEF FromStart, Pristine
      <3> QED BY <3>1, <3>2
    <2> QED BY <2>1, <2>2, <2>4, <2>5, <2>6, <2>7, <2>8 DEF TabInv
  <1>16. MenuInv'
    BY <1>1, <1>4, <1>7, <1>8, PristineKeeps DEF MenuInv
  <1>17. FreshInv'
    <2> SUFFICES ASSUME ~ history'.excused
                 PROVE  /\ \A p, q \in Busy' : p = q
                        /\ session' # Away => \A p \in Busy' : ops'[p].mounted
                        /\ session' # Away /\ snapshot' # Null /\ snapshot'.entries # host'[snapshot'.of][snapshot'.path] =>
                             (\E p \in Busy' : Refreshes(ops'[p])) \/ Tells(session)'
                        /\ \A p \in Mine' : ops'[p].at = "list" /\ ops'[p].wire = "ok"
                             /\ ops'[p].entries # host'[ops'[p].server][ops'[p].dir] => Tells(session)'
                        /\ \A w \in Windows : windows'[w] # Off => windows'[w].wire \notin {"error", "refused"} /\ (windows'[w].at = "gone" => windows'[w].wire = "none")
      BY DEF FreshInv
    <2>1. ~ history.excused /\ \A p \in Busy : p = o
      BY <1>1, <1>8 DEF FreshInv
    <2>2. \A p : p \in Busy' => p = o /\ j # Idle
      BY <1>5, <2>1
    <2>3. \A p : p \in Mine' => p = o /\ j # Idle
      BY <1>5, <1>6, <2>1
    <2>4. session # Away => i.mounted
      BY <1>1, <1>2, <2>1 DEF FreshInv
    <2>5. Tells(session) => Tells(session)'
      BY <1>7 DEF Tells
    <2>6. ASSUME session' # Away, snapshot' # Null, snapshot'.entries # host'[snapshot'.of][snapshot'.path]
          PROVE  (\E p \in Busy' : Refreshes(ops'[p])) \/ Tells(session)'
      <3>1. i.mounted
        BY <1>7, <2>4, <2>6
      <3>2. CASE /\ i.at = "list" /\ i.wire = "ok" /\ host' = host
                 /\ snapshot' = [of |-> i.server, path |-> i.dir, entries |-> i.entries]
        <4>1. i.entries # host[i.server][i.dir] /\ o \in Mine
          BY <1>6, <2>6, <3>1, <3>2
        <4>2. Tells(session)
          BY <1>1, <1>2, <2>1, <3>2, <4>1 DEF FreshInv
        <4> QED BY <2>5, <4>2
      <3>3. CASE snapshot' = snapshot /\ (Refreshes(i) \/ host' # host)
        <4>1. \/ j # Idle /\ Refreshes(j)
              \/ /\ i.at = "list" /\ i.wire = "ok" /\ host' = host
                 /\ snapshot' = [of |-> i.server, path |-> i.dir, entries |-> i.entries]
          BY <1>0, <1>2, <3>1, <3>3 DEF Going
        <4> QED BY <1>5, <3>2, <4>1
      <3>4. CASE snapshot' = snapshot /\ ~ Refreshes(i) /\ host' = host
        <4>1. (\E p \in Busy : Refreshes(ops[p])) \/ Tells(session)
          BY <1>1, <1>7, <2>1, <2>6, <3>4 DEF FreshInv
        <4>2. \A p \in Busy : ops[p] = i
          BY <1>2, <2>1
        <4> QED BY <2>5, <3>4, <4>1, <4>2
      <3> QED BY <1>10, <3>2, <3>3, <3>4
    <2>7. \A p \in Mine' : ops'[p].at = "list" /\ ops'[p].wire = "ok"
                             /\ ops'[p].entries # host'[ops'[p].server][ops'[p].dir] => Tells(session)'
      BY <1>5, <1>9, <2>3
    <2>8. \A w \in Windows : windows'[w] # Off => windows'[w].wire \notin {"error", "refused"} /\ (windows'[w].at = "gone" => windows'[w].wire = "none")
      BY <1>1, <1>7, <2>1 DEF FreshInv
    <2>9. session' # Away => \A p \in Busy' : ops'[p].mounted
      BY <1>5, <1>7, <1>9, <2>2, <2>4
    <2> QED BY <2>2, <2>6, <2>7, <2>8, <2>9
  <1>18. WindowInv'
    <2>1. \A v \in Windows : OwnInv(v)'
      <3> SUFFICES ASSUME NEW v \in Windows PROVE OwnInv(v)'
        OBVIOUS
      <3>1. OwnInv(v) /\ windows'[v] = windows[v] /\ (windows[v] # Off => WindowForm(windows[v]))
        BY <1>1, <1>7 DEF WindowInv
      <3>2. CASE windows[v] # Off /\ windows[v].at \in {"asked", "open", "done"}
        <4>1. windows[v].server \in Servers /\ windows[v].dir \in Dirs
          BY <3>1, <3>2 DEF WindowForm
        <4>2. PICK s \in Servers, d \in Dirs : s = windows[v].server /\ d = windows[v].dir
          BY <4>1
        <4>3. \/ host'[s][d] = host[s][d]
              \/ \E k \in writers' : k[1] = s /\ k[2] = d /\ k[3] # v
          <5>1. host'[s][d] = host[s][d] \/ <<s, d, OfTab>> \in writers'
            BY <1>4
          <5>2. OfTab # v
            BY TabAssumption
          <5>3. <<s, d, OfTab>>[1] = s /\ <<s, d, OfTab>>[2] = d /\ <<s, d, OfTab>>[3] # v
            BY <5>2
          <5> QED BY <5>1, <5>3
        <4> QED BY <1>4, <1>8, <3>1, <4>2, <4>3, OwnKeeps
      <3>3. CASE ~ (windows[v] # Off /\ windows[v].at \in {"asked", "open", "done"})
        BY <3>1, <3>3 DEF OwnInv
      <3> QED BY <3>2, <3>3
    <2> QED BY <1>1, <1>7, <2>1 DEF WindowInv, PayloadsAreTaken, WindowForm
  <1>19. DeletedWasChosen'
    BY <1>1, <1>8 DEF DeletedWasChosen
  <1> QED BY <1>12, <1>13, <1>14, <1>15, <1>16, <1>17, <1>18, <1>19 DEF IInv

(* A step of a tab's operation that ends it, or changes where it is at.    *)
LEMMA GoesByItself ==
  ASSUME Types, NEW o \in Busy, NEW j \in JobSet \cup {Idle}, ops' = [ops EXCEPT ![o] = j],
         j # Idle => /\ j.server = ops[o].server /\ j.dir = ops[o].dir /\ j.mounted = ops[o].mounted
                     /\ JobForm(j) /\ JobTrue(j)
                     /\ (j.at = "list" /\ j.wire = "ok" => j.entries = host[j.server][j.dir]),
         busy' \in BOOLEAN, UNCHANGED <<host, windows, payloads, events, writers, session, menu, snapshot, path>>,
         faults' \in Nat,
         history' = history \/ history' = [history EXCEPT !.excused = TRUE],
         Refreshes(ops[o]) /\ history' = history => j # Idle /\ Refreshes(j)
  PROVE  Goes
  <1>1. j # Idle => JobTrue(j)'
    BY PristineKeeps
  <1>2. /\ history' \in HistorySet /\ history'.crossed = history.crossed /\ history'.wrong = history.wrong
        /\ history'.strays = history.strays /\ (history.excused => history'.excused)
        /\ (history' # history => history'.excused)
    BY DEF Types, HistorySet
  <1>3. Going(o, j)
    BY <1>1, <1>2 DEF Going
  <1> QED BY <1>3 DEF Goes

(* The continuations of an operation.                                      *)
LEMMA TabFacts ==
  ASSUME IInv, NEW o \in Slots, Tab(o)
  PROVE  Goes
  <1>0. Types /\ JobInv /\ TabInv
    BY DEF IInv
  <1>1. o \in Busy
    BY DEF Tab, Resolve, Ran, Fails, Listed, Is, Busy
  <1>2. PICK i \in JobSet : i = ops[o]
    BY <1>0, <1>1, BusyFacts
  <1>3. i # Idle /\ JobForm(i) /\ JobTrue(i)
    BY <1>0, <1>1, <1>2, BusyFacts DEF JobInv
  <1>4. UNCHANGED <<host, windows, payloads, events, writers, faults, session, menu>>
    BY DEF Tab, Resolve, Ran, Fails, Listed, propertiesVars
  <1>5. ops \in [Slots -> JobSet \cup {Idle}] /\ busy \in BOOLEAN /\ faults \in Nat
    BY <1>0 DEF Types
  <1>6. End(o) => ops' = [ops EXCEPT ![o] = Idle] /\ busy' \in BOOLEAN
    BY <1>5 DEF End
  <1>7. ASSUME Resolve(o)
        PROVE  Goes
    <2>1. /\ i.at = "resolve" /\ i.wire = "none" /\ i.kind \in {"upload", "download"}
          /\ UNCHANGED <<snapshot, path, history>>
      BY <1>2, <1>3, <1>7 DEF Resolve, Is, JobForm
    <2>2. ~ Refreshes(i)
      BY <2>1 DEF Refreshes
    <2>3. CASE End(o)
      BY <1>0, <1>1, <1>2, <1>4, <1>5, <1>6, <2>1, <2>2, <2>3, GoesByItself
    <2>4. ASSUME NEW v \in BOOLEAN, NEW n \in Names, Runs(o, n, v)
          PROVE  Goes
      <3>1. PICK j : j = [i EXCEPT !.at = "run", !.wire = "sent", !.name = n, !.over = v]
        OBVIOUS
      <3>2. /\ j \in JobSet /\ j.at = "run" /\ j.wire = "sent" /\ j.name = n /\ j.kind = i.kind
            /\ j.server = i.server /\ j.dir = i.dir /\ j.mounted = i.mounted
        BY <3>1 DEF JobSet, Wires
      <3>3. JobForm(j) /\ JobTrue(j)
        BY <2>1, <3>2 DEF JobForm, JobTrue
      <3>4. ops' = [ops EXCEPT ![o] = j] /\ busy' = busy
        BY <1>2, <1>5, <2>4, <3>1 DEF Runs
      <3> QED BY <1>0, <1>1, <1>2, <1>4, <1>5, <2>1, <2>2, <3>2, <3>3, <3>4, GoesByItself
    <2>5. i.name \in Names
      BY <1>3, <2>1 DEF JobSet, JobForm
    <2>6. \/ End(o)
          \/ Runs(o, i.name, FALSE) \/ Runs(o, i.name, TRUE)
          \/ \E to \in Names : Runs(o, to, FALSE)
      BY <1>2, <1>7 DEF Resolve
    <2> QED BY <2>3, <2>4, <2>5, <2>6
  <1>8. ASSUME Ran(o)
        PROVE  Goes
    <2>1. /\ i.at = "run" /\ i.wire = "ok" /\ i.kind # "load"
          /\ UNCHANGED <<snapshot, path, history>>
      BY <1>2, <1>3, <1>8 DEF Ran, Is, JobForm
    <2>2. CASE i.kind = "download" /\ End(o)
      <3>1. ~ Refreshes(i)
        BY <2>1, <2>2 DEF Refreshes
      <3> QED BY <1>0, <1>1, <1>2, <1>4, <1>5, <1>6, <2>1, <2>2, <3>1, GoesByItself
    <2>3. CASE /\ i.kind # "download" /\ busy' = (busy \/ ops[o].mounted)
               /\ ops' = [ops EXCEPT ![o].at = "list", ![o].wire = "sent"]
      <3>1. PICK j : j = [i EXCEPT !.at = "list", !.wire = "sent"]
        OBVIOUS
      <3>2. /\ j \in JobSet /\ j.at = "list" /\ j.wire = "sent" /\ j.name = i.name /\ j.kind = i.kind
            /\ j.server = i.server /\ j.dir = i.dir /\ j.mounted = i.mounted
            /\ j.seen = i.seen /\ j.stray = i.stray
        BY <3>1 DEF JobSet, Wires
      <3>3. JobForm(j) /\ JobTrue(j) /\ Refreshes(j)
        BY <1>3, <2>3, <3>2 DEF JobForm, JobTrue, Refreshes
      <3>4. ops' = [ops EXCEPT ![o] = j]
        BY <1>2, <1>5, <2>3, <3>1
      <3>5. j # Idle /\ busy' \in BOOLEAN
        BY <2>3, <3>2, <1>5, ConstFacts DEF JobSet
      <3> QED BY <1>0, <1>1, <1>2, <1>4, <1>5, <2>1, <3>2, <3>3, <3>4, <3>5, GoesByItself
    <2> QED BY <1>2, <1>8, <2>2, <2>3 DEF Ran
  <1>9. ASSUME Fails(o)
        PROVE  Goes
    <2>1. /\ history' = [history EXCEPT !.excused = TRUE] /\ UNCHANGED <<snapshot, path>> /\ End(o)
          /\ i.at = "run" /\ i.wire = "error"
      BY <1>2, <1>9 DEF Fails, Is
    <2>2. ~ Refreshes(i)
      BY <2>1 DEF Refreshes
    <2> QED BY <1>0, <1>1, <1>2, <1>4, <1>5, <1>6, <2>1, <2>2, GoesByItself
  <1>10. ASSUME Listed(o)
         PROVE  Goes
    <2>1. End(o) /\ i.at = "list"
      BY <1>2, <1>10 DEF Listed, Is
    <2>2. CASE /\ i.wire = "error" /\ history' = [history EXCEPT !.excused = TRUE]
               /\ UNCHANGED <<snapshot, path>>
      <3>1. /\ history' \in HistorySet /\ history'.crossed = history.crossed /\ history'.wrong = history.wrong
            /\ history'.strays = history.strays /\ history'.excused
        BY <1>0, <2>2 DEF Types, HistorySet
      <3>2. Going(o, Idle)
        BY <1>4, <1>5, <1>6, <2>1, <2>2, <3>1 DEF Going
      <3> QED BY <1>1, <3>2 DEF Goes
    <2>3. CASE /\ i.wire = "ok" /\ history' = history /\ i.mounted
               /\ snapshot' = [of |-> i.server, path |-> i.dir, entries |-> i.entries] /\ path' = i.dir
      <3>1. history' \in HistorySet
        BY <1>0, <2>3 DEF Types
      <3>2. Going(o, Idle)
        BY <1>2, <1>4, <1>5, <1>6, <2>1, <2>3, <3>1 DEF Going
      <3> QED BY <1>1, <3>2 DEF Goes
    <2>4. CASE i.wire = "ok" /\ history' = history /\ ~ i.mounted /\ UNCHANGED <<snapshot, path>>
      <3>1. history' \in HistorySet
        BY <1>0, <2>4 DEF Types
      <3>2. Going(o, Idle)
        BY <1>2, <1>4, <1>5, <1>6, <2>1, <2>4, <3>1 DEF Going
      <3> QED BY <1>1, <3>2 DEF Goes
    <2> QED BY <1>2, <1>10, <2>2, <2>3, <2>4 DEF Listed, Is
  <1> QED BY <1>7, <1>8, <1>9, <1>10 DEF Tab

(* The host's answer to an operation of a tab.                             *)
LEMMA ReplyFacts ==
  ASSUME IInv, NEW o \in Busy, NEW wire \in {"ok", "error"}, ops[o].at # "resolve"
  PROVE  \E j \in JobSet :
           /\ j = [ops[o] EXCEPT !.wire = wire] /\ j # Idle /\ j.wire = wire /\ j.at = ops[o].at
           /\ j.server = ops[o].server /\ j.dir = ops[o].dir /\ j.mounted = ops[o].mounted
           /\ j.kind = ops[o].kind /\ JobForm(j) /\ (j.at # "list" \/ wire = "error" => JobTrue(j))
           /\ (Reply(o, wire) => ops' = [ops EXCEPT ![o] = j])
  <1>1. Types /\ JobInv
    BY DEF IInv
  <1>2. PICK i \in JobSet : i = ops[o]
    BY <1>1, BusyFacts
  <1>3. o \in Slots /\ i # Idle /\ JobForm(i) /\ JobTrue(i)
    BY <1>1, <1>2, BusyFacts DEF JobInv
  <1>4. PICK j : j = [i EXCEPT !.wire = wire]
    OBVIOUS
  <1>5. /\ j \in JobSet /\ j.wire = wire /\ j.at = i.at /\ j.server = i.server /\ j.dir = i.dir
        /\ j.mounted = i.mounted /\ j.kind = i.kind /\ j.name = i.name /\ j.seen = i.seen /\ j.stray = i.stray
    BY <1>4 DEF JobSet, Wires
  <1>6. JobForm(j)
    BY <1>2, <1>3, <1>5 DEF JobForm
  <1>7. j.at # "list" \/ wire = "error" => JobTrue(j)
    BY <1>3, <1>5 DEF JobTrue
  <1>8. Reply(o, wire) => ops' = [ops EXCEPT ![o] = j]
    BY <1>1, <1>2, <1>3, <1>4 DEF Reply, Types
  <1> QED BY <1>2, <1>4, <1>5, <1>6, <1>7, <1>8, ConstFacts

(* The commands of a tab on its host.                                      *)
LEMMA HostFacts ==
  ASSUME IInv, NEW o \in Slots, Host(o)
  PROVE  Goes
  <1>0. Types /\ JobInv /\ TabInv /\ HostInv /\ DeletedWasChosen
    BY DEF IInv
  <1>1. /\ UNCHANGED <<windows, payloads, events, session, menu, snapshot, path, busy>>
        /\ faults' \in Nat
        /\ (List(o) \/ Make(o) \/ Delete(o) \/ Read(o)) \/ Refuse(o)
    BY <1>0 DEF Host, Refuse, view, Types
  <1>2. o \in Busy
    BY <1>1 DEF List, Make, Delete, Read, Refuse, Is, Busy
  <1>3. PICK i \in JobSet : i = ops[o]
    BY <1>0, <1>2, BusyFacts
  <1>4. /\ i # Idle /\ JobForm(i) /\ JobTrue(i) /\ i.server \in Servers /\ i.dir \in Dirs
        /\ i.wire = "sent" /\ i.at # "resolve"
    <2>1. i # Idle /\ JobForm(i) /\ JobTrue(i) /\ i.server \in Servers /\ i.dir \in Dirs
      BY <1>0, <1>2, <1>3, BusyFacts DEF JobInv, JobSet
    <2>2. i.wire = "sent"
      BY <1>1, <1>3 DEF List, Make, Delete, Read, Refuse, Is
    <2> QED BY <2>1, <2>2 DEF JobForm
  <1>5. /\ ops \in [Slots -> JobSet \cup {Idle}] /\ busy \in BOOLEAN /\ history \in HistorySet
        /\ host \in [Servers -> [Dirs -> Listing]] /\ faults \in Nat
    BY <1>0 DEF Types
  <1>6. ASSUME UNCHANGED <<host, writers, history>>, NEW wire \in {"ok", "error"}, Reply(o, wire),
               wire = "error" \/ (i.at = "run" /\ i.kind = "download")
        PROVE  Goes
    <2>1. PICK j \in JobSet :
            /\ j # Idle /\ j.wire = wire /\ j.at = i.at /\ j.server = i.server /\ j.dir = i.dir
            /\ j.mounted = i.mounted /\ j.kind = i.kind /\ JobForm(j) /\ JobTrue(j)
            /\ ops' = [ops EXCEPT ![o] = j]
      BY <1>2, <1>3, <1>4, <1>6, ReplyFacts
    <2>2. j.at = "list" /\ j.wire = "ok" => FALSE
      BY <1>6, <2>1
    <2>3. Refreshes(i) => Refreshes(j)
      BY <1>4, <2>1 DEF Refreshes
    <2> QED BY <1>0, <1>1, <1>2, <1>3, <1>5, <1>6, <2>1, <2>2, <2>3, GoesByItself
  <1>7. ASSUME NEW e \in Entry, Put(o, e), i.at = "run", i.kind # "download",
               history' \in HistorySet, history'.crossed = history.crossed, history'.wrong = history.wrong,
               history'.strays = history.strays, history'.excused = history.excused
        PROVE  Goes
    <2>1. /\ host' = [host EXCEPT ![i.server][i.dir][i.name] = e]
          /\ writers' = writers \cup {<<i.server, i.dir, OfTab>>} /\ Reply(o, "ok")
      BY <1>3, <1>7 DEF Put
    <2>2. PICK j \in JobSet :
            /\ j # Idle /\ j.wire = "ok" /\ j.at = i.at /\ j.server = i.server /\ j.dir = i.dir
            /\ j.mounted = i.mounted /\ j.kind = i.kind /\ JobForm(j) /\ JobTrue(j)
            /\ ops' = [ops EXCEPT ![o] = j]
      BY <1>2, <1>3, <1>4, <1>7, <2>1, ReplyFacts
    <2>3. i.name \in Names
      BY <1>4, <1>7 DEF JobForm
    <2>4. Refreshes(j) /\ JobTrue(j)' /\ ~ (j.at = "list" /\ j.wire = "ok")
      BY <1>7, <2>1, <2>2, PristineKeeps DEF Refreshes
    <2>5. \E n \in Names, x \in Entry :
            /\ host' = [host EXCEPT ![ops[o].server][ops[o].dir][n] = x]
            /\ writers' = writers \cup {<<ops[o].server, ops[o].dir, OfTab>>}
      BY <1>3, <2>1, <2>3
    <2>6. busy' \in BOOLEAN
      BY <1>1, <1>5
    <2>7. Going(o, j)
      BY <1>1, <1>3, <1>7, <2>2, <2>4, <2>5, <2>6 DEF Going
    <2> QED BY <1>2, <2>7 DEF Goes
  <1>8. ASSUME List(o)
        PROVE  Goes
    <2>1. /\ ops' = [ops EXCEPT ![o].wire = "ok", ![o].entries = host[i.server][i.dir]] /\ i.at = "list"
          /\ UNCHANGED <<host, writers, history>>
      BY <1>3, <1>8 DEF List, Is
    <2>2. PICK e \in Listing : e = host[i.server][i.dir]
      BY <1>4, <1>5
    <2>3. PICK j : j = [i EXCEPT !.wire = "ok", !.entries = e]
      OBVIOUS
    <2>4. /\ j \in JobSet /\ j.wire = "ok" /\ j.at = i.at /\ j.server = i.server /\ j.dir = i.dir
          /\ j.mounted = i.mounted /\ j.kind = i.kind /\ j.name = i.name /\ j.seen = i.seen /\ j.stray = i.stray
          /\ j.entries = e
      BY <2>2, <2>3 DEF JobSet, Wires
    <2>5. FromStart(i.server, i.dir, e)
      BY <1>0, <1>4, <2>2 DEF HostInv
    <2>6. JobForm(j) /\ JobTrue(j) /\ Refreshes(j)
      BY <1>4, <2>1, <2>4, <2>5 DEF JobForm, JobTrue, Refreshes
    <2>7. ops' = [ops EXCEPT ![o] = j]
      BY <1>3, <1>5, <2>1, <2>2, <2>3
    <2>8. j # Idle /\ JobTrue(j)' /\ j.entries = host'[j.server][j.dir] /\ busy' \in BOOLEAN
      BY <1>1, <1>5, <2>1, <2>2, <2>4, <2>6, ConstFacts, PristineKeeps
    <2>9. Going(o, j)
      BY <1>1, <1>3, <1>5, <2>1, <2>4, <2>6, <2>7, <2>8 DEF Going
    <2> QED BY <1>2, <2>4, <2>9 DEF Goes
  <1>9. ASSUME Make(o)
        PROVE  Goes
    <2>1. i.at = "run" /\ i.kind # "download" /\ history' = history
      BY <1>3, <1>9 DEF Make, Is
    <2>2. CASE Put(o, New(FirstMode))
      <3>1. New(FirstMode) \in Entry
        BY ConstFacts
      <3> QED BY <1>5, <1>7, <2>1, <2>2, <3>1
    <2>3. CASE Reply(o, "error") /\ UNCHANGED <<host, writers>>
      BY <1>6, <2>1, <2>3
    <2> QED BY <1>9, <2>2, <2>3 DEF Make
  <1>10. ASSUME Delete(o)
         PROVE  Goes
    <2>1. i.at = "run" /\ i.kind = "delete"
      BY <1>3, <1>10 DEF Delete, Is
    <2>2. CASE /\ Put(o, Nothing)
               /\ history' = [history EXCEPT !.wrong =
                    @ \/ (At(o).id # ops[o].seen.id /\ ~ ops[o].stray /\ Untouched(o))]
      <3>1. ~ (At(o).id # ops[o].seen.id /\ ~ ops[o].stray /\ Untouched(o))
        <4> SUFFICES ASSUME ~ i.stray, Pristine(i.server, i.dir)
                     PROVE  host[i.server][i.dir][i.name] = i.seen
          BY <1>3 DEF At, Untouched, Pristine
        <4>1. i.seen = Before[i.server][i.dir][i.name]
          BY <1>4, <2>1 DEF JobTrue
        <4>2. host[i.server][i.dir] = Before[i.server][i.dir]
          BY <1>0, <1>4 DEF HostInv, FromStart
        <4> QED BY <4>1, <4>2
      <3>2. /\ history' \in HistorySet /\ history'.crossed = history.crossed
            /\ history'.wrong = history.wrong /\ history'.strays = history.strays
            /\ history'.excused = history.excused
        BY <1>5, <2>2, <3>1 DEF HistorySet
      <3> QED BY <1>7, <2>1, <2>2, <3>2, ConstFacts
    <2>3. CASE Reply(o, "error") /\ UNCHANGED <<host, writers, history>>
      BY <1>6, <2>3
    <2> QED BY <1>10, <2>2, <2>3 DEF Delete
  <1>11. ASSUME Read(o)
         PROVE  Goes
    <2>1. /\ i.at = "run" /\ i.kind = "download" /\ UNCHANGED <<host, writers, history>>
          /\ Reply(o, "error") \/ Reply(o, "ok")
      BY <1>3, <1>11 DEF Read, Is
    <2> QED BY <1>6, <2>1
  <1>12. ASSUME Refuse(o)
         PROVE  Goes
    BY <1>6, <1>12 DEF Refuse
  <1> QED BY <1>1, <1>8, <1>9, <1>10, <1>11, <1>12

-----------------------------------------------------------------------------
(* What is so of a step of window w, which becomes r.                      *)
Acting(w, r) ==
  /\ windows[w] # Off /\ windows' = [windows EXCEPT ![w] = r] /\ WindowForm(r) /\ OwnInv(w)'
  /\ UNCHANGED <<session, snapshot, path, busy, menu, ops>>
  /\ faults' \in Nat
  /\ history' \in HistorySet /\ history'.crossed = history.crossed /\ history'.wrong = history.wrong
  /\ history'.strays = history.strays /\ (history.excused => history'.excused)
  /\ payloads' \subseteq payloads /\ (w \in payloads' => r.at \in {"asked", "gone"})
  /\ \/ host' = host /\ writers' = writers
     \/ /\ windows[w].server \in Servers /\ windows[w].dir \in Dirs
        /\ \E dir \in Listing : host' = [host EXCEPT ![windows[w].server][windows[w].dir] = dir]
        /\ writers' = writers \cup {<<windows[w].server, windows[w].dir, w>>}
  /\ \/ events' = events
     \/ /\ windows[w].server \in Servers /\ windows[w].path \in Dirs
        /\ events' = Append(events, [server |-> windows[w].server, path |-> windows[w].path])
  /\ ~ history'.excused =>
       /\ r.wire \notin {"error", "refused"} /\ (r.at = "gone" => r.wire = "none")
       /\ windows[w].wire \in {"sent", "ok"} =>
            (r.wire \in {"sent", "ok"} /\ r.server = windows[w].server) \/ events' # events
       /\ host' # host => r.wire = "ok" /\ r.server = windows[w].server

Acts == \E w \in Windows, r \in WindowSet : Acting(w, r)

LEMMA ActsHost ==
  ASSUME Types, NEW w \in Windows, NEW r, Acting(w, r)
  PROVE  /\ host' \in [Servers -> [Dirs -> Listing]] /\ writers \subseteq writers'
         /\ writers' \subseteq Servers \X Dirs \X (Windows \cup {OfTab})
         /\ \A k \in writers' : k \in writers \/ k[3] = w
         /\ \A s \in Servers, d \in Dirs : host'[s][d] # host[s][d] =>
              s = windows[w].server /\ d = windows[w].dir /\ <<s, d, w>> \in writers'
  <1>1. CASE host' = host /\ writers' = writers
    BY <1>1 DEF Types
  <1>2. ASSUME NEW s \in Servers, NEW d \in Dirs, s = windows[w].server, d = windows[w].dir,
               NEW dir \in Listing, host' = [host EXCEPT ![s][d] = dir],
               writers' = writers \cup {<<s, d, w>>}
        PROVE  /\ host' \in [Servers -> [Dirs -> Listing]] /\ writers \subseteq writers'
               /\ writers' \subseteq Servers \X Dirs \X (Windows \cup {OfTab})
               /\ \A k \in writers' : k \in writers \/ k[3] = w
               /\ \A t \in Servers, c \in Dirs : host'[t][c] # host[t][c] =>
                    t = windows[w].server /\ c = windows[w].dir /\ <<t, c, w>> \in writers'
    <2>1. host \in [Servers -> [Dirs -> Listing]]
      BY DEF Types
    <2>2. host' \in [Servers -> [Dirs -> Listing]]
      BY <1>2, <2>1
    <2>3. writers' \subseteq Servers \X Dirs \X (Windows \cup {OfTab})
      BY <1>2 DEF Types
    <2>4. \A k \in writers' : k \in writers \/ k[3] = w
      BY <1>2
    <2>5. ASSUME NEW t \in Servers, NEW c \in Dirs, host'[t][c] # host[t][c]
          PROVE  t = s /\ c = d
      BY <1>2, <2>1, <2>5
    <2> QED BY <1>2, <2>2, <2>3, <2>4, <2>5
  <1> QED BY <1>1, <1>2 DEF Acting

(* A step of a properties window keeps the invariant.                      *)
LEMMA ActsKeep ==
  ASSUME IInv, Acts
  PROVE  IInv'
  <1>0. PICK w \in Windows, r \in WindowSet : Acting(w, r)
    BY DEF Acts
  <1>1. Types /\ HostInv /\ JobInv /\ TabInv /\ MenuInv /\ FreshInv /\ WindowInv /\ DeletedWasChosen
    BY DEF IInv
  <1>2. /\ host' \in [Servers -> [Dirs -> Listing]] /\ writers \subseteq writers'
        /\ writers' \subseteq Servers \X Dirs \X (Windows \cup {OfTab})
        /\ \A k \in writers' : k \in writers \/ k[3] = w
        /\ \A s \in Servers, d \in Dirs : host'[s][d] # host[s][d] =>
              s = windows[w].server /\ d = windows[w].dir /\ <<s, d, w>> \in writers'
    BY <1>0, <1>1, ActsHost
  <1>3. r # Off
    BY ConstFacts
  <1>4. /\ windows' \in [Windows -> WindowSet \cup {Off}] /\ windows'[w] = r
        /\ \A v \in Windows : v # w => windows'[v] = windows[v]
    BY <1>0, <1>1 DEF Acting, Types
  <1>5. UNCHANGED <<session, snapshot, path, busy, menu, ops>>
    BY <1>0 DEF Acting
  <1>6. /\ history' \in HistorySet /\ history'.crossed = history.crossed /\ history'.wrong = history.wrong
        /\ history'.strays = history.strays /\ (history.excused => history'.excused)
    BY <1>0 DEF Acting
  <1>7. /\ events' \in Seq([server : Servers, path : Dirs])
        /\ events' # events => Tells(session)' \/ windows[w].server # session
        /\ \A i \in 1 .. Len(events) : i \in 1 .. Len(events') /\ events'[i] = events[i]
    <2>1. events \in Seq([server : Servers, path : Dirs])
      BY <1>1 DEF Types
    <2>2. CASE events' = events
      BY <2>1, <2>2
    <2>3. CASE /\ windows[w].server \in Servers /\ windows[w].path \in Dirs
               /\ events' = Append(events, [server |-> windows[w].server, path |-> windows[w].path])
      <3>1. PICK e \in [server : Servers, path : Dirs] :
              e = [server |-> windows[w].server, path |-> windows[w].path]
        BY <2>3
      <3>2. /\ events' \in Seq([server : Servers, path : Dirs]) /\ Len(events') = Len(events) + 1
            /\ events'[Len(events) + 1] = e
            /\ \A i \in 1 .. Len(events) : events'[i] = events[i]
        BY <2>1, <2>3, <3>1
      <3>3. Len(events) + 1 \in 1 .. Len(events') /\ e.server = windows[w].server /\ Len(events) \in Nat
        BY <2>1, <3>1, <3>2
      <3>4. windows[w].server = session => Tells(session)'
        BY <1>5, <3>2, <3>3 DEF Tells
      <3> QED BY <3>2, <3>3, <3>4
    <2> QED BY <1>0, <2>2, <2>3 DEF Acting
  <1>8. Types'
    BY <1>0, <1>1, <1>2, <1>4, <1>5, <1>6, <1>7 DEF Types, Acting
  <1>9. HostInv'
    <2>1. \A s \in Servers, d \in Dirs : FromStart(s, d, host[s][d])'
      <3> SUFFICES ASSUME NEW s \in Servers, NEW d \in Dirs, Pristine(s, d)'
                   PROVE  host'[s][d] = Before[s][d]
        BY DEF FromStart
      <3>1. host'[s][d] = host[s][d]
        BY <1>2 DEF Pristine
      <3>2. Pristine(s, d)
        BY <1>2, PristineKeeps
      <3> QED BY <1>1, <3>1, <3>2 DEF HostInv, FromStart
    <2>2. \A k \in writers' : k[3] \in Windows => windows'[k[3]] # Off
      BY <1>1, <1>2, <1>3, <1>4 DEF HostInv
    <2> QED BY <2>1, <2>2 DEF HostInv
  <1>10. JobInv'
    <2> SUFFICES ASSUME NEW o \in Busy' PROVE JobForm(ops[o])' /\ JobTrue(ops[o])'
      BY DEF JobInv
    <2>1. PICK j : j = ops[o]
      OBVIOUS
    <2>2. JobForm(j) /\ JobTrue(j)'
      BY <1>1, <1>2, <1>5, <2>1, PristineKeeps DEF JobInv, Busy
    <2> QED BY <1>5, <2>1, <2>2 DEF JobForm, JobTrue, FromStart, Pristine
  <1>11. TabInv'
    <2>1. snapshot' # Null => FromStart(snapshot.of, snapshot.path, snapshot.entries)'
      BY <1>1, <1>2, <1>5, PristineKeeps DEF TabInv, FromStart
    <2> QED BY <1>1, <1>5, <1>6, <2>1 DEF TabInv, Mine, Busy
  <1>12. MenuInv'
    BY <1>1, <1>2, <1>5, <1>6, PristineKeeps DEF MenuInv
  <1>13. FreshInv'
    <2> SUFFICES ASSUME ~ history'.excused
                 PROVE  /\ \A p, q \in Busy' : p = q
                        /\ session' # Away => \A p \in Busy' : ops'[p].mounted
                        /\ session' # Away /\ snapshot' # Null /\ snapshot'.entries # host'[snapshot'.of][snapshot'.path] =>
                             (\E p \in Busy' : Refreshes(ops'[p])) \/ Tells(session)'
                        /\ \A p \in Mine' : ops'[p].at = "list" /\ ops'[p].wire = "ok"
                             /\ ops'[p].entries # host'[ops'[p].server][ops'[p].dir] => Tells(session)'
                        /\ \A v \in Windows : windows'[v] # Off => windows'[v].wire \notin {"error", "refused"} /\ (windows'[v].at = "gone" => windows'[v].wire = "none")
      BY DEF FreshInv
    <2>1. /\ ~ history.excused /\ Busy' = Busy /\ Mine' = Mine
          /\ ~ history.crossed
      BY <1>1, <1>5, <1>6 DEF FreshInv, TabInv, Busy, Mine
    <2>2. /\ r.wire \notin {"error", "refused"} /\ (r.at = "gone" => r.wire = "none")
          /\ windows[w].wire \in {"sent", "ok"} =>
               (r.wire \in {"sent", "ok"} /\ r.server = windows[w].server) \/ events' # events
          /\ host' # host => r.wire = "ok" /\ r.server = windows[w].server
      BY <1>0 DEF Acting
    <2>3. ASSUME NEW v \in Windows, windows[v] # Off, windows[v].server = session, windows[v].wire \in {"sent", "ok"}
          PROVE  Tells(session)'
      <3>1. CASE v # w
        BY <1>4, <1>5, <2>3, <3>1 DEF Tells
      <3>2. CASE v = w
        BY <1>3, <1>4, <1>5, <1>7, <2>2, <2>3, <3>2 DEF Tells
      <3> QED BY <3>1, <3>2
    <2>4. Tells(session) => Tells(session)'
      <3>1. ASSUME NEW i \in 1 .. Len(events), events[i].server = session
            PROVE  Tells(session)'
        BY <1>5, <1>7, <3>1 DEF Tells
      <3> QED BY <2>3, <3>1 DEF Tells
    <2>5. ASSUME NEW s \in Servers, NEW d \in Dirs, s = session, host'[s][d] # host[s][d]
          PROVE  Tells(session)'
      <3>1. s = windows[w].server /\ host' # host
        BY <1>2, <2>5
      <3>2. r.wire = "ok" /\ r.server = session
        BY <2>2, <2>5, <3>1
      <3> QED BY <1>3, <1>4, <1>5, <3>2 DEF Tells
    <2>6. ASSUME session' # Away, snapshot' # Null, snapshot'.entries # host'[snapshot'.of][snapshot'.path]
          PROVE  (\E p \in Busy' : Refreshes(ops'[p])) \/ Tells(session)'
      <3>1. PICK s \in Servers, d \in Dirs : s = snapshot.of /\ d = snapshot.path /\ s = session
        BY <1>1, <1>5, <2>1, <2>6 DEF TabInv, Types
      <3>2. CASE host'[s][d] # host[s][d]
        BY <2>5, <3>1, <3>2
      <3>3. CASE host'[s][d] = host[s][d]
        <4>1. (\E p \in Busy : Refreshes(ops[p])) \/ Tells(session)
          BY <1>1, <1>5, <2>1, <2>6, <3>1, <3>3 DEF FreshInv
        <4> QED BY <1>5, <2>1, <2>4, <4>1
      <3> QED BY <3>2, <3>3
    <2>7. ASSUME NEW p \in Mine', ops'[p].at = "list", ops'[p].wire = "ok",
                 ops'[p].entries # host'[ops'[p].server][ops'[p].dir]
          PROVE  Tells(session)'
      <3>1. p \in Mine /\ p \in Busy /\ ops'[p] = ops[p]
        BY <1>5, <2>1 DEF Mine
      <3>2. ops[p] \in JobSet /\ ops[p].server = session
        BY <1>1, <2>1, <3>1, BusyFacts DEF TabInv
      <3>3. PICK s \in Servers, d \in Dirs : s = ops[p].server /\ d = ops[p].dir
        BY <3>2 DEF JobSet
      <3>4. CASE host'[s][d] # host[s][d]
        BY <2>5, <3>2, <3>3, <3>4
      <3>5. CASE host'[s][d] = host[s][d]
        <4>1. Tells(session)
          BY <1>1, <2>1, <2>7, <3>1, <3>3, <3>5 DEF FreshInv
        <4> QED BY <2>4, <4>1
      <3> QED BY <3>4, <3>5
    <2>8. \A v \in Windows : windows'[v] # Off => windows'[v].wire \notin {"error", "refused"} /\ (windows'[v].at = "gone" => windows'[v].wire = "none")
      BY <1>1, <1>4, <2>1, <2>2 DEF FreshInv
    <2>9. session' # Away => \A p \in Busy' : ops'[p].mounted
      BY <1>1, <1>5, <2>1 DEF FreshInv
    <2>10. \A p, q \in Busy' : p = q
      BY <1>1, <2>1 DEF FreshInv
    <2> QED BY <2>6, <2>7, <2>8, <2>9, <2>10
  <1>14. WindowInv'
    <2>1. \A v \in Windows : OwnInv(v)'
      <3> SUFFICES ASSUME NEW v \in Windows PROVE OwnInv(v)'
        OBVIOUS
      <3>1. CASE v = w
        BY <1>0, <3>1 DEF Acting
      <3>2. CASE v # w
        <4>1. OwnInv(v) /\ windows'[v] = windows[v] /\ (windows[v] # Off => WindowForm(windows[v]))
          BY <1>1, <1>4, <3>2 DEF WindowInv
        <4>2. CASE windows[v] # Off /\ windows[v].at \in {"asked", "open", "done"}
          <5>1. windows[v].server \in Servers /\ windows[v].dir \in Dirs
            BY <4>1, <4>2 DEF WindowForm
          <5>2. PICK s \in Servers, d \in Dirs : s = windows[v].server /\ d = windows[v].dir
            BY <5>1
          <5>3. \/ host'[s][d] = host[s][d]
                \/ \E k \in writers' : k[1] = s /\ k[2] = d /\ k[3] # v
            <6>1. <<s, d, w>>[1] = s /\ <<s, d, w>>[2] = d /\ <<s, d, w>>[3] # v
              BY <3>2
            <6> QED BY <1>2, <6>1
          <5> QED BY <1>2, <1>6, <4>1, <5>2, <5>3, OwnKeeps
        <4>3. CASE ~ (windows[v] # Off /\ windows[v].at \in {"asked", "open", "done"})
          BY <4>1, <4>3 DEF OwnInv
        <4> QED BY <4>2, <4>3
      <3> QED BY <3>1, <3>2
    <2>2. \A v \in Windows : windows'[v] # Off => WindowForm(windows'[v])
      BY <1>0, <1>1, <1>4 DEF WindowInv, Acting
    <2>3. PayloadsAreTaken'
      BY <1>0, <1>1, <1>3, <1>4 DEF WindowInv, PayloadsAreTaken, Acting
    <2> QED BY <2>1, <2>2, <2>3 DEF WindowInv, WindowForm
  <1>15. DeletedWasChosen'
    BY <1>1, <1>6 DEF DeletedWasChosen
  <1> QED BY <1>8, <1>9, <1>10, <1>11, <1>12, <1>13, <1>14, <1>15 DEF IInv

LEMMA OwnSteps ==
  ASSUME Types, NEW w \in Windows, NEW r \in WindowSet, windows[w] # Off, OwnInv(w),
         windows' = [windows EXCEPT ![w] = r],
         writers \subseteq writers', history'.strays = history.strays,
         \/ r.at \notin {"asked", "open", "done"}
         \/ /\ windows[w].at \in {"asked", "open", "done"}
            /\ r.server = windows[w].server /\ r.dir = windows[w].dir
            /\ OwnFile(windows[w], host[r.server][r.dir], w \notin history.strays) =>
                 OwnFile(r, host'[r.server][r.dir], w \notin history.strays)
  PROVE  OwnInv(w)'
  <1>1. windows'[w] = r
    BY DEF Types
  <1>2. CASE r.at \notin {"asked", "open", "done"}
    BY <1>1, <1>2 DEF OwnInv
  <1>3. CASE /\ windows[w].at \in {"asked", "open", "done"}
             /\ r.server = windows[w].server /\ r.dir = windows[w].dir
             /\ OwnFile(windows[w], host[r.server][r.dir], w \notin history.strays) =>
                  OwnFile(r, host'[r.server][r.dir], w \notin history.strays)
    <2> SUFFICES ASSUME Alone(w)' PROVE OwnInv(w)'
      BY DEF OwnInv
    <2>1. Alone(w)
      BY <1>1, <1>3 DEF Alone
    <2>2. PICK q : q = windows[w]
      OBVIOUS
    <2>3. OwnFile(q, host[q.server][q.dir], w \notin history.strays)
      BY <1>3, <2>1, <2>2 DEF OwnInv
    <2>4. OwnFile(r, host'[r.server][r.dir], w \notin history'.strays)
      BY <1>3, <2>2, <2>3
    <2> QED BY <1>1, <2>4, ZenonT(40) DEF OwnInv, OwnFile, Place, Failed, ModeOf, Moved
  <1> QED BY <1>2, <1>3

(* A window nothing can be done in is well formed.                         *)
LEMMA BlankFacts ==
  ASSUME NEW at \in {"failed", "empty", "reload", "gone"}
  PROVE  /\ Blank(at) \in WindowSet /\ WindowForm(Blank(at)) /\ Blank(at).at = at
         /\ Blank(at).wire = "none"
  <1>1. PICK r : r = Blank(at)
    OBVIOUS
  <1>2. /\ r.at = at /\ r.wire = "none" /\ r.step = "none" /\ r.error = "none"
    BY <1>1 DEF Blank
  <1>3. WindowForm(r)
    BY <1>2 DEF WindowForm
  <1>4. Blank(at) \in WindowSet
    BY ConstFacts DEF Blank, WindowSet, NoDraft, Wires
  <1> QED BY <1>1, <1>2, <1>3, <1>4

(* What a window is after a step of the user, the page or the host.        *)
LEMMA WindowSteps ==
  ASSUME NEW q \in WindowSet, WindowForm(q), NEW dir \in Listing, NEW own \in BOOLEAN
  PROVE  /\ q.at = "asked" =>
              LET r == [q EXCEPT !.at = "open"] IN
              /\ r \in WindowSet /\ WindowForm(r) /\ r.at = "open" /\ r.wire = "none" /\ q.wire = "none"
              /\ r.server = q.server /\ r.dir = q.dir
              /\ OwnFile(q, dir, own) => OwnFile(r, dir, own)
         /\ q.wire = "sent" =>
              LET r == [q EXCEPT !.at = "gone"] IN
              /\ r \in WindowSet /\ WindowForm(r) /\ r.at = "gone" /\ r.wire = "sent"
         /\ q.at = "open" /\ q.wire \in {"error", "refused"} =>
              LET r == [q EXCEPT !.step = "none", !.wire = "none", !.error = q.wire] IN
              /\ r \in WindowSet /\ WindowForm(r) /\ r.at = "open" /\ r.wire = "none"
              /\ r.server = q.server /\ r.dir = q.dir
              /\ OwnFile(q, dir, own) => OwnFile(r, dir, own)
  <1>1. ASSUME q.at = "asked"
        PROVE  LET r == [q EXCEPT !.at = "open"] IN
               /\ r \in WindowSet /\ WindowForm(r) /\ r.at = "open" /\ r.wire = "none" /\ q.wire = "none"
               /\ r.server = q.server /\ r.dir = q.dir
               /\ OwnFile(q, dir, own) => OwnFile(r, dir, own)
    <2>1. PICK r : r = [q EXCEPT !.at = "open"]
      OBVIOUS
    <2>2. q.wire = "none" /\ q.step = "none" /\ q.error = "none"
      BY <1>1 DEF WindowForm, WindowSet
    <2>3. /\ r \in WindowSet /\ r.at = "open" /\ r.server = q.server /\ r.dir = q.dir /\ r.name = q.name
          /\ r.seen = q.seen /\ r.path = q.path /\ r.draft = q.draft /\ r.step = q.step /\ r.wire = q.wire
          /\ r.error = q.error /\ r.moved = q.moved
      BY <2>1 DEF WindowSet
    <2>4. WindowForm(r)
      BY <1>1, <2>2, <2>3 DEF WindowForm
    <2>5. /\ ModeOf(r) = ModeOf(q) /\ Place(r) = Place(q)
          /\ ~ Moved(r) /\ ~ Moved(q) /\ ~ Failed(r)
      BY <1>1, <2>2, <2>3 DEF ModeOf, Place, Moved, Failed
    <2>6. OwnFile(q, dir, own) => OwnFile(r, dir, own)
      BY <2>3, <2>5 DEF OwnFile
    <2> QED BY <2>1, <2>2, <2>3, <2>4, <2>6
  <1>2. ASSUME q.wire = "sent"
        PROVE  LET r == [q EXCEPT !.at = "gone"] IN
               r \in WindowSet /\ WindowForm(r) /\ r.at = "gone" /\ r.wire = "sent"
    <2>1. PICK r : r = [q EXCEPT !.at = "gone"]
      OBVIOUS
    <2>2. /\ r \in WindowSet /\ r.at = "gone" /\ r.server = q.server /\ r.dir = q.dir /\ r.name = q.name
          /\ r.seen = q.seen /\ r.path = q.path /\ r.draft = q.draft /\ r.step = q.step /\ r.wire = q.wire
          /\ r.error = q.error
      BY <2>1 DEF WindowSet
    <2>3. WindowForm(r)
      BY <1>2, <2>2 DEF WindowForm
    <2> QED BY <1>2, <2>1, <2>2, <2>3
  <1>3. ASSUME q.at = "open", q.wire \in {"error", "refused"}
        PROVE  LET r == [q EXCEPT !.step = "none", !.wire = "none", !.error = q.wire] IN
               /\ r \in WindowSet /\ WindowForm(r) /\ r.at = "open" /\ r.wire = "none"
               /\ r.server = q.server /\ r.dir = q.dir
               /\ OwnFile(q, dir, own) => OwnFile(r, dir, own)
    <2>1. PICK r : r = [q EXCEPT !.step = "none", !.wire = "none", !.error = q.wire]
      OBVIOUS
    <2>2. /\ r.at = "open" /\ r.server = q.server /\ r.dir = q.dir /\ r.name = q.name
          /\ r.seen = q.seen /\ r.path = q.path /\ r.draft = q.draft /\ r.step = "none" /\ r.wire = "none"
          /\ r.error = q.wire /\ r.moved = q.moved
      BY <1>3, <2>1 DEF WindowSet
    <2>3. r \in WindowSet
      BY <1>3, <2>1, ZenonT(40) DEF WindowSet, Wires
    <2>4. /\ r \in WindowSet /\ r.at = "open" /\ r.server = q.server /\ r.dir = q.dir /\ r.name = q.name
          /\ r.seen = q.seen /\ r.path = q.path /\ r.draft = q.draft /\ r.step = "none" /\ r.wire = "none"
          /\ r.error = q.wire /\ r.moved = q.moved
      BY <2>2, <2>3
    <2>5. WindowForm(r)
      BY <1>3, <2>4 DEF WindowForm
    <2>6. /\ ModeOf(r) = ModeOf(q) /\ Place(r) = Place(q)
          /\ ~ Moved(r) /\ ~ Moved(q) /\ (Failed(r) => Failed(q))
      BY <1>3, <2>4 DEF ModeOf, Place, Moved, Failed
    <2>7. OwnFile(q, dir, own) => OwnFile(r, dir, own)
      BY <1>3, <2>4, <2>6 DEF OwnFile
    <2> QED BY <2>1, <2>4, <2>5, <2>7
  <1> QED BY <1>1, <1>2, <1>3

(* Apply.                                                                  *)
LEMMA ApplyStep ==
  ASSUME NEW q \in WindowSet, WindowForm(q), NEW dir \in Listing, NEW own \in BOOLEAN, q.at = "open",
         q.step = "none", NEW d \in [name : Names, mode : Modes], NEW step \in {"rename", "chmod"},
         step = "rename" <=> d.name # q.name, NEW r, r = Send([q EXCEPT !.draft = d], step)
  PROVE  /\ r \in WindowSet /\ WindowForm(r) /\ r.at = "open" /\ r.wire = "sent" /\ q.wire = "none"
         /\ r.server = q.server /\ r.dir = q.dir
         /\ OwnFile(q, dir, own) => OwnFile(r, dir, own)
  <1>1. /\ r \in WindowSet /\ r.at = q.at /\ r.server = q.server /\ r.dir = q.dir /\ r.name = q.name
        /\ r.seen = q.seen /\ r.path = q.path /\ r.draft = d /\ r.step = step /\ r.wire = "sent"
        /\ r.error = "none" /\ r.moved = q.moved
    BY DEF WindowSet, Send, Wires
  <1>2. q.wire = "none"
    BY DEF WindowForm
  <1>3. WindowForm(r)
    BY <1>1 DEF WindowForm
  <1>4. /\ ModeOf(r) = q.seen.mode /\ ModeOf(q) = q.seen.mode /\ Place(r) = Place(q)
        /\ ~ Moved(r) /\ ~ Moved(q) /\ ~ Failed(r)
    BY <1>1, <1>2 DEF ModeOf, Moved, Place, Failed
  <1>5. OwnFile(q, dir, own) => OwnFile(r, dir, own)
    BY <1>1, <1>4 DEF OwnFile
  <1> QED BY <1>1, <1>2, <1>3, <1>5

(* What follows a command that is done.                                    *)
LEMMA DoneSteps ==
  ASSUME NEW q \in WindowSet, WindowForm(q), NEW dir \in Listing, NEW own \in BOOLEAN, q.at = "open"
  PROVE  /\ q.wire = "ok" /\ q.step = "rename" =>
              LET r == Send(q, "chmod") IN
              /\ r \in WindowSet /\ WindowForm(r) /\ r.at = "open" /\ r.wire = "sent"
              /\ r.server = q.server /\ r.dir = q.dir
              /\ OwnFile(q, dir, own) => OwnFile(r, dir, own)
         /\ q.wire = "ok" /\ (q.step = "chmod" \/ q.draft.mode = q.seen.mode) =>
              LET r == [q EXCEPT !.at = "done", !.wire = "none"] IN
              /\ r \in WindowSet /\ WindowForm(r) /\ r.at = "done" /\ r.wire = "none"
              /\ r.server = q.server /\ r.dir = q.dir
              /\ OwnFile(q, dir, own) => OwnFile(r, dir, own)
  <1>1. ASSUME q.wire = "ok", q.step = "rename"
        PROVE  LET r == Send(q, "chmod") IN
               /\ r \in WindowSet /\ WindowForm(r) /\ r.at = "open" /\ r.wire = "sent"
               /\ r.server = q.server /\ r.dir = q.dir
               /\ OwnFile(q, dir, own) => OwnFile(r, dir, own)
    <2>1. PICK r : r = Send(q, "chmod")
      OBVIOUS
    <2>2. /\ r.at = q.at /\ r.server = q.server /\ r.dir = q.dir /\ r.name = q.name
          /\ r.seen = q.seen /\ r.path = q.path /\ r.draft = q.draft /\ r.step = "chmod" /\ r.wire = "sent"
          /\ r.error = "none" /\ r.moved = q.moved
      BY <2>1 DEF WindowSet, Send
    <2>3. r \in WindowSet
      BY <2>1, ZenonT(40) DEF WindowSet, Send, Wires
    <2>4. /\ r \in WindowSet /\ r.at = q.at /\ r.server = q.server /\ r.dir = q.dir /\ r.name = q.name
          /\ r.seen = q.seen /\ r.path = q.path /\ r.draft = q.draft /\ r.step = "chmod" /\ r.wire = "sent"
          /\ r.error = "none" /\ r.moved = q.moved
      BY <2>2, <2>3
    <2>5. WindowForm(r) /\ q.draft.name # q.name
      BY <1>1, <2>4 DEF WindowForm
    <2>6. /\ ModeOf(r) = q.seen.mode /\ ModeOf(q) = q.seen.mode /\ Place(r) = Place(q)
          /\ Moved(r) /\ Moved(q) /\ ~ Failed(r)
      BY <1>1, <2>4, <2>5 DEF ModeOf, Moved, Place, Failed
    <2>7. OwnFile(q, dir, own) => OwnFile(r, dir, own)
      BY <2>4, <2>6 DEF OwnFile
    <2> QED BY <2>1, <2>4, <2>5, <2>7
  <1>2. ASSUME q.wire = "ok", q.step = "chmod" \/ q.draft.mode = q.seen.mode
        PROVE  LET r == [q EXCEPT !.at = "done", !.wire = "none"] IN
               /\ r \in WindowSet /\ WindowForm(r) /\ r.at = "done" /\ r.wire = "none"
               /\ r.server = q.server /\ r.dir = q.dir
               /\ OwnFile(q, dir, own) => OwnFile(r, dir, own)
    <2>1. PICK r : r = [q EXCEPT !.at = "done", !.wire = "none"]
      OBVIOUS
    <2>2. /\ r \in WindowSet /\ r.at = "done" /\ r.server = q.server /\ r.dir = q.dir /\ r.name = q.name
          /\ r.seen = q.seen /\ r.path = q.path /\ r.draft = q.draft /\ r.step = q.step /\ r.wire = "none"
          /\ r.error = q.error /\ r.moved = q.moved
      BY <2>1 DEF WindowSet, Wires
    <2>3. WindowForm(r)
      BY <1>2, <2>2 DEF WindowForm
    <2>4. /\ ModeOf(r) = ModeOf(q) /\ Place(r) = Place(q)
          /\ Moved(r) /\ Moved(q) /\ (Failed(r) => Failed(q))
      BY <1>2, <2>2 DEF ModeOf, Moved, Place, Failed
    <2>5. OwnFile(q, dir, own) => OwnFile(r, dir, own)
      BY <2>2, <2>4 DEF OwnFile
    <2> QED BY <2>1, <2>2, <2>3, <2>5
  <1> QED BY <1>1, <1>2

(* The window of a command that is answered.                               *)
Heard(q, x, moved) == [q EXCEPT !.wire = x, !.moved = moved]

LEMMA AnswerForm ==
  ASSUME NEW q \in WindowSet, WindowForm(q), q.wire = "sent", q.at = "open",
         NEW x \in {"ok", "error", "refused"}, NEW moved \in Names \cup {"none"},
         NEW r, r = Heard(q, x, moved)
  PROVE  /\ r \in WindowSet /\ WindowForm(r) /\ r.at = "open" /\ r.wire = x /\ r.server = q.server
         /\ r.dir = q.dir /\ r.name = q.name /\ r.seen = q.seen /\ r.draft = q.draft /\ r.step = q.step
         /\ r.error = "none" /\ r.moved = moved
  <1>1. /\ r \in WindowSet /\ r.at = q.at /\ r.server = q.server /\ r.dir = q.dir /\ r.name = q.name
        /\ r.seen = q.seen /\ r.path = q.path /\ r.draft = q.draft /\ r.step = q.step /\ r.wire = x
        /\ r.error = q.error /\ r.moved = moved
    BY DEF WindowSet, Wires, Heard
  <1>2. WindowForm(r) /\ r.error = "none"
    BY <1>1 DEF WindowForm, WindowSet
  <1> QED BY <1>1, <1>2

(* Where the entry is, when the command of the window comes to its host.   *)
LEMMA SentFile ==
  ASSUME NEW q \in WindowSet, WindowForm(q), q.wire = "sent", q.at = "open"
  PROVE  /\ q.seen \in Entry /\ q.seen # Nothing /\ q.draft.name \in Names /\ q.draft.mode \in Modes
         /\ q.name \in Names /\ ModeOf(q) = q.seen.mode
         /\ q.seen = [id |-> q.seen.id, mode |-> q.seen.mode]
         /\ q.step \in {"rename", "chmod"} /\ (q.step = "rename" => q.draft.name # q.name)
         /\ (Moved(q) <=> q.step = "chmod" /\ q.draft.name # q.name)
  <1>1. /\ q.seen \in Entry /\ q.seen # Nothing /\ q.draft.name \in Names /\ q.draft.mode \in Modes
        /\ q.step \in {"rename", "chmod"} /\ (q.step = "rename" => q.draft.name # q.name)
        /\ q.name \in Names
    BY DEF WindowForm, WindowSet
  <1>2. ModeOf(q) = q.seen.mode
    BY DEF ModeOf
  <1>3. q.seen = [id |-> q.seen.id, mode |-> q.seen.mode]
    BY <1>1 DEF Entry
  <1>4. Moved(q) <=> q.step = "chmod" /\ q.draft.name # q.name
    BY DEF Moved
  <1> QED BY <1>1, <1>2, <1>3, <1>4

(* When the directory makes the command fail, there is a cause.            *)
LEMMA RefusedSteps ==
  ASSUME NEW q \in WindowSet, WindowForm(q), q.wire = "sent", q.at = "open",
         NEW dir \in Listing, NEW own \in BOOLEAN, OwnFile(q, dir, own),
         NEW x \in {"error", "refused"}, NEW r, r = [q EXCEPT !.wire = x, !.moved = q.moved],
         \/ x = "refused"
         \/ q.step = "rename" /\ (dir[q.name] = Nothing \/ dir[q.draft.name] # Nothing)
         \/ q.step = "chmod" /\ dir[q.draft.name] = Nothing
  PROVE  OwnFile(r, dir, own)
  <1>1. /\ r.wire = x /\ r.at = "open" /\ r.server = q.server /\ r.dir = q.dir /\ r.seen = q.seen
        /\ r.draft = q.draft /\ r.step = q.step /\ r.name = q.name /\ r.moved = q.moved /\ r.error = "none"
    BY DEF WindowForm, WindowSet
  <1>2. ModeOf(r) = q.seen.mode /\ ~ Moved(r) /\ Place(r) = Place(q) /\ (Failed(r) <=> x = "error")
    BY <1>1 DEF ModeOf, Moved, Place, Failed
  <1>3. /\ q.seen # Nothing /\ ModeOf(q) = q.seen.mode /\ q.name \in Names /\ q.draft.name \in Names
        /\ q.seen = [id |-> q.seen.id, mode |-> q.seen.mode]
        /\ q.step = "rename" => q.draft.name # q.name
        /\ Moved(q) <=> q.step = "chmod" /\ q.draft.name # q.name
    BY SentFile
  <1>4. ASSUME own, x = "error", q.moved = "none"
        PROVE  dir[q.draft.name] # Nothing /\ dir[q.draft.name].id # q.seen.id
    <2>1. Place(q) = q.name
      BY <1>4 DEF Place
    <2>2. dir[q.name] = q.seen
      BY <1>3, <1>4, <2>1 DEF OwnFile
    <2>3. Moved(q) => dir[q.draft.name] # Nothing
      BY DEF OwnFile
    <2>4. q.step = "rename" /\ dir[q.draft.name] # Nothing
      BY <1>3, <1>4, <2>2, <2>3
    <2>5. \A y \in Names : y # q.name => dir[y] = Nothing \/ dir[y].id # q.seen.id
      BY <1>4, <2>1 DEF OwnFile
    <2> QED BY <1>3, <2>4, <2>5
  <1> QED BY <1>1, <1>2, <1>3, <1>4 DEF OwnFile

(* The new name: the entry moves, whatever was there.                      *)
LEMMA RenamedStep ==
  ASSUME NEW q \in WindowSet, WindowForm(q), q.wire = "sent", q.at = "open", q.step = "rename",
         NEW dir \in Listing, NEW own \in BOOLEAN, OwnFile(q, dir, own), dir[q.name] # Nothing,
         NEW r, r = [q EXCEPT !.wire = "ok", !.moved = q.draft.name],
         NEW new, new = [dir EXCEPT ![q.draft.name] = dir[q.name], ![q.name] = Nothing]
  PROVE  OwnFile(r, new, own)
  <1>1. /\ r.wire = "ok" /\ r.at = "open" /\ r.server = q.server /\ r.dir = q.dir /\ r.seen = q.seen
        /\ r.draft = q.draft /\ r.step = q.step /\ r.name = q.name /\ r.moved = q.draft.name
        /\ r.error = "none"
    BY DEF WindowForm, WindowSet
  <1>2. /\ q.draft.name \in Names /\ q.name \in Names /\ q.draft.name # q.name
        /\ ModeOf(q) = q.seen.mode
    BY SentFile
  <1>3. ModeOf(r) = q.seen.mode /\ ~ Failed(r) /\ q.draft.name # "none"
    BY <1>1, <1>2, PropertiesAssumption DEF ModeOf, Failed
  <1>4. Place(r) = q.draft.name
    BY <1>1, <1>3 DEF Place
  <1>5. /\ new[q.draft.name] = dir[q.name] /\ new[q.name] = Nothing
        /\ \A x \in Names : x # q.draft.name /\ x # q.name => new[x] = dir[x]
    BY <1>2 DEF Listing
  <1>6. ASSUME own
        PROVE  /\ dir[q.name] = [id |-> q.seen.id, mode |-> q.seen.mode]
               /\ \A x \in Names : x # q.draft.name => new[x] = Nothing \/ new[x].id # q.seen.id
    <2>1. q.moved = "none" /\ Place(q) = q.name
      BY <1>6 DEF OwnFile, Place
    <2>2. /\ dir[q.name] = [id |-> q.seen.id, mode |-> ModeOf(q)]
          /\ \A x \in Names : x # q.name => dir[x] = Nothing \/ dir[x].id # q.seen.id
      BY <1>6, <2>1 DEF OwnFile
    <2> QED BY <1>2, <1>5, <2>2
  <1>7. new[r.draft.name] # Nothing
    BY <1>1, <1>5
  <1>8. ASSUME own
        PROVE  /\ new[Place(r)] = [id |-> r.seen.id, mode |-> ModeOf(r)]
               /\ \A x \in Names : x # Place(r) => new[x] = Nothing \/ new[x].id # r.seen.id
               /\ r.moved # "none" => r.moved # r.name /\ new[r.name] = Nothing
    <2>1. new[Place(r)] = [id |-> r.seen.id, mode |-> ModeOf(r)]
      BY <1>1, <1>3, <1>4, <1>5, <1>6, <1>8
    <2>2. \A x \in Names : x # Place(r) => new[x] = Nothing \/ new[x].id # r.seen.id
      BY <1>1, <1>4, <1>6, <1>8
    <2>3. r.moved # "none" => r.moved # r.name /\ new[r.name] = Nothing
      BY <1>1, <1>2, <1>5
    <2> QED BY <2>1, <2>2, <2>3
  <1>9. Place(r) \in Names /\ Place(r) = r.draft.name
    BY <1>1, <1>2, <1>4
  <1> QED BY <1>3, <1>7, <1>8, <1>9 DEF OwnFile

(* The new mode.                                                           *)
LEMMA ChmodStep ==
  ASSUME NEW q \in WindowSet, WindowForm(q), q.wire = "sent", q.at = "open", q.step = "chmod",
         NEW dir \in Listing, NEW own \in BOOLEAN, OwnFile(q, dir, own), dir[q.draft.name] # Nothing,
         NEW r, r = [q EXCEPT !.wire = "ok", !.moved = q.moved],
         NEW new, new = [dir EXCEPT ![q.draft.name].mode = q.draft.mode]
  PROVE  OwnFile(r, new, own)
  <1>1. /\ r.wire = "ok" /\ r.at = "open" /\ r.server = q.server /\ r.dir = q.dir /\ r.seen = q.seen
        /\ r.draft = q.draft /\ r.step = q.step /\ r.name = q.name /\ r.moved = q.moved
        /\ r.error = "none"
    BY DEF WindowForm, WindowSet
  <1>2. /\ q.draft.name \in Names /\ q.name \in Names /\ q.draft.mode \in Modes
        /\ ModeOf(q) = q.seen.mode
        /\ Moved(q) <=> q.draft.name # q.name
    BY SentFile
  <1>3. ModeOf(r) = q.draft.mode /\ ~ Failed(r) /\ Place(r) = Place(q)
    BY <1>1 DEF ModeOf, Failed, Place
  <1>4. PICK e \in Entry : e = dir[q.draft.name]
    BY <1>2 DEF Listing
  <1>5. PICK f : f = [e EXCEPT !.mode = q.draft.mode]
    OBVIOUS
  <1>6. f.mode = q.draft.mode /\ f = [id |-> e.id, mode |-> q.draft.mode]
    BY <1>5 DEF Entry
  <1>7. new[q.draft.name] = f /\ \A x \in Names : x # q.draft.name => new[x] = dir[x]
    BY <1>2, <1>4, <1>5 DEF Listing
  <1>8. f # Nothing
    BY <1>2, <1>6, PropertiesAssumption DEF Nothing
  <1>9. ASSUME own
        PROVE  /\ Place(q) = q.draft.name /\ e.id = q.seen.id
               /\ \A x \in Names : x # q.draft.name => dir[x] = Nothing \/ dir[x].id # q.seen.id
               /\ q.moved # "none" => q.moved # q.name /\ new[q.name] = Nothing
    <2>1. CASE q.draft.name # q.name
      <3>1. Place(q) = q.draft.name
        BY <1>2, <1>9, <2>1 DEF OwnFile
      <3>2. /\ dir[q.draft.name] = [id |-> q.seen.id, mode |-> ModeOf(q)]
            /\ \A x \in Names : x # q.draft.name => dir[x] = Nothing \/ dir[x].id # q.seen.id
            /\ q.moved # "none" => q.moved # q.name /\ dir[q.name] = Nothing
        BY <1>9, <3>1 DEF OwnFile
      <3> QED BY <1>2, <1>4, <1>7, <2>1, <3>1, <3>2
    <2>2. CASE q.draft.name = q.name
      <3>1. q.moved = "none" /\ Place(q) = q.name
        BY <1>9, <2>2 DEF OwnFile, Place
      <3>2. /\ dir[q.name] = [id |-> q.seen.id, mode |-> ModeOf(q)]
            /\ \A x \in Names : x # q.name => dir[x] = Nothing \/ dir[x].id # q.seen.id
        BY <1>9, <3>1 DEF OwnFile
      <3> QED BY <1>4, <2>2, <3>1, <3>2
    <2> QED BY <2>1, <2>2
  <1>10. ASSUME own
         PROVE  /\ new[Place(r)] = [id |-> r.seen.id, mode |-> ModeOf(r)]
                /\ \A x \in Names : x # Place(r) => new[x] = Nothing \/ new[x].id # r.seen.id
                /\ r.moved # "none" => r.moved # r.name /\ new[r.name] = Nothing
    <2>1. new[q.draft.name] = [id |-> q.seen.id, mode |-> q.draft.mode]
      BY <1>6, <1>7, <1>9, <1>10
    <2>2. \A x \in Names : x # q.draft.name => new[x] = Nothing \/ new[x].id # q.seen.id
      BY <1>7, <1>9, <1>10
    <2> QED BY <1>1, <1>3, <1>9, <1>10, <2>1, <2>2
  <1> QED BY <1>1, <1>2, <1>3, <1>7, <1>8, <1>9, <1>10 DEF OwnFile

(* A step of window w is one of those above.                               *)
LEMMA ActsBy ==
  ASSUME IInv, NEW w \in Windows, OfWindow(w), NEW r \in WindowSet, WindowForm(r),
         windows[w] # Off, windows' = [windows EXCEPT ![w] = r],
         payloads' \subseteq payloads, w \in payloads' => r.at \in {"asked", "gone"},
         faults' \in Nat,
         \/ host' = host /\ writers' = writers
         \/ /\ windows[w].server \in Servers /\ windows[w].dir \in Dirs
            /\ \E dir \in Listing : host' = [host EXCEPT ![windows[w].server][windows[w].dir] = dir]
            /\ writers' = writers \cup {<<windows[w].server, windows[w].dir, w>>}
            /\ Saving(w) /\ (r.wire = "ok" => r.server = windows[w].server),
         \/ events' = events
         \/ /\ windows[w].server \in Servers /\ windows[w].path \in Dirs
            /\ events' = Append(events, [server |-> windows[w].server, path |-> windows[w].path])
            /\ events' # events,
         \/ r.at \notin {"asked", "open", "done"}
         \/ /\ windows[w].at \in {"asked", "open", "done"}
            /\ r.server = windows[w].server /\ r.dir = windows[w].dir
            /\ OwnFile(windows[w], host[r.server][r.dir], w \notin history.strays) =>
                 OwnFile(r, host'[r.server][r.dir], w \notin history.strays),
         r.wire \in {"error", "refused"} => Saving(w), r.at = "gone" => r.wire = "none" \/ (Saving(w) /\ r.wire = "sent"),
         \/ windows[w].wire \notin {"sent", "ok"}
         \/ windows[w].wire = "sent" /\ (r.wire = "ok" => r.server = windows[w].server)
         \/ windows[w].wire = "ok" /\ r.at \in {"gone", "reload"}
         \/ r.wire = "sent" /\ r.server = windows[w].server
         \/ events' # events
  PROVE  Acts
  <1>1. Types /\ HostInv /\ JobInv /\ TabInv /\ MenuInv /\ FreshInv /\ WindowInv /\ DeletedWasChosen
    BY DEF IInv
  <1>2. windows'[w] = r
    BY <1>1 DEF Types
  <1>3. UNCHANGED <<session, snapshot, path, busy, menu, ops>>
    BY DEF OfWindow, view
  <1>4. /\ history' = [history EXCEPT !.excused =
            @ \/ (Saving(w) /\ windows'[w].wire # "ok")
              \/ (windows[w] # Off /\ windows'[w].at \in {"gone", "reload"} /\ windows[w].step # "none")]
    BY DEF OfWindow
  <1>5. /\ history' \in HistorySet /\ history'.crossed = history.crossed /\ history'.wrong = history.wrong
        /\ history'.strays = history.strays
        /\ (history'.excused <=> history.excused \/ (Saving(w) /\ r.wire # "ok")
              \/ (r.at \in {"gone", "reload"} /\ windows[w].step # "none"))
    BY <1>1, <1>2, <1>4 DEF Types, HistorySet
  <1>6. OwnInv(w) /\ WindowForm(windows[w])
    BY <1>1 DEF WindowInv
  <1>7. OwnInv(w)'
    BY <1>1, <1>5, <1>6, OwnSteps
  <1>8. windows[w].wire \in {"sent", "ok"} => windows[w].step # "none"
    BY <1>6 DEF WindowForm
  <1>9. ASSUME ~ history'.excused
        PROVE  /\ r.wire \notin {"error", "refused"} /\ (r.at = "gone" => r.wire = "none")
               /\ windows[w].wire \in {"sent", "ok"} =>
                    (r.wire \in {"sent", "ok"} /\ r.server = windows[w].server) \/ events' # events
               /\ host' # host => r.wire = "ok" /\ r.server = windows[w].server
    <2>1. Saving(w) => r.wire = "ok"
      BY <1>5, <1>9
    <2>2. r.wire \notin {"error", "refused"} /\ (r.at = "gone" => r.wire = "none")
      BY <2>1
    <2>3. windows[w].wire \in {"sent", "ok"} =>
                    (r.wire \in {"sent", "ok"} /\ r.server = windows[w].server) \/ events' # events
      BY <1>5, <1>8, <1>9, <2>1 DEF Saving
    <2>4. host' # host => r.wire = "ok" /\ r.server = windows[w].server
      BY <2>1
    <2> QED BY <2>2, <2>3, <2>4
  <1>10. Acting(w, r)
    BY <1>3, <1>5, <1>7, <1>9 DEF Acting
  <1> QED BY <1>10 DEF Acts

(* The steps of a properties window, and of the host for it.               *)
LEMMA WindowFacts ==
  ASSUME IInv, NEW w \in Windows, OfWindow(w)
  PROVE  Acts
  <1>0. Types /\ WindowInv
    BY DEF IInv
  <1>1. /\ windows[w] # Off /\ faults \in Nat
        /\ host \in [Servers -> [Dirs -> Listing]]
    BY <1>0 DEF OfWindow, Page, Backend, Visitor, PageRuns, Applied, Refused, ServeRename, ServeChmod,
                ServeFails, Saving, WindowFails, Reload, CloseWindow, Apply, Types
  <1>2. PICK q \in WindowSet : q = windows[w]
    BY <1>0, <1>1 DEF Types
  <1>3. WindowForm(q) /\ (w \in payloads => q.at \in {"asked", "gone"})
    BY <1>0, <1>1, <1>2 DEF WindowInv, PayloadsAreTaken
  <1>4. q.at \in {"asked", "open", "done"} \/ q.wire # "none" =>
          q.server \in Servers /\ q.dir \in Dirs /\ q.path \in Dirs /\ q.name \in Names
    BY <1>3 DEF WindowForm
  <1>5. (w \notin history.strays) \in BOOLEAN
    OBVIOUS
  <1>6. q.at \in {"asked", "open", "done"} => host[q.server][q.dir] \in Listing
    BY <1>1, <1>4
  <1>7. ASSUME WindowFails(w)
        PROVE  Acts
    <2>1. PICK r : r = Blank("failed")
      OBVIOUS
    <2>2. /\ r \in WindowSet /\ WindowForm(r) /\ r.at = "failed" /\ r.wire = "none"
      BY <2>1, BlankFacts
    <2>3. /\ q.at = "asked" /\ windows' = [windows EXCEPT ![w] = r] /\ payloads' = payloads \ {w}
          /\ faults' \in Nat /\ UNCHANGED <<host, events, writers>>
      BY <1>1, <1>2, <1>7, <2>1 DEF WindowFails, Set
    <2>4. q.wire = "none"
      BY <1>3, <2>3 DEF WindowForm
    <2> QED BY <1>1, <1>2, <2>2, <2>3, <2>4, ActsBy
  <1>8. ASSUME PageRuns(w)
        PROVE  Acts
    <2>1. /\ q.at \in {"asked", "reload"} /\ payloads' = payloads \ {w}
          /\ UNCHANGED <<host, events, writers, faults>>
      BY <1>2, <1>8 DEF PageRuns
    <2>2. q.wire = "none"
      BY <1>3, <2>1 DEF WindowForm
    <2>3. CASE w \in payloads
      <3>1. PICK r : r = [q EXCEPT !.at = "open"]
        OBVIOUS
      <3>2. q.at = "asked" /\ windows' = [windows EXCEPT ![w] = r]
        BY <1>2, <1>3, <1>8, <2>1, <2>3, <3>1 DEF PageRuns, Set
      <3>3. /\ r \in WindowSet /\ WindowForm(r) /\ r.at = "open" /\ r.wire = "none"
            /\ r.server = q.server /\ r.dir = q.dir
            /\ OwnFile(q, host[q.server][q.dir], w \notin history.strays) => OwnFile(r, host[q.server][q.dir], w \notin history.strays)
        BY <1>3, <1>5, <1>6, <3>1, <3>2, WindowSteps
      <3> QED BY <1>1, <1>2, <2>1, <2>2, <3>2, <3>3, ActsBy
    <2>4. CASE w \notin payloads
      <3>1. PICK r : r = Blank("empty")
        OBVIOUS
      <3>2. /\ r \in WindowSet /\ WindowForm(r) /\ r.at = "empty" /\ r.wire = "none"
        BY <3>1, BlankFacts
      <3>3. windows' = [windows EXCEPT ![w] = r]
        BY <1>8, <2>4, <3>1 DEF PageRuns, Set
      <3> QED BY <1>1, <1>2, <2>1, <2>2, <3>2, <3>3, ActsBy
    <2> QED BY <2>3, <2>4
  <1>9. ASSUME Reload(w)
        PROVE  Acts
    <2>1. PICK r : r = Blank("reload")
      OBVIOUS
    <2>2. /\ r \in WindowSet /\ WindowForm(r) /\ r.at = "reload" /\ r.wire = "none"
      BY <2>1, BlankFacts
    <2>3. /\ q.at = "open" /\ q.wire # "sent" /\ windows' = [windows EXCEPT ![w] = r]
          /\ UNCHANGED <<host, payloads, events, writers, faults>>
      BY <1>1, <1>2, <1>9, <2>1 DEF Reload, Set, Saving
    <2>4. w \notin payloads
      BY <1>3, <2>3
    <2> QED BY <1>1, <1>2, <2>2, <2>3, <2>4, ActsBy
  <1>10. ASSUME CloseWindow(w)
         PROVE  Acts
    <2>1. q.at \in {"asked", "open", "empty"} /\ UNCHANGED <<host, payloads, events, writers, faults>>
      BY <1>2, <1>10 DEF CloseWindow
    <2>2. CASE Saving(w)
      <3>1. PICK r : r = [q EXCEPT !.at = "gone"]
        OBVIOUS
      <3>2. q.wire = "sent" /\ windows' = [windows EXCEPT ![w] = r]
        BY <1>2, <1>10, <2>2, <3>1 DEF CloseWindow, Set, Saving
      <3>3. r \in WindowSet /\ WindowForm(r) /\ r.at = "gone" /\ r.wire = "sent"
        BY <1>3, <1>5, <3>1, <3>2, ConstFacts, WindowSteps
      <3> QED BY <1>1, <1>2, <2>1, <2>2, <3>2, <3>3, ActsBy
    <2>3. CASE ~ Saving(w)
      <3>1. PICK r : r = Blank("gone")
        OBVIOUS
      <3>2. /\ r \in WindowSet /\ WindowForm(r) /\ r.at = "gone" /\ r.wire = "none"
        BY <3>1, BlankFacts
      <3>3. windows' = [windows EXCEPT ![w] = r]
        BY <1>10, <2>3, <3>1 DEF CloseWindow, Set
      <3>4. q.wire # "sent"
        BY <1>1, <1>2, <2>3 DEF Saving
      <3> QED BY <1>1, <1>2, <2>1, <3>2, <3>3, <3>4, ActsBy
    <2> QED BY <2>2, <2>3
  <1>11. ASSUME Refused(w)
         PROVE  Acts
    <2>1. PICK r : r = [q EXCEPT !.step = "none", !.wire = "none", !.error = q.wire]
      OBVIOUS
    <2>2. /\ q.at = "open" /\ q.wire \in {"error", "refused"} /\ windows' = [windows EXCEPT ![w] = r]
          /\ UNCHANGED <<host, payloads, events, writers, faults>>
      BY <1>2, <1>11, <2>1 DEF Refused, Set
    <2>3. /\ r \in WindowSet /\ WindowForm(r) /\ r.at = "open" /\ r.wire = "none"
          /\ r.server = q.server /\ r.dir = q.dir
          /\ OwnFile(q, host[q.server][q.dir], w \notin history.strays) => OwnFile(r, host[q.server][q.dir], w \notin history.strays)
      BY <1>3, <1>5, <1>6, <2>1, <2>2, WindowSteps
    <2>4. w \notin payloads
      BY <1>3, <2>2
    <2> QED BY <1>1, <1>2, <2>2, <2>3, <2>4, ActsBy
  <1>12. ASSUME NEW n \in Names, NEW m \in Modes, Apply(w, n, m)
         PROVE  Acts
    <2>1. PICK d \in [name : Names, mode : Modes] : d = [name |-> n, mode |-> m] /\ d.name = n
      <3>1. [name |-> n, mode |-> m] \in [name : Names, mode : Modes]
        OBVIOUS
      <3> QED BY <3>1
    <2>2. PICK step \in {"rename", "chmod"} : step = IF n # q.name THEN "rename" ELSE "chmod"
      OBVIOUS
    <2>3. PICK r : r = Send([q EXCEPT !.draft = d], step)
      OBVIOUS
    <2>4. /\ q.at = "open" /\ q.step = "none" /\ windows' = [windows EXCEPT ![w] = r]
          /\ UNCHANGED <<host, payloads, events, writers, faults>>
      BY <1>2, <1>12, <2>1, <2>2, <2>3 DEF Apply, Set
    <2>5. /\ r \in WindowSet /\ WindowForm(r) /\ r.at = "open" /\ r.wire = "sent" /\ q.wire = "none"
          /\ r.server = q.server /\ r.dir = q.dir
          /\ OwnFile(q, host[q.server][q.dir], w \notin history.strays) => OwnFile(r, host[q.server][q.dir], w \notin history.strays)
      <3>1. host[q.server][q.dir] \in Listing
        BY <1>6, <2>4
      <3>2. step = "rename" <=> d.name # q.name
        BY <2>1, <2>2
      <3>3. PICK own \in BOOLEAN : own = (w \notin history.strays)
        OBVIOUS
      <3>4. PICK dir \in Listing : dir = host[q.server][q.dir]
        BY <3>1
      <3>5. q.at = "open" /\ q.step = "none"
        BY <2>4
      <3>6. /\ r \in WindowSet /\ WindowForm(r) /\ r.at = "open" /\ r.wire = "sent" /\ q.wire = "none"
            /\ r.server = q.server /\ r.dir = q.dir
            /\ OwnFile(q, dir, own) => OwnFile(r, dir, own)
        BY <1>3, <2>3, <3>2, <3>5, ApplyStep
      <3> QED BY <3>3, <3>4, <3>6
    <2>6. w \notin payloads
      BY <1>3, <2>4
    <2> QED BY <1>1, <1>2, <2>4, <2>5, <2>6, ActsBy
  <1>13. ASSUME Applied(w)
         PROVE  Acts
    <2>1. q.at = "open" /\ q.wire = "ok" /\ UNCHANGED <<host, payloads, writers, faults>> /\ w \notin payloads
      BY <1>2, <1>3, <1>13 DEF Applied
    <2>2. CASE q.step = "rename" /\ Set(w, Send(windows[w], "chmod")) /\ UNCHANGED events
      <3>1. PICK r : r = Send(q, "chmod")
        OBVIOUS
      <3>2. windows' = [windows EXCEPT ![w] = r]
        BY <1>2, <2>2, <3>1 DEF Set
      <3>3. /\ r \in WindowSet /\ WindowForm(r) /\ r.at = "open" /\ r.wire = "sent"
            /\ r.server = q.server /\ r.dir = q.dir
            /\ OwnFile(q, host[q.server][q.dir], w \notin history.strays) => OwnFile(r, host[q.server][q.dir], w \notin history.strays)
        BY <1>3, <1>5, <1>6, <2>1, <2>2, <3>1, DoneSteps
      <3> QED BY <1>1, <1>2, <2>1, <2>2, <3>2, <3>3, ActsBy
    <2>3. CASE /\ q.step = "chmod" \/ q.draft.mode = q.seen.mode
               /\ Set(w, [windows[w] EXCEPT !.at = "done", !.wire = "none"])
               /\ events' = Append(events, [server |-> windows[w].server, path |-> windows[w].path])
      <3>1. PICK r : r = [q EXCEPT !.at = "done", !.wire = "none"]
        OBVIOUS
      <3>2. windows' = [windows EXCEPT ![w] = r]
        BY <1>2, <2>3, <3>1 DEF Set
      <3>3. /\ r \in WindowSet /\ WindowForm(r) /\ r.at = "done" /\ r.wire = "none"
            /\ r.server = q.server /\ r.dir = q.dir
            /\ OwnFile(q, host[q.server][q.dir], w \notin history.strays) => OwnFile(r, host[q.server][q.dir], w \notin history.strays)
        BY <1>3, <1>5, <1>6, <2>1, <2>3, <3>1, DoneSteps
      <3>4. events' # events
        <4>1. events \in Seq([server : Servers, path : Dirs])
          BY <1>0 DEF Types
        <4>2. Len(events') = Len(events) + 1 /\ Len(events) \in Nat
          BY <2>3, <4>1
        <4> QED BY <4>2
      <3> QED BY <1>1, <1>2, <1>4, <2>1, <2>3, <3>2, <3>3, <3>4, ActsBy
    <2>4. \/ q.step = "rename" /\ Set(w, Send(windows[w], "chmod")) /\ UNCHANGED events
          \/ /\ q.step = "chmod" \/ q.draft.mode = q.seen.mode
             /\ Set(w, [windows[w] EXCEPT !.at = "done", !.wire = "none"])
             /\ events' = Append(events, [server |-> windows[w].server, path |-> windows[w].path])
      BY <1>2, <1>13 DEF Applied, Chmods
    <2> QED BY <2>2, <2>3, <2>4
  (* the host answers a window that is gone *)
  <1>14. ASSUME NEW x, Saving(w), q.at = "gone", Answer(w, x), UNCHANGED <<payloads, events>>,
                faults' \in Nat,
                \/ host' = host /\ writers' = writers
                \/ /\ \E dir \in Listing : host' = [host EXCEPT ![q.server][q.dir] = dir]
                   /\ writers' = writers \cup {<<q.server, q.dir, w>>}
         PROVE  Acts
    <2>1. PICK r : r = Blank("gone")
      OBVIOUS
    <2>2. /\ r \in WindowSet /\ WindowForm(r) /\ r.at = "gone" /\ r.wire = "none"
      BY <2>1, BlankFacts
    <2>3. windows' = [windows EXCEPT ![w] = r] /\ q.wire = "sent"
      BY <1>2, <1>14, <2>1 DEF Answer, Set, Saving
    <2>4. q.server \in Servers /\ q.dir \in Dirs
      BY <1>4, <2>3
    <2> QED BY <1>1, <1>2, <1>14, <2>2, <2>3, <2>4, ActsBy
  (* and one that is open *)
  <1>15. Saving(w) => q.wire = "sent" /\ q.at \in {"open", "gone"} /\ q.step \in {"rename", "chmod"}
    BY <1>2, <1>3 DEF Saving, WindowForm, WindowSet
  <1>16. ASSUME Saving(w), q.at = "open", NEW x \in {"error", "refused"},
                Answer(w, [q EXCEPT !.wire = x]), UNCHANGED <<host, writers, payloads, events>>,
                faults' \in Nat,
                \/ x = "refused"
                \/ /\ q.step = "rename"
                   /\ host[q.server][q.dir][q.name] = Nothing \/ host[q.server][q.dir][q.draft.name] # Nothing
                \/ q.step = "chmod" /\ host[q.server][q.dir][q.draft.name] = Nothing
         PROVE  Acts
    <2>1. PICK r : r = [q EXCEPT !.wire = x, !.moved = q.moved]
      OBVIOUS
    <2>2. /\ r \in WindowSet /\ WindowForm(r) /\ r.at = "open" /\ r.wire = x /\ r.server = q.server
          /\ r.dir = q.dir
      <3>1. q.moved \in Names \cup {"none"}
        BY DEF WindowSet
      <3>2. q.wire = "sent" /\ q.at = "open" /\ WindowForm(q)
        BY <1>3, <1>15, <1>16
      <3>3. PICK mv \in Names \cup {"none"} : mv = q.moved
        BY <3>1
      <3>4. r = Heard(q, x, mv)
        BY <2>1, <3>3 DEF Heard
      <3>5. q \in WindowSet /\ x \in {"ok", "error", "refused"}
        BY <1>2
      <3> QED BY <3>2, <3>3, <3>4, <3>5, AnswerForm
    <2>3. windows' = [windows EXCEPT ![w] = r]
      <3>1. r = [q EXCEPT !.wire = x]
        BY <2>1 DEF WindowSet
      <3> QED BY <1>2, <1>16, <3>1 DEF Answer, Set
    <2>4. PICK dir \in Listing : dir = host[q.server][q.dir]
      BY <1>6, <1>16
    <2>5. PICK own \in BOOLEAN : own = (w \notin history.strays)
      OBVIOUS
    <2>6. OwnFile(q, dir, own) => OwnFile(r, dir, own)
      BY <1>3, <1>15, <1>16, <2>1, <2>4, RefusedSteps
    <2>7. OwnFile(q, host[q.server][q.dir], w \notin history.strays) => OwnFile(r, host'[q.server][q.dir], w \notin history.strays)
      BY <1>16, <2>4, <2>5, <2>6
    <2>8. w \notin payloads
      BY <1>3, <1>16
    <2> QED BY <1>1, <1>2, <1>15, <1>16, <2>2, <2>3, <2>7, <2>8, ActsBy
  <1>17. ASSUME Saving(w), q.at = "open", NEW dir \in Listing, NEW mv \in Names \cup {"none"}, Change(w, dir, mv),
                UNCHANGED <<payloads, events, faults>>,
                OwnFile(q, host[q.server][q.dir], w \notin history.strays)
                  => OwnFile([q EXCEPT !.wire = "ok", !.moved = mv], dir, w \notin history.strays)
         PROVE  Acts
    <2>1. PICK r : r = [q EXCEPT !.wire = "ok", !.moved = mv]
      OBVIOUS
    <2>2. /\ r \in WindowSet /\ WindowForm(r) /\ r.at = "open" /\ r.wire = "ok" /\ r.server = q.server
          /\ r.dir = q.dir
      <3>1. q.wire = "sent" /\ q.at = "open" /\ WindowForm(q)
        BY <1>3, <1>15, <1>17
      <3>2. PICK x \in {"ok", "error", "refused"} : x = "ok"
        OBVIOUS
      <3>3. r = Heard(q, x, mv)
        BY <2>1, <3>2 DEF Heard
      <3> QED BY <1>2, <3>1, <3>2, <3>3, AnswerForm
    <2>3. windows' = [windows EXCEPT ![w] = r]
      BY <1>2, <1>17, <2>1 DEF Change, Answer, Set
    <2>4. /\ host' = [host EXCEPT ![q.server][q.dir] = dir] /\ writers' = writers \cup {<<q.server, q.dir, w>>}
      BY <1>2, <1>17 DEF Change
    <2>5. q.server \in Servers /\ q.dir \in Dirs
      BY <1>4, <1>15, <1>17
    <2>6. host'[q.server][q.dir] = dir
      BY <1>1, <2>4, <2>5
    <2>7. OwnFile(q, host[q.server][q.dir], w \notin history.strays) => OwnFile(r, host'[q.server][q.dir], w \notin history.strays)
      BY <1>17, <2>1, <2>6
    <2>8. w \notin payloads
      BY <1>3, <1>17
    <2> QED BY <1>1, <1>2, <1>15, <1>17, <2>2, <2>3, <2>4, <2>5, <2>7, <2>8, ActsBy
  <1>21. ASSUME Saving(w), Reject(w), UNCHANGED <<payloads, events>>, faults' \in Nat
         PROVE  Acts
    <2>1. Answer(w, [q EXCEPT !.wire = "refused"]) /\ UNCHANGED <<host, writers>>
      BY <1>2, <1>21 DEF Reject
    <2>2. CASE q.at = "gone"
      BY <1>14, <1>21, <2>1, <2>2
    <2>3. CASE q.at = "open"
      BY <1>16, <1>21, <2>1, <2>3
    <2> QED BY <1>15, <1>21, <2>2, <2>3
  <1>18. ASSUME ServeRename(w)
         PROVE  Acts
    <2>1. /\ Saving(w) /\ q.step = "rename" /\ UNCHANGED <<payloads, events, faults>> /\ q.wire = "sent"
          /\ q.at \in {"open", "gone"}
      BY <1>2, <1>15, <1>18 DEF ServeRename
    <2>2. /\ q.server \in Servers /\ q.dir \in Dirs /\ q.name \in Names /\ q.draft.name \in Names
      BY <1>3, <1>4, <2>1 DEF WindowForm
    <2>3. PICK old \in Listing : old = host[q.server][q.dir] /\ old = Dir(w)
      BY <1>1, <1>2, <2>2 DEF Dir
    <2>4. PICK new : new = [old EXCEPT ![q.draft.name] = old[q.name], ![q.name] = Nothing]
      OBVIOUS
    <2>5. new \in Listing
      BY <2>2, <2>4, ConstFacts DEF Listing
    <2>6. CASE old[q.name] # Nothing /\ Change(w, new, q.draft.name)
      <3>1. CASE q.at = "gone"
        <4>1. PICK x : Answer(w, x) /\ host' = [host EXCEPT ![q.server][q.dir] = new]
                       /\ writers' = writers \cup {<<q.server, q.dir, w>>}
          BY <1>2, <2>6 DEF Change
        <4> QED BY <1>1, <1>14, <2>1, <2>5, <3>1, <4>1
      <3>2. CASE q.at = "open"
        <4>1. PICK own \in BOOLEAN : own = (w \notin history.strays)
          OBVIOUS
        <4>2. OwnFile(q, old, own) => OwnFile([q EXCEPT !.wire = "ok", !.moved = q.draft.name], new, own)
          BY <1>3, <2>1, <2>4, <2>6, <3>2, RenamedStep
        <4> QED BY <1>17, <2>1, <2>2, <2>3, <2>5, <2>6, <3>2, <4>1, <4>2
      <3> QED BY <2>1, <3>1, <3>2
    <2>7. CASE (old[q.name] = Nothing \/ old[q.draft.name] # Nothing) /\ Fail(w)
      <3>1. Answer(w, [q EXCEPT !.wire = "error"]) /\ UNCHANGED <<host, writers>>
        BY <1>2, <2>7 DEF Fail
      <3>2. CASE q.at = "gone"
        BY <1>1, <1>14, <2>1, <3>1, <3>2
      <3>3. CASE q.at = "open"
        BY <1>1, <1>16, <2>1, <2>3, <2>7, <3>1, <3>3
      <3> QED BY <2>1, <3>2, <3>3
    <2>8. CASE Reject(w)
      BY <1>1, <1>21, <2>1, <2>8
    <2> QED BY <1>2, <1>18, <2>3, <2>4, <2>6, <2>7, <2>8 DEF ServeRename
  <1>19. ASSUME ServeChmod(w)
         PROVE  Acts
    <2>1. /\ Saving(w) /\ q.step = "chmod" /\ UNCHANGED <<payloads, events, faults>> /\ q.wire = "sent"
          /\ q.at \in {"open", "gone"}
      BY <1>2, <1>15, <1>19 DEF ServeChmod
    <2>2. /\ q.server \in Servers /\ q.dir \in Dirs /\ q.draft.name \in Names /\ q.draft.mode \in Modes
      BY <1>3, <1>4, <2>1 DEF WindowForm
    <2>3. PICK old \in Listing : old = host[q.server][q.dir] /\ old = Dir(w)
      BY <1>1, <1>2, <2>2 DEF Dir
    <2>4. PICK new : new = [old EXCEPT ![q.draft.name].mode = q.draft.mode]
      OBVIOUS
    <2>5. new \in Listing
      <3>1. old[q.draft.name] \in Entry
        BY <2>2 DEF Listing
      <3>2. [old[q.draft.name] EXCEPT !.mode = q.draft.mode] \in Entry
        BY <2>2, <3>1 DEF Entry
      <3> QED BY <2>4, <3>2 DEF Listing
    <2>6. EffectiveName(w) = q.draft.name
      BY <1>2 DEF EffectiveName, Renames
    <2>7. CASE old[q.draft.name] # Nothing /\ Change(w, new, q.moved)
      <3>1. CASE q.at = "gone"
        <4>1. PICK x : Answer(w, x) /\ host' = [host EXCEPT ![q.server][q.dir] = new]
                       /\ writers' = writers \cup {<<q.server, q.dir, w>>}
          BY <1>2, <2>7 DEF Change
        <4> QED BY <1>1, <1>14, <2>1, <2>5, <3>1, <4>1
      <3>2. CASE q.at = "open"
        <4>1. PICK own \in BOOLEAN : own = (w \notin history.strays)
          OBVIOUS
        <4>2. OwnFile(q, old, own) => OwnFile([q EXCEPT !.wire = "ok", !.moved = q.moved], new, own)
          BY <1>3, <2>1, <2>4, <2>7, <3>2, ChmodStep
        <4>3. q.moved \in Names \cup {"none"}
          BY DEF WindowSet
        <4> QED BY <1>17, <2>1, <2>3, <2>5, <2>7, <3>2, <4>1, <4>2, <4>3
      <3> QED BY <2>1, <3>1, <3>2
    <2>8. CASE old[q.draft.name] = Nothing /\ Fail(w)
      <3>1. Answer(w, [q EXCEPT !.wire = "error"]) /\ UNCHANGED <<host, writers>>
        BY <1>2, <2>8 DEF Fail
      <3>2. CASE q.at = "gone"
        BY <1>1, <1>14, <2>1, <3>1, <3>2
      <3>3. CASE q.at = "open"
        BY <1>1, <1>16, <2>1, <2>3, <2>8, <3>1, <3>3
      <3> QED BY <2>1, <3>2, <3>3
    <2> QED BY <1>2, <1>19, <2>3, <2>4, <2>6, <2>7, <2>8 DEF ServeChmod
  <1>20. ASSUME ServeFails(w)
         PROVE  Acts
    <2>1. Saving(w) /\ Reject(w) /\ faults' \in Nat /\ UNCHANGED <<payloads, events>>
      BY <1>1, <1>20 DEF ServeFails
    <2> QED BY <1>21, <2>1
  <1> QED BY <1>7, <1>8, <1>9, <1>10, <1>11, <1>12, <1>13, <1>18, <1>19, <1>20
          DEF OfWindow, Page, Backend, Visitor

-----------------------------------------------------------------------------
(* The invariant holds at the start.                                       *)
LEMMA InitIInv ==
  ASSUME Init
  PROVE  IInv
  <1>1. /\ session \in Servers /\ session # Away
        /\ snapshot = [of |-> session, path |-> Root, entries |-> Before[session][Root]]
        /\ path = Root /\ busy = FALSE /\ menu = NoMenu /\ host = Before
        /\ windows = [w \in Windows |-> Off] /\ payloads = {} /\ events = <<>> /\ writers = {}
        /\ faults = 0 /\ ops = [o \in Slots |-> Idle]
        /\ history = [excused |-> FALSE, crossed |-> FALSE, wrong |-> FALSE, strays |-> {}]
    BY TabAssumption DEF Init
  <1>2. Root \in Dirs /\ Before[session][Root] \in Listing
    BY <1>1, ConstFacts
  <1>3. /\ snapshot.of = session /\ snapshot.path = Root /\ snapshot.entries = Before[session][Root]
        /\ snapshot \in [of : Servers \cup {Away}, path : Dirs, entries : Listing]
    BY <1>1, <1>2
  <1>4. Before \in [Servers -> [Dirs -> Listing]]
    BY ConstFacts DEF Before
  <1>5. Busy = {} /\ Mine = {}
    BY <1>1 DEF Busy, Mine
  <1>6. /\ history \in HistorySet /\ ~ history.excused /\ ~ history.crossed /\ ~ history.wrong
    BY <1>1 DEF HistorySet
  <1>7. \A w \in Windows : windows[w] = Off
    BY <1>1
  <1>8. Types
    <2>1. host \in [Servers -> [Dirs -> Listing]] /\ ops \in [Slots -> JobSet \cup {Idle}]
      BY <1>1, <1>4
    <2>2. /\ windows \in [Windows -> WindowSet \cup {Off}] /\ payloads \subseteq Windows
          /\ events \in Seq([server : Servers, path : Dirs])
          /\ writers \subseteq Servers \X Dirs \X (Windows \cup {OfTab})
      BY <1>1
    <2>3. menu \in [of : Servers \cup {Away}, path : Dirs, name : Names \cup {"none"}, entry : Entry]
      BY <1>1, ConstFacts
    <2>4. faults \in Nat /\ session \in Servers \cup {Away} /\ path \in Dirs /\ busy \in BOOLEAN
      BY <1>1, <1>2
    <2> QED BY <1>3, <1>6, <2>1, <2>2, <2>3, <2>4 DEF Types
  <1>9. HostInv /\ JobInv /\ MenuInv
    BY <1>1, <1>5 DEF HostInv, FromStart, JobInv, MenuInv
  <1>10. TabInv
    BY <1>1, <1>3, <1>5, <1>6 DEF TabInv, FromStart
  <1>11. FreshInv
    BY <1>1, <1>3, <1>5, <1>7 DEF FreshInv
  <1>12. WindowInv /\ DeletedWasChosen
    BY <1>1, <1>6, <1>7 DEF WindowInv, OwnInv, PayloadsAreTaken, DeletedWasChosen
  <1> QED BY <1>8, <1>9, <1>10, <1>11, <1>12 DEF IInv

(* Every step keeps it.                                                    *)
LEMMA NextIInv ==
  ASSUME IInv, [Next]_vars
  PROVE  IInv'
  <1>0. Types /\ TabInv
    BY DEF IInv
  <1>1. CASE User
    <2>1. Starts => IInv'
      BY StartsKeep
    <2>2. Looks => IInv'
      BY LooksKeep
    <2>3. ASSUME NEW s \in Servers, SwitchTab(s) PROVE IInv'
      BY <1>0, <2>1, <2>3, StartsFacts
    <2>4. ASSUME NEW d \in Dirs, Load(d) PROVE IInv'
      BY <1>0, <2>1, <2>4, StartsFacts
    <2>5. ASSUME NEW n \in Names, SelectEntry(n) \/ DragOut(n) \/ OpenMenu(n) PROVE IInv'
      BY <2>2, <2>5, LooksFacts
    <2>6. ASSUME NEW n \in Typed, CreateFolder(n) \/ Upload(n) PROVE IInv'
      <3>1. n \in Names
        BY TabAssumption
      <3> QED BY <1>0, <2>1, <2>6, <3>1, StartsFacts
    <2>7. ASSUME NEW w \in Windows, OpenProperties(w) PROVE IInv'
      BY <2>7, OpensKeep
    <2>8. CASE Renders \/ DeleteSelected \/ DownloadSelected
      BY <1>0, <2>1, <2>8, StartsFacts
    <2>9. CASE LeaveTab
      BY <2>9, LeaveKeeps
    <2>10. CASE ShowHidden
      BY <2>2, <2>10, LooksFacts
    <2> QED BY <1>1, <2>3, <2>4, <2>5, <2>6, <2>7, <2>8, <2>9, <2>10 DEF User
  <1>2. CASE HearResult
    <2>1. CASE Head(events).server = session
      BY <1>0, <1>2, <2>1, StartsFacts, StartsKeep
    <2>2. CASE Head(events).server # session
      BY <1>2, <2>2, LooksFacts, LooksKeep
    <2> QED BY <2>1, <2>2
  <1>3. ASSUME NEW o \in Slots, Tab(o) PROVE IInv'
    BY <1>3, TabFacts, GoesKeep
  <1>4. ASSUME NEW o \in Slots, Host(o) PROVE IInv'
    BY <1>4, HostFacts, GoesKeep
  <1>5. ASSUME NEW w \in Windows, OfWindow(w) PROVE IInv'
    BY <1>5, WindowFacts, ActsKeep
  <1>6. CASE UNCHANGED vars
    <2>1. /\ UNCHANGED <<host, windows, payloads, writers, faults, session, snapshot, path, busy, ops, history>>
          /\ menu' = menu /\ events' = events
      BY <1>6 DEF vars, propertiesVars, view
    <2>2. Looks
      BY <2>1 DEF Looks
    <2> QED BY <2>2, LooksKeep
  <1> QED BY <1>1, <1>2, <1>3, <1>4, <1>5, <1>6 DEF Next

LEMMA SpecIInv == Spec => []IInv
  BY InitIInv, NextIInv, PTL DEF Spec

(* A file tab lists the host of its own session, unless another tab was    *)
(* left with an operation under way.  When all is quiet it lists what is   *)
(* there, unless operations overlapped or failed: an operation, and the    *)
(* storage event of a properties window, always end in a new listing       *)
(* (loadDirectory of FileBrowserView, handleStorage).                      *)
THEOREM ListingAlwaysTrue == Spec => []ListingIsTrue
  <1>1. ASSUME IInv
        PROVE  ListingIsTrue
    <2>1. Types /\ TabInv /\ FreshInv
      BY <1>1 DEF IInv
    <2>2. TypeOK
      BY <2>1 DEF Types, TabInv, TypeOK, Listing, Entry, Ids
    <2>3. ListingIsOfTab
      BY <2>1 DEF TabInv, ListingIsOfTab
    <2>4. ChangeIsListed
      <3> SUFFICES ASSUME Busy = {}, events = <<>>, session # Away, snapshot # Null,
                          \A w \in Windows : windows[w] # Off => windows[w].wire = "none",
                          ~ history.excused,
                          snapshot.entries # host[snapshot.of][snapshot.path]
                   PROVE  FALSE
        BY DEF ChangeIsListed
      <3>1. Tells(session)
        BY <2>1 DEF FreshInv
      <3> QED BY <3>1 DEF Tells
    <2> QED BY <2>2, <2>3, <2>4 DEF ListingIsTrue
  <1> QED BY <1>1, SpecIInv, PTL

(* What is deleted is the file that was listed under its name when the     *)
(* user confirmed, although the command only carries a path                *)
(* (deleteRemoteEntry): unless somebody changed the directory since, or    *)
(* the tab showed what an operation of the tab before it had found.        *)
THEOREM DeletedAlwaysChosen == Spec => []DeletedWasChosen
  <1>1. IInv => DeletedWasChosen
    BY DEF IInv
  <1> QED BY <1>1, SpecIInv, PTL

(* A properties window that reports success has done what it was asked,    *)
(* name and mode, on the file it was opened for, and shows an error only   *)
(* with a cause, where nobody else changed the directory; its entry does   *)
(* not stay in the local storage (handleApply).                             *)
THEOREM ReportsAlwaysTrue == Spec => []ReportsAreTrue
  <1>1. ASSUME IInv
        PROVE  ReportsAreTrue
    <2>1. WindowInv
      BY <1>1 DEF IInv
    <2>2. DoneIsApplied
      <3> SUFFICES ASSUME NEW w \in Windows, windows[w] # Off, windows[w].at = "done", Alone(w)
                   PROVE  LET now == Dir(w)[windows[w].draft.name] IN
                          /\ now # Nothing
                          /\ w \notin history.strays =>
                               now.id = windows[w].seen.id /\ now.mode = windows[w].draft.mode
        BY DEF DoneIsApplied
      <3>1. OwnFile(windows[w], Dir(w), w \notin history.strays)
        BY <2>1 DEF WindowInv, OwnInv, Dir
      <3>2. Moved(windows[w]) /\ ModeOf(windows[w]) = windows[w].draft.mode
        BY DEF Moved, ModeOf
      <3>3. Dir(w)[windows[w].draft.name] # Nothing
        BY <3>1, <3>2 DEF OwnFile
      <3>4. w \notin history.strays =>
              Dir(w)[windows[w].draft.name] = [id |-> windows[w].seen.id, mode |-> windows[w].draft.mode]
        BY <3>1, <3>2 DEF OwnFile
      <3> QED BY <3>3, <3>4
    <2>3. ShownIsThere
      <3> SUFFICES ASSUME NEW w \in Windows, windows[w] # Off, windows[w].at = "open", windows[w].wire = "none",
                          Alone(w), w \notin history.strays
                   PROVE  Dir(w)[Place(windows[w])] = windows[w].seen
        BY DEF ShownIsThere, Place
      <3>1. PICK r \in WindowSet : r = windows[w]
        BY <1>1 DEF IInv, Types
      <3>2. OwnFile(r, Dir(w), TRUE) /\ WindowForm(r)
        BY <2>1, <3>1 DEF WindowInv, OwnInv, Dir
      <3>3. ModeOf(r) = r.seen.mode
        BY <3>1, <3>2 DEF WindowForm, ModeOf
      <3>4. r.seen = [id |-> r.seen.id, mode |-> r.seen.mode]
        BY <3>1 DEF WindowSet, Entry
      <3> QED BY <3>1, <3>2, <3>3, <3>4 DEF OwnFile
    <2>4. ErrorHasCause
      <3> SUFFICES ASSUME NEW w \in Windows, windows[w] # Off, windows[w].error = "error", Alone(w),
                          w \notin history.strays
                   PROVE  \/ windows[w].moved # "none"
                          \/ /\ Dir(w)[windows[w].draft.name] # Nothing
                             /\ Dir(w)[windows[w].draft.name].id # windows[w].seen.id
        BY DEF ErrorHasCause
      <3>1. windows[w].at = "open"
        BY <2>1 DEF WindowInv, WindowForm
      <3>2. OwnFile(windows[w], Dir(w), w \notin history.strays) /\ Failed(windows[w])
        BY <2>1, <3>1 DEF WindowInv, OwnInv, Dir, Failed
      <3> QED BY <3>2 DEF OwnFile
    <2> QED BY <2>1, <2>2, <2>3, <2>4 DEF WindowInv, ReportsAreTrue
  <1> QED BY <1>1, SpecIInv, PTL
=============================================================================
