------------------------- MODULE SessionStoreProofs -------------------------
(***************************************************************************)
(* Proofs about the store of sessions, folders and macros, for every set   *)
(* of items, every number of actions under way and every import file: what *)
(* the window shows was saved, it agrees with the disk once calm, and      *)
(* nothing disappears unseen.                                              *)
(***************************************************************************)
EXTENDS SessionStore, FiniteSetTheorems, SequenceTheorems, TLAPS

OpKinds == {"put", "move", "drop", "moveTree", "dropTree", "import"}

Served(s) == \E i \in 1 .. served : line[i] = s

(* An action at any moment: what is left of it is about its own items.     *)
OpOK(o) ==
  /\ o \in [kind : OpKinds, todo : Seq(o.ids), ids : SUBSET Ids, new : [o.ids -> Kept],
            root : Kept, ok : BOOLEAN]
  /\ IsFiniteSet(o.ids) /\ o.todo # <<>> /\ IsInjective(o.todo)
  /\ \A x \in o.ids \cap Macros : o.new[x] \in {Root, Gone}
  /\ o.kind \in {"put", "move", "moveTree", "import"} => \A x \in o.ids : o.new[x] # Gone
  /\ o.kind \in {"drop", "dropTree"} => \A x \in o.ids : o.new[x] = Gone
  /\ o.kind = "dropTree" => \E f \in Folders : o.ids = {f}

(* An action of which nothing has been sent yet.                           *)
NewOp(o) == OpOK(o) /\ o.ok /\ ToSet(o.todo) = o.ids

OpsInv ==
  /\ line \in Seq(Slots) /\ IsInjective(line) /\ served \in 0 .. Len(line)
  /\ DOMAIN ops = Slots /\ ToSet(line) = Running
  /\ \A s \in Running : OpOK(ops[s]) /\ (Served(s) \/ ops[s].ok)

(* What an action has written so far.                                      *)
Written(s) ==
  {x \in ops[s].ids : x \notin ToSet(ops[s].todo)
                       \/ (Served(s) /\ ops[s].ok /\ x = Head(ops[s].todo))}

AcceptedInv ==
  /\ accepted \subseteq Ids \X Paths
  /\ \A s \in Running : \A x \in Written(s) :
       ops[s].new[x] # Gone => <<x, ops[s].new[x]>> \in accepted

Dropping == {s \in Running : ops[s].kind = "dropTree"}

(* While nothing has got in the way, an item differs between window and    *)
(* disk only if the one action about it has written it.                    *)
SyncInv ==
  ~ tangled =>
    /\ \A s, u \in Running : s # u => Apart(ops[s], ops[u])
    /\ \A s \in Running \ Dropping : \A x \in ops[s].ids :
         disk[x] = IF x \in Written(s) THEN ops[s].new[x] ELSE window[x]
    /\ \A x \in Ids : Dropping = {} /\ (\A s \in Running : x \notin ops[s].ids)
         => disk[x] = window[x]
    /\ \A s \in Running : ops[s].kind \in {"move", "moveTree"} =>
         \A x \in ops[s].ids : window[x] # Gone
    /\ \A s \in Dropping : \A f \in ops[s].ids :
         /\ ops[s].root = window[f] /\ window[f] # Gone
         /\ disk = IF Served(s) /\ ops[s].ok
                     THEN [y \in Ids |-> IF y \in Subtree(window, window[f]) THEN Gone ELSE window[y]]
                     ELSE window

(* What is to disappear was seen.                                          *)
SeenInv ==
  /\ dialog = NoOne \/ dialog \in [id : Folders, path : Kept, busy : BOOLEAN]
  /\ ~ tangled =>
    /\ NoSilentLoss
    /\ \A s \in Running : ops[s].kind = "drop" => ops[s].ids \subseteq condemned
    /\ \A s \in Dropping : \A f \in ops[s].ids : Subtree(window, window[f]) \subseteq condemned
    /\ dialog # NoOne =>
         /\ window[dialog.id] = dialog.path /\ dialog.path # Gone
         /\ Running = Dropping /\ \A s \in Running : dialog.id \in ops[s].ids
         /\ ~ dialog.busy => Running = {}

IInv == TypeOK /\ ShownWasSaved /\ OpsInv /\ AcceptedInv /\ SyncInv /\ SeenInv

-----------------------------------------------------------------------------
(* Sequences without repetitions, and paths.                               *)

LEMMA Members ==
  ASSUME NEW S, NEW q \in Seq(S)
  PROVE  /\ ToSet(q) = {q[i] : i \in 1 .. Len(q)}
         /\ ToSet(q) \subseteq S
  BY LenProperties, ElementOfSeq DEF ToSet

LEMMA Enumerated ==
  ASSUME NEW S, IsFiniteSet(S)
  PROVE  /\ SetToSeq(S) \in Seq(S)
         /\ IsInjective(SetToSeq(S))
         /\ ToSet(SetToSeq(S)) = S
  <1> DEFINE n == Cardinality(S)
             f == SetToSeq(S)
  <1>1. n \in Nat /\ ExistsBijection(1 .. n, S)
    BY FS_CardinalityType
  <1>2. \E g \in [1 .. n -> S] : IsInjective(g)
    BY <1>1 DEF ExistsBijection, Bijection, Injection
  <1>3. f \in [1 .. n -> S] /\ IsInjective(f)
    BY <1>2 DEF SetToSeq
  <1>4. f \in Seq(S)
    BY <1>1, <1>3, SeqDef
  <1>5. f \in Injection(1 .. n, S)
    BY <1>3 DEF Injection
  <1>6. IsFiniteSet(1 .. n) /\ Cardinality(1 .. n) = n
    BY <1>1, FS_Interval
  <1>7. f \in Surjection(1 .. n, S)
    BY <1>5, <1>6, FS_Injection
  <1>8. ToSet(f) = S
    BY <1>3, <1>7 DEF ToSet, Surjection
  <1> QED BY <1>3, <1>4, <1>8

LEMMA Joined ==
  ASSUME NEW S, NEW T, S \cap T = {},
         NEW p \in Seq(S), NEW q \in Seq(T), IsInjective(p), IsInjective(q)
  PROVE  /\ p \o q \in Seq(S \cup T)
         /\ IsInjective(p \o q)
         /\ \A x : x \in ToSet(p \o q) <=> x \in ToSet(p) \/ x \in ToSet(q)
  <1> DEFINE r == p \o q
             U == S \cup T
  <1>1. p \in Seq(U) /\ q \in Seq(U)
    BY SeqMonotonic
  <1>2. /\ r \in Seq(U) /\ Len(r) = Len(p) + Len(q)
        /\ \A i \in 1 .. Len(p) + Len(q) : r[i] = IF i <= Len(p) THEN p[i] ELSE q[i - Len(p)]
    BY <1>1, ConcatProperties
  <1>3. /\ DOMAIN p = 1 .. Len(p) /\ DOMAIN q = 1 .. Len(q) /\ DOMAIN r = 1 .. Len(r)
        /\ Len(p) \in Nat /\ Len(q) \in Nat
        /\ \A i \in 1 .. Len(p) : p[i] \in S
        /\ \A i \in 1 .. Len(q) : q[i] \in T
    BY <1>2, LenProperties
  <1> HIDE DEF r
  <1>4. IsInjective(r)
    <2> SUFFICES ASSUME NEW i \in 1 .. Len(r), NEW j \in 1 .. Len(r), r[i] = r[j]
                 PROVE  i = j
      BY <1>3 DEF IsInjective
    <2>1. CASE i <= Len(p) /\ j <= Len(p)
      <3>1. i \in 1 .. Len(p) /\ j \in 1 .. Len(p)
        BY <1>2, <1>3, <2>1
      <3>2. p[i] = p[j]
        BY <1>2, <2>1
      <3> QED BY <1>3, <3>1, <3>2 DEF IsInjective
    <2>2. CASE ~ (i <= Len(p)) /\ ~ (j <= Len(p))
      <3>1. i - Len(p) \in 1 .. Len(q) /\ j - Len(p) \in 1 .. Len(q)
        BY <1>2, <1>3, <2>2
      <3>2. q[i - Len(p)] = q[j - Len(p)]
        BY <1>2, <2>2
      <3>3. i - Len(p) = j - Len(p)
        BY <1>3, <3>1, <3>2 DEF IsInjective
      <3> QED BY <1>3, <3>3
    <2>3. CASE i <= Len(p) /\ ~ (j <= Len(p))
      <3>1. r[i] \in S
        BY <1>2, <1>3, <2>3
      <3>2. j - Len(p) \in 1 .. Len(q) /\ r[j] = q[j - Len(p)]
        BY <1>2, <1>3, <2>3
      <3>3. r[j] \in T
        BY <1>3, <3>2
      <3> QED BY <3>1, <3>3
    <2>4. CASE ~ (i <= Len(p)) /\ j <= Len(p)
      <3>1. r[j] \in S
        BY <1>2, <1>3, <2>4
      <3>2. i - Len(p) \in 1 .. Len(q) /\ r[i] = q[i - Len(p)]
        BY <1>2, <1>3, <2>4
      <3>3. r[i] \in T
        BY <1>3, <3>2
      <3> QED BY <3>1, <3>3
    <2> QED BY <2>1, <2>2, <2>3, <2>4
  <1>5. ToSet(r) \subseteq ToSet(p) \cup ToSet(q)
    <2> SUFFICES ASSUME NEW i \in 1 .. Len(r) PROVE r[i] \in ToSet(p) \cup ToSet(q)
      BY <1>3 DEF ToSet
    <2>1. CASE i <= Len(p)
      BY <1>2, <1>3, <2>1 DEF ToSet
    <2>2. CASE ~ (i <= Len(p))
      <3>1. i - Len(p) \in 1 .. Len(q) /\ r[i] = q[i - Len(p)]
        BY <1>2, <1>3, <2>2
      <3> QED BY <1>3, <3>1 DEF ToSet
    <2> QED BY <2>1, <2>2
  <1>6. ToSet(p) \subseteq ToSet(r)
    BY <1>2, <1>3 DEF ToSet
  <1>7. ToSet(q) \subseteq ToSet(r)
    <2> SUFFICES ASSUME NEW i \in 1 .. Len(q) PROVE q[i] \in ToSet(r)
      BY <1>3 DEF ToSet
    <2>1. Len(p) + i \in 1 .. Len(r) /\ ~ (Len(p) + i <= Len(p)) /\ (Len(p) + i) - Len(p) = i
      BY <1>2, <1>3
    <2>2. r[Len(p) + i] = q[i]
      BY <1>2, <2>1
    <2> QED BY <1>3, <2>1, <2>2 DEF ToSet
  <1> QED BY <1>2, <1>4, <1>5, <1>6, <1>7 DEF r

(* The first of a sequence without repetitions, and the others.            *)
LEMMA Tailed ==
  ASSUME NEW S, NEW q \in Seq(S), q # <<>>, IsInjective(q)
  PROVE  /\ Len(q) \in Nat \ {0} /\ Head(q) = q[1] /\ Head(q) \in ToSet(q)
         /\ Tail(q) \in Seq(S) /\ Len(Tail(q)) = Len(q) - 1
         /\ \A i \in 1 .. Len(q) - 1 : Tail(q)[i] = q[i + 1]
         /\ IsInjective(Tail(q))
         /\ ToSet(Tail(q)) = ToSet(q) \ {Head(q)}
         /\ Len(q) <= 1 => ToSet(q) = {Head(q)}
  <1>1. /\ Len(q) \in Nat \ {0} /\ DOMAIN q = 1 .. Len(q) /\ Head(q) = q[1]
    BY EmptySeq, LenProperties
  <1>2. /\ Tail(q) \in Seq(S) /\ Len(Tail(q)) = Len(q) - 1
        /\ \A i \in 1 .. Len(Tail(q)) : Tail(q)[i] = q[i + 1]
    BY HeadTailProperties
  <1>3. DOMAIN Tail(q) = 1 .. Len(q) - 1
    BY <1>2, LenProperties
  <1>4. IsInjective(Tail(q))
    <2> SUFFICES ASSUME NEW i \in 1 .. Len(q) - 1, NEW j \in 1 .. Len(q) - 1,
                        Tail(q)[i] = Tail(q)[j]
                 PROVE  i = j
      BY <1>3 DEF IsInjective
    <2>1. i + 1 \in DOMAIN q /\ j + 1 \in DOMAIN q /\ q[i + 1] = q[j + 1]
      BY <1>1, <1>2
    <2>2. i + 1 = j + 1
      BY <2>1 DEF IsInjective
    <2> QED BY <2>2
  <1>5. ToSet(Tail(q)) \subseteq ToSet(q) \ {Head(q)}
    <2> SUFFICES ASSUME NEW i \in 1 .. Len(q) - 1
                 PROVE  Tail(q)[i] \in ToSet(q) \ {Head(q)}
      BY <1>3 DEF ToSet
    <2>1. i + 1 \in DOMAIN q /\ 1 \in DOMAIN q /\ Tail(q)[i] = q[i + 1]
      BY <1>1, <1>2
    <2>2. q[i + 1] # q[1]
      BY <2>1 DEF IsInjective
    <2> QED BY <1>1, <2>1, <2>2 DEF ToSet
  <1>6. ToSet(q) \ {Head(q)} \subseteq ToSet(Tail(q))
    <2> SUFFICES ASSUME NEW i \in 1 .. Len(q), i # 1
                 PROVE  q[i] \in ToSet(Tail(q))
      BY <1>1 DEF ToSet
    <2>1. i - 1 \in 1 .. Len(q) - 1 /\ Tail(q)[i - 1] = q[i]
      BY <1>1, <1>2
    <2> QED BY <1>3, <2>1 DEF ToSet
  <1>7. Head(q) \in ToSet(q)
    BY <1>1 DEF ToSet
  <1>8. Len(q) <= 1 => ToSet(q) = {Head(q)}
    BY <1>1 DEF ToSet
  <1> QED BY <1>1, <1>2, <1>4, <1>5, <1>6, <1>7, <1>8

(* Something new at the end.                                               *)
LEMMA Appended ==
  ASSUME NEW S, NEW q \in Seq(S), IsInjective(q), NEW e \in S, e \notin ToSet(q)
  PROVE  /\ Append(q, e) \in Seq(S) /\ Len(Append(q, e)) = Len(q) + 1
         /\ \A i \in 1 .. Len(q) : Append(q, e)[i] = q[i]
         /\ IsInjective(Append(q, e))
         /\ ToSet(Append(q, e)) = ToSet(q) \cup {e}
  <1> DEFINE r == Append(q, e)
  <1>1. /\ r \in Seq(S) /\ Len(r) = Len(q) + 1
        /\ \A i \in 1 .. Len(q) : r[i] = q[i]
        /\ r[Len(q) + 1] = e
    BY AppendProperties
  <1>2. /\ Len(q) \in Nat /\ DOMAIN q = 1 .. Len(q) /\ DOMAIN r = 1 .. Len(q) + 1
    BY <1>1, LenProperties
  <1>3. \A i \in 1 .. Len(q) : q[i] # e
    BY <1>2 DEF ToSet
  <1> HIDE DEF r
  <1>4. IsInjective(r)
    BY <1>1, <1>2, <1>3 DEF IsInjective
  <1>5. ToSet(r) = ToSet(q) \cup {e}
    BY <1>1, <1>2 DEF ToSet
  <1> QED BY <1>1, <1>4, <1>5 DEF r

(* As many left as there are items: none has been done.                    *)
LEMMA NothingDone ==
  ASSUME NEW S, IsFiniteSet(S), NEW q \in Seq(S), IsInjective(q), Len(q) >= Cardinality(S)
  PROVE  ToSet(q) = S
  <1>1. /\ Len(q) \in Nat /\ q \in [1 .. Len(q) -> S] /\ DOMAIN q = 1 .. Len(q)
    BY LenProperties
  <1>2. q \in Injection(1 .. Len(q), S)
    BY <1>1 DEF Injection
  <1>3. IsFiniteSet(1 .. Len(q)) /\ Cardinality(1 .. Len(q)) = Len(q)
    <2>1. 1 \in Int /\ Len(q) \in Int
      BY <1>1
    <2>2. IsFiniteSet(1 .. Len(q)) /\ Cardinality(1 .. Len(q)) = IF 1 > Len(q) THEN 0 ELSE Len(q) - 1 + 1
      BY <2>1, FS_Interval
    <2> QED BY <1>1, <2>2
  <1>4. Cardinality(S) \in Nat
    BY FS_CardinalityType
  <1>5. Len(q) <= Cardinality(S)
    BY <1>2, <1>3, FS_Injection
  <1>6. q \in Surjection(1 .. Len(q), S)
    BY <1>1, <1>2, <1>3, <1>4, <1>5, FS_Injection
  <1> QED BY <1>1, <1>6 DEF Surjection, ToSet

LEMMA PathsAreSequences ==
  /\ \A p \in Paths : p \in Seq(Names) /\ Len(p) \in 0 .. MaxDepth
  /\ \A p \in Seq(Names) : Len(p) <= MaxDepth => p \in Paths
  /\ Gone \notin Paths /\ Root \in Paths
  <1>1. \A p \in Paths : p \in Seq(Names) /\ Len(p) \in 0 .. MaxDepth
    <2> SUFFICES ASSUME NEW n \in 0 .. MaxDepth, NEW p \in [1 .. n -> Names]
                 PROVE  p \in Seq(Names) /\ Len(p) \in 0 .. MaxDepth
      BY DEF Paths
    <2>1. n \in Nat
      BY StoreAssumption
    <2>2. p \in Seq(Names)
      BY <2>1, SeqDef
    <2>3. Len(p) = n
      BY <2>1, <2>2
    <2> QED BY <2>2, <2>3
  <1>2. \A p \in Seq(Names) : Len(p) <= MaxDepth => p \in Paths
    BY StoreAssumption, LenProperties DEF Paths
  <1>3. Gone \notin Paths
    <2>1. Gone \notin Seq(Names)
      BY StoreAssumption DEF Gone
    <2> QED BY <1>1, <2>1
  <1>4. Root \in Paths
    <2>1. Root \in Seq(Names) /\ Len(Root) = 0 /\ 0 <= MaxDepth
      BY StoreAssumption DEF Root
    <2> QED BY <1>2, <2>1
  <1> QED BY <1>1, <1>2, <1>3, <1>4

LEMMA PrefixesArePaths ==
  ASSUME NEW p \in Paths, NEW n \in 1 .. Len(p)
  PROVE  SubSeq(p, 1, n) \in Paths
  <1>1. p \in Seq(Names) /\ Len(p) \in 0 .. MaxDepth
    BY PathsAreSequences
  <1>2. \A i \in 1 .. n : p[i] \in Names
    BY <1>1, ElementOfSeq
  <1>3. SubSeq(p, 1, n) \in Seq(Names) /\ Len(SubSeq(p, 1, n)) = n
    BY <1>1, <1>2, SubSeqProperties
  <1> DEFINE r == SubSeq(p, 1, n)
  <1>4. r \in Seq(Names) /\ Len(r) <= MaxDepth
    BY <1>1, <1>3, StoreAssumption
  <1> HIDE DEF r
  <1>5. r \in Paths
    BY <1>4, PathsAreSequences
  <1> QED BY <1>5 DEF r

LEMMA PlacesArePaths == TypeOK => Places \subseteq Paths
  <1> SUFFICES ASSUME TypeOK PROVE TreeFolders \subseteq Paths
    BY PathsAreSequences DEF Places
  <1>1. \A x \in There(window) : window[x] \in Paths
    BY DEF TypeOK, There, Kept
  <1>2. \A x \in There(window) : {SubSeq(window[x], 1, n) : n \in 1 .. Len(window[x])} \subseteq Paths
    BY <1>1, PrefixesArePaths
  <1> QED BY <1>2, Zenon DEF TreeFolders

LEMMA FoldersOfImportArePaths == FoldersOfImport \subseteq Paths
  <1>1. \A k \in Bookmarks : k.path \in Paths
    BY StoreAssumption
  <1>2. \A k \in Bookmarks : Ancestors(k.path) \subseteq Paths
    BY <1>1, PrefixesArePaths DEF Ancestors
  <1> QED BY <1>2, Zenon DEF FoldersOfImport

(* A folder is in its own subtree.                                         *)
LEMMA RootOfSubtree ==
  ASSUME NEW state, NEW f \in Folders, state[f] \in Paths
  PROVE  f \in Subtree(state, state[f])
  <1>1. Len(state[f]) \in Nat /\ state[f] # Gone
    BY PathsAreSequences
  <1> QED BY <1>1 DEF Subtree, Within, IsPrefix

-----------------------------------------------------------------------------
(* Nothing is under way in the beginning.                                  *)

LEMMA InitIInv == Init => IInv
  <1> SUFFICES ASSUME Init PROVE IInv
    OBVIOUS
  <1>1. Running = {} /\ line = <<>> /\ ToSet(line) = {} /\ line \in Seq(Slots) /\ IsInjective(line)
    BY DEF Init, Running, ToSet, IsInjective
  <1>2. Len(line) = 0
    BY <1>1
  <1>3. TypeOK
    <2>1. window \in [Ids -> Kept] /\ disk \in [Ids -> Kept]
      BY DEF Init, Kept
    <2>2. \A x \in Macros : window[x] = Gone /\ disk[x] = Gone
      BY DEF Init, Ids
    <2> QED BY <1>1, <1>2, <2>1, <2>2 DEF Init, TypeOK
  <1>4. ShownWasSaved
    BY DEF Init, ShownWasSaved, There
  <1>5. OpsInv
    BY <1>1, <1>2 DEF Init, OpsInv
  <1>6. AcceptedInv
    BY <1>1 DEF Init, AcceptedInv
  <1>7. SyncInv
    BY <1>1 DEF Init, SyncInv, Dropping
  <1>8. SeenInv
    BY <1>1 DEF Init, SeenInv, NoSilentLoss, Dropping
  <1> QED BY <1>3, <1>4, <1>5, <1>6, <1>7, <1>8 DEF IInv

-----------------------------------------------------------------------------
(* An action begins: nothing of it has been written, and if it gets in     *)
(* nobody's way, window and disk agree about its items.                    *)

LEMMA BeginIInv ==
  ASSUME IInv, NEW o, Begin(o), NewOp(o),
         o.kind \in {"move", "moveTree"} => \A x \in o.ids : window[x] # Gone,
         condemned \subseteq condemned',
         o.kind = "drop" => o.ids \subseteq condemned',
         o.kind = "dropTree" /\ ~ tangled =>
           \A f \in o.ids : /\ o.root = window[f] /\ window[f] # Gone
                            /\ Subtree(window, window[f]) \subseteq condemned',
         \/ dialog = NoOne /\ dialog' = NoOne
         \/ /\ o.kind = "dropTree" /\ o.ids = {dialog.id}
            /\ dialog # NoOne /\ ~ dialog.busy /\ dialog' = [dialog EXCEPT !.busy = TRUE]
  PROVE  IInv'
  <1>1. PICK s \in Slots :
          /\ ops[s] = Free
          /\ ops' = [ops EXCEPT ![s] = o]
          /\ line' = Append(line, s)
          /\ tangled' = (tangled \/ \E u \in Running : ~ Apart(o, ops[u]))
    BY DEF Begin
  <1>2. UNCHANGED <<window, disk, served, accepted>>
    BY DEF Begin
  <1> USE DEF IInv, NewOp
  <1>3. /\ s \notin Running /\ s \notin ToSet(line)
        /\ o.kind \in OpKinds /\ o # Free
        /\ Running' = Running \cup {s} /\ ops'[s] = o
        /\ \A u \in Running : u # s /\ ops'[u] = ops[u]
    BY <1>1 DEF OpsInv, Running, OpOK, OpKinds, Free
  <1>4. /\ line' \in Seq(Slots) /\ IsInjective(line') /\ Len(line') = Len(line) + 1
        /\ ToSet(line') = ToSet(line) \cup {s}
        /\ \A i \in 1 .. Len(line) : line'[i] = line[i]
    BY <1>1, <1>3, Appended DEF OpsInv
  <1>5. Len(line) \in Nat /\ served \in 0 .. Len(line) /\ DOMAIN line = 1 .. Len(line)
    BY LenProperties DEF OpsInv
  <1>6. \A u : Served(u)' <=> Served(u)
    BY <1>2, <1>4, <1>5 DEF Served
  <1>7. ~ Served(s)
    BY <1>3, <1>5 DEF Served, ToSet
  <1>8. \A u \in Running : Written(u)' = Written(u)
    BY <1>3, <1>6 DEF Written
  <1>9. Written(s)' = {}
    BY <1>3, <1>6, <1>7 DEF Written
  <1>10. OpsInv'
    <2>1. \A u \in Running' : OpOK(ops'[u]) /\ (Served(u)' \/ ops'[u].ok)
      BY <1>3, <1>6 DEF OpsInv
    <2> QED BY <1>1, <1>2, <1>3, <1>4, <1>5, <2>1 DEF OpsInv
  <1>11. TypeOK'
    BY <1>2, <1>3, <1>4, <1>5 DEF TypeOK, OpsInv
  <1>12. ShownWasSaved'
    BY <1>2 DEF ShownWasSaved, There
  <1>13. AcceptedInv'
    BY <1>2, <1>3, <1>8, <1>9 DEF AcceptedInv
  <1>14. ASSUME ~ tangled'
         PROVE  /\ ~ tangled /\ \A u \in Running : Apart(o, ops[u]) /\ Apart(ops[u], o)
                /\ Dropping = {} /\ (o.kind = "dropTree" => Running = {})
                /\ \A x \in o.ids : disk[x] = window[x]
                /\ Dropping' = IF o.kind = "dropTree" THEN {s} ELSE {}
    <2>1. ~ tangled /\ \A u \in Running : Apart(o, ops[u])
      BY <1>1, <1>14
    <2>2. \A u \in Running : Apart(ops[u], o)
      BY <2>1 DEF Apart
    <2>3. Dropping = {} /\ (o.kind = "dropTree" => Running = {})
      BY <2>1 DEF Apart, Dropping
    <2>4. \A x \in o.ids : disk[x] = window[x]
      <3>1. \A u \in Running : o.ids \cap ops[u].ids = {}
        BY <2>1 DEF Apart
      <3> QED BY <2>1, <2>3, <3>1 DEF SyncInv, OpOK
    <2>5. Dropping' = IF o.kind = "dropTree" THEN {s} ELSE {}
      BY <1>3, <2>3 DEF Dropping
    <2> QED BY <2>1, <2>2, <2>3, <2>4, <2>5
  <1>15. SyncInv'
    <2> SUFFICES ASSUME ~ tangled' PROVE SyncInv'
      BY DEF SyncInv
    <2>1. \A u, v \in Running' : u # v => Apart(ops[u], ops[v])'
      BY <1>3, <1>14 DEF SyncInv
    <2>2. \A u \in Running' \ Dropping' : \A x \in ops'[u].ids :
            disk'[x] = IF x \in Written(u)' THEN ops'[u].new[x] ELSE window'[x]
      <3>1. CASE o.kind = "dropTree"
        BY <1>3, <1>14, <3>1
      <3>2. CASE o.kind # "dropTree"
        <4>1. \A u \in Running : \A x \in ops[u].ids :
                disk[x] = IF x \in Written(u) THEN ops[u].new[x] ELSE window[x]
          BY <1>14 DEF SyncInv
        <4>2. \A x \in o.ids : disk[x] = window[x]
          BY <1>14
        <4> QED BY <1>2, <1>3, <1>8, <1>9, <4>1, <4>2
      <3> QED BY <3>1, <3>2
    <2>3. \A x \in Ids : Dropping' = {} /\ (\A u \in Running' : x \notin ops'[u].ids)
            => disk'[x] = window'[x]
      BY <1>2, <1>3, <1>14 DEF SyncInv
    <2>4. \A u \in Running' : ops'[u].kind \in {"move", "moveTree"} =>
            \A x \in ops'[u].ids : window'[x] # Gone
      BY <1>2, <1>3, <1>14 DEF SyncInv
    <2>5. \A u \in Dropping' : \A f \in ops'[u].ids :
            /\ ops'[u].root = window'[f] /\ window'[f] # Gone
            /\ disk' = IF Served(u)' /\ ops'[u].ok
                         THEN [y \in Ids |-> IF y \in Subtree(window, window[f])' THEN Gone ELSE window'[y]]
                         ELSE window'
      <3> SUFFICES ASSUME o.kind = "dropTree", NEW f \in o.ids
                   PROVE  o.root = window[f] /\ window[f] # Gone /\ disk = window
        BY <1>2, <1>3, <1>6, <1>7, <1>14
      <3>1. o.root = window[f] /\ window[f] # Gone
        BY <1>14
      <3>2. \A x \in Ids : disk[x] = window[x]
        BY <1>14 DEF SyncInv
      <3>3. disk = window
        BY <3>2 DEF TypeOK
      <3> QED BY <3>1, <3>3
    <2> QED BY <2>1, <2>2, <2>3, <2>4, <2>5 DEF SyncInv
  <1>16. dialog' = NoOne \/ dialog' \in [id : Folders, path : Kept, busy : BOOLEAN]
    BY DEF SeenInv
  <1>17. ASSUME ~ tangled'
         PROVE  /\ NoSilentLoss'
                /\ \A u \in Running' : ops'[u].kind = "drop" => ops'[u].ids \subseteq condemned'
                /\ \A u \in Dropping' : \A f \in ops'[u].ids : Subtree(window, window[f])' \subseteq condemned'
                /\ dialog' # NoOne =>
                     /\ window'[dialog'.id] = dialog'.path /\ dialog'.path # Gone
                     /\ Running' = Dropping' /\ \A u \in Running' : dialog'.id \in ops'[u].ids
                     /\ ~ dialog'.busy => Running' = {}
    <2>1. NoSilentLoss'
      BY <1>2, <1>14, <1>17 DEF SeenInv, NoSilentLoss
    <2>2. \A u \in Running' : ops'[u].kind = "drop" => ops'[u].ids \subseteq condemned'
      BY <1>3, <1>14, <1>17 DEF SeenInv
    <2>3. \A u \in Dropping' : \A f \in ops'[u].ids : Subtree(window, window[f])' \subseteq condemned'
      <3>1. \A f : Subtree(window, window[f])' = Subtree(window, window[f])
        BY <1>2 DEF Subtree
      <3> QED BY <1>3, <1>14, <1>17, <3>1
    <2>4. ASSUME dialog' # NoOne
          PROVE  /\ window'[dialog'.id] = dialog'.path /\ dialog'.path # Gone
                 /\ Running' = Dropping' /\ \A u \in Running' : dialog'.id \in ops'[u].ids
                 /\ ~ dialog'.busy => Running' = {}
      <3>1. /\ o.kind = "dropTree" /\ o.ids = {dialog.id}
            /\ dialog # NoOne /\ dialog' = [dialog EXCEPT !.busy = TRUE]
        BY <2>4
      <3>2. dialog \in [id : Folders, path : Kept, busy : BOOLEAN]
        BY <3>1 DEF SeenInv
      <3>3. dialog'.id = dialog.id /\ dialog'.path = dialog.path /\ dialog'.busy = TRUE
        BY <3>1, <3>2
      <3>4. window[dialog.id] = dialog.path /\ dialog.path # Gone
        BY <1>14, <1>17, <3>1 DEF SeenInv
      <3> QED BY <1>2, <1>3, <1>14, <1>17, <3>1, <3>3, <3>4
    <2> QED BY <2>1, <2>2, <2>3, <2>4
  <1>18. SeenInv'
    BY <1>16, <1>17 DEF SeenInv
  <1> QED BY <1>10, <1>11, <1>12, <1>13, <1>15, <1>18

-----------------------------------------------------------------------------
(* The backend serves the oldest command not yet served.                   *)

LEMMA ServeIInv ==
  ASSUME IInv, Serve
  PROVE  IInv'
  <1> USE DEF IInv
  <1>0. PICK s : s = line[served + 1]
    OBVIOUS
  <1> DEFINE o == ops[s]
             x == Head(o.todo)
  <1>1. /\ served < Len(line) /\ served' = served + 1
        /\ UNCHANGED <<window, line, dialog, begun, condemned, tangled>>
        /\ \/ /\ disk' = Stored(o)
              /\ accepted' = accepted \cup {<<y, disk'[y]>> : y \in There(disk')}
              /\ UNCHANGED <<ops, faults>>
           \/ /\ ops' = [ops EXCEPT ![s].ok = FALSE]
              /\ UNCHANGED <<disk, accepted>>
    BY <1>0 DEF Serve
  <1>2. Len(line) \in Nat /\ served \in 0 .. Len(line) /\ DOMAIN line = 1 .. Len(line)
        /\ served + 1 \in 1 .. Len(line)
    BY <1>1, LenProperties DEF OpsInv
  <1>3. s \in Running /\ s \in Slots /\ ~ Served(s)
    <2>1. s \in ToSet(line)
      BY <1>0, <1>2 DEF ToSet
    <2>2. ~ Served(s)
      BY <1>0, <1>2 DEF Served, OpsInv, IsInjective
    <2> QED BY <2>1, <2>2 DEF OpsInv, Running
  <1>4. OpOK(o) /\ o.ok = TRUE
    BY <1>3 DEF OpsInv, OpOK
  <1>5. /\ o \in [kind : OpKinds, todo : Seq(o.ids), ids : SUBSET Ids, new : [o.ids -> Kept],
                  root : Kept, ok : BOOLEAN]
        /\ x \in ToSet(o.todo) /\ x \in o.ids /\ x \in Ids /\ ToSet(o.todo) \subseteq o.ids
    <2>1. o.todo \in Seq(o.ids) /\ o.todo # <<>> /\ IsInjective(o.todo) /\ o.ids \subseteq Ids
      BY <1>4 DEF OpOK
    <2>2. x \in ToSet(o.todo) /\ ToSet(o.todo) \subseteq o.ids
      BY <2>1, Tailed, Members
    <2> QED BY <1>4, <2>1, <2>2 DEF OpOK
  <1>6. \A u : Served(u)' <=> (Served(u) \/ u = s)
    BY <1>0, <1>1, <1>2 DEF Served
  <1>7. \A u \in Running : u # s => (Served(u)' <=> Served(u))
    BY <1>6
  <1>8. Served(s)'
    BY <1>6
  <1>9. Written(s) = {y \in o.ids : y \notin ToSet(o.todo)}
    BY <1>3 DEF Written
  <1>10. CASE /\ disk' = Stored(o)
              /\ accepted' = accepted \cup {<<y, disk'[y]>> : y \in There(disk')}
              /\ UNCHANGED <<ops, faults>>
    <2>1. Running' = Running /\ ops' = ops /\ Dropping' = Dropping
      BY <1>10 DEF Running, Dropping
    <2>2. \A u \in Running : u # s => Written(u)' = Written(u)
      BY <1>7, <2>1 DEF Written
    <2>3. Written(s)' = Written(s) \cup {x}
      BY <1>4, <1>5, <1>8, <1>9, <2>1 DEF Written
    <2>4. CASE o.kind # "dropTree"
      <3>1. disk' = [disk EXCEPT ![x] = o.new[x]]
        BY <1>10, <2>4 DEF Stored
      <3>2. disk' \in [Ids -> Kept] /\ disk'[x] = o.new[x] /\ o.new[x] \in Kept
            /\ \A y \in Ids \ {x} : disk'[y] = disk[y]
        BY <1>5, <3>1 DEF TypeOK
      <3>3. \A y \in Macros : disk'[y] \in {Root, Gone}
        BY <1>4, <1>5, <3>2 DEF TypeOK, OpOK, Ids
      <3>4. TypeOK'
        BY <1>1, <1>2, <2>1, <3>2, <3>3 DEF TypeOK
      <3>5. accepted \subseteq accepted'
        BY <1>10
      <3>6. o.new[x] # Gone => <<x, o.new[x]>> \in accepted'
        BY <1>5, <1>10, <3>2 DEF There
      <3>7. ShownWasSaved'
        BY <1>1, <3>5 DEF ShownWasSaved, There
      <3>8. OpsInv'
        <4>1. \A u \in Running : OpOK(ops[u]) /\ (Served(u)' \/ ops[u].ok)
          BY <1>6 DEF OpsInv
        <4> QED BY <1>1, <1>2, <2>1, <4>1 DEF OpsInv
      <3>9. accepted' \subseteq Ids \X Paths
        BY <1>10, <3>2 DEF AcceptedInv, There, Kept
      <3>10. \A u \in Running : \A y \in Written(u)' : ops[u].new[y] # Gone => <<y, ops[u].new[y]>> \in accepted'
        BY <2>2, <2>3, <3>5, <3>6 DEF AcceptedInv
      <3>11. AcceptedInv'
        BY <2>1, <3>9, <3>10 DEF AcceptedInv
      <3>12. ASSUME ~ tangled
             PROVE  Dropping = {} /\ \A u \in Running : u # s => x \notin ops[u].ids
        <4>1. \A u \in Running : u # s => Apart(ops[u], o)
          BY <1>3, <3>12 DEF SyncInv
        <4>2. \A u \in Running : u # s => x \notin ops[u].ids
          BY <1>5, <4>1 DEF Apart
        <4>3. Dropping = {}
          BY <1>3, <2>4, <4>1 DEF Dropping, Apart
        <4> QED BY <4>2, <4>3
      <3>13. SyncInv'
        <4> SUFFICES ASSUME ~ tangled PROVE SyncInv'
          BY <1>1 DEF SyncInv
        <4>1. \A u \in Running : \A y \in ops[u].ids :
                disk'[y] = IF y \in Written(u)' THEN ops[u].new[y] ELSE window[y]
          <5> SUFFICES ASSUME NEW u \in Running, NEW y \in ops[u].ids
                       PROVE  disk'[y] = IF y \in Written(u)' THEN ops[u].new[y] ELSE window[y]
            OBVIOUS
          <5>1. disk[y] = IF y \in Written(u) THEN ops[u].new[y] ELSE window[y]
            BY <3>12 DEF SyncInv
          <5>2. y \in Ids
            BY DEF OpsInv, OpOK
          <5>3. CASE u = s
            BY <1>4, <2>3, <3>2, <5>1, <5>2, <5>3
          <5>4. CASE u # s
            BY <2>2, <3>2, <3>12, <5>1, <5>2, <5>4
          <5> QED BY <5>3, <5>4
        <4>2. \A y \in Ids : (\A u \in Running : y \notin ops[u].ids) => disk'[y] = window[y]
          BY <1>3, <1>5, <3>2, <3>12 DEF SyncInv
        <4>3. \A u, v \in Running : u # v => Apart(ops[u], ops[v])'
          BY <2>1 DEF SyncInv
        <4>4. \A u \in Running : ops[u].kind \in {"move", "moveTree"} => \A y \in ops[u].ids : window[y] # Gone
          BY DEF SyncInv
        <4> QED BY <1>1, <2>1, <3>12, <4>1, <4>2, <4>3, <4>4 DEF SyncInv
      <3>14. ~ tangled => NoSilentLoss'
        <4> SUFFICES ASSUME ~ tangled, NEW a \in accepted', disk'[a[1]] = Gone
                     PROVE  a[1] \in condemned
          BY <1>1 DEF NoSilentLoss
        <4>1. a \in Ids \X Paths
          BY <3>9
        <4>2. a \in accepted
          BY <1>10, <4>1 DEF There
        <4>3. CASE a[1] # x
          BY <3>2, <4>1, <4>2, <4>3 DEF SeenInv, NoSilentLoss
        <4>4. CASE a[1] = x
          <5>1. o.new[x] = Gone
            BY <3>2, <4>4
          <5>2. o.kind = "drop"
            BY <1>4, <1>5, <2>4, <5>1 DEF OpOK, OpKinds
          <5> QED BY <1>3, <1>5, <4>4, <5>2 DEF SeenInv
        <4> QED BY <4>3, <4>4
      <3>15. SeenInv'
        BY <1>1, <2>1, <3>12, <3>14 DEF SeenInv
      <3> QED BY <3>4, <3>7, <3>8, <3>11, <3>13, <3>15
    <2>5. CASE o.kind = "dropTree"
      <3> DEFINE below == IF disk[x] = Gone THEN {} ELSE Subtree(disk, disk[x])
      <3>1. disk' = [y \in Ids |-> IF y \in below THEN Gone ELSE disk[y]]
        BY <1>10, <2>5 DEF Stored
      <3> HIDE DEF below
      <3>2. disk' \in [Ids -> Kept] /\ \A y \in Ids : disk'[y] = IF y \in below THEN Gone ELSE disk[y]
        BY <3>1 DEF TypeOK, Kept
      <3>3. \A y \in Macros : disk'[y] \in {Root, Gone}
        BY <3>2 DEF TypeOK, Ids
      <3>4. TypeOK'
        BY <1>1, <1>2, <2>1, <3>2, <3>3 DEF TypeOK
      <3>5. accepted \subseteq accepted'
        BY <1>10
      <3>6. o.new[x] = Gone /\ \E f \in Folders : o.ids = {f}
        BY <1>4, <1>5, <2>5 DEF OpOK
      <3>7. ShownWasSaved'
        BY <1>1, <3>5 DEF ShownWasSaved, There
      <3>8. OpsInv'
        <4>1. \A u \in Running : OpOK(ops[u]) /\ (Served(u)' \/ ops[u].ok)
          BY <1>6 DEF OpsInv
        <4> QED BY <1>1, <1>2, <2>1, <4>1 DEF OpsInv
      <3>9. accepted' \subseteq Ids \X Paths
        BY <1>10, <3>2 DEF AcceptedInv, There, Kept
      <3>10. \A u \in Running : \A y \in Written(u)' : ops[u].new[y] # Gone => <<y, ops[u].new[y]>> \in accepted'
        BY <2>2, <2>3, <3>5, <3>6 DEF AcceptedInv
      <3>11. AcceptedInv'
        BY <2>1, <3>9, <3>10 DEF AcceptedInv
      <3>12. ASSUME ~ tangled
             PROVE  /\ Running = {s} /\ Dropping = {s} /\ o.ids = {x} /\ x \in Folders
                    /\ o.root = window[x] /\ window[x] # Gone /\ disk = window
                    /\ below = Subtree(window, window[x])
        <4>1. \A u \in Running : u # s => Apart(ops[u], o)
          BY <1>3, <3>12 DEF SyncInv
        <4>2. Running = {s} /\ Dropping = {s}
          BY <1>3, <2>5, <4>1 DEF Dropping, Apart
        <4>3. o.ids = {x} /\ x \in Folders
          BY <1>5, <3>6
        <4>4. o.root = window[x] /\ window[x] # Gone /\ disk = window
          BY <1>3, <3>12, <4>2, <4>3 DEF SyncInv
        <4> QED BY <4>2, <4>3, <4>4 DEF below
      <3>13. SyncInv'
        <4> SUFFICES ASSUME ~ tangled PROVE SyncInv'
          BY <1>1 DEF SyncInv
        <4>1. disk' = [y \in Ids |-> IF y \in Subtree(window, window[x]) THEN Gone ELSE window[y]]
          BY <3>1, <3>12
        <4>2. \A f : Subtree(window, window[f])' = Subtree(window, window[f])
          BY <1>1 DEF Subtree
        <4>3. \A u \in Dropping' : \A f \in ops'[u].ids :
                /\ ops'[u].root = window'[f] /\ window'[f] # Gone
                /\ disk' = IF Served(u)' /\ ops'[u].ok
                         THEN [y \in Ids |-> IF y \in Subtree(window, window[f])' THEN Gone ELSE window'[y]]
                         ELSE window'
          BY <1>1, <1>4, <1>8, <2>1, <3>12, <4>1, <4>2
        <4> QED BY <1>1, <2>1, <3>12, <2>5, <4>3 DEF SyncInv, OpKinds
      <3>14. ~ tangled => NoSilentLoss'
        <4> SUFFICES ASSUME ~ tangled, NEW a \in accepted', disk'[a[1]] = Gone
                     PROVE  a[1] \in condemned
          BY <1>1 DEF NoSilentLoss
        <4>1. a \in Ids \X Paths
          BY <3>9
        <4>2. a \in accepted
          BY <1>10, <4>1 DEF There
        <4>3. CASE a[1] \notin below
          BY <3>2, <4>1, <4>2, <4>3 DEF SeenInv, NoSilentLoss
        <4>4. CASE a[1] \in below
          <5>1. below \subseteq condemned
            BY <3>12 DEF SeenInv
          <5> QED BY <4>4, <5>1
        <4> QED BY <4>3, <4>4
      <3>15. SeenInv'
        <4>1. \A f : Subtree(window, window[f])' = Subtree(window, window[f])
          BY <1>1 DEF Subtree
        <4>2. dialog' = dialog /\ window' = window /\ condemned' = condemned /\ tangled' = tangled
          BY <1>1
        <4> QED BY <2>1, <3>14, <4>1, <4>2 DEF SeenInv
      <3> QED BY <3>4, <3>7, <3>8, <3>11, <3>13, <3>15
    <2> QED BY <2>4, <2>5
  <1>11. CASE ops' = [ops EXCEPT ![s].ok = FALSE] /\ UNCHANGED <<disk, accepted>>
    <2>1. /\ ops'[s] = [o EXCEPT !.ok = FALSE] /\ DOMAIN ops' = Slots
          /\ \A u \in Slots \ {s} : ops'[u] = ops[u]
      BY <1>3, <1>11 DEF OpsInv
    <2> DEFINE q == ops'[s]
    <2>2. /\ q.kind = o.kind /\ q.todo = o.todo /\ q.ids = o.ids /\ q.new = o.new /\ q.root = o.root
          /\ q.ok = FALSE
          /\ q \in [kind : OpKinds, todo : Seq(o.ids), ids : SUBSET Ids, new : [o.ids -> Kept],
                    root : Kept, ok : BOOLEAN]
      BY <1>5, <2>1
    <2>3. OpOK(q)
      <3>1. q \in [kind : OpKinds, todo : Seq(q.ids), ids : SUBSET Ids, new : [q.ids -> Kept],
                    root : Kept, ok : BOOLEAN]
        BY <2>2
      <3> HIDE DEF q
      <3> QED BY <1>4, <2>2, <3>1 DEF OpOK
    <2>4. Running' = Running
      <3>1. q # Free
        BY <2>2 DEF Free, OpKinds
      <3> QED BY <1>3, <2>1, <3>1 DEF Running
    <2>5. Dropping' = Dropping
      BY <2>1, <2>2, <2>4 DEF Dropping, Running
    <2>6. \A u \in Running : u # s => ops'[u] = ops[u]
      BY <2>1 DEF Running
    <2>7. Written(s)' = Written(s)
      BY <1>9, <2>2 DEF Written
    <2>8. \A u \in Running : Written(u)' = Written(u)
      <3> SUFFICES ASSUME NEW u \in Running, u # s PROVE Written(u)' = Written(u)
        BY <2>7
      <3>1. ops'[u] = ops[u] /\ (Served(u)' <=> Served(u))
        BY <1>7, <2>6
      <3> QED BY <3>1 DEF Written
    <2>9. \A u \in Running : /\ ops'[u].kind = ops[u].kind /\ ops'[u].ids = ops[u].ids
                             /\ ops'[u].new = ops[u].new /\ ops'[u].root = ops[u].root
                             /\ ops'[u].todo = ops[u].todo
      BY <2>2, <2>6
    <2> HIDE DEF o, q
    <2>10. TypeOK'
      BY <1>1, <1>2, <1>11, <2>4, <2>9 DEF TypeOK
    <2>11. ShownWasSaved'
      BY <1>1, <1>11 DEF ShownWasSaved, There
    <2>12. OpsInv'
      <3>1. \A u \in Running : OpOK(ops'[u]) /\ (Served(u)' \/ ops'[u].ok)
        BY <1>6, <2>3, <2>6 DEF OpsInv, q
      <3> QED BY <1>1, <1>2, <2>1, <2>4, <3>1 DEF OpsInv
    <2>13. AcceptedInv'
      BY <1>11, <2>4, <2>8, <2>9 DEF AcceptedInv
    <2>14. \A f : Subtree(window, window[f])' = Subtree(window, window[f])
      BY <1>1 DEF Subtree
    <2>15. SyncInv'
      <3> SUFFICES ASSUME ~ tangled PROVE SyncInv'
        BY <1>1 DEF SyncInv
      <3>1. \A u, v \in Running : u # v => Apart(ops[u], ops[v])'
        BY <2>9 DEF SyncInv, Apart
      <3>2. \A u \in Dropping : \A f \in ops[u].ids :
                disk = IF Served(u)' /\ ops'[u].ok
                       THEN [y \in Ids |-> IF y \in Subtree(window, window[f]) THEN Gone ELSE window[y]]
                       ELSE window
        <4> SUFFICES ASSUME NEW u \in Dropping, NEW f \in ops[u].ids
                     PROVE  disk = IF Served(u)' /\ ops'[u].ok
                       THEN [y \in Ids |-> IF y \in Subtree(window, window[f]) THEN Gone ELSE window[y]]
                       ELSE window
          OBVIOUS
        <4>1. u \in Running
          BY DEF Dropping
        <4>2. CASE u # s
          BY <1>7, <2>6, <4>1, <4>2 DEF SyncInv
        <4>3. CASE u = s
          BY <1>3, <2>2, <4>3 DEF SyncInv, q
        <4> QED BY <4>2, <4>3
      <3>3. disk' = disk /\ window' = window /\ tangled' = tangled
        BY <1>1, <1>11
      <3>4. \A u \in Dropping : u \in Running
        BY DEF Dropping
      <3> QED BY <2>4, <2>5, <2>8, <2>9, <2>14, <3>1, <3>2, <3>3, <3>4 DEF SyncInv
    <2>16. SeenInv'
      <3>1. /\ dialog' = dialog /\ window' = window /\ condemned' = condemned /\ tangled' = tangled
            /\ disk' = disk /\ accepted' = accepted
        BY <1>1, <1>11
      <3>2. NoSilentLoss <=> NoSilentLoss'
        BY <3>1 DEF NoSilentLoss
      <3>3. \A u \in Dropping : u \in Running
        BY DEF Dropping
      <3> QED BY <2>4, <2>5, <2>9, <2>14, <3>1, <3>2, <3>3 DEF SeenInv
    <2> QED BY <2>10, <2>11, <2>12, <2>13, <2>15, <2>16
  <1> QED BY <1>1, <1>10, <1>11

-----------------------------------------------------------------------------
(* An answer arrives and the next command is sent.                         *)

LEMMA NextCommandIInv ==
  ASSUME IInv, Continue, NEW s, s = Head(line), ops[s].ok, Len(ops[s].todo) > 1
  PROVE  IInv'
  <1> DEFINE o == ops[s]
  <1> USE DEF IInv
  <1>1. /\ served > 0 /\ served' = served - 1
        /\ line' = Append(Tail(line), s)
        /\ ops' = [ops EXCEPT ![s] = [o EXCEPT !.todo = Tail(o.todo)]]
        /\ UNCHANGED <<window, disk, accepted, condemned>>
        /\ tangled' <=> tangled
        /\ dialog' = IF ~ (dialog.busy /\ dialog.id \in o.ids) THEN dialog ELSE NoOne
    BY DEF Continue
  <1>2. /\ line \in Seq(Slots) /\ line # <<>> /\ IsInjective(line) /\ served \in 0 .. Len(line)
    BY <1>1, EmptySeq DEF OpsInv
  <1>3. /\ Len(line) \in Nat \ {0} /\ s = line[1] /\ s \in ToSet(line)
        /\ Tail(line) \in Seq(Slots) /\ Len(Tail(line)) = Len(line) - 1
        /\ \A i \in 1 .. Len(line) - 1 : Tail(line)[i] = line[i + 1]
        /\ IsInjective(Tail(line)) /\ ToSet(Tail(line)) = ToSet(line) \ {s}
        /\ DOMAIN line = 1 .. Len(line)
    BY <1>2, Tailed, LenProperties
  <1>4. s \in Running /\ s \in Slots /\ Served(s)
    BY <1>1, <1>2, <1>3 DEF OpsInv, Running, Served
  <1>5. /\ line' \in Seq(Slots) /\ Len(line') = Len(line) /\ IsInjective(line')
        /\ ToSet(line') = ToSet(line)
        /\ \A i \in 1 .. Len(line) - 1 : line'[i] = line[i + 1]
    <2>1. PICK r : r = Tail(line)
      OBVIOUS
    <2>2. /\ r \in Seq(Slots) /\ IsInjective(r) /\ s \notin ToSet(r) /\ line' = Append(r, s)
          /\ Len(r) = Len(line) - 1 /\ ToSet(r) = ToSet(line) \ {s}
          /\ \A i \in 1 .. Len(line) - 1 : r[i] = line[i + 1]
      BY <1>1, <1>3, <2>1
    <2>3. /\ line' \in Seq(Slots) /\ Len(line') = Len(r) + 1 /\ IsInjective(line')
          /\ ToSet(line') = ToSet(r) \cup {s}
          /\ \A i \in 1 .. Len(r) : line'[i] = r[i]
      BY <1>4, <2>2, Appended
    <2> QED BY <1>3, <2>2, <2>3
  <1>6. \A u : Served(u)' <=> (Served(u) /\ u # s)
    <2> SUFFICES ASSUME NEW u PROVE Served(u)' <=> (Served(u) /\ u # s)
      OBVIOUS
    <2>1. ASSUME Served(u)' PROVE Served(u) /\ u # s
      <3>1. PICK i \in 1 .. served - 1 : line'[i] = u
        BY <1>1, <2>1 DEF Served
      <3>2. i + 1 \in 1 .. served /\ line[i + 1] = u /\ i + 1 \in 1 .. Len(line) /\ 1 \in 1 .. Len(line) /\ i + 1 # 1
        BY <1>2, <1>3, <1>5, <3>1
      <3> QED BY <1>2, <1>3, <3>2 DEF Served, IsInjective
    <2>2. ASSUME Served(u), u # s PROVE Served(u)'
      <3>1. PICK i \in 1 .. served : line[i] = u
        BY <2>2 DEF Served
      <3>2. i - 1 \in 1 .. served - 1 /\ i - 1 \in 1 .. Len(line) - 1 /\ (i - 1) + 1 = i
        BY <1>2, <1>3, <2>2, <3>1
      <3> QED BY <1>1, <1>5, <3>1, <3>2 DEF Served
    <2> QED BY <2>1, <2>2
  <1>7. /\ OpOK(o) /\ o.todo \in Seq(o.ids) /\ o.todo # <<>> /\ IsInjective(o.todo)
        /\ o \in [kind : OpKinds, todo : Seq(o.ids), ids : SUBSET Ids, new : [o.ids -> Kept],
                  root : Kept, ok : BOOLEAN]
    BY <1>4 DEF OpsInv, OpOK
  <1>8. /\ Tail(o.todo) \in Seq(o.ids) /\ Len(Tail(o.todo)) = Len(o.todo) - 1
        /\ Len(o.todo) \in Nat
        /\ IsInjective(Tail(o.todo)) /\ ToSet(Tail(o.todo)) = ToSet(o.todo) \ {Head(o.todo)}
    BY <1>7, Tailed
  <1>9. Tail(o.todo) # <<>>
    <2>1. PICK r : r = Tail(o.todo)
      OBVIOUS
    <2>2. Len(r) = Len(o.todo) - 1 /\ Len(o.todo) \in Nat
      BY <1>8, <2>1
    <2> DEFINE n == Len(o.todo)
               m == Len(r)
    <2>4. n > 1 /\ n \in Nat /\ m = n - 1
      BY <2>2
    <2> HIDE DEF n, m
    <2>5. m # 0
      BY <2>4
    <2>3. Len(r) # 0
      BY <2>5 DEF m
    <2> QED BY <2>1, <2>3
  <1>10. /\ ops'[s] = [o EXCEPT !.todo = Tail(o.todo)] /\ DOMAIN ops' = Slots
         /\ \A u \in Slots \ {s} : ops'[u] = ops[u]
    BY <1>1, <1>4 DEF OpsInv
  <1> DEFINE q == ops'[s]
  <1>11. /\ q.kind = o.kind /\ q.todo = Tail(o.todo) /\ q.ids = o.ids /\ q.new = o.new /\ q.root = o.root
         /\ q.ok = o.ok
         /\ q \in [kind : OpKinds, todo : Seq(o.ids), ids : SUBSET Ids, new : [o.ids -> Kept],
                   root : Kept, ok : BOOLEAN]
    BY <1>7, <1>8, <1>10
  <1>12. OpOK(q)
    <2>1. q \in [kind : OpKinds, todo : Seq(q.ids), ids : SUBSET Ids, new : [q.ids -> Kept],
                 root : Kept, ok : BOOLEAN]
      BY <1>11
    <2>2. /\ q.kind = o.kind /\ q.todo = Tail(o.todo) /\ q.ids = o.ids /\ q.new = o.new
      BY <1>11
    <2> HIDE DEF q
    <2>3. IsFiniteSet(q.ids)
      BY <1>7, <2>2 DEF OpOK
    <2>4. q.todo # <<>> /\ IsInjective(q.todo)
      BY <1>8, <1>9, <2>2
    <2>5. /\ \A x \in o.ids \cap Macros : o.new[x] \in {Root, Gone}
          /\ o.kind \in {"put", "move", "moveTree", "import"} => \A x \in o.ids : o.new[x] # Gone
          /\ o.kind \in {"drop", "dropTree"} => \A x \in o.ids : o.new[x] = Gone
          /\ o.kind = "dropTree" => \E f \in Folders : o.ids = {f}
      BY <1>7 DEF OpOK
    <2>6. /\ \A x \in q.ids \cap Macros : q.new[x] \in {Root, Gone}
          /\ q.kind \in {"put", "move", "moveTree", "import"} => \A x \in q.ids : q.new[x] # Gone
          /\ q.kind \in {"drop", "dropTree"} => \A x \in q.ids : q.new[x] = Gone
          /\ q.kind = "dropTree" => \E f \in Folders : q.ids = {f}
      BY <2>2, <2>5
    <2> QED BY <2>1, <2>3, <2>4, <2>6 DEF OpOK
  <1>13. Running' = Running
    <2>1. q # Free
      BY <1>11 DEF Free, OpKinds
    <2> QED BY <1>4, <1>10, <2>1 DEF Running
  <1>14. \A u \in Running : u # s => ops'[u] = ops[u]
    BY <1>10 DEF Running
  <1>15. Written(s)' = Written(s)
    <2>1. Written(s)' = {y \in o.ids : y \notin ToSet(Tail(o.todo))}
      BY <1>6, <1>11 DEF Written
    <2>2. Written(s) = {y \in o.ids : y \notin ToSet(o.todo) \/ y = Head(o.todo)}
      BY <1>4 DEF Written
    <2> QED BY <1>8, <2>1, <2>2
  <1>16. \A u \in Running : Written(u)' = Written(u)
    <2> SUFFICES ASSUME NEW u \in Running, u # s PROVE Written(u)' = Written(u)
      BY <1>15
    <2>1. ops'[u] = ops[u] /\ (Served(u)' <=> Served(u))
      BY <1>6, <1>14
    <2> QED BY <2>1 DEF Written
  <1>17. \A u \in Running : /\ ops'[u].kind = ops[u].kind /\ ops'[u].ids = ops[u].ids
                            /\ ops'[u].new = ops[u].new /\ ops'[u].root = ops[u].root
                            /\ ops'[u].ok = ops[u].ok
    BY <1>11, <1>14
  <1>18. Dropping' = Dropping /\ \A u \in Dropping : u \in Running
    BY <1>13, <1>17 DEF Dropping
  <1>19. ToSet(Tail(o.todo)) \subseteq o.ids
    BY <1>8, Members
  <1>20. s \notin Dropping
    <2> SUFFICES ASSUME o.kind = "dropTree" PROVE FALSE
      BY DEF Dropping
    <2>1. PICK f : o.ids = {f}
      BY <1>7 DEF OpOK
    <2>2. 1 \in DOMAIN o.todo /\ 2 \in DOMAIN o.todo /\ o.todo[1] = f /\ o.todo[2] = f
      BY <1>7, <1>8, <2>1, LenProperties, ElementOfSeq
    <2> QED BY <1>7, <2>2 DEF IsInjective
  <1> HIDE DEF o, q
  <1>21. TypeOK'
    <2>1. \A u \in Running : ToSet(ops'[u].todo) \subseteq ops'[u].ids
      BY <1>11, <1>14, <1>19 DEF TypeOK, q
    <2> QED BY <1>1, <1>2, <1>5, <1>13, <2>1 DEF TypeOK
  <1>22. ShownWasSaved'
    BY <1>1 DEF ShownWasSaved, There
  <1>23. OpsInv'
    <2>1. \A u \in Running : OpOK(ops'[u])
      BY <1>12, <1>14 DEF OpsInv, q
    <2>2. \A u \in Running : Served(u)' \/ ops'[u].ok
      BY <1>6, <1>14, <1>17 DEF OpsInv, o
    <2>3. served' \in 0 .. Len(line')
      BY <1>1, <1>2, <1>3, <1>5
    <2> QED BY <1>5, <1>10, <1>13, <2>1, <2>2, <2>3 DEF OpsInv
  <1>24. AcceptedInv'
    BY <1>1, <1>13, <1>16, <1>17 DEF AcceptedInv
  <1>25. \A f : Subtree(window, window[f])' = Subtree(window, window[f])
    BY <1>1 DEF Subtree
  <1>26. disk' = disk /\ window' = window /\ (tangled' <=> tangled) /\ condemned' = condemned /\ accepted' = accepted
    BY <1>1
  <1>27. \A u \in Dropping : Served(u)' <=> Served(u)
    BY <1>6, <1>20
  <1>28. SyncInv'
    <2> SUFFICES ASSUME ~ tangled PROVE SyncInv'
      BY <1>26 DEF SyncInv
    <2>1. \A u, v \in Running : u # v => Apart(ops[u], ops[v])'
      BY <1>17 DEF SyncInv, Apart
    <2> QED BY <1>13, <1>16, <1>17, <1>18, <1>25, <1>26, <1>27, <2>1 DEF SyncInv
  <1>29. SeenInv'
    <2>1. NoSilentLoss <=> NoSilentLoss'
      BY <1>26 DEF NoSilentLoss
    <2>2. ~ tangled => dialog = NoOne
      BY <1>4, <1>20 DEF SeenInv
    <2>3. dialog' = NoOne \/ dialog' = dialog
      BY <1>1
    <2> QED BY <1>13, <1>17, <1>18, <1>25, <1>26, <2>1, <2>2, <2>3 DEF SeenInv
  <1> QED BY <1>21, <1>22, <1>23, <1>24, <1>28, <1>29

-----------------------------------------------------------------------------
(* The last answer of an action arrives, or its first failure.             *)

LEMMA ActionOver ==
  ASSUME IInv, Continue, NEW s, s = Head(line), ~ (ops[s].ok /\ Len(ops[s].todo) > 1)
  PROVE  /\ s \in Running /\ Served(s) /\ OpOK(ops[s])
         /\ Running' = Running \ {s}
         /\ \A u \in Running \ {s} : ops'[u] = ops[u] /\ (Served(u)' <=> Served(u)) /\ Written(u)' = Written(u)
         /\ OpsInv'
         /\ UNCHANGED <<disk, accepted, condemned>>
         /\ window' = IF ops[s].ok THEN Shown(ops[s]) ELSE window
         /\ tangled' = (tangled \/ (~ ops[s].ok /\ Len(ops[s].todo) < Cardinality(ops[s].ids)))
         /\ dialog' = IF ~ (dialog.busy /\ dialog.id \in ops[s].ids) THEN dialog
                      ELSE IF ops[s].ok THEN NoOne ELSE [dialog EXCEPT !.busy = FALSE]
         /\ Dropping' = Dropping \ {s}
  <1> DEFINE o == ops[s]
  <1> USE DEF IInv
  <1>1. /\ served > 0 /\ served' = served - 1
        /\ line' = Tail(line)
        /\ ops' = [ops EXCEPT ![s] = Free]
        /\ UNCHANGED <<disk, accepted, condemned>>
        /\ window' = IF o.ok THEN Shown(o) ELSE window
        /\ tangled' = (tangled \/ (~ o.ok /\ Len(o.todo) < Cardinality(o.ids)))
        /\ dialog' = IF ~ (dialog.busy /\ dialog.id \in o.ids) THEN dialog
                     ELSE IF o.ok THEN NoOne ELSE [dialog EXCEPT !.busy = FALSE]
    BY DEF Continue
  <1>2. /\ line \in Seq(Slots) /\ line # <<>> /\ IsInjective(line) /\ served \in 0 .. Len(line)
    BY <1>1, EmptySeq DEF OpsInv
  <1>3. /\ Len(line) \in Nat \ {0} /\ s = line[1] /\ s \in ToSet(line)
        /\ Tail(line) \in Seq(Slots) /\ Len(Tail(line)) = Len(line) - 1
        /\ \A i \in 1 .. Len(line) - 1 : Tail(line)[i] = line[i + 1]
        /\ IsInjective(Tail(line)) /\ ToSet(Tail(line)) = ToSet(line) \ {s}
        /\ DOMAIN line = 1 .. Len(line)
    BY <1>2, Tailed, LenProperties
  <1>4. s \in Running /\ s \in Slots /\ Served(s)
    BY <1>1, <1>2, <1>3 DEF OpsInv, Running, Served
  <1>5. \A u : Served(u)' <=> (Served(u) /\ u # s)
    <2> SUFFICES ASSUME NEW u PROVE Served(u)' <=> (Served(u) /\ u # s)
      OBVIOUS
    <2>1. ASSUME Served(u)' PROVE Served(u) /\ u # s
      <3>1. PICK i \in 1 .. served - 1 : line'[i] = u
        BY <1>1, <2>1 DEF Served
      <3>2. i + 1 \in 1 .. served /\ line[i + 1] = u /\ i + 1 \in 1 .. Len(line) /\ 1 \in 1 .. Len(line) /\ i + 1 # 1
        BY <1>1, <1>2, <1>3, <3>1
      <3> QED BY <1>2, <1>3, <3>2 DEF Served, IsInjective
    <2>2. ASSUME Served(u), u # s PROVE Served(u)'
      <3>1. PICK i \in 1 .. served : line[i] = u
        BY <2>2 DEF Served
      <3>2. i - 1 \in 1 .. served - 1 /\ i - 1 \in 1 .. Len(line) - 1 /\ (i - 1) + 1 = i
        BY <1>2, <1>3, <2>2, <3>1
      <3> QED BY <1>1, <1>3, <3>1, <3>2 DEF Served
    <2> QED BY <2>1, <2>2
  <1>6. OpOK(o)
    BY <1>4 DEF OpsInv
  <1>7. /\ Running' = Running \ {s} /\ DOMAIN ops' = Slots
        /\ \A u \in Running \ {s} : ops'[u] = ops[u]
    BY <1>1, <1>4 DEF Running, OpsInv
  <1>8. \A u \in Running \ {s} : Written(u)' = Written(u)
    BY <1>5, <1>7 DEF Written
  <1>9. OpsInv'
    <2>1. \A u \in Running \ {s} : OpOK(ops'[u]) /\ (Served(u)' \/ ops'[u].ok)
      BY <1>5, <1>7 DEF OpsInv
    <2>2. served' \in 0 .. Len(line')
      BY <1>1, <1>2, <1>3
    <2> QED BY <1>1, <1>3, <1>7, <2>1, <2>2 DEF OpsInv
  <1>10. Dropping' = Dropping \ {s}
    BY <1>7 DEF Dropping
  <1> QED BY <1>1, <1>4, <1>5, <1>6, <1>7, <1>8, <1>9, <1>10

(* It was the last answer, and the window shows the result.                *)
LEMMA DoneIInv ==
  ASSUME IInv, Continue, NEW s, s = Head(line), ops[s].ok, Len(ops[s].todo) <= 1
  PROVE  IInv'
  <1>0. PICK o : o = ops[s]
    OBVIOUS
  <1> USE DEF IInv
  <1>1. ~ (ops[s].ok /\ Len(ops[s].todo) > 1)
    <2>1. ops[s].todo \in Seq(ops[s].ids)
      <3>1. s \in Running
        <4>1. served > 0
          BY DEF Continue
        <4>2. line # <<>>
          BY <4>1, EmptySeq DEF OpsInv
        <4> QED BY <4>2, Tailed DEF OpsInv
      <3> QED BY <3>1 DEF OpsInv, OpOK
    <2>2. Len(ops[s].todo) \in Nat
      BY <2>1, LenProperties
    <2> QED BY <2>2
  <1>2. /\ s \in Running /\ Served(s) /\ OpOK(o)
        /\ Running' = Running \ {s}
        /\ \A u \in Running \ {s} : ops'[u] = ops[u] /\ (Served(u)' <=> Served(u)) /\ Written(u)' = Written(u)
        /\ OpsInv'
        /\ UNCHANGED <<disk, accepted, condemned>>
        /\ window' = Shown(o)
        /\ tangled' <=> tangled
        /\ dialog' = IF ~ (dialog.busy /\ dialog.id \in o.ids) THEN dialog ELSE NoOne
        /\ Dropping' = Dropping \ {s}
    BY <1>0, <1>1, ActionOver
  <1>3. /\ o \in [kind : OpKinds, todo : Seq(o.ids), ids : SUBSET Ids, new : [o.ids -> Kept],
                  root : Kept, ok : BOOLEAN]
        /\ o.todo \in Seq(o.ids) /\ o.todo # <<>> /\ IsInjective(o.todo)
        /\ o.ids \subseteq Ids
    BY <1>2 DEF OpOK
  <1>4. ToSet(o.todo) = {Head(o.todo)} /\ ToSet(o.todo) \subseteq o.ids
    BY <1>0, <1>3, Tailed, Members
  <1>5. Written(s) = o.ids
    BY <1>0, <1>2, <1>4 DEF Written
  <1>6. \A x \in o.ids : o.new[x] # Gone => <<x, o.new[x]>> \in accepted
    BY <1>0, <1>2, <1>5 DEF AcceptedInv
  <1>7. o.kind \in OpKinds /\ \A x \in o.ids : o.new[x] \in Kept
    BY <1>3
  <1>8. DOMAIN o.new = o.ids
    BY <1>3
  <1>9. /\ window' \in [Ids -> Kept]
        /\ o.kind = "dropTree" => \A x \in Ids :
             window'[x] = IF x \in ToSet(o.todo) \/ x \in Subtree(window, o.root) THEN Gone ELSE window[x]
        /\ o.kind # "dropTree" => \A x \in Ids :
             window'[x] = IF x \in o.ids /\ (o.kind \in {"move", "moveTree"} => window[x] # Gone)
                          THEN o.new[x] ELSE window[x]
    <2>1. CASE o.kind = "dropTree"
      <3>1. window' = [x \in Ids |-> IF x \in ToSet(o.todo) \/ x \in Subtree(window, o.root) THEN Gone ELSE window[x]]
        BY <1>2, <2>1 DEF Shown
      <3> QED BY <2>1, <3>1 DEF TypeOK, Kept
    <2>2. CASE o.kind \in {"move", "moveTree"}
      <3>1. window' = [x \in Ids |-> IF x \in o.ids /\ window[x] # Gone THEN o.new[x] ELSE window[x]]
        BY <1>2, <1>8, <2>2 DEF Shown
      <3> QED BY <1>7, <2>2, <3>1 DEF TypeOK
    <2>3. CASE o.kind \in {"put", "drop", "import"}
      <3>1. window' = [x \in Ids |-> IF x \in o.ids THEN o.new[x] ELSE window[x]]
        BY <1>2, <1>8, <2>3 DEF Shown
      <3> QED BY <1>7, <2>3, <3>1 DEF TypeOK
    <2> QED BY <1>7, <2>1, <2>2, <2>3 DEF OpKinds
  <1>10. \A x \in Macros : window'[x] \in {Root, Gone}
    BY <1>2, <1>9 DEF TypeOK, OpOK, Ids
  <1>11. TypeOK'
    <2>1. \A u \in Running' : ToSet(ops'[u].todo) \subseteq ops'[u].ids
      BY <1>2 DEF TypeOK
    <2>2. served' \in 0 .. Len(line') /\ ToSet(line') = Running'
      BY <1>2 DEF OpsInv
    <2> QED BY <1>2, <1>9, <1>10, <2>1, <2>2 DEF TypeOK
  <1>12. ShownWasSaved'
    BY <1>2, <1>6, <1>9 DEF ShownWasSaved, There
  <1>13. AcceptedInv'
    BY <1>2 DEF AcceptedInv
  <1>14. ASSUME ~ tangled, o.kind # "dropTree"
         PROVE  /\ Dropping = {} /\ dialog = NoOne
                /\ \A u \in Running \ {s} : ops[u].ids \cap o.ids = {}
                /\ \A x \in o.ids : window'[x] = o.new[x] /\ disk[x] = o.new[x]
                /\ \A x \in Ids \ o.ids : window'[x] = window[x]
    <2>1. \A u \in Running \ {s} : Apart(ops[u], o) /\ Apart(o, ops[u])
      BY <1>0, <1>2, <1>14 DEF SyncInv
    <2>2. Dropping = {}
      BY <1>0, <1>14, <2>1 DEF Dropping, Apart
    <2>3. dialog = NoOne
      BY <1>2, <1>14, <2>2 DEF SeenInv
    <2>4. \A u \in Running \ {s} : ops[u].ids \cap o.ids = {}
      BY <2>1 DEF Apart
    <2>5. \A x \in o.ids : disk[x] = o.new[x]
      BY <1>0, <1>2, <1>5, <1>14, <2>2 DEF SyncInv
    <2>6. o.kind \in {"move", "moveTree"} => \A x \in o.ids : window[x] # Gone
      BY <1>0, <1>2, <1>14 DEF SyncInv
    <2> QED BY <1>3, <1>9, <1>14, <2>2, <2>3, <2>4, <2>5, <2>6
  <1>15. ASSUME ~ tangled, o.kind = "dropTree"
         PROVE  /\ Running = {s} /\ dialog' = NoOne /\ disk = window'
    <2>1. \A u \in Running \ {s} : Apart(ops[u], o)
      BY <1>0, <1>2, <1>15 DEF SyncInv
    <2>2. Running = {s} /\ Dropping = {s}
      BY <1>0, <1>2, <1>15, <2>1 DEF Dropping, Apart
    <2>3. PICK f \in Folders : o.ids = {f}
      BY <1>2, <1>15 DEF OpOK
    <2>4. /\ o.root = window[f] /\ window[f] # Gone
          /\ disk = [y \in Ids |-> IF y \in Subtree(window, window[f]) THEN Gone ELSE window[y]]
      BY <1>0, <1>2, <1>15, <2>2, <2>3 DEF SyncInv
    <2>5. f \in Subtree(window, window[f])
      BY <2>4, RootOfSubtree DEF TypeOK, Kept, Ids
    <2>6. ToSet(o.todo) = {f}
      BY <1>4, <2>3
    <2>7. \A x \in Ids : window'[x] = disk[x]
      BY <1>9, <1>15, <2>4, <2>5, <2>6
    <2>8. window' = disk
      BY <1>9, <2>7 DEF TypeOK
    <2>9. dialog' = NoOne
      BY <1>0, <1>2, <1>15, <2>2 DEF SeenInv
    <2> QED BY <2>2, <2>8, <2>9
  <1>16. SyncInv'
    <2> SUFFICES ASSUME ~ tangled PROVE SyncInv'
      BY <1>2 DEF SyncInv
    <2>1. CASE o.kind # "dropTree"
      <3>1. \A u, v \in Running' : u # v => Apart(ops[u], ops[v])'
        BY <1>2 DEF SyncInv
      <3>2. \A u \in Running' : \A x \in ops'[u].ids :
              disk'[x] = IF x \in Written(u)' THEN ops'[u].new[x] ELSE window'[x]
        <4> SUFFICES ASSUME NEW u \in Running \ {s}, NEW x \in ops[u].ids
                     PROVE  disk[x] = IF x \in Written(u) THEN ops[u].new[x] ELSE window'[x]
          BY <1>2
        <4>1. x \in Ids
          BY DEF OpsInv, OpOK
        <4>2. disk[x] = IF x \in Written(u) THEN ops[u].new[x] ELSE window[x]
          BY <1>14, <2>1 DEF SyncInv
        <4> QED BY <1>14, <2>1, <4>1, <4>2
      <3>3. \A x \in Ids : (\A u \in Running' : x \notin ops'[u].ids) => disk'[x] = window'[x]
        <4> SUFFICES ASSUME NEW x \in Ids, \A u \in Running \ {s} : x \notin ops[u].ids
                     PROVE  disk[x] = window'[x]
          BY <1>2
        <4>1. CASE x \in o.ids
          BY <1>14, <2>1, <4>1
        <4>2. CASE x \notin o.ids
          <5>1. disk[x] = window[x]
            BY <1>0, <1>14, <2>1, <4>2 DEF SyncInv
          <5> QED BY <1>14, <2>1, <4>2, <5>1
        <4> QED BY <4>1, <4>2
      <3>4. \A u \in Running' : ops'[u].kind \in {"move", "moveTree"} =>
              \A x \in ops'[u].ids : window'[x] # Gone
        <4> SUFFICES ASSUME NEW u \in Running \ {s}, ops[u].kind \in {"move", "moveTree"}, NEW x \in ops[u].ids
                     PROVE  window'[x] # Gone
          BY <1>2
        <4>1. x \in Ids \ o.ids /\ window[x] # Gone
          BY <1>14, <2>1 DEF OpsInv, OpOK, SyncInv
        <4> QED BY <1>14, <2>1, <4>1
      <3>5. Dropping' = {}
        BY <1>2, <1>14, <2>1
      <3> QED BY <3>1, <3>2, <3>3, <3>4, <3>5 DEF SyncInv
    <2>2. CASE o.kind = "dropTree"
      <3>1. Running' = {} /\ Dropping' = {} /\ disk' = window'
        BY <1>2, <1>15, <2>2 DEF Dropping
      <3> QED BY <3>1 DEF SyncInv
    <2> QED BY <2>1, <2>2
  <1>17. NoSilentLoss <=> NoSilentLoss'
    BY <1>2 DEF NoSilentLoss
  <1>18. ~ tangled => Dropping' = {} /\ dialog' = NoOne
    BY <1>2, <1>14, <1>15 DEF Dropping, NoOne
  <1>19. dialog' = NoOne \/ dialog' \in [id : Folders, path : Kept, busy : BOOLEAN]
    BY <1>2 DEF SeenInv
  <1>20. SeenInv'
    BY <1>2, <1>17, <1>18, <1>19 DEF SeenInv
  <1> QED BY <1>2, <1>11, <1>12, <1>13, <1>16, <1>20

(* A command failed.  Only if nothing had been written is the action as if *)
(* it had not been.                                                        *)
LEMMA FailedIInv ==
  ASSUME IInv, Continue, NEW s, s = Head(line), ~ ops[s].ok
  PROVE  IInv'
  <1>0. PICK o : o = ops[s]
    OBVIOUS
  <1> USE DEF IInv
  <1>1. /\ s \in Running /\ Served(s) /\ OpOK(o)
        /\ Running' = Running \ {s}
        /\ \A u \in Running \ {s} : ops'[u] = ops[u] /\ (Served(u)' <=> Served(u)) /\ Written(u)' = Written(u)
        /\ OpsInv'
        /\ UNCHANGED <<disk, accepted, condemned, window>>
        /\ tangled' = (tangled \/ Len(o.todo) < Cardinality(o.ids))
        /\ dialog' = IF ~ (dialog.busy /\ dialog.id \in o.ids) THEN dialog ELSE [dialog EXCEPT !.busy = FALSE]
        /\ Dropping' = Dropping \ {s}
    <2>1. ~ (ops[s].ok /\ Len(ops[s].todo) > 1)
      OBVIOUS
    <2> QED BY <1>0, <2>1, ActionOver
  <1>2. /\ o.todo \in Seq(o.ids) /\ o.todo # <<>> /\ IsInjective(o.todo)
        /\ o.ids \subseteq Ids /\ IsFiniteSet(o.ids)
    BY <1>1 DEF OpOK
  <1>3. ASSUME ~ tangled' PROVE ~ tangled /\ Written(s) = {}
    <2>1. ~ tangled /\ ~ (Len(o.todo) < Cardinality(o.ids))
      BY <1>1, <1>3
    <2>2. Len(o.todo) \in Nat /\ Cardinality(o.ids) \in Nat
      BY <1>2, LenProperties, FS_CardinalityType
    <2>3. Len(o.todo) >= Cardinality(o.ids)
      BY <2>1, <2>2
    <2>4. ToSet(o.todo) = o.ids
      BY <1>2, <2>3, NothingDone
    <2> QED BY <1>0, <2>1, <2>4 DEF Written
  <1>4. TypeOK'
    <2>1. \A u \in Running' : ToSet(ops'[u].todo) \subseteq ops'[u].ids
      BY <1>1 DEF TypeOK
    <2>2. served' \in 0 .. Len(line') /\ ToSet(line') = Running'
      BY <1>1 DEF OpsInv
    <2> QED BY <1>1, <2>1, <2>2 DEF TypeOK
  <1>5. ShownWasSaved'
    BY <1>1 DEF ShownWasSaved, There
  <1>6. AcceptedInv'
    BY <1>1 DEF AcceptedInv
  <1>7. ASSUME ~ tangled', o.kind # "dropTree"
        PROVE  /\ Dropping = {} /\ dialog = NoOne
               /\ \A x \in o.ids : disk[x] = window[x]
    <2>1. \A u \in Running \ {s} : Apart(ops[u], o)
      BY <1>0, <1>1, <1>3, <1>7 DEF SyncInv
    <2>2. Dropping = {}
      BY <1>0, <1>7, <2>1 DEF Dropping, Apart
    <2>3. dialog = NoOne
      BY <1>1, <1>3, <1>7, <2>2 DEF SeenInv
    <2>4. \A x \in o.ids : disk[x] = window[x]
      BY <1>0, <1>1, <1>3, <1>7, <2>2 DEF SyncInv
    <2> QED BY <2>2, <2>3, <2>4
  <1>8. ASSUME ~ tangled', o.kind = "dropTree"
        PROVE  /\ Running = {s} /\ Dropping = {s} /\ disk = window
    <2>1. \A u \in Running \ {s} : Apart(ops[u], o)
      BY <1>0, <1>1, <1>3, <1>8 DEF SyncInv
    <2>2. Running = {s} /\ Dropping = {s}
      BY <1>0, <1>1, <1>8, <2>1 DEF Dropping, Apart
    <2>3. PICK f \in Folders : o.ids = {f}
      BY <1>1, <1>8 DEF OpOK
    <2>4. disk = window
      BY <1>0, <1>3, <1>8, <2>2, <2>3 DEF SyncInv
    <2> QED BY <2>2, <2>4
  <1>9. SyncInv'
    <2> SUFFICES ASSUME ~ tangled' PROVE SyncInv'
      BY DEF SyncInv
    <2>1. CASE o.kind # "dropTree"
      <3>1. \A u, v \in Running' : u # v => Apart(ops[u], ops[v])'
        BY <1>1, <1>3 DEF SyncInv
      <3>2. \A u \in Running' : \A x \in ops'[u].ids :
              disk'[x] = IF x \in Written(u)' THEN ops'[u].new[x] ELSE window'[x]
        BY <1>1, <1>3, <1>7, <2>1 DEF SyncInv
      <3>3. \A x \in Ids : (\A u \in Running' : x \notin ops'[u].ids) => disk'[x] = window'[x]
        <4> SUFFICES ASSUME NEW x \in Ids, \A u \in Running \ {s} : x \notin ops[u].ids
                     PROVE  disk[x] = window[x]
          BY <1>1
        <4> QED BY <1>0, <1>3, <1>7, <2>1 DEF SyncInv
      <3>4. \A u \in Running' : ops'[u].kind \in {"move", "moveTree"} =>
              \A x \in ops'[u].ids : window'[x] # Gone
        BY <1>1, <1>3 DEF SyncInv
      <3>5. Dropping' = {}
        BY <1>1, <1>7, <2>1
      <3> QED BY <3>1, <3>2, <3>3, <3>4, <3>5 DEF SyncInv
    <2>2. CASE o.kind = "dropTree"
      <3>1. Running' = {} /\ Dropping' = {} /\ disk' = window'
        BY <1>1, <1>8, <2>2
      <3> QED BY <3>1 DEF SyncInv
    <2> QED BY <2>1, <2>2
  <1>10. ~ tangled' => NoSilentLoss'
    BY <1>1, <1>3 DEF NoSilentLoss, SeenInv
  <1>11. /\ dialog' = NoOne \/ dialog' \in [id : Folders, path : Kept, busy : BOOLEAN]
         /\ dialog' # NoOne => dialog # NoOne /\ dialog'.id = dialog.id /\ dialog'.path = dialog.path
    <2>1. CASE dialog = NoOne
      BY <1>1, <2>1 DEF NoOne
    <2>2. CASE dialog \in [id : Folders, path : Kept, busy : BOOLEAN]
      <3>1. dialog # NoOne
        BY <2>2, StoreAssumption DEF NoOne, Ids
      <3> QED BY <1>1, <2>2, <3>1
    <2> QED BY <2>1, <2>2 DEF SeenInv
  <1>12. ASSUME ~ tangled'
         PROVE  /\ \A u \in Running' : ops'[u].kind = "drop" => ops'[u].ids \subseteq condemned'
                /\ Dropping' = {}
                /\ dialog' # NoOne =>
                     /\ window'[dialog'.id] = dialog'.path /\ dialog'.path # Gone
                     /\ Running' = {}
    <2>1. Dropping' = {}
      BY <1>1, <1>7, <1>8, <1>12
    <2>2. \A u \in Running' : ops'[u].kind = "drop" => ops'[u].ids \subseteq condemned'
      BY <1>1, <1>3, <1>12 DEF SeenInv
    <2>3. ASSUME dialog' # NoOne
          PROVE  /\ window'[dialog'.id] = dialog'.path /\ dialog'.path # Gone
                 /\ Running' = {}
      BY <1>1, <1>3, <1>7, <1>8, <1>11, <1>12, <2>3 DEF SeenInv
    <2> QED BY <2>1, <2>2, <2>3
  <1>13. SeenInv'
    BY <1>10, <1>11, <1>12 DEF SeenInv
  <1> QED BY <1>1, <1>4, <1>5, <1>6, <1>9, <1>13

LEMMA ContinueIInv == IInv /\ Continue => IInv'
  <1> SUFFICES ASSUME IInv, Continue PROVE IInv'
    OBVIOUS
  <1>1. PICK s : s = Head(line)
    OBVIOUS
  <1>2. CASE ~ ops[s].ok
    BY <1>1, <1>2, FailedIInv
  <1>3. CASE ops[s].ok /\ Len(ops[s].todo) > 1
    BY <1>1, <1>3, NextCommandIInv
  <1>4. CASE ops[s].ok /\ ~ (Len(ops[s].todo) > 1)
    <2>1. Len(ops[s].todo) <= 1
      <3>1. served > 0
        BY DEF Continue
      <3>2. line # <<>> /\ line \in Seq(Slots) /\ IsInjective(line)
        BY <3>1, EmptySeq DEF IInv, OpsInv
      <3>3. s \in Running
        BY <1>1, <3>2, Tailed DEF IInv, OpsInv
      <3>4. ops[s].todo \in Seq(ops[s].ids)
        BY <3>3 DEF IInv, OpsInv, OpOK
      <3>5. Len(ops[s].todo) \in Nat
        BY <3>4, LenProperties
      <3> QED BY <1>4, <3>5
    <2> QED BY <1>1, <1>4, <2>1, DoneIInv
  <1> QED BY <1>2, <1>3, <1>4

-----------------------------------------------------------------------------
(* The actions of the store are about their items in order.                *)

LEMMA Single ==
  ASSUME NEW x
  PROVE  <<x>> \in Seq({x}) /\ <<x>> # <<>> /\ IsInjective(<<x>>) /\ ToSet(<<x>>) = {x}
  BY DEF IsInjective, ToSet

LEMMA SaveOK ==
  ASSUME NEW kind \in {"put", "move", "drop", "dropTree"}, NEW x \in Ids, NEW path \in Kept, NEW root \in Kept,
         x \in Macros => path \in {Root, Gone},
         (kind \in {"drop", "dropTree"}) <=> (path = Gone),
         kind = "dropTree" => x \in Folders,
         NEW o,
         o = [kind |-> kind, todo |-> <<x>>, ids |-> {x}, new |-> [y \in {x} |-> path],
              root |-> root, ok |-> TRUE]
  PROVE  NewOp(o)
  <1>1. o = [kind |-> kind, todo |-> <<x>>, ids |-> {x}, new |-> [y \in {x} |-> path], root |-> root, ok |-> TRUE]
    OBVIOUS
  <1>2. o.todo = <<x>> /\ o.ids = {x} /\ o.new = [y \in {x} |-> path] /\ o.kind = kind /\ o.ok = TRUE /\ o.root = root
    BY <1>1
  <1>3. IsFiniteSet({x})
    BY FS_Singleton
  <1>4. o \in [kind : OpKinds, todo : Seq({x}), ids : SUBSET Ids, new : [{x} -> Kept], root : Kept, ok : BOOLEAN]
    <2>1. PICK q, ids, new : q = <<x>> /\ ids = {x} /\ new = [y \in {x} |-> path]
      OBVIOUS
    <2>2. q \in Seq({x}) /\ ids \in SUBSET Ids /\ new \in [{x} -> Kept] /\ kind \in OpKinds
      BY <2>1, Single DEF OpKinds
    <2>3. o = [kind |-> kind, todo |-> q, ids |-> ids, new |-> new, root |-> root, ok |-> TRUE]
      BY <1>1, <2>1
    <2> QED BY <2>2, <2>3
  <1>5. o.todo # <<>> /\ IsInjective(o.todo) /\ ToSet(o.todo) = {x}
    BY <1>2, Single
  <1> QED BY <1>2, <1>3, <1>4, <1>5 DEF OpOK, NewOp

LEMMA SaveIsSave ==
  ASSUME NEW kind, NEW x, NEW path
  PROVE  Save(kind, x, path) = [kind |-> kind, todo |-> <<x>>, ids |-> {x},
                                new |-> [y \in {x} |-> path], root |-> Root, ok |-> TRUE]
  BY Single DEF Save, Op

LEMMA TreeOpOK ==
  ASSUME NEW kind \in {"moveTree", "import"},
         NEW A \in SUBSET Folders, NEW B \in SUBSET Sessions, A \cup B # {},
         NEW new \in [A \cup B -> Paths],
         NEW o, o = Op(kind, SetToSeq(A) \o SetToSeq(B), new, Root)
  PROVE  NewOp(o) /\ o.kind = kind /\ \A x \in o.ids : x \in A \/ x \in B
  <1> DEFINE q == SetToSeq(A) \o SetToSeq(B)
             S == A \cup B
  <1>1. IsFiniteSet(A) /\ IsFiniteSet(B) /\ A \cap B = {} /\ IsFiniteSet(S)
    BY StoreAssumption, FS_Subset, FS_Union
  <1>2. /\ SetToSeq(A) \in Seq(A) /\ IsInjective(SetToSeq(A)) /\ ToSet(SetToSeq(A)) = A
        /\ SetToSeq(B) \in Seq(B) /\ IsInjective(SetToSeq(B)) /\ ToSet(SetToSeq(B)) = B
    BY <1>1, Enumerated
  <1>3. q \in Seq(S) /\ IsInjective(q) /\ ToSet(q) = S
    <2>1. PICK a, b : a = SetToSeq(A) /\ b = SetToSeq(B)
      OBVIOUS
    <2>2. a \in Seq(A) /\ b \in Seq(B) /\ IsInjective(a) /\ IsInjective(b) /\ ToSet(a) = A /\ ToSet(b) = B
      BY <1>2, <2>1
    <2>3. a \o b \in Seq(S) /\ IsInjective(a \o b) /\ ToSet(a \o b) = ToSet(a) \cup ToSet(b)
      BY <1>1, <2>2, Joined
    <2> QED BY <2>1, <2>2, <2>3
  <1>4. q # <<>>
    <2>1. ToSet(<<>>) = {}
      BY DEF ToSet
    <2> HIDE DEF q
    <2> QED BY <1>3, <2>1
  <1> HIDE DEF q
  <1>5. o = [kind |-> kind, todo |-> q, ids |-> S, new |-> new, root |-> Root, ok |-> TRUE]
    BY <1>3 DEF Op, q
  <1>6. o.kind = kind /\ o.todo = q /\ o.ids = S /\ o.new = new /\ o.root = Root /\ o.ok = TRUE
    BY <1>5
  <1>7. S \subseteq Ids /\ S \cap Macros = {} /\ Root \in Kept /\ new \in [S -> Kept]
        /\ \A x \in S : new[x] # Gone
    BY StoreAssumption, PathsAreSequences DEF Ids, Kept
  <1>8. o \in [kind : OpKinds, todo : Seq(S), ids : SUBSET Ids, new : [S -> Kept], root : Kept, ok : BOOLEAN]
    BY <1>3, <1>5, <1>7 DEF OpKinds
  <1>9. /\ o \in [kind : OpKinds, todo : Seq(o.ids), ids : SUBSET Ids, new : [o.ids -> Kept], root : Kept, ok : BOOLEAN]
        /\ IsFiniteSet(o.ids) /\ o.todo # <<>> /\ IsInjective(o.todo)
        /\ o.ids \cap Macros = {} /\ \A x \in o.ids : o.new[x] # Gone
        /\ o.kind \notin {"drop", "dropTree"} /\ ToSet(o.todo) = o.ids
    BY <1>1, <1>3, <1>4, <1>6, <1>7, <1>8
  <1> QED BY <1>6, <1>9 DEF OpOK, NewOp

-----------------------------------------------------------------------------
(* The beginnings of the actions of the store.                             *)

(* One item is saved or moved.                                             *)
LEMMA SaveIInv ==
  ASSUME IInv, NEW kind \in {"put", "move"}, NEW x \in Ids, NEW path \in Paths,
         x \in Macros => path = Root,
         kind = "move" => window[x] # Gone,
         Begin(Save(kind, x, path)), Quietly
  PROVE  IInv'
  <1>1. PICK o : o = Save(kind, x, path)
    OBVIOUS
  <1>2. NewOp(o) /\ o.kind = kind /\ o.ids = {x}
    <2>1. o = [kind |-> kind, todo |-> <<x>>, ids |-> {x}, new |-> [y \in {x} |-> path],
               root |-> Root, ok |-> TRUE]
      BY <1>1, SaveIsSave
    <2>2. path \in Kept /\ Root \in Kept /\ path # Gone
      BY PathsAreSequences DEF Kept
    <2>3. /\ kind \in {"put", "move", "drop", "dropTree"}
          /\ x \in Macros => path \in {Root, Gone}
          /\ (kind \in {"drop", "dropTree"}) <=> (path = Gone)
          /\ kind = "dropTree" => x \in Folders
      BY <2>2
    <2>4. NewOp(o)
      BY <2>1, <2>2, <2>3, SaveOK
    <2> QED BY <2>1, <2>4
  <1>3. Begin(o)
    BY <1>1
  <1>4. dialog = NoOne /\ dialog' = NoOne /\ condemned' = condemned
    BY <1>2, <1>3 DEF Begin, Quietly
  <1> QED BY <1>2, <1>3, <1>4, BeginIInv

(* The user deletes a session or a macro that is shown.                    *)
LEMMA DropIInv ==
  ASSUME IInv, NEW x \in Ids, Drop(x)
  PROVE  IInv'
  <1>1. PICK o : o = Save("drop", x, Gone)
    OBVIOUS
  <1>2. NewOp(o) /\ o.kind = "drop" /\ o.ids = {x}
    <2>1. o = [kind |-> "drop", todo |-> <<x>>, ids |-> {x}, new |-> [y \in {x} |-> Gone],
               root |-> Root, ok |-> TRUE]
      BY <1>1, SaveIsSave
    <2>2. Gone \in Kept /\ Root \in Kept
      BY PathsAreSequences DEF Kept
    <2>3. /\ "drop" \in {"put", "move", "drop", "dropTree"}
          /\ x \in Macros => Gone \in {Root, Gone}
          /\ ("drop" \in {"drop", "dropTree"}) <=> (Gone = Gone)
          /\ "drop" = "dropTree" => x \in Folders
      OBVIOUS
    <2>4. NewOp(o)
      BY <2>1, <2>2, <2>3, SaveOK
    <2> QED BY <2>1, <2>4
  <1>3. Begin(o) /\ condemned' = condemned \cup {x} /\ UNCHANGED dialog
    BY <1>1 DEF Drop
  <1>4. dialog = NoOne /\ dialog' = NoOne
    BY <1>2, <1>3 DEF Begin
  <1> QED BY <1>2, <1>3, <1>4, BeginIInv

(* A folder moves with all that is shown below it.                         *)
LEMMA MoveFolderIInv ==
  ASSUME IInv, NEW f \in Folders, NEW target, MoveFolder(f, target)
  PROVE  IInv'
  <1> DEFINE from == window[f]
             to == Append(target, Last(from))
             tree == Subtree(window, from)
             new == [x \in tree |-> Rebased(window[x], from, to)]
             A == tree \cap Folders
             B == tree \cap Sessions
  <1>1. /\ from # Gone /\ \A x \in tree : new[x] \in Paths
        /\ Begin(Op("moveTree", SetToSeq(A) \o SetToSeq(B), new, Root))
        /\ Quietly
    BY DEF MoveFolder
  <1>2. f \in tree
    BY <1>1, RootOfSubtree DEF IInv, TypeOK, Kept, Ids
  <1>3. tree \subseteq Folders \cup Sessions /\ \A x \in tree : window[x] # Gone
    BY DEF Subtree, Within
  <1>4. A \cup B = tree /\ A \cup B # {} /\ A \in SUBSET Folders /\ B \in SUBSET Sessions
    BY <1>2, <1>3
  <1>5. new \in [tree -> Paths]
    BY <1>1
  <1> HIDE DEF tree, new, A, B
  <1>6. PICK o : o = Op("moveTree", SetToSeq(A) \o SetToSeq(B), new, Root)
    OBVIOUS
  <1>7. NewOp(o) /\ o.kind = "moveTree" /\ \A x \in o.ids : x \in tree
    BY <1>4, <1>5, <1>6, TreeOpOK
  <1>8. Begin(o)
    BY <1>1, <1>6
  <1>9. dialog = NoOne /\ dialog' = NoOne /\ condemned' = condemned
    BY <1>1, <1>7, <1>8 DEF Begin, Quietly
  <1> QED BY <1>3, <1>7, <1>8, <1>9, BeginIInv

(* A folder is deleted with all below it, all of which was seen.           *)
LEMMA DropTreeIInv ==
  ASSUME IInv, NEW f \in Folders, NEW seen, DropTree(f, seen),
         ~ tangled => window[f] # Gone /\ Subtree(window, window[f]) \subseteq seen \cup {f},
         \/ dialog = NoOne /\ dialog' = NoOne
         \/ dialog # NoOne /\ dialog.id = f /\ ~ dialog.busy /\ dialog' = [dialog EXCEPT !.busy = TRUE]
  PROVE  IInv'
  <1>1. PICK o : o = [Save("dropTree", f, Gone) EXCEPT !.root = window[f]]
    OBVIOUS
  <1>2. NewOp(o) /\ o.kind = "dropTree" /\ o.root = window[f] /\ o.ids = {f}
    <2>1. Gone \in Kept /\ window[f] \in Kept /\ f \in Ids /\ f \notin Macros
      BY StoreAssumption DEF IInv, TypeOK, Kept, Ids
    <2>2. PICK root : root = window[f]
      OBVIOUS
    <2>3. o = [kind |-> "dropTree", todo |-> <<f>>, ids |-> {f}, new |-> [y \in {f} |-> Gone],
               root |-> root, ok |-> TRUE]
      BY <1>1, <2>2, SaveIsSave
    <2>4. /\ "dropTree" \in {"put", "move", "drop", "dropTree"}
          /\ f \in Macros => Gone \in {Root, Gone}
          /\ ("dropTree" \in {"drop", "dropTree"}) <=> (Gone = Gone)
          /\ "dropTree" = "dropTree" => f \in Folders
          /\ root \in Kept
      BY <2>1, <2>2
    <2>5. NewOp(o)
      BY <2>1, <2>3, <2>4, SaveOK
    <2> QED BY <2>2, <2>3, <2>5
  <1>3. Begin(o) /\ condemned' = condemned \cup {f} \cup seen
    BY <1>1 DEF DropTree
  <1> QED BY <1>2, <1>3, BeginIInv

(* The question about a folder that is not empty.                          *)
LEMMA AskIInv ==
  ASSUME IInv, NEW f \in Folders, window[f] # Gone,
         dialog' = [id |-> f, path |-> window[f], busy |-> FALSE],
         tangled' = (tangled \/ Running # {}),
         UNCHANGED <<window, disk, ops, line, served, accepted, condemned>>
  PROVE  IInv'
  <1> USE DEF IInv
  <1>1. Running' = Running /\ Dropping' = Dropping
    BY DEF Running, Dropping
  <1>2. TypeOK' /\ ShownWasSaved' /\ OpsInv' /\ AcceptedInv'
    <2>1. \A s : Written(s)' = Written(s) /\ (Served(s)' <=> Served(s))
      BY DEF Written, Served
    <2>2. TypeOK'
      BY <1>1 DEF TypeOK
    <2>3. ShownWasSaved'
      BY DEF ShownWasSaved, There
    <2>4. OpsInv'
      BY <1>1, <2>1 DEF OpsInv
    <2>5. AcceptedInv'
      BY <1>1, <2>1 DEF AcceptedInv
    <2> QED BY <2>2, <2>3, <2>4, <2>5
  <1>3. ~ tangled' => ~ tangled /\ Running = {} /\ Dropping = {}
    BY DEF Dropping
  <1>4. SyncInv'
    <2> SUFFICES ASSUME ~ tangled' PROVE SyncInv'
      BY DEF SyncInv
    <2>1. \A x \in Ids : disk'[x] = window'[x]
      BY <1>3 DEF SyncInv
    <2> QED BY <1>1, <1>3, <2>1 DEF SyncInv
  <1>5. dialog' \in [id : Folders, path : Kept, busy : BOOLEAN]
    BY DEF TypeOK, Ids
  <1>6. NoSilentLoss <=> NoSilentLoss'
    BY <1>3 DEF NoSilentLoss, SeenInv
  <1>7. ASSUME ~ tangled' PROVE NoSilentLoss'
    BY <1>3, <1>7 DEF NoSilentLoss, SeenInv
  <1>8. window'[dialog'.id] = dialog'.path /\ dialog'.path # Gone
    OBVIOUS
  <1>9. SeenInv'
    BY <1>1, <1>3, <1>5, <1>7, <1>8 DEF SeenInv
  <1> QED BY <1>2, <1>4, <1>9

LEMMA RequestDeleteIInv ==
  ASSUME IInv, NEW f \in Folders, RequestDelete(f)
  PROVE  IInv'
  <1>1. dialog = NoOne /\ window[f] # Gone
    BY DEF RequestDelete
  <1>2. CASE Subtree(window, window[f]) = {f}
    <2>1. DropTree(f, {}) /\ dialog' = NoOne
      BY <1>1, <1>2 DEF RequestDelete
    <2> QED BY <1>1, <1>2, <2>1, DropTreeIInv
  <1>3. CASE Subtree(window, window[f]) # {f}
    <2>1. /\ dialog' = [id |-> f, path |-> window[f], busy |-> FALSE]
          /\ tangled' = (tangled \/ Running # {})
          /\ UNCHANGED <<window, disk, ops, line, served, accepted, condemned>>
      BY <1>3 DEF RequestDelete
    <2> QED BY <1>1, <2>1, AskIInv
  <1> QED BY <1>2, <1>3

LEMMA ConfirmDeleteIInv ==
  ASSUME IInv, ConfirmDelete
  PROVE  IInv'
  <1>1. /\ dialog # NoOne /\ ~ dialog.busy
        /\ DropTree(dialog.id, Subtree(window, dialog.path))
        /\ dialog' = [dialog EXCEPT !.busy = TRUE]
    BY DEF ConfirmDelete
  <1>2. PICK f, seen : f = dialog.id /\ seen = Subtree(window, dialog.path)
    OBVIOUS
  <1>3. f \in Folders
    BY <1>1, <1>2 DEF IInv, SeenInv
  <1>4. ~ tangled => window[f] = dialog.path /\ window[f] # Gone
    BY <1>1, <1>2 DEF IInv, SeenInv
  <1>5. DropTree(f, seen)
    BY <1>1, <1>2
  <1> QED BY <1>1, <1>2, <1>3, <1>4, <1>5, DropTreeIInv

LEMMA CancelDeleteIInv ==
  ASSUME IInv, CancelDelete
  PROVE  IInv'
  <1> USE DEF IInv
  <1>1. /\ dialog' = NoOne
        /\ UNCHANGED <<window, disk, ops, line, served, accepted, condemned, tangled>>
    BY DEF CancelDelete, history
  <1>2. Running' = Running /\ Dropping' = Dropping
    BY <1>1 DEF Running, Dropping
  <1>3. \A s : Written(s)' = Written(s) /\ (Served(s)' <=> Served(s))
    BY <1>1 DEF Written, Served
  <1>4. \A f : Subtree(window, window[f])' = Subtree(window, window[f])
    BY <1>1 DEF Subtree
  <1>5. TypeOK'
    BY <1>1, <1>2 DEF TypeOK
  <1>6. ShownWasSaved'
    BY <1>1 DEF ShownWasSaved, There
  <1>7. OpsInv'
    BY <1>1, <1>2, <1>3 DEF OpsInv
  <1>8. AcceptedInv'
    BY <1>1, <1>2, <1>3 DEF AcceptedInv
  <1>9. SyncInv'
    <2>1. \A u, v : Apart(ops[u], ops[v])' <=> Apart(ops[u], ops[v])
      BY <1>1 DEF Apart
    <2> QED BY <1>1, <1>2, <1>3, <1>4, <2>1 DEF SyncInv
  <1>10. SeenInv'
    <2>1. NoSilentLoss <=> NoSilentLoss'
      BY <1>1 DEF NoSilentLoss
    <2> QED BY <1>1, <1>2, <1>4, <2>1 DEF SeenInv
  <1> QED BY <1>5, <1>6, <1>7, <1>8, <1>9, <1>10

(* The file of another program brings folders and sessions.                *)
LEMMA ImportIInv ==
  ASSUME IInv, Import
  PROVE  IInv'
  <1> DEFINE missing == {q \in FoldersOfImport : ~ \E f \in Folders : window[f] = q}
             added == {k \in SessionsOfImport : ~ \E x \in Sessions : SameSession(x, k)}
  <1>1. PICK fs \in [missing -> Folders \cap Fresh], ss \in [added -> Sessions \cap Fresh] :
          /\ missing # {} \/ added # {}
          /\ LET ids == {fs[q] : q \in missing}
                 new == {ss[k] : k \in added} IN
             Begin(Op("import", SetToSeq(ids) \o SetToSeq(new),
               [x \in ids \cup new |->
                  IF x \in ids THEN CHOOSE q \in missing : fs[q] = x
                               ELSE (CHOOSE k \in added : ss[k] = x).path],
               Root))
          /\ Quietly
    BY DEF Import
  <1>2. missing \subseteq Paths /\ \A k \in added : k.path \in Paths
    BY FoldersOfImportArePaths, StoreAssumption DEF SessionsOfImport
  <1> HIDE DEF missing, added
  <1> DEFINE A == {fs[q] : q \in missing}
             B == {ss[k] : k \in added}
             place == [x \in A \cup B |-> IF x \in A THEN CHOOSE q \in missing : fs[q] = x
                                                   ELSE (CHOOSE k \in added : ss[k] = x).path]
  <1>3. A \in SUBSET Folders /\ B \in SUBSET Sessions /\ A \cup B # {}
    BY <1>1
  <1>4. \A x \in A : (CHOOSE q \in missing : fs[q] = x) \in missing
    OBVIOUS
  <1>5. \A x \in B : (CHOOSE k \in added : ss[k] = x) \in added
    OBVIOUS
  <1>6. place \in [A \cup B -> Paths]
    BY <1>2, <1>4, <1>5
  <1>7. Begin(Op("import", SetToSeq(A) \o SetToSeq(B), place, Root)) /\ Quietly
    BY <1>1
  <1> HIDE DEF A, B, place
  <1>8. PICK o : o = Op("import", SetToSeq(A) \o SetToSeq(B), place, Root)
    OBVIOUS
  <1>9. NewOp(o) /\ o.kind = "import"
    BY <1>3, <1>6, <1>8, TreeOpOK
  <1>10. Begin(o)
    BY <1>7, <1>8
  <1>11. dialog = NoOne /\ dialog' = NoOne /\ condemned' = condemned
    BY <1>7, <1>9, <1>10 DEF Begin, Quietly
  <1> QED BY <1>9, <1>10, <1>11, BeginIInv

-----------------------------------------------------------------------------
(* Every step of the window and of the backend keeps the invariant.        *)
LEMMA NextIInv == IInv /\ [Next]_vars => IInv'
  <1> SUFFICES ASSUME IInv, [Next]_vars PROVE IInv'
    OBVIOUS
  <1>0. Places \subseteq Paths
    BY PlacesArePaths DEF IInv
  <1>1. ASSUME NEW p \in Places, NEW n \in Names, CreateFolder(p, n) PROVE IInv'
    <2>1. PICK f \in Folders : Begin(Save("put", f, Append(p, n))) /\ Append(p, n) \in Paths /\ Quietly
      BY <1>1 DEF CreateFolder
    <2>2. PICK path : path = Append(p, n)
      OBVIOUS
    <2>3. f \in Ids /\ f \notin Macros
      BY StoreAssumption DEF Ids
    <2> QED BY <2>1, <2>2, <2>3, SaveIInv
  <1>2. ASSUME NEW x \in Sessions, NEW p \in Places, UpsertSession(x, p) PROVE IInv'
    <2>1. x \in Ids /\ x \notin Macros /\ p \in Paths
      BY <1>0, StoreAssumption DEF Ids
    <2>2. Begin(Save("put", x, p)) /\ Quietly
      BY <1>2 DEF UpsertSession
    <2> QED BY <2>1, <2>2, SaveIInv
  <1>3. ASSUME NEW x \in Sessions, NEW p \in Places, MoveSession(x, p) PROVE IInv'
    <2>1. x \in Ids /\ x \notin Macros /\ p \in Paths
      BY <1>0, StoreAssumption DEF Ids
    <2>2. Begin(Save("move", x, p)) /\ Quietly /\ window[x] # Gone
      BY <1>3 DEF MoveSession
    <2> QED BY <2>1, <2>2, SaveIInv
  <1>4. ASSUME NEW x \in Sessions, NEW p \in Places, DragSession(x, p) PROVE IInv'
    BY <1>3, <1>4 DEF DragSession
  <1>5. ASSUME NEW f \in Folders, NEW p \in Places, DragFolder(f, p) PROVE IInv'
    BY <1>5, MoveFolderIInv DEF DragFolder
  <1>6. ASSUME NEW x \in Sessions, RemoveSession(x) PROVE IInv'
    BY <1>6, DropIInv DEF RemoveSession, Ids
  <1>7. ASSUME NEW x \in Macros, UpsertMacro(x) PROVE IInv'
    <2>1. x \in Ids /\ Root \in Paths
      BY PathsAreSequences DEF Ids
    <2>2. Begin(Save("put", x, Root)) /\ Quietly
      BY <1>7 DEF UpsertMacro
    <2> QED BY <2>1, <2>2, SaveIInv
  <1>8. ASSUME NEW x \in Macros, RemoveMacro(x) PROVE IInv'
    BY <1>8, DropIInv DEF RemoveMacro, Ids
  <1>9. ASSUME NEW f \in Folders, RequestDelete(f) PROVE IInv'
    BY <1>9, RequestDeleteIInv
  <1>10. ASSUME UNCHANGED vars PROVE IInv'
    <2>1. UNCHANGED <<window, disk, ops, line, served, dialog, accepted, condemned, tangled>>
      BY <1>10 DEF vars, history
    <2>2. Running' = Running /\ Dropping' = Dropping
      BY <2>1 DEF Running, Dropping
    <2>3. \A s : Written(s)' = Written(s) /\ (Served(s)' <=> Served(s))
      BY <2>1 DEF Written, Served
    <2>4. \A f : Subtree(window, window[f])' = Subtree(window, window[f])
      BY <2>1 DEF Subtree
    <2>5. \A u, v : Apart(ops[u], ops[v])' <=> Apart(ops[u], ops[v])
      BY <2>1 DEF Apart
    <2>6. TypeOK' /\ ShownWasSaved'
      BY <2>1, <2>2 DEF IInv, TypeOK, ShownWasSaved, There
    <2>7. OpsInv' /\ AcceptedInv'
      BY <2>1, <2>2, <2>3 DEF IInv, OpsInv, AcceptedInv
    <2>8. SyncInv'
      BY <2>1, <2>2, <2>3, <2>4, <2>5 DEF IInv, SyncInv
    <2>9. SeenInv'
      <3>1. NoSilentLoss <=> NoSilentLoss'
        BY <2>1 DEF NoSilentLoss
      <3> QED BY <2>1, <2>2, <2>4, <3>1 DEF IInv, SeenInv
    <2> QED BY <2>6, <2>7, <2>8, <2>9 DEF IInv
  <1> QED
    BY <1>1, <1>2, <1>3, <1>4, <1>5, <1>6, <1>7, <1>8, <1>9, <1>10,
       ConfirmDeleteIInv, CancelDeleteIInv, ImportIInv, ServeIInv, ContinueIInv
    DEF Next

LEMMA InvariantHolds == Spec => []IInv
  <1>1. Init => IInv
    BY InitIInv
  <1>2. IInv /\ [Next]_vars => IInv'
    BY NextIInv
  <1> QED BY <1>1, <1>2, PTL DEF Spec

(* The window's lists only ever hold items at places they were saved at,   *)
(* whatever actions overlap and whichever commands fail.                   *)
THEOREM ShownItemsWereSaved == Spec => []StoreIsTrue
  <1>1. IInv => StoreIsTrue
    BY DEF IInv, StoreIsTrue
  <1> QED BY <1>1, InvariantHolds, PTL

(* Once no action of the store is under way, and none got in another's way *)
(* or broke off half way, a restart would show the same window.            *)
THEOREM CalmWindowEqualsDisk == Spec => []InStep
  <1>1. IInv => InStep
    <2> SUFFICES ASSUME IInv, Running = {}, ~ tangled PROVE window = disk
      BY DEF InStep
    <2>1. Dropping = {}
      BY DEF Dropping
    <2>2. \A x \in Ids : disk[x] = window[x]
      BY <2>1 DEF IInv, SyncInv
    <2>3. window \in [Ids -> Kept] /\ disk \in [Ids -> Kept]
      BY DEF IInv, TypeOK
    <2> QED BY <2>2, <2>3
  <1> QED BY <1>1, InvariantHolds, PTL

(* Unless actions got in each other's way or broke off half way, nothing   *)
(* disappears from the disk that the user did not see when deleting.       *)
THEOREM NothingIsLostUnseen == Spec => []NoSilentLoss
  <1>1. IInv => NoSilentLoss
    BY DEF IInv, SeenInv, NoSilentLoss
  <1> QED BY <1>1, InvariantHolds, PTL
=============================================================================
