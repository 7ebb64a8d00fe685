--------------------------- MODULE AppShellProofs ---------------------------
(***************************************************************************)
(* Proofs about the frame of the window and the terminal in it, for any    *)
(* tabs, widths, settings, dialogs and bounds: that the terminal on the    *)
(* screen is that of its tab, that the preferences shown are those saved   *)
(* and asked for, and that late answers undo nothing.                      *)
(***************************************************************************)
EXTENDS AppShell, FiniteSetTheorems, SequenceTheorems, WellFoundedInduction, TLAPS

TermSet ==
  [tab : Tabs \cup {Home}, look : {0, 1, 2}, seen : {<<>>} \cup (Seq(Nat) \X BOOLEAN),
   screen : Seq(Nat), written : Nat, ends : BOOLEAN, noticed : BOOLEAN, done : Nat,
   find : BOOLEAN, kept : BOOLEAN, again : BOOLEAN]
RequestSet ==
  [action : Commands \cup {"none"}, nonce : Nat, tab : Tabs \cup {Home}, obeyed : BOOLEAN]
PasteSet == [tab : Tabs, left : BOOLEAN, ends : BOOLEAN]

(* A list of chunks: numbered from 1, the last one has the highest number. *)
IsFeed(s) == s \in Seq(Nat) /\ \A i \in 1 .. Len(s) : s[i] # Notice /\ s[i] <= Last0(s)

StoreInv ==
  /\ row \in Seq(Tabs) /\ shown \in Open \cup {Home}
  /\ feed \in [Tabs -> Seq(Nat)] /\ \A t \in Tabs : IsFeed(feed[t])
  /\ stopped \in [Tabs -> BOOLEAN] /\ looks \in [Tabs -> {1, 2}]
  /\ cleared \in [Tabs -> Nat] /\ \A t \in Open : cleared[t] <= Last0(feed[t])

(* A request was obeyed when it was made.                                  *)
RequestInv ==
  /\ request \in RequestSet
  /\ IF request.action = "none" THEN request.tab = Home ELSE request.obeyed

(* Since it was cleared, or all there is.                                  *)
Complete(v, text, n) == Chunks(v.screen) = text \/ Chunks(v.screen) = After(text, n)

(* The terminal has seen the store as it is.                               *)
Current(v, text, stop, n) ==
  /\ v.seen = <<text, stop>> /\ v.written = Len(text)
  /\ v.ends = stop /\ v.noticed = stop
  /\ stop => Contains(v.screen, Notice)
  /\ ~ v.again /\ ~ v.kept => Complete(v, text, n)

TermInv ==
  /\ term \in TermSet /\ term.tab = shown /\ term.done <= request.nonce
  /\ shown # Home =>
       /\ Current(term, feed[shown], stopped[shown], cleared[shown])
       /\ term.look = looks[shown]

(* A paste that knows its terminal is about the one on the screen.         *)
PasteInv ==
  /\ \A p \in pastes : p \in PasteSet /\ (~ p.left => p.tab = term.tab)
  /\ PasteStaysHome

ScreenInv == StoreInv /\ RequestInv /\ TermInv /\ PasteInv

-----------------------------------------------------------------------------
SaveSet   == [prefs : PrefType, by : {"side", "width", "settings"}, answer : {"none", "ok", "error"}]
DragSet   == [on : BOOLEAN, draft : Widths \cup {"none"}, ref : Widths]
Fields    == {"side", "width", "option"}
DialogSet == [open : BOOLEAN, item : Items \cup {New}, no : Nat, error : BOOLEAN]

PrefTypes ==
  /\ prefs \in PrefType /\ saved \in PrefType /\ wanted \in PrefType
  /\ saves \in Seq(SaveSet) /\ lastAuto \in Tabs \cup {"none"} /\ drag \in DragSet
  /\ settings \in [open : BOOLEAN, tab : {"interface", "about"}, draft : PrefType,
                   touched : SUBSET Fields, saving : BOOLEAN]
  /\ crossed \in BOOLEAN /\ failed \in BOOLEAN

(* Saves are served in order, and the state file has what was served last. *)
Served(sv, p, q, fl) ==
  /\ \A i, j \in 1 .. Len(q) : i < j /\ q[j].answer # "none" => q[i].answer # "none"
  /\ \/ sv = p /\ \A i \in 1 .. Len(q) : q[i].answer # "ok"
     \/ \E i \in 1 .. Len(q) :
          /\ q[i].answer = "ok" /\ sv = q[i].prefs
          /\ \A j \in 1 .. Len(q) : i < j => q[j].answer # "ok"
  /\ \A i \in 1 .. Len(q) : q[i].answer = "error" => fl

(* The one save under way, or the window, has all that was asked for.      *)
Asked(p, q, w) == IF q = <<>> THEN p = w ELSE Len(q) = 1 /\ q[1].prefs = w

QueueInv ==
  /\ Served(saved, prefs, saves, failed)
  /\ ~ crossed /\ ~ failed => Asked(prefs, saves, wanted)

(* A width that has been dragged is being saved.                           *)
Dragged(d, q, fl) ==
  ~ d.on /\ ~ fl /\ d.draft # "none" => \E i \in 1 .. Len(q) : q[i].by = "width"

(* The settings differ from the window in what was touched.                *)
DraftInv == settings.open => \A f \in Fields \ settings.touched : settings.draft[f] = prefs[f]

PrefInv == PrefTypes /\ QueueInv /\ Dragged(drag, saves, failed) /\ DraftInv

(* Authentication is only asked for during a lock, once at a time.         *)
LockInv ==
  /\ lock \in [support : {"unknown", "yes", "no"}, locked : BOOLEAN, busy : BOOLEAN, no : Nat,
               asks : SUBSET Nat, by : Nat]
  /\ lock.asks = IF lock.locked /\ lock.busy THEN {lock.no} ELSE {}
  /\ lock.locked => lock.no > 0
  /\ lock.no > 0 /\ ~ lock.locked => lock.by = lock.no

BoxInv ==
  /\ dialogs \in [Dialogs -> DialogSet] /\ posts \subseteq Dialogs \X Nat
  /\ DraftIsSavedOrKept

IInv == ScreenInv /\ PrefInv /\ LockInv /\ BoxInv

-----------------------------------------------------------------------------
(* Sequences.                                                              *)

(* A set of numbers has a least one: what induction rests on below.        *)
LEMMA Least ==
  ASSUME NEW B, B \subseteq Nat, B # {}
  PROVE  \E m \in B : \A k \in B : ~ (k < m)
  <1>1. IsWellFoundedOn(OpToRel(<, Nat), Nat)
    BY NatLessThanWellFounded
  <1>2. PICK m \in B : \A k \in B : ~ (<<k, m>> \in OpToRel(<, Nat))
    BY <1>1, WFMin
  <1>3. \A k \in B : k < m => <<k, m>> \in OpToRel(<, Nat)
    BY DEF OpToRel
  <1> QED BY <1>2, <1>3

(* Only as a recursive function.                                           *)
LEMMA OnlyUnfolds ==
  ASSUME NEW T, NEW seq \in Seq(T), NEW S
  PROVE  \E f : /\ f[0] = <<>> /\ Only(seq, S) = f[Len(seq)]
                /\ \A i \in 1 .. Len(seq) :
                     f[i] = IF seq[i] \in S THEN Append(f[i - 1], seq[i]) ELSE f[i - 1]
  <1> DEFINE KeptStep(f, i) == IF i = 0 THEN <<>>
                               ELSE IF seq[i] \in S THEN Append(f[i - 1], seq[i]) ELSE f[i - 1]
             IsKept(f, n) == f = [i \in 0 .. n |-> KeptStep(f, i)]
  <1>1. Len(seq) \in Nat /\ DOMAIN seq = 1 .. Len(seq) /\ \A i \in 1 .. Len(seq) : seq[i] \in T
    BY LenProperties
  <1>2. \A n \in Nat : \E f : IsKept(f, n)
    <2> DEFINE B == {n \in Nat : ~ \E f : IsKept(f, n)}
    <2> SUFFICES ASSUME B # {} PROVE FALSE
      OBVIOUS
    <2>1. PICK n \in B : \A k \in B : ~ (k < n)
      BY Least
    <2>2. CASE n = 0
      <3>1. PICK f : f = [i \in 0 .. 0 |-> <<>>]
        OBVIOUS
      <3>2. f = [i \in 0 .. 0 |-> KeptStep(f, i)]
        BY <3>1
      <3> QED BY <2>1, <2>2, <3>2
    <2>3. CASE n # 0
      <3>1. n - 1 \in Nat /\ n - 1 < n /\ n \in Nat
        BY <2>1, <2>3
      <3>2. PICK f : IsKept(f, n - 1)
        BY <2>1, <3>1
      <3>3. PICK g : g = [i \in 0 .. n |-> IF i = n THEN KeptStep(f, n) ELSE f[i]]
        OBVIOUS
      <3>4. \A i \in 0 .. n - 1 : f[i] = KeptStep(f, i)
        BY <3>2
      <3>5. \A i \in 0 .. n - 1 : g[i] = f[i]
        BY <3>1, <3>3
      <3>6. ASSUME NEW i \in 0 .. n PROVE g[i] = KeptStep(g, i)
        <4>1. CASE i = n
          <5>1. g[n] = KeptStep(f, n)
            BY <3>1, <3>3
          <5>2. g[n - 1] = f[n - 1]
            BY <3>1, <3>5
          <5> QED BY <4>1, <5>1, <5>2
        <4>2. CASE i # n /\ i # 0
          <5>1. i \in 0 .. n - 1 /\ i - 1 \in 0 .. n - 1
            BY <3>1, <4>2
          <5>2. g[i] = KeptStep(f, i) /\ g[i - 1] = f[i - 1]
            BY <3>4, <3>5, <5>1
          <5> QED BY <5>2
        <4>3. CASE i # n /\ i = 0
          <5>1. i \in 0 .. n - 1
            BY <3>1, <4>3
          <5>2. g[i] = KeptStep(f, i)
            BY <3>4, <3>5, <5>1
          <5> QED BY <4>3, <5>2
        <4> QED BY <4>1, <4>2, <4>3
      <3>7. DOMAIN g = 0 .. n /\ g = [i \in 0 .. n |-> g[i]]
        BY <3>3
      <3>8. g = [i \in 0 .. n |-> KeptStep(g, i)]
        BY <3>6, <3>7
      <3> QED BY <2>1, <3>8
    <2> QED BY <2>2, <2>3
  <1>3. PICK f : /\ f = [i \in 0 .. Len(seq) |-> KeptStep(f, i)]
                 /\ Only(seq, S) = f[Len(seq)]
    <2>1. \E f : IsKept(f, Len(seq))
      BY <1>1, <1>2
    <2> DEFINE c == CHOOSE f : IsKept(f, Len(seq))
    <2>2. IsKept(c, Len(seq))
      BY <2>1
    <2>3. Only(seq, S) = c[Len(seq)]
      BY DEF Only
    <2> QED BY <2>2, <2>3
  <1>4. f[0] = <<>>
    <2>1. 0 \in 0 .. Len(seq)
      BY <1>1
    <2> QED BY <1>3, <2>1
  <1>5. \A i \in 1 .. Len(seq) :
          f[i] = IF seq[i] \in S THEN Append(f[i - 1], seq[i]) ELSE f[i - 1]
    <2>1. \A i \in 1 .. Len(seq) : i \in 0 .. Len(seq) /\ i # 0
      BY <1>1
    <2> QED BY <1>3, <2>1
  <1> QED BY <1>3, <1>4, <1>5

LEMMA AppendFacts ==
  ASSUME NEW T, NEW seq \in Seq(T), NEW e \in T
  PROVE  /\ Append(seq, e) \in Seq(T) /\ Len(Append(seq, e)) = Len(seq) + 1
         /\ \A i \in 1 .. Len(seq) : Append(seq, e)[i] = seq[i]
         /\ Append(seq, e)[Len(seq) + 1] = e /\ Append(seq, e) # <<>>
         /\ Last0(Append(seq, e)) = e
  <1>1. /\ Append(seq, e) \in Seq(T) /\ Len(Append(seq, e)) = Len(seq) + 1
        /\ \A i \in 1 .. Len(seq) : Append(seq, e)[i] = seq[i]
        /\ Append(seq, e)[Len(seq) + 1] = e
    BY AppendProperties
  <1>2. Append(seq, e) # <<>>
    BY <1>1, EmptySeq, LenProperties
  <1>3. Last0(Append(seq, e)) = e
    BY <1>1, <1>2 DEF Last0, Last
  <1> QED BY <1>1, <1>2, <1>3

(* What is added at the end is added to what is kept.                      *)
LEMMA OnlyAdds ==
  ASSUME NEW T, NEW seq \in Seq(T), NEW S, NEW e \in T
  PROVE  Only(Append(seq, e), S) = IF e \in S THEN Append(Only(seq, S), e) ELSE Only(seq, S)
  <1> DEFINE n == Len(seq)
  <1>1. PICK q \in Seq(T) : q = Append(seq, e)
    BY AppendFacts
  <1>2. Len(q) = n + 1 /\ q[n + 1] = e /\ (\A i \in 1 .. n : q[i] = seq[i]) /\ n \in Nat
    BY <1>1, AppendFacts, LenProperties
  <1>3. PICK f : /\ f[0] = <<>> /\ Only(seq, S) = f[n]
                 /\ \A i \in 1 .. n :
                      f[i] = IF seq[i] \in S THEN Append(f[i - 1], seq[i]) ELSE f[i - 1]
    BY OnlyUnfolds
  <1>4. PICK g : /\ g[0] = <<>> /\ Only(q, S) = g[Len(q)]
                 /\ \A i \in 1 .. Len(q) :
                      g[i] = IF q[i] \in S THEN Append(g[i - 1], q[i]) ELSE g[i - 1]
    BY OnlyUnfolds
  <1> HIDE DEF n
  <1>5. \A i \in 0 .. n : g[i] = f[i]
    <2> DEFINE B == {i \in 0 .. n : g[i] # f[i]}
    <2> SUFFICES ASSUME B # {} PROVE FALSE
      OBVIOUS
    <2>1. B \subseteq Nat
      BY <1>2
    <2>2. PICK i \in B : \A k \in B : ~ (k < i)
      <3> HIDE DEF B
      <3> QED BY <2>1, Least
    <2>3. i \in 1 .. n /\ i - 1 \in 0 .. n /\ i - 1 < i /\ i \in 1 .. Len(q)
      BY <1>2, <1>3, <1>4, <2>2
    <2>4. g[i - 1] = f[i - 1]
      BY <2>2, <2>3
    <2>5. g[i] = f[i]
      BY <1>2, <1>3, <1>4, <2>3, <2>4
    <2> QED BY <2>2, <2>5
  <1>6. g[n + 1] = IF e \in S THEN Append(g[n], e) ELSE g[n]
    <2>1. n + 1 \in 1 .. Len(q) /\ (n + 1) - 1 = n
      BY <1>2
    <2> QED BY <1>2, <1>4, <2>1
  <1>7. g[n] = f[n]
    BY <1>2, <1>5
  <1> QED BY <1>1, <1>2, <1>3, <1>4, <1>6, <1>7

(* What has only elements to keep is kept whole.                           *)
LEMMA OnlyWhole ==
  ASSUME NEW T, NEW seq \in Seq(T), NEW S, \A i \in 1 .. Len(seq) : seq[i] \in S
  PROVE  Only(seq, S) = seq
  <1>1. PICK f : /\ f[0] = <<>> /\ Only(seq, S) = f[Len(seq)]
                 /\ \A i \in 1 .. Len(seq) :
                      f[i] = IF seq[i] \in S THEN Append(f[i - 1], seq[i]) ELSE f[i - 1]
    BY OnlyUnfolds
  <1>2. Len(seq) \in Nat
    BY LenProperties
  <1> DEFINE B == {i \in 0 .. Len(seq) : f[i] # SubSeq(seq, 1, i)}
  <1>3. B = {}
    <2> SUFFICES ASSUME B # {} PROVE FALSE
      OBVIOUS
    <2>1. B \subseteq Nat
      BY <1>2
    <2>2. PICK i \in B : \A k \in B : ~ (k < i)
      <3> HIDE DEF B
      <3> QED BY <2>1, Least
    <2>3. i \in 0 .. Len(seq) /\ i \in Nat
      BY <1>2, <2>2
    <2>4. CASE i = 0
      <3>1. SubSeq(seq, 1, 0) = <<>>
        BY SubSeqEmpty
      <3> QED BY <1>1, <2>2, <2>4, <3>1
    <2>5. CASE i # 0
      <3>1. i \in 1 .. Len(seq) /\ i - 1 \in 0 .. Len(seq) /\ i - 1 < i
        BY <2>3, <2>5
      <3>2. f[i - 1] = SubSeq(seq, 1, i - 1)
        BY <2>2, <3>1
      <3>3. SubSeq(seq, 1, i) = Append(SubSeq(seq, 1, i - 1), seq[i])
        BY <3>1, SubSeqRecursiveSecond
      <3>4. f[i] = Append(f[i - 1], seq[i])
        BY <1>1, <3>1
      <3> QED BY <2>2, <3>2, <3>3, <3>4
    <2> QED BY <2>4, <2>5
  <1>4. f[Len(seq)] = SubSeq(seq, 1, Len(seq))
    <2>1. Len(seq) \in 0 .. Len(seq)
      BY <1>2
    <2> QED BY <1>3, <2>1
  <1>5. SubSeq(seq, 1, Len(seq)) = seq
    BY SubSeqFull
  <1> QED BY <1>1, <1>4, <1>5

(* What has no element to keep leaves nothing.                             *)
LEMMA OnlyNothing ==
  ASSUME NEW T, NEW seq \in Seq(T), NEW S, \A i \in 1 .. Len(seq) : seq[i] \notin S
  PROVE  Only(seq, S) = <<>>
  <1>1. PICK f : /\ f[0] = <<>> /\ Only(seq, S) = f[Len(seq)]
                 /\ \A i \in 1 .. Len(seq) :
                      f[i] = IF seq[i] \in S THEN Append(f[i - 1], seq[i]) ELSE f[i - 1]
    BY OnlyUnfolds
  <1>2. Len(seq) \in Nat
    BY LenProperties
  <1> DEFINE B == {i \in 0 .. Len(seq) : f[i] # <<>>}
  <1>3. B = {}
    <2> SUFFICES ASSUME B # {} PROVE FALSE
      OBVIOUS
    <2>1. B \subseteq Nat
      BY <1>2
    <2>2. PICK i \in B : \A k \in B : ~ (k < i)
      <3> HIDE DEF B
      <3> QED BY <2>1, Least
    <2>3. i \in 1 .. Len(seq) /\ i - 1 \in 0 .. Len(seq) /\ i - 1 < i
      BY <1>1, <1>2, <2>2
    <2>4. f[i - 1] = <<>>
      BY <2>2, <2>3
    <2>5. f[i] = f[i - 1]
      BY <1>1, <2>3
    <2> QED BY <2>2, <2>4, <2>5
  <1>4. f[Len(seq)] = <<>>
    <2>1. Len(seq) \in 0 .. Len(seq)
      BY <1>2
    <2> QED BY <1>3, <2>1
  <1> QED BY <1>1, <1>4

LEMMA NoElements == ToSet(<<>>) = {} /\ \A T : <<>> \in Seq(T)
  BY DEF ToSet

(* The elements of what is kept.                                           *)
LEMMA OnlyElements ==
  ASSUME NEW T, NEW seq \in Seq(T), NEW S
  PROVE  /\ Only(seq, S) \in Seq(T)
         /\ \A x : x \in ToSet(Only(seq, S)) <=> x \in ToSet(seq) /\ x \in S
  <1>1. PICK f : /\ f[0] = <<>> /\ Only(seq, S) = f[Len(seq)]
                 /\ \A i \in 1 .. Len(seq) :
                      f[i] = IF seq[i] \in S THEN Append(f[i - 1], seq[i]) ELSE f[i - 1]
    BY OnlyUnfolds
  <1>2. Len(seq) \in Nat /\ DOMAIN seq = 1 .. Len(seq) /\ \A i \in 1 .. Len(seq) : seq[i] \in T
    BY LenProperties, ElementOfSeq
  <1> DEFINE Good(i) == /\ f[i] \in Seq(T)
                        /\ \A x : x \in ToSet(f[i]) <=> x \in S /\ \E j \in 1 .. i : seq[j] = x
             B == {i \in 0 .. Len(seq) : ~ Good(i)}
  <1>3. B = {}
    <2> SUFFICES ASSUME B # {} PROVE FALSE
      OBVIOUS
    <2>1. B \subseteq Nat
      BY <1>2
    <2>2. PICK i \in B : \A k \in B : ~ (k < i)
      <3> HIDE DEF B
      <3> QED BY <2>1, Least
    <2>3. i \in 0 .. Len(seq) /\ i \in Nat /\ ~ Good(i)
      BY <1>2, <2>2
    <2>4. CASE i = 0
      <3>1. f[i] \in Seq(T) /\ ToSet(f[i]) = {}
        BY <1>1, <2>4, NoElements
      <3>2. ~ \E j \in 1 .. i : TRUE
        BY <2>4
      <3> QED BY <2>3, <3>1, <3>2
    <2>5. CASE i # 0
      <3>1. i \in 1 .. Len(seq) /\ i - 1 \in 0 .. Len(seq) /\ i - 1 < i /\ seq[i] \in T
        BY <1>2, <2>3, <2>5
      <3>2. Good(i - 1)
        <4> HIDE DEF Good
        <4> QED BY <2>2, <3>1
      <3>3. \A x : (\E j \in 1 .. i : seq[j] = x) <=> (\E j \in 1 .. i - 1 : seq[j] = x) \/ x = seq[i]
        <4>1. \A j \in 1 .. i : j \in 1 .. i - 1 \/ j = i
          BY <2>3
        <4>2. i \in 1 .. i /\ 1 .. i - 1 \subseteq 1 .. i
          BY <2>3, <2>5
        <4> QED BY <4>1, <4>2
      <3>4. PICK p \in Seq(T) : p = f[i - 1]
        BY <3>2
      <3>5. \A x : x \in ToSet(p) <=> x \in S /\ \E j \in 1 .. i - 1 : seq[j] = x
        BY <3>2, <3>4
      <3>6. CASE seq[i] \notin S
        <4>1. f[i] = p
          BY <1>1, <3>1, <3>4, <3>6
        <4> QED BY <2>3, <3>3, <3>4, <3>5, <3>6, <4>1
      <3>7. CASE seq[i] \in S
        <4>1. f[i] = Append(p, seq[i])
          BY <1>1, <3>1, <3>4, <3>7
        <4>2. PICK e \in T : e = seq[i]
          BY <3>1
        <4>3. PICK q \in Seq(T) : q = Append(p, e)
          BY AppendFacts
        <4>4. /\ Len(q) = Len(p) + 1 /\ q[Len(p) + 1] = e /\ (\A j \in 1 .. Len(p) : q[j] = p[j])
              /\ Len(p) \in Nat /\ DOMAIN p = 1 .. Len(p) /\ DOMAIN q = 1 .. Len(q)
          BY <4>3, AppendFacts, LenProperties
        <4>5. \A x : x \in ToSet(q) <=> x \in ToSet(p) \/ x = e
          <5>1. \A j \in 1 .. Len(p) + 1 : j \in 1 .. Len(p) \/ j = Len(p) + 1
            BY <4>4
          <5>2. 1 .. Len(p) \subseteq 1 .. Len(p) + 1 /\ Len(p) + 1 \in 1 .. Len(p) + 1
            BY <4>4
          <5> QED BY <4>4, <5>1, <5>2 DEF ToSet
        <4>6. f[i] = q
          BY <4>1, <4>2, <4>3
        <4>7. \A x : x \in ToSet(q) <=> x \in S /\ \E j \in 1 .. i : seq[j] = x
          BY <3>3, <3>5, <3>7, <4>2, <4>5
        <4> QED BY <2>3, <4>6, <4>7
      <3> QED BY <3>6, <3>7
    <2> QED BY <2>4, <2>5
  <1>4. Good(Len(seq))
    <2>1. Len(seq) \in 0 .. Len(seq)
      BY <1>2
    <2> HIDE DEF Good
    <2> QED BY <1>3, <2>1
  <1>5. \A x : (\E j \in 1 .. Len(seq) : seq[j] = x) <=> x \in ToSet(seq)
    BY <1>2 DEF ToSet
  <1> QED BY <1>1, <1>4, <1>5

-----------------------------------------------------------------------------
(* The lock.                                                               *)

LEMMA LockMoves ==
  ASSUME LockInv,
         \/ \E available \in BOOLEAN : LockSupport(available)
         \/ LockApp \/ UnlockApp
         \/ \E n \in lock.asks, known \in BOOLEAN : UnlockAnswer(n, known)
  PROVE  LockInv'
  <1>1. ASSUME NEW available \in BOOLEAN, LockSupport(available) PROVE LockInv'
    BY <1>1 DEF LockInv, LockSupport
  <1>2. CASE LockApp
    <2>1. /\ lock'.locked = TRUE /\ lock'.busy = FALSE /\ lock'.no = lock.no + 1
          /\ lock'.asks = lock.asks /\ lock'.by = lock.by /\ lock'.support = lock.support
          /\ lock' = [lock EXCEPT !.locked = TRUE, !.busy = FALSE, !.no = lock.no + 1]
      BY <1>2 DEF LockInv, LockApp
    <2>2. lock.asks = {} /\ lock.no \in Nat /\ lock.no + 1 \in Nat /\ lock.no + 1 > 0
      BY <1>2 DEF LockInv, LockApp
    <2>3. lock' \in [support : {"unknown", "yes", "no"}, locked : BOOLEAN, busy : BOOLEAN,
                     no : Nat, asks : SUBSET Nat, by : Nat]
      <3> DEFINE n == lock.no + 1
      <3>1. n \in Nat
        BY <2>2
      <3>2. lock' = [lock EXCEPT !.locked = TRUE, !.busy = FALSE, !.no = n]
        BY <2>1
      <3> HIDE DEF n
      <3> QED BY <3>1, <3>2 DEF LockInv
    <2> QED BY <2>1, <2>2, <2>3 DEF LockInv
  <1>3. CASE UnlockApp
    BY <1>3 DEF LockInv, UnlockApp
  <1>4. ASSUME NEW n \in lock.asks, NEW known \in BOOLEAN, UnlockAnswer(n, known) PROVE LockInv'
    <2>1. lock.locked /\ lock.busy /\ n = lock.no
      BY DEF LockInv
    <2> QED BY <1>4, <2>1 DEF LockInv, UnlockAnswer
  <1> QED BY <1>1, <1>2, <1>3, <1>4

LEMMA LockKept == ASSUME LockInv, [Next]_vars PROVE LockInv'
  <1>1. CASE LockFromSettings
    BY <1>1, LockMoves DEF LockFromSettings
  <1>2. CASE LockStep
    BY <1>2, LockMoves DEF LockStep
  <1>3. CASE UNCHANGED lock
    BY <1>3 DEF LockInv
  <1>4. ScreenStep \/ PrefStep \/ BoxStep \/ BoxFault \/ Answer \/ UNCHANGED vars => UNCHANGED lock
    BY DEF ScreenStep, PrefStep, BoxStep, BoxFault, Answer, vars, shellVars
  <1>5. ASSUME NEW ok \in BOOLEAN, Serve(ok) PROVE UNCHANGED lock
    BY <1>5 DEF Serve
  <1> QED BY <1>1, <1>2, <1>3, <1>4, <1>5 DEF Next

(* A lock ends only by an authentication that was asked for during it.     *)
LEMMA LockFacts == LockInv => UnlockIsOwn /\ lock.asks \subseteq 1 .. lock.no
  BY DEF LockInv, UnlockIsOwn

-----------------------------------------------------------------------------
(* The dialogs.                                                            *)

(* One dialog changes: what it held is kept, let go or still there.        *)
LEMMA BoxMoves ==
  ASSUME BoxInv, NEW k \in Dialogs, NEW d \in DialogSet, dialogs' = [dialogs EXCEPT ![k] = d],
         posts' \subseteq Dialogs \X Nat, kept \subseteq kept', let \subseteq let',
         \A n \in 1 .. d.no :
           \/ n \in 1 .. dialogs[k].no /\ <<k, n>> \notin Ids(k)
           \/ <<k, n>> \in kept' \cup let'
           \/ d.open /\ n = d.no
  PROVE  BoxInv'
  <1>1. dialogs' \in [Dialogs -> DialogSet] /\ dialogs'[k] = d
    BY DEF BoxInv
  <1>2. ASSUME NEW j \in Dialogs, NEW n \in 1 .. dialogs'[j].no
        PROVE  <<j, n>> \in kept' \cup let' \cup Ids(j)'
    <2>1. CASE j = k
      <3>1. n \in 1 .. dialogs[k].no => <<k, n>> \in kept \cup let \cup Ids(k)
        BY DEF BoxInv, DraftIsSavedOrKept
      <3>2. d.open => <<k, d.no>> \in Ids(k)'
        BY <1>1 DEF Ids
      <3> QED BY <1>1, <2>1, <3>1, <3>2
    <2>2. CASE j # k
      <3>1. dialogs'[j] = dialogs[j]
        BY <2>2 DEF BoxInv
      <3>2. Ids(j)' = Ids(j)
        BY <3>1 DEF Ids
      <3>3. <<j, n>> \in kept \cup let \cup Ids(j)
        BY <3>1 DEF BoxInv, DraftIsSavedOrKept
      <3> QED BY <3>2, <3>3
    <2> QED BY <2>1, <2>2
  <1> QED BY <1>1, <1>2 DEF BoxInv, DraftIsSavedOrKept

LEMMA BoxSteps ==
  ASSUME BoxInv, NEW k \in Dialogs,
         \/ \E i \in Items \cup {New} : OpenDialog(k, i)
         \/ CloseDialog(k) \/ SubmitDialog(k)
         \/ \E n \in 1 .. dialogs[k].no : DialogSaved(k, n)
         \/ \E n \in 1 .. dialogs[k].no : DialogFailed(k, n)
  PROVE  BoxInv'
  <1>1. dialogs[k] \in DialogSet /\ dialogs[k].no \in Nat
    BY DEF BoxInv, DialogSet
  <1>2. \A n : <<k, n>> \in Ids(k) => dialogs[k].open /\ n = dialogs[k].no
    BY DEF Ids
  <1>3. Ids(k) \subseteq Dialogs \X Nat
    BY <1>1 DEF Ids
  <1>4. ASSUME NEW i \in Items \cup {New}, OpenDialog(k, i) PROVE BoxInv'
    <2>1. CASE dialogs[k].open /\ dialogs[k].item = i
      BY <1>4, <2>1 DEF OpenDialog, BoxInv, DraftIsSavedOrKept, Ids
    <2>2. CASE ~ (dialogs[k].open /\ dialogs[k].item = i)
      <3> DEFINE d == [open |-> TRUE, item |-> i, no |-> dialogs[k].no + 1, error |-> FALSE]
      <3>1. d \in DialogSet
        BY <1>1 DEF DialogSet
      <3>2. dialogs' = [dialogs EXCEPT ![k] = d] /\ let' = let \cup Ids(k) /\ UNCHANGED <<posts, kept>>
        BY <1>4, <2>2 DEF OpenDialog
      <3>3. \A n \in 1 .. d.no : n \in 1 .. dialogs[k].no \/ n = d.no
        BY <1>1
      <3>4. \A n \in 1 .. d.no :
              \/ n \in 1 .. dialogs[k].no /\ <<k, n>> \notin Ids(k)
              \/ <<k, n>> \in kept' \cup let'
              \/ d.open /\ n = d.no
        BY <3>2, <3>3
      <3>5. posts' \subseteq Dialogs \X Nat
        BY <3>2 DEF BoxInv
      <3> HIDE DEF d
      <3> QED BY <3>1, <3>2, <3>4, <3>5, BoxMoves
    <2> QED BY <2>1, <2>2
  <1>5. CASE CloseDialog(k)
    <2> DEFINE d == Shut(dialogs[k])
    <2>1. d \in DialogSet /\ d.no = dialogs[k].no
      BY <1>1 DEF DialogSet, Shut
    <2>2. dialogs' = [dialogs EXCEPT ![k] = d] /\ let' = let \cup Ids(k) /\ UNCHANGED <<posts, kept>>
      BY <1>5 DEF CloseDialog
    <2>3. posts' \subseteq Dialogs \X Nat
      BY <2>2 DEF BoxInv
    <2> HIDE DEF d
    <2> QED BY <2>1, <2>2, <2>3, BoxMoves
  <1>6. CASE SubmitDialog(k)
    <2> DEFINE d == [dialogs[k] EXCEPT !.error = FALSE]
    <2>1. d \in DialogSet /\ d.no = dialogs[k].no /\ d.open = dialogs[k].open
      BY <1>1 DEF DialogSet
    <2>2. /\ dialogs' = [dialogs EXCEPT ![k] = d] /\ posts' = posts \cup Ids(k)
          /\ UNCHANGED <<kept, let>>
      BY <1>6 DEF SubmitDialog
    <2>3. posts' \subseteq Dialogs \X Nat
      BY <1>3, <2>2 DEF BoxInv
    <2> HIDE DEF d
    <2> QED BY <1>2, <2>1, <2>2, <2>3, BoxMoves
  <1>7. ASSUME NEW m \in 1 .. dialogs[k].no, DialogSaved(k, m) PROVE BoxInv'
    <2> DEFINE d == Shut(dialogs[k])
    <2>1. d \in DialogSet /\ d.no = dialogs[k].no
      BY <1>1 DEF DialogSet, Shut
    <2>2. /\ dialogs' = [dialogs EXCEPT ![k] = d] /\ posts' \subseteq posts
          /\ kept' = kept \cup {<<k, m>>} /\ let' = let \cup (Ids(k) \ {<<k, m>>})
      BY <1>7 DEF DialogSaved
    <2>3. posts' \subseteq Dialogs \X Nat
      BY <2>2 DEF BoxInv
    <2>4. Ids(k) \subseteq kept' \cup let'
      BY <2>2
    <2> HIDE DEF d
    <2> QED BY <2>1, <2>2, <2>3, <2>4, BoxMoves
  <1>8. ASSUME NEW m \in 1 .. dialogs[k].no, DialogFailed(k, m) PROVE BoxInv'
    <2>0. PICK e \in BOOLEAN :
            e = (dialogs[k].error \/ (k = "session" /\ dialogs[k].open /\ dialogs[k].no = m))
      BY <1>1 DEF DialogSet
    <2> DEFINE d == [dialogs[k] EXCEPT !.error = e]
    <2>1. d \in DialogSet /\ d.no = dialogs[k].no /\ d.open = dialogs[k].open
      BY <1>1 DEF DialogSet
    <2>2. dialogs' = [dialogs EXCEPT ![k] = d] /\ posts' \subseteq posts /\ UNCHANGED <<kept, let>>
      BY <1>8, <2>0 DEF DialogFailed
    <2>3. posts' \subseteq Dialogs \X Nat
      BY <2>2 DEF BoxInv
    <2> HIDE DEF d
    <2> QED BY <1>2, <2>1, <2>2, <2>3, BoxMoves
  <1> QED BY <1>4, <1>5, <1>6, <1>7, <1>8

LEMMA BoxKept == ASSUME BoxInv, [Next]_vars PROVE BoxInv'
  <1>1. CASE BoxStep \/ BoxFault
    BY <1>1, BoxSteps DEF BoxStep, BoxFault
  <1>2. CASE UNCHANGED boxVars
    BY <1>2 DEF BoxInv, boxVars, DraftIsSavedOrKept, Ids
  <1>3. (LockFromSettings /\ UNCHANGED <<stage, boxVars, faults>>)
          \/ ScreenStep \/ PrefStep \/ LockStep \/ Answer \/ UNCHANGED vars => UNCHANGED boxVars
    BY DEF ScreenStep, PrefStep, LockStep, Answer, vars, shellVars
  <1>4. ASSUME NEW ok \in BOOLEAN, Serve(ok) PROVE UNCHANGED boxVars
    BY <1>4 DEF Serve
  <1> QED BY <1>1, <1>2, <1>3, <1>4 DEF Next

-----------------------------------------------------------------------------
(* The preferences.                                                        *)

LEMMA SavesFacts ==
  ASSUME NEW q \in Seq(SaveSet), NEW s \in SaveSet
  PROVE  /\ Append(q, s) \in Seq(SaveSet) /\ Append(q, s) # <<>> /\ Len(q) \in Nat
         /\ Len(Append(q, s)) = Len(q) + 1 /\ Append(q, s)[Len(q) + 1] = s
         /\ \A i \in 1 .. Len(q) : Append(q, s)[i] = q[i] /\ i \in 1 .. Len(q) + 1
         /\ \A i \in 1 .. Len(q) + 1 : i \in 1 .. Len(q) \/ i = Len(q) + 1
         /\ Len(q) + 1 \in 1 .. Len(q) + 1
  <1>1. Len(q) \in Nat
    BY LenProperties
  <1>2. \A i \in 1 .. Len(q) : i \in 1 .. Len(q) + 1
    BY <1>1
  <1>3. \A i \in 1 .. Len(q) + 1 : i \in 1 .. Len(q) \/ i = Len(q) + 1
    BY <1>1
  <1>4. Len(q) + 1 \in 1 .. Len(q) + 1
    BY <1>1
  <1>5. /\ Append(q, s) \in Seq(SaveSet) /\ Append(q, s) # <<>>
        /\ Len(Append(q, s)) = Len(q) + 1 /\ Append(q, s)[Len(q) + 1] = s
        /\ \A i \in 1 .. Len(q) : Append(q, s)[i] = q[i]
    BY AppendFacts
  <1> QED BY <1>1, <1>2, <1>3, <1>4, <1>5

LEMMA TailFacts ==
  ASSUME NEW q \in Seq(SaveSet), q # <<>>
  PROVE  /\ Head(q) = q[1] /\ q[1] \in SaveSet /\ 1 \in 1 .. Len(q) /\ Len(q) \in Nat
         /\ Tail(q) \in Seq(SaveSet) /\ Len(Tail(q)) = Len(q) - 1
         /\ \A i \in 1 .. Len(q) - 1 : Tail(q)[i] = q[i + 1] /\ i + 1 \in 1 .. Len(q)
  <1>1. Len(q) \in Nat /\ Len(q) # 0
    BY LenProperties, EmptySeq
  <1>2. /\ Head(q) \in SaveSet /\ Tail(q) \in Seq(SaveSet) /\ Len(Tail(q)) = Len(q) - 1
        /\ \A i \in 1 .. Len(Tail(q)) : Tail(q)[i] = q[i + 1]
        /\ Head(q) = q[1]
    BY HeadTailProperties
  <1>3. 1 \in 1 .. Len(q) /\ \A i \in 1 .. Len(q) - 1 : i + 1 \in 1 .. Len(q)
    BY <1>1
  <1> QED BY <1>1, <1>2, <1>3

(* A save that is sent waits behind the others.                            *)
LEMMA LineGrows ==
  ASSUME NEW q \in Seq(SaveSet), NEW s \in SaveSet, s.answer = "none",
         NEW sv, NEW p, NEW fl, Served(sv, p, q, fl)
  PROVE  Served(sv, p, Append(q, s), fl)
  <1>1. PICK r \in Seq(SaveSet) : r = Append(q, s)
    BY SavesFacts
  <1>2. /\ Len(q) \in Nat /\ Len(r) = Len(q) + 1 /\ r[Len(q) + 1] = s
        /\ \A i \in 1 .. Len(q) : r[i] = q[i] /\ i \in 1 .. Len(r)
        /\ \A i \in 1 .. Len(r) : i \in 1 .. Len(q) \/ i = Len(q) + 1
    BY <1>1, SavesFacts
  <1>3. ASSUME NEW i \in 1 .. Len(r), NEW j \in 1 .. Len(r), i < j, r[j].answer # "none"
        PROVE  r[i].answer # "none"
    <2>1. j \in 1 .. Len(q)
      BY <1>2, <1>3
    <2>2. i \in 1 .. Len(q)
      BY <1>2, <1>3, <2>1
    <2> QED BY <1>2, <1>3, <2>1, <2>2 DEF Served
  <1>4. \/ sv = p /\ \A i \in 1 .. Len(r) : r[i].answer # "ok"
        \/ \E i \in 1 .. Len(r) :
             /\ r[i].answer = "ok" /\ sv = r[i].prefs
             /\ \A j \in 1 .. Len(r) : i < j => r[j].answer # "ok"
    <2>1. CASE sv = p /\ \A i \in 1 .. Len(q) : q[i].answer # "ok"
      BY <1>2, <2>1
    <2>2. ASSUME NEW i \in 1 .. Len(q), q[i].answer = "ok" /\ sv = q[i].prefs,
                 \A j \in 1 .. Len(q) : i < j => q[j].answer # "ok"
          PROVE  \E k \in 1 .. Len(r) :
                   /\ r[k].answer = "ok" /\ sv = r[k].prefs
                   /\ \A j \in 1 .. Len(r) : k < j => r[j].answer # "ok"
      BY <1>2, <2>2
    <2> QED BY <2>1, <2>2 DEF Served
  <1>5. \A i \in 1 .. Len(r) : r[i].answer = "error" => fl
    BY <1>2 DEF Served
  <1> QED BY <1>1, <1>3, <1>4, <1>5 DEF Served

(* The answer of the first save is taken.                                  *)
LEMMA LineShrinks ==
  ASSUME NEW q \in Seq(SaveSet), q # <<>>, q[1].answer # "none",
         NEW sv, NEW p, NEW fl, Served(sv, p, q, fl), NEW n,
         n = IF q[1].answer = "ok" THEN q[1].prefs ELSE p
  PROVE  Served(sv, n, Tail(q), fl)
  <1>1. PICK r \in Seq(SaveSet) : r = Tail(q)
    BY TailFacts
  <1>2. /\ Len(q) \in Nat /\ Len(r) = Len(q) - 1 /\ Len(r) \in Nat /\ 1 \in 1 .. Len(q)
        /\ \A i \in 1 .. Len(r) : r[i] = q[i + 1] /\ i + 1 \in 1 .. Len(q)
        /\ \A i \in 1 .. Len(q) : i = 1 \/ (i - 1 \in 1 .. Len(r) /\ q[i] = r[i - 1])
    <2>1. /\ Len(q) \in Nat /\ Len(r) = Len(q) - 1 /\ 1 \in 1 .. Len(q)
          /\ \A i \in 1 .. Len(r) : r[i] = q[i + 1] /\ i + 1 \in 1 .. Len(q)
      BY <1>1, TailFacts
    <2>2. \A i \in 1 .. Len(q) : i = 1 \/ (i - 1 \in 1 .. Len(r) /\ (i - 1) + 1 = i)
      BY <2>1
    <2> QED BY <2>1, <2>2, LenProperties
  <1>3. ASSUME NEW i \in 1 .. Len(r), NEW j \in 1 .. Len(r), i < j, r[j].answer # "none"
        PROVE  r[i].answer # "none"
    <2>1. i + 1 < j + 1
      BY <1>2, <1>3
    <2> QED BY <1>2, <1>3, <2>1 DEF Served
  <1>4. \/ sv = n /\ \A i \in 1 .. Len(r) : r[i].answer # "ok"
        \/ \E i \in 1 .. Len(r) :
             /\ r[i].answer = "ok" /\ sv = r[i].prefs
             /\ \A j \in 1 .. Len(r) : i < j => r[j].answer # "ok"
    <2>1. CASE sv = p /\ \A i \in 1 .. Len(q) : q[i].answer # "ok"
      BY <1>2, <2>1
    <2>2. ASSUME NEW i \in 1 .. Len(q), q[i].answer = "ok" /\ sv = q[i].prefs,
                 \A j \in 1 .. Len(q) : i < j => q[j].answer # "ok"
          PROVE  <1>4!1 \/ <1>4!2
      <3>1. CASE i = 1
        <4>1. \A k \in 1 .. Len(r) : 1 < k + 1
          BY <1>2
        <4> QED BY <1>2, <2>2, <3>1, <4>1
      <3>2. CASE i # 1
        <4>1. i - 1 \in 1 .. Len(r) /\ q[i] = r[i - 1]
          BY <1>2, <3>2
        <4>2. \A j \in 1 .. Len(r) : i - 1 < j => i < j + 1
          BY <1>2, <4>1
        <4>3. \A j \in 1 .. Len(r) : i - 1 < j => r[j].answer # "ok"
          BY <1>2, <2>2, <4>2
        <4> QED BY <2>2, <4>1, <4>3
      <3> QED BY <3>1, <3>2
    <2> QED BY <2>1, <2>2 DEF Served
  <1>5. \A i \in 1 .. Len(r) : r[i].answer = "error" => fl
    BY <1>2 DEF Served
  <1> QED BY <1>1, <1>3, <1>4, <1>5 DEF Served

(* The first save that waits is served.                                    *)
LEMMA LineServes ==
  ASSUME saves \in Seq(SaveSet), NEW i \in 1 .. Len(saves), saves[i].answer = "none",
         \A j \in 1 .. Len(saves) : saves[j].answer = "none" => i <= j,
         failed \in BOOLEAN, Served(saved, prefs, saves, failed), NEW ok \in BOOLEAN,
         saves' = [saves EXCEPT ![i].answer = IF ok THEN "ok" ELSE "error"],
         saved' = IF ok THEN saves[i].prefs ELSE saved, failed' = (failed \/ ~ ok)
  PROVE  saves' \in Seq(SaveSet) /\ Len(saves') = Len(saves) /\ Served(saved', prefs, saves', failed')
         /\ \A j \in 1 .. Len(saves) : saves'[j].by = saves[j].by /\ saves'[j].prefs = saves[j].prefs
  <1>1. Len(saves) \in Nat /\ DOMAIN saves = 1 .. Len(saves) /\ \A j \in 1 .. Len(saves) : saves[j] \in SaveSet
    BY LenProperties, ElementOfSeq
  <1>2. PICK s \in SaveSet : s = [saves[i] EXCEPT !.answer = IF ok THEN "ok" ELSE "error"]
    BY <1>1 DEF SaveSet
  <1>3. saves' = [saves EXCEPT ![i] = s]
    BY <1>2
  <1>4. saves' \in Seq(SaveSet) /\ Len(saves') = Len(saves) /\ saves'[i] = s
        /\ \A j \in 1 .. Len(saves) : j # i => saves'[j] = saves[j]
    BY <1>1, <1>3, ExceptSeq
  <1>5. /\ s.answer = (IF ok THEN "ok" ELSE "error")
        /\ s.prefs = saves[i].prefs /\ s.by = saves[i].by
    BY <1>1, <1>2 DEF SaveSet
  <1>6. \A j \in 1 .. Len(saves) : /\ j < i => saves'[j].answer # "none"
                               /\ i < j => saves'[j].answer = "none"
    <2>1. ASSUME NEW j \in 1 .. Len(saves), j < i PROVE saves'[j].answer # "none"
      BY <1>1, <1>4, <2>1
    <2>2. ASSUME NEW j \in 1 .. Len(saves), i < j PROVE saves'[j].answer = "none"
      BY <1>1, <1>4, <2>2 DEF Served
    <2> QED BY <2>1, <2>2
  <1>7. \A j, k \in 1 .. Len(saves) : j < k /\ saves'[k].answer # "none" => saves'[j].answer # "none"
    <2>1. ASSUME NEW j \in 1 .. Len(saves), NEW k \in 1 .. Len(saves), j < k, saves'[k].answer # "none"
          PROVE  saves'[j].answer # "none"
      <3>1. ~ (i < k)
        BY <1>6, <2>1
      <3>2. j < i
        BY <1>1, <2>1, <3>1
      <3> QED BY <1>6, <3>2
    <2> QED BY <2>1
  <1>8. \/ saved' = prefs /\ \A j \in 1 .. Len(saves) : saves'[j].answer # "ok"
        \/ \E k \in 1 .. Len(saves) :
             /\ saves'[k].answer = "ok" /\ saved' = saves'[k].prefs
             /\ \A j \in 1 .. Len(saves) : k < j => saves'[j].answer # "ok"
    <2>1. CASE ok
      BY <1>4, <1>5, <1>6, <2>1
    <2>2. CASE ~ ok
      <3>1. saved' = saved /\ s.answer = "error" /\ \A j \in 1 .. Len(saves) : saves'[j].answer = "ok" <=> saves[j].answer = "ok"
        BY <1>4, <1>5, <2>2
      <3>2. \A j \in 1 .. Len(saves) : saves'[j].prefs = saves[j].prefs
        BY <1>4, <1>5
      <3> QED BY <3>1, <3>2 DEF Served
    <2> QED BY <2>1, <2>2
  <1>9. ASSUME NEW j \in 1 .. Len(saves), saves'[j].answer = "error" PROVE failed'
    <2>1. CASE j = i
      <3>1. ~ ok
        BY <1>4, <1>5, <1>9, <2>1
      <3> QED BY <3>1
    <2>2. CASE j # i
      <3>1. saves[j].answer = "error"
        BY <1>4, <1>9, <2>2
      <3>2. failed
        BY <3>1 DEF Served
      <3> QED BY <3>2
    <2> QED BY <2>1, <2>2
  <1> QED BY <1>4, <1>5, <1>7, <1>8, <1>9 DEF Served

(* What the effects of a rendering do to the preferences.                  *)
LEMMA EffectsFacts ==
  ASSUME PrefTypes, NEW q, NEW p, SideEffects(q, p)
  PROVE  /\ lastAuto' \in Tabs \cup {"none"}
         /\ \/ saves' = q /\ wanted' = wanted /\ crossed' = crossed
            \/ \E g \in {"sessions", "sftp"} :
                 /\ saves' = Append(q, Save(Side(p, g), "side")) /\ wanted' = Side(wanted, g)
                 /\ crossed' = (crossed \/ q # <<>>)
  <1> DEFINE live == Live(ToSet(row'), stopped')
             now  == Preferred(shown', row', stopped')
             news == now # Preferred(shown, row, stopped)
             auto == news /\ now \in Tabs /\ now # lastAuto
             goal == IF Empties(Live(Open, stopped), live, p) THEN "sessions"
                     ELSE IF auto THEN "sftp" ELSE "none"
  <1>1. /\ lastAuto' = IF news /\ now = "null" THEN "none" ELSE IF auto THEN now ELSE lastAuto
        /\ saves' = IF goal = "none" THEN q ELSE Append(q, Save(Side(p, goal), "side"))
        /\ wanted' = IF goal = "none" THEN wanted ELSE Side(wanted, goal)
        /\ crossed' = (crossed \/ (goal # "none" /\ q # <<>>))
    BY DEF SideEffects
  <1>2. goal \in {"sessions", "sftp", "none"}
    OBVIOUS
  <1>3. lastAuto' \in Tabs \cup {"none"}
    <2>1. auto => now \in Tabs
      OBVIOUS
    <2> HIDE DEF now, news, auto, goal
    <2> QED BY <1>1, <2>1 DEF PrefTypes
  <1>4. crossed \in BOOLEAN
    BY DEF PrefTypes
  <1> HIDE DEF goal
  <1>5. CASE goal = "none"
    BY <1>1, <1>3, <1>4, <1>5
  <1>6. CASE goal # "none"
    <2>1. goal \in {"sessions", "sftp"}
      BY <1>2, <1>6
    <2>2. /\ saves' = Append(q, Save(Side(p, goal), "side")) /\ wanted' = Side(wanted, goal)
          /\ crossed' = (crossed \/ q # <<>>)
      BY <1>1, <1>4, <1>6
    <2> QED BY <1>3, <2>1, <2>2
  <1> QED BY <1>5, <1>6

(* A save is sent that has all that was asked for, if it is the only one.  *)
LEMMA QueueSends ==
  ASSUME NEW q \in Seq(SaveSet), NEW s \in SaveSet, s.answer = "none",
         NEW p, NEW fl \in BOOLEAN, NEW cr \in BOOLEAN, NEW w, NEW w2,
         Served(saved', p, q, fl), ~ cr /\ ~ fl => Asked(p, q, w),
         p = w => s.prefs = w2,
         prefs' = p, failed' = fl, saves' = Append(q, s), wanted' = w2,
         crossed' = (cr \/ q # <<>>)
  PROVE  QueueInv'
  <1>1. Served(saved', prefs', saves', failed')
    BY LineGrows
  <1>2. ~ crossed' /\ ~ failed' => Asked(prefs', saves', wanted')
    <2>1. SUFFICES ASSUME ~ crossed', ~ failed' PROVE Asked(prefs', saves', wanted')
      OBVIOUS
    <2>2. q = <<>> /\ ~ cr /\ ~ fl
      BY <2>1
    <2>3. s.prefs = w2
      BY <2>2 DEF Asked
    <2>4. saves' # <<>> /\ Len(saves') = 1 /\ saves'[1] = s
      <3>1. Len(q) = 0
        BY <2>2, EmptySeq
      <3> QED BY <3>1, SavesFacts
    <2> QED BY <2>3, <2>4 DEF Asked
  <1> QED BY <1>1, <1>2 DEF QueueInv

LEMMA SideFacts ==
  ASSUME NEW p \in PrefType, NEW g \in {"sessions", "sftp"}
  PROVE  /\ Side(p, g) \in PrefType
         /\ Save(Side(p, g), "side") \in SaveSet
         /\ Save(Side(p, g), "side").answer = "none"
         /\ Save(Side(p, g), "side").prefs = Side(p, g)
  <1>1. Side(p, g) \in PrefType
    BY DEF Side, PrefType
  <1> QED BY <1>1 DEF Save, SaveSet

(* A drag's save stays in the line when another is sent.                   *)
LEMMA DraggedGrows ==
  ASSUME NEW q \in Seq(SaveSet), NEW s \in SaveSet, NEW d, NEW fl, Dragged(d, q, fl)
  PROVE  Dragged(d, Append(q, s), fl)
  BY SavesFacts DEF Dragged

(* A step that leaves the line q and the preferences p, and its effects.   *)
LEMMA EffectsKeep ==
  ASSUME PrefTypes, NEW q \in Seq(SaveSet), NEW p \in PrefType, SideEffects(q, p),
         prefs' = p, failed' = failed, saved' = saved,
         Served(saved, p, q, failed), ~ crossed /\ ~ failed => Asked(p, q, wanted),
         Dragged(drag', q, failed)
  PROVE  /\ QueueInv' /\ Dragged(drag', saves', failed') /\ saves' \in Seq(SaveSet)
         /\ wanted' \in PrefType /\ crossed' \in BOOLEAN /\ lastAuto' \in Tabs \cup {"none"}
  <1>1. lastAuto' \in Tabs \cup {"none"} /\ wanted \in PrefType
        /\ crossed \in BOOLEAN /\ failed \in BOOLEAN
    BY EffectsFacts DEF PrefTypes
  <1>2. CASE saves' = q /\ wanted' = wanted /\ crossed' = crossed
    BY <1>1, <1>2 DEF QueueInv
  <1>3. ASSUME NEW g \in {"sessions", "sftp"},
               saves' = Append(q, Save(Side(p, g), "side")), wanted' = Side(wanted, g),
               crossed' = (crossed \/ q # <<>>)
        PROVE  /\ QueueInv' /\ Dragged(drag', saves', failed') /\ saves' \in Seq(SaveSet)
               /\ wanted' \in PrefType /\ crossed' \in BOOLEAN
    <2>1. PICK s \in SaveSet : s = Save(Side(p, g), "side")
      BY SideFacts
    <2>2. s.answer = "none" /\ s.prefs = Side(p, g)
      BY <2>1, SideFacts
    <2>3. saves' = Append(q, s)
      BY <1>3, <2>1
    <2>4. QueueInv'
      <3>1. p = wanted => s.prefs = wanted'
        BY <1>3, <2>2
      <3>2. Served(saved', p, q, failed)
        OBVIOUS
      <3> QED BY <1>1, <1>3, <2>2, <2>3, <3>1, <3>2, QueueSends
    <2>5. Dragged(drag', saves', failed')
      BY <2>3, DraggedGrows
    <2>6. saves' \in Seq(SaveSet)
      BY <2>3, SavesFacts
    <2>7. wanted' \in PrefType
      BY <1>1, <1>3, SideFacts
    <2>8. crossed' \in BOOLEAN
      BY <1>3
    <2> QED BY <2>4, <2>5, <2>6, <2>7, <2>8
  <1> QED BY <1>1, <1>2, <1>3, EffectsFacts

(* The fields of preferences.                                              *)
LEMMA FieldFacts ==
  /\ \A p \in PrefType : DOMAIN p = Fields /\ p = [f \in Fields |-> p[f]]
                         /\ p["side"] = p.side /\ p["width"] = p.width /\ p["option"] = p.option
  /\ \A p : p = [f \in Fields |-> p[f]] /\ p["side"] \in {"sessions", "sftp"} /\ p["width"] \in Widths
            /\ p["option"] \in Options => p \in PrefType
  <1>1. ASSUME NEW p \in PrefType
        PROVE  DOMAIN p = Fields /\ p = [f \in Fields |-> p[f]]
               /\ p["side"] = p.side /\ p["width"] = p.width /\ p["option"] = p.option
    BY DEF PrefType, Fields
  <1>2. ASSUME NEW p, p = [f \in Fields |-> p[f]], p["side"] \in {"sessions", "sftp"},
               p["width"] \in Widths, p["option"] \in Options
        PROVE  p \in PrefType
    BY <1>2 DEF PrefType, Fields
  <1> QED BY <1>1, <1>2

LEMMA AskKeeps ==
  ASSUME PrefTypes, QueueInv,
         NEW p \in PrefType, NEW by \in {"side", "width", "settings"}, NEW w \in PrefType,
         Ask(p, by, w), prefs = wanted => p = w, UNCHANGED <<prefs, saved, failed>>,
         Dragged(drag', saves, failed) \/ by = "width"
  PROVE  /\ QueueInv' /\ Dragged(drag', saves', failed') /\ saves' \in Seq(SaveSet)
         /\ wanted' \in PrefType /\ crossed' \in BOOLEAN
  <1>1. PICK s \in SaveSet : s = Save(p, by)
    BY DEF Save, SaveSet
  <1>2. s.answer = "none" /\ s.prefs = p /\ s.by = by
    BY <1>1 DEF Save
  <1>3. saves' = Append(saves, s) /\ wanted' = w /\ crossed' = (crossed \/ saves # <<>>)
    BY <1>1 DEF Ask
  <1>4. saves \in Seq(SaveSet) /\ failed \in BOOLEAN /\ crossed \in BOOLEAN
    BY DEF PrefTypes
  <1>5. QueueInv'
    <2>1. Served(saved', prefs, saves, failed) /\ (~ crossed /\ ~ failed => Asked(prefs, saves, wanted))
      BY DEF QueueInv
    <2> QED BY <1>2, <1>3, <1>4, <2>1, QueueSends
  <1>6. saves' \in Seq(SaveSet)
    BY <1>3, <1>4, SavesFacts
  <1>7. Dragged(drag', saves', failed')
    <2>1. CASE Dragged(drag', saves, failed)
      BY <1>3, <1>4, <2>1, DraggedGrows
    <2>2. CASE by = "width"
      BY <1>2, <1>3, <1>4, <2>2, SavesFacts DEF Dragged
    <2> QED BY <2>1, <2>2
  <1> QED BY <1>3, <1>5, <1>6, <1>7

LEMMA PrefMoves ==
  ASSUME PrefInv,
         \/ \E s \in {"sessions", "sftp"} : SetSidebar(s)
         \/ DragStart \/ DragEnd \/ \E w \in Widths : DragMove(w)
         \/ \E tab \in {"interface", "about"} : OpenSettings(tab)
         \/ \E p \in PrefType : EditDraft(p)
         \/ SubmitSettings \/ CloseSettings
  PROVE  PrefInv'
  <1>1. PrefTypes /\ QueueInv /\ Dragged(drag, saves, failed) /\ DraftInv
    BY DEF PrefInv
  <1>2. ASSUME NEW s \in {"sessions", "sftp"}, SetSidebar(s) PROVE PrefInv'
    <2>1. Side(prefs, s) \in PrefType /\ Side(wanted, s) \in PrefType
      BY <1>1, SideFacts DEF PrefTypes
    <2>2. /\ Ask(Side(prefs, s), "side", Side(wanted, s))
          /\ UNCHANGED <<prefs, saved, lastAuto, drag, settings, failed>>
      BY <1>2 DEF SetSidebar
    <2>3. /\ QueueInv' /\ Dragged(drag', saves', failed') /\ saves' \in Seq(SaveSet)
          /\ wanted' \in PrefType /\ crossed' \in BOOLEAN
      BY <1>1, <2>1, <2>2, AskKeeps
    <2> QED BY <1>1, <2>2, <2>3 DEF PrefInv, PrefTypes, DraftInv
  <1>3. CASE DragStart
    <2>1. drag' = [drag EXCEPT !.on = TRUE]
          /\ UNCHANGED <<prefs, saved, saves, lastAuto, settings, wanted, crossed, failed>>
      BY <1>3 DEF DragStart
    <2>2. drag' \in DragSet /\ drag'.on = TRUE
      BY <1>1, <2>1 DEF PrefTypes, DragSet
    <2> QED BY <1>1, <2>1, <2>2 DEF PrefInv, PrefTypes, QueueInv, DraftInv, Dragged
  <1>4. CASE DragEnd
    <2>1. /\ drag' = [drag EXCEPT !.on = FALSE]
          /\ Ask([prefs EXCEPT !.width = drag.ref], "width", [wanted EXCEPT !.width = drag.ref])
          /\ UNCHANGED <<prefs, saved, lastAuto, settings, failed>>
      BY <1>4 DEF DragEnd
    <2>2. drag' \in DragSet /\ drag.ref \in Widths
      BY <1>1, <2>1 DEF PrefTypes, DragSet
    <2>3. [prefs EXCEPT !.width = drag.ref] \in PrefType /\ [wanted EXCEPT !.width = drag.ref] \in PrefType
      BY <1>1, <2>2 DEF PrefTypes, PrefType
    <2>4. /\ QueueInv' /\ Dragged(drag', saves', failed') /\ saves' \in Seq(SaveSet)
          /\ wanted' \in PrefType /\ crossed' \in BOOLEAN
      BY <1>1, <2>1, <2>3, AskKeeps
    <2> QED BY <1>1, <2>1, <2>2, <2>4 DEF PrefInv, PrefTypes, DraftInv
  <1>5. ASSUME NEW w \in Widths, DragMove(w) PROVE PrefInv'
    <2>1. drag.on /\ drag' = [drag EXCEPT !.draft = w, !.ref = w]
          /\ UNCHANGED <<prefs, saved, saves, lastAuto, settings, wanted, crossed, failed>>
      BY <1>5 DEF DragMove
    <2>2. drag' \in DragSet /\ drag'.on
      BY <1>1, <2>1 DEF PrefTypes, DragSet
    <2> QED BY <1>1, <2>1, <2>2 DEF PrefInv, PrefTypes, QueueInv, DraftInv, Dragged
  <1>6. ASSUME NEW tab \in {"interface", "about"}, OpenSettings(tab) PROVE PrefInv'
    <2>1. UNCHANGED <<prefs, saved, saves, lastAuto, drag, wanted, crossed, failed>>
      BY <1>6 DEF OpenSettings
    <2>2. \/ settings' = settings
          \/ settings' = [open |-> TRUE, tab |-> tab, draft |-> prefs, touched |-> {}, saving |-> FALSE]
      BY <1>6 DEF OpenSettings
    <2>3. settings' \in [open : BOOLEAN, tab : {"interface", "about"}, draft : PrefType,
                         touched : SUBSET Fields, saving : BOOLEAN]
      <3>1. prefs \in PrefType /\ {} \in SUBSET Fields /\ tab \in {"interface", "about"}
        BY <1>1 DEF PrefTypes
      <3>2. CASE settings' = settings
        BY <1>1, <3>2 DEF PrefTypes
      <3>3. CASE settings' = [open |-> TRUE, tab |-> tab, draft |-> prefs, touched |-> {}, saving |-> FALSE]
        BY <3>1, <3>3
      <3> QED BY <2>2, <3>2, <3>3
    <2>4. DraftInv'
      BY <1>1, <2>1, <2>2 DEF DraftInv
    <2> QED BY <1>1, <2>1, <2>3, <2>4 DEF PrefInv, PrefTypes, QueueInv
  <1>7. ASSUME NEW p \in PrefType, EditDraft(p) PROVE PrefInv'
    <2>1. UNCHANGED <<prefs, saved, saves, lastAuto, drag, wanted, crossed, failed>>
      BY <1>7 DEF EditDraft
    <2>2. PICK f \in Fields :
            settings' = [settings EXCEPT !.draft[f] = p[f], !.touched = settings.touched \cup {f}]
      BY <1>7, FieldFacts DEF EditDraft
    <2>3. settings.draft \in PrefType /\ settings.touched \subseteq Fields
      BY <1>1 DEF PrefTypes
    <2>4. PICK d : d = [settings.draft EXCEPT ![f] = p[f]]
      OBVIOUS
    <2>5. /\ d \in PrefType /\ \A g \in Fields \ {f} : d[g] = settings.draft[g]
      <3>1. settings.draft = [g \in Fields |-> settings.draft[g]]
        BY <2>3, FieldFacts
      <3>2. DOMAIN d = Fields /\ d[f] = p[f] /\ \A g \in Fields \ {f} : d[g] = settings.draft[g]
        BY <2>4, <3>1
      <3>3. d = [g \in Fields |-> d[g]]
        BY <2>4, <3>1
      <3>4. /\ p["side"] \in {"sessions", "sftp"} /\ p["width"] \in Widths /\ p["option"] \in Options
            /\ settings.draft["side"] \in {"sessions", "sftp"}
            /\ settings.draft["width"] \in Widths /\ settings.draft["option"] \in Options
        BY <2>3, FieldFacts DEF PrefType
      <3>5. /\ d["side"] \in {"sessions", "sftp"} /\ d["width"] \in Widths /\ d["option"] \in Options
        BY <3>2, <3>4 DEF Fields
      <3> QED BY <3>2, <3>3, <3>5, FieldFacts
    <2>6. settings' = [settings EXCEPT !.draft = d, !.touched = settings.touched \cup {f}]
      BY <2>2, <2>4
    <2>7. settings' \in [open : BOOLEAN, tab : {"interface", "about"}, draft : PrefType,
                         touched : SUBSET Fields, saving : BOOLEAN]
      BY <1>1, <2>3, <2>5, <2>6 DEF PrefTypes
    <2>8. DraftInv'
      <3>1. /\ settings'.open = settings.open /\ settings'.draft = d
            /\ settings'.touched = settings.touched \cup {f}
        BY <1>1, <2>6 DEF PrefTypes
      <3> QED BY <1>1, <2>1, <2>5, <3>1 DEF DraftInv
    <2> QED BY <1>1, <2>1, <2>7, <2>8 DEF PrefInv, PrefTypes, QueueInv
  <1>8. CASE SubmitSettings
    <2> DEFINE w == [f \in DOMAIN wanted |->
                      IF f \in settings.touched THEN settings.draft[f] ELSE wanted[f]]
    <2>1. /\ settings.open /\ settings' = [settings EXCEPT !.saving = TRUE]
          /\ Ask(settings.draft, "settings", w)
          /\ UNCHANGED <<prefs, saved, lastAuto, drag, failed>>
      BY <1>8 DEF SubmitSettings
    <2>2. settings.draft \in PrefType /\ wanted \in PrefType /\ prefs \in PrefType
      BY <1>1 DEF PrefTypes
    <2>3. /\ DOMAIN wanted = Fields /\ settings.draft = [f \in Fields |-> settings.draft[f]]
          /\ wanted = [f \in Fields |-> wanted[f]]
      BY <2>2, FieldFacts
    <2>4. \A f \in Fields : w[f] = IF f \in settings.touched THEN settings.draft[f] ELSE wanted[f]
      BY <2>3
    <2>5. w = [f \in Fields |-> w[f]]
      BY <2>3
    <2>6. w \in PrefType
      <3> HIDE DEF w
      <3>1. /\ wanted["side"] \in {"sessions", "sftp"} /\ wanted["width"] \in Widths
            /\ wanted["option"] \in Options /\ settings.draft["side"] \in {"sessions", "sftp"}
            /\ settings.draft["width"] \in Widths /\ settings.draft["option"] \in Options
        BY <2>2, FieldFacts DEF PrefType
      <3>2. "side" \in Fields /\ "width" \in Fields /\ "option" \in Fields
        BY DEF Fields
      <3>3. /\ w["side"] \in {"sessions", "sftp"} /\ w["width"] \in Widths /\ w["option"] \in Options
        BY <2>4, <3>1, <3>2
      <3> QED BY <2>5, <3>3, FieldFacts
    <2>7. prefs = wanted => settings.draft = w
      <3>1. SUFFICES ASSUME prefs = wanted PROVE settings.draft = w
        OBVIOUS
      <3>2. \A f \in Fields : w[f] = settings.draft[f]
        <4> HIDE DEF w
        <4> QED BY <1>1, <2>1, <2>4, <3>1 DEF DraftInv
      <3> HIDE DEF w
      <3> QED BY <2>3, <2>5, <3>2
    <2> HIDE DEF w
    <2>8. /\ QueueInv' /\ Dragged(drag', saves', failed') /\ saves' \in Seq(SaveSet)
          /\ wanted' \in PrefType /\ crossed' \in BOOLEAN
      BY <1>1, <2>1, <2>2, <2>6, <2>7, AskKeeps
    <2>9. settings' \in [open : BOOLEAN, tab : {"interface", "about"}, draft : PrefType,
                         touched : SUBSET Fields, saving : BOOLEAN]
      BY <1>1, <2>1 DEF PrefTypes
    <2>10. DraftInv'
      BY <1>1, <2>1 DEF DraftInv, PrefTypes
    <2> QED BY <1>1, <2>1, <2>8, <2>9, <2>10 DEF PrefInv, PrefTypes
  <1>9. CASE CloseSettings
    <2>1. settings' = [settings EXCEPT !.open = FALSE]
          /\ UNCHANGED <<prefs, saved, saves, lastAuto, drag, wanted, crossed, failed>>
      BY <1>9 DEF CloseSettings
    <2>2. settings'.open = FALSE /\ settings' \in
             [open : BOOLEAN, tab : {"interface", "about"}, draft : PrefType,
              touched : SUBSET Fields, saving : BOOLEAN]
      BY <1>1, <2>1 DEF PrefTypes
    <2> QED BY <1>1, <2>1, <2>2 DEF PrefInv, PrefTypes, QueueInv, DraftInv
  <1> QED BY <1>2, <1>3, <1>4, <1>5, <1>6, <1>7, <1>8, <1>9

(* The first save that waits is served, or fails.                          *)
LEMMA ServeKeeps ==
  ASSUME PrefInv, NEW ok \in BOOLEAN, Serve(ok)
  PROVE  PrefInv'
  <1>1. PrefTypes /\ QueueInv /\ Dragged(drag, saves, failed) /\ DraftInv
    BY DEF PrefInv
  <1>2. saves \in Seq(SaveSet) /\ Len(saves) \in Nat /\ failed \in BOOLEAN
    BY <1>1, LenProperties DEF PrefTypes
  <1>3. PICK i \in Pending : \A k \in Pending : ~ (k < i)
    <2>1. Pending \subseteq Nat /\ Pending # {}
      BY <1>2 DEF Pending, Serve
    <2> QED BY <2>1, Least
  <1>4. i \in 1 .. Len(saves) /\ saves[i].answer = "none"
    BY <1>3 DEF Pending
  <1> DEFINE c == CHOOSE j \in Pending : \A k \in Pending : j <= k
  <1>5. c \in Pending /\ \A k \in Pending : c <= k
    <2>1. \A k \in Pending : i <= k
      BY <1>2, <1>3 DEF Pending
    <2> QED BY <1>3, <2>1
  <1>6. /\ saves' = [saves EXCEPT ![c].answer = IF ok THEN "ok" ELSE "error"]
        /\ saved' = IF ok THEN saves[c].prefs ELSE saved
        /\ IF ok THEN UNCHANGED failed ELSE failed' = TRUE
        /\ UNCHANGED <<prefs, lastAuto, drag, settings, wanted, crossed>>
    BY DEF Serve
  <1> HIDE DEF c
  <1>7. c \in 1 .. Len(saves) /\ saves[c].answer = "none" /\ saves[c] \in SaveSet
        /\ \A j \in 1 .. Len(saves) : saves[j].answer = "none" => c <= j
    BY <1>2, <1>5, ElementOfSeq DEF Pending
  <1>8. failed' = (failed \/ ~ ok)
    BY <1>2, <1>6
  <1>9. Served(saved, prefs, saves, failed)
    BY <1>1 DEF QueueInv
  <1>10. /\ saves' \in Seq(SaveSet) /\ Len(saves') = Len(saves)
         /\ Served(saved', prefs, saves', failed')
         /\ \A j \in 1 .. Len(saves) : saves'[j].by = saves[j].by /\ saves'[j].prefs = saves[j].prefs
    BY <1>2, <1>6, <1>7, <1>8, <1>9, LineServes
  <1>11. saved' \in PrefType /\ failed' \in BOOLEAN
    BY <1>1, <1>6, <1>7, <1>8 DEF PrefTypes, SaveSet
  <1>12. QueueInv'
    <2>1. Asked(prefs, saves, wanted) => Asked(prefs, saves', wanted)
      <3>1. saves = <<>> <=> saves' = <<>>
        BY <1>2, <1>10, EmptySeq
      <3> QED BY <1>2, <1>10, <3>1 DEF Asked
    <2> QED BY <1>1, <1>6, <1>8, <1>10, <2>1 DEF QueueInv
  <1>13. Dragged(drag', saves', failed')
    BY <1>1, <1>6, <1>8, <1>10 DEF Dragged
  <1> QED BY <1>1, <1>6, <1>10, <1>11, <1>12, <1>13 DEF PrefInv, PrefTypes, DraftInv

(* The first answer is taken; a width that was dragged is then the shown.  *)
LEMMA AnswerKeeps ==
  ASSUME PrefInv, Answer
  PROVE  PrefInv'
  <1>1. PrefTypes /\ QueueInv /\ Dragged(drag, saves, failed) /\ DraftInv
    BY DEF PrefInv
  <1>2. /\ saves \in Seq(SaveSet) /\ saves # <<>> /\ saves[1] \in SaveSet
        /\ Head(saves) = saves[1] /\ saves[1].answer # "none"
        /\ Tail(saves) \in Seq(SaveSet) /\ Len(Tail(saves)) = Len(saves) - 1
        /\ Len(saves) \in Nat
    BY <1>1, TailFacts DEF Answer, PrefTypes
  <1> DEFINE s == saves[1]
             ok == s.answer = "ok"
             p  == IF ok THEN s.prefs ELSE prefs
             d  == IF ok /\ s.by = "width" THEN [drag EXCEPT !.draft = "none"] ELSE drag
  <1>3. /\ prefs' = p /\ drag' = Follow(d, p)
        /\ settings' = IF s.by # "settings" THEN Redrafted(p)
                       ELSE [Redrafted(p) EXCEPT !.saving = FALSE,
                                                 !.open = IF ok THEN FALSE ELSE @]
        /\ SideEffects(Tail(saves), p)
        /\ UNCHANGED <<saved, failed>>
    BY <1>2 DEF Answer
  <1>4. /\ p \in PrefType /\ prefs \in PrefType /\ drag \in DragSet
        /\ settings \in [open : BOOLEAN, tab : {"interface", "about"}, draft : PrefType,
                         touched : SUBSET Fields, saving : BOOLEAN]
    BY <1>1, <1>2 DEF PrefTypes, SaveSet
  <1>5. d \in DragSet /\ d.on = drag.on /\ (d.draft = drag.draft \/ d.draft = "none")
        /\ (ok /\ s.by = "width" => d.draft = "none")
    BY <1>4 DEF DragSet
  <1>6. drag' \in DragSet /\ drag'.on = drag.on /\ drag'.draft = d.draft
    <2>1. ShownWidth(d, p) \in Widths
      <3> HIDE DEF d, p
      <3> QED BY <1>4, <1>5 DEF ShownWidth, DragSet, PrefType
    <2> HIDE DEF d, p
    <2>2. drag' = d \/ drag' = [d EXCEPT !.ref = ShownWidth(d, p)]
      BY <1>3 DEF Follow
    <2> QED BY <1>5, <2>1, <2>2 DEF DragSet
  <1>7. Served(saved, p, Tail(saves), failed)
    <2>1. Served(saved, prefs, saves, failed)
      BY <1>1 DEF QueueInv
    <2> QED BY <1>2, <2>1, LineShrinks
  <1>8. ~ failed => ok
    BY <1>1, <1>2 DEF QueueInv, Served, SaveSet
  <1>9. ~ crossed /\ ~ failed => Asked(p, Tail(saves), wanted)
    <2>1. SUFFICES ASSUME ~ crossed, ~ failed PROVE Asked(p, Tail(saves), wanted)
      OBVIOUS
    <2>2. Len(saves) = 1 /\ s.prefs = wanted
      BY <1>1, <1>2, <2>1 DEF QueueInv, Asked
    <2>3. Tail(saves) = <<>>
      BY <1>2, <2>2, EmptySeq
    <2> QED BY <1>8, <2>1, <2>2, <2>3 DEF Asked
  <1>10. Dragged(drag', Tail(saves), failed)
    <2>1. SUFFICES ASSUME ~ drag'.on, ~ failed, drag'.draft # "none"
                   PROVE  \E i \in 1 .. Len(Tail(saves)) : Tail(saves)[i].by = "width"
      BY DEF Dragged
    <2>2. drag.draft # "none" /\ ~ drag.on /\ s.by # "width"
      BY <1>5, <1>6, <1>8, <2>1
    <2>3. PICK i \in 1 .. Len(saves) : saves[i].by = "width"
      BY <1>1, <2>1, <2>2 DEF Dragged
    <2>4. i # 1 /\ i - 1 \in 1 .. Len(saves) - 1 /\ (i - 1) + 1 = i
      BY <1>2, <2>2, <2>3
    <2>5. Tail(saves)[i - 1] = saves[i]
      BY <1>2, <2>4, TailFacts
    <2> QED BY <1>2, <2>3, <2>4, <2>5
  <1>11. /\ QueueInv' /\ Dragged(drag', saves', failed') /\ saves' \in Seq(SaveSet)
         /\ wanted' \in PrefType /\ crossed' \in BOOLEAN /\ lastAuto' \in Tabs \cup {"none"}
    <2> HIDE DEF p, ok, d
    <2> QED BY <1>1, <1>2, <1>3, <1>4, <1>7, <1>9, <1>10, EffectsKeep
  <1>12. PICK r : r = Redrafted(p)
    OBVIOUS
  <1>13. /\ r \in [open : BOOLEAN, tab : {"interface", "about"}, draft : PrefType,
                   touched : SUBSET Fields, saving : BOOLEAN]
         /\ r.open = settings.open
         /\ r.open => \A f \in Fields \ r.touched : r.draft[f] = p[f]
    <2> HIDE DEF p
    <2>1. CASE settings.open /\ p # prefs
      <3>1. r = [settings EXCEPT !.draft = p, !.touched = {}, !.saving = FALSE]
        BY <1>12, <2>1 DEF Redrafted
      <3> QED BY <1>4, <3>1
    <2>2. CASE ~ (settings.open /\ p # prefs)
      <3>1. r = settings
        BY <1>12, <2>2 DEF Redrafted
      <3> QED BY <1>1, <1>4, <2>2, <3>1 DEF DraftInv
    <2> QED BY <2>1, <2>2
  <1>14. /\ settings' \in [open : BOOLEAN, tab : {"interface", "about"}, draft : PrefType,
                           touched : SUBSET Fields, saving : BOOLEAN]
         /\ settings'.open => r.open
         /\ settings'.draft = r.draft /\ settings'.touched = r.touched
    <2>1. \/ settings' = r
          \/ settings' = [r EXCEPT !.saving = FALSE, !.open = IF ok THEN FALSE ELSE r.open]
      BY <1>3, <1>12
    <2>2. (IF ok THEN FALSE ELSE r.open) \in BOOLEAN /\ ((IF ok THEN FALSE ELSE r.open) => r.open)
      BY <1>13
    <2>3. PICK o \in BOOLEAN : o = (IF ok THEN FALSE ELSE r.open)
      BY <2>2
    <2>4. o => r.open
      BY <2>2, <2>3
    <2>5. settings' = r \/ settings' = [r EXCEPT !.saving = FALSE, !.open = o]
      BY <2>1, <2>3
    <2> QED BY <1>13, <2>4, <2>5
  <1>15. DraftInv'
    BY <1>3, <1>13, <1>14 DEF DraftInv
  <1>16. saved' \in PrefType /\ failed' \in BOOLEAN /\ prefs' \in PrefType
    BY <1>1, <1>3, <1>4 DEF PrefTypes
  <1> QED BY <1>6, <1>11, <1>14, <1>15, <1>16 DEF PrefInv, PrefTypes

LEMMA PrefKept == ASSUME PrefInv, [Next]_vars PROVE PrefInv'
  <1>1. PrefTypes /\ QueueInv /\ Dragged(drag, saves, failed) /\ DraftInv
    BY DEF PrefInv
  <1>2. CASE LockFromSettings
    <2>1. settings' = [settings EXCEPT !.open = FALSE]
          /\ UNCHANGED <<prefs, saved, saves, lastAuto, drag, wanted, crossed, failed>>
      BY <1>2 DEF LockFromSettings
    <2>2. settings'.open = FALSE /\ settings' \in
             [open : BOOLEAN, tab : {"interface", "about"}, draft : PrefType,
              touched : SUBSET Fields, saving : BOOLEAN]
      BY <1>1, <2>1 DEF PrefTypes
    <2> QED BY <1>1, <2>1, <2>2 DEF PrefInv, PrefTypes, QueueInv, DraftInv
  <1>3. CASE ScreenStep
    <2>1. SideEffects(saves, prefs) /\ UNCHANGED <<prefs, saved, drag, settings, failed>>
      BY <1>3 DEF ScreenStep
    <2>2. saves \in Seq(SaveSet) /\ prefs \in PrefType
      BY <1>1 DEF PrefTypes
    <2>3. /\ QueueInv' /\ Dragged(drag', saves', failed') /\ saves' \in Seq(SaveSet)
          /\ wanted' \in PrefType /\ crossed' \in BOOLEAN /\ lastAuto' \in Tabs \cup {"none"}
      BY <1>1, <2>1, <2>2, EffectsKeep DEF QueueInv
    <2> QED BY <1>1, <2>1, <2>3 DEF PrefInv, PrefTypes, DraftInv
  <1>4. CASE PrefStep
    BY <1>4, PrefMoves DEF PrefStep
  <1>5. CASE UNCHANGED prefVars
    BY <1>1, <1>5 DEF PrefInv, PrefTypes, QueueInv, DraftInv, prefVars
  <1>6. LockStep \/ BoxStep \/ BoxFault \/ UNCHANGED vars => UNCHANGED prefVars
    BY DEF LockStep, BoxStep, BoxFault, vars, shellVars
  <1>7. CASE Answer
    BY <1>7, AnswerKeeps
  <1>8. ASSUME NEW ok \in BOOLEAN, Serve(ok) PROVE PrefInv'
    BY <1>8, ServeKeeps
  <1> QED BY <1>2, <1>3, <1>4, <1>5, <1>6, <1>7, <1>8 DEF Next

(* What the properties say of the preferences.                             *)
LEMMA PrefFacts == PrefInv => SavedIsShown /\ EditsSurvive
  <1> SUFFICES ASSUME PrefInv PROVE SavedIsShown /\ EditsSurvive
    OBVIOUS
  <1>1. CASE saves = <<>>
    <2>1. Len(saves) = 0 /\ ~ \E i \in 1 .. Len(saves) : TRUE
      BY <1>1
    <2>2. saved = prefs
      BY <2>1 DEF PrefInv, QueueInv, Served
    <2>3. ~ drag.on /\ ~ failed => drag.draft = "none"
      BY <2>1 DEF PrefInv, Dragged
    <2>4. ~ crossed /\ ~ failed => prefs = wanted
      BY <1>1 DEF PrefInv, QueueInv, Asked
    <2> QED BY <2>2, <2>3, <2>4 DEF SavedIsShown, EditsSurvive, ShownWidth
  <1>2. CASE saves # <<>>
    BY <1>2 DEF SavedIsShown, EditsSurvive
  <1> QED BY <1>1, <1>2

-----------------------------------------------------------------------------
(* The terminal.                                                           *)

(* The chunks on a screen: a notice adds none.                             *)
LEMMA ChunksFacts ==
  /\ \A s \in Seq(Nat) : Chunks(Append(s, Notice)) = Chunks(s)
  /\ \A s \in Seq(Nat), m \in Nat \ {0} : Chunks(Append(s, m)) = Append(Chunks(s), m)
  /\ \A s : IsFeed(s) => Chunks(s) = s
  /\ Chunks(<<>>) = <<>> /\ Chunks(<<Notice>>) = <<>>
  <1> DEFINE S == Nat \ {Notice}
  <1>1. Notice \in Nat /\ Notice \notin S /\ \A m \in Nat \ {0} : m \in S /\ m \in Nat
    BY DEF Notice
  <1> HIDE DEF S
  <1>2. \A s : Chunks(s) = Only(s, S)
    BY DEF Chunks, S
  <1>3. ASSUME NEW s \in Seq(Nat) PROVE Chunks(Append(s, Notice)) = Chunks(s)
    BY <1>1, <1>2, OnlyAdds
  <1>4. ASSUME NEW s \in Seq(Nat), NEW m \in Nat \ {0} PROVE Chunks(Append(s, m)) = Append(Chunks(s), m)
    BY <1>1, <1>2, OnlyAdds
  <1>5. ASSUME NEW s, IsFeed(s) PROVE Chunks(s) = s
    <2>1. s \in Seq(Nat) /\ \A i \in 1 .. Len(s) : s[i] \in S
      BY <1>5, ElementOfSeq DEF IsFeed, S
    <2> QED BY <1>2, <2>1, OnlyWhole
  <1>6. Chunks(<<>>) = <<>> /\ Chunks(<<Notice>>) = <<>>
    <2>1. <<>> \in Seq(Nat) /\ Len(<<>>) = 0 /\ ~ \E i \in 1 .. 0 : TRUE
      BY EmptySeq
    <2>2. Only(<<>>, S) = <<>>
      BY <2>1, OnlyNothing
    <2>3. <<Notice>> \in Seq(Nat) /\ \A i \in 1 .. Len(<<Notice>>) : <<Notice>>[i] \notin S
      BY <1>1
    <2>4. Only(<<Notice>>, S) = <<>>
      <3> HIDE DEF S
      <3> QED BY <2>3, OnlyNothing
    <2> QED BY <1>2, <2>2, <2>4
  <1> QED BY <1>3, <1>4, <1>5, <1>6

(* What came since n chunks were there.                                    *)
LEMMA AfterFacts ==
  /\ \A s \in Seq(Nat), m, n \in Nat : n < m => After(Append(s, m), n) = Append(After(s, n), m)
  /\ \A s : IsFeed(s) => After(s, Last0(s)) = <<>>
  <1>1. ASSUME NEW s \in Seq(Nat), NEW m \in Nat, NEW n \in Nat, n < m
        PROVE  After(Append(s, m), n) = Append(After(s, n), m)
    <2>1. PICK S : S = {c \in Nat : c > n}
      OBVIOUS
    <2>2. m \in S
      BY <1>1, <2>1
    <2>3. After(Append(s, m), n) = Only(Append(s, m), S) /\ After(s, n) = Only(s, S)
      BY <2>1 DEF After
    <2>4. Only(Append(s, m), S) = Append(Only(s, S), m)
      BY <2>2, OnlyAdds
    <2> QED BY <2>3, <2>4
  <1>2. ASSUME NEW s, IsFeed(s) PROVE After(s, Last0(s)) = <<>>
    <2>1. PICK S : S = {c \in Nat : c > Last0(s)}
      OBVIOUS
    <2>2. s \in Seq(Nat) /\ Len(s) \in Nat /\ \A i \in 1 .. Len(s) : s[i] \in Nat /\ s[i] <= Last0(s)
      BY <1>2, ElementOfSeq, LenProperties DEF IsFeed
    <2>3. Last0(s) \in Nat
      <3>1. CASE s = <<>>
        BY <3>1 DEF Last0
      <3>2. CASE s # <<>>
        <4>1. Len(s) \in 1 .. Len(s)
          BY <2>2, <3>2, EmptySeq
        <4> QED BY <2>2, <3>2, <4>1 DEF Last0, Last
      <3> QED BY <3>1, <3>2
    <2>4. \A i \in 1 .. Len(s) : s[i] \notin S
      BY <2>1, <2>2, <2>3
    <2> QED BY <2>1, <2>2, <2>4, OnlyNothing DEF After
  <1> QED BY <1>1, <1>2

(* Lists of chunks as the store makes them.                                *)
LEMMA FeedFacts ==
  /\ \A s : IsFeed(s) => Last0(s) \in Nat /\ s \in Seq(Nat) /\ Len(s) \in Nat
  /\ IsFeed(<<>>) /\ Last0(<<>>) = 0
  /\ \A m \in Nat \ {0} : IsFeed(<<m>>) /\ Last0(<<m>>) = m
  /\ \A s : IsFeed(s) => /\ IsFeed(Append(s, Last0(s) + 1))
                         /\ Last0(Append(s, Last0(s) + 1)) = Last0(s) + 1
  <1>1. ASSUME NEW s, IsFeed(s) PROVE Last0(s) \in Nat /\ s \in Seq(Nat) /\ Len(s) \in Nat
    <2>1. s \in Seq(Nat) /\ Len(s) \in Nat /\ \A i \in 1 .. Len(s) : s[i] \in Nat
      BY <1>1, ElementOfSeq, LenProperties DEF IsFeed
    <2>2. CASE s = <<>>
      BY <2>1, <2>2 DEF Last0
    <2>3. CASE s # <<>>
      <3>1. Len(s) \in 1 .. Len(s)
        BY <2>1, <2>3, EmptySeq
      <3> QED BY <2>1, <2>3, <3>1 DEF Last0, Last
    <2> QED BY <2>1, <2>2, <2>3
  <1>2. IsFeed(<<>>) /\ Last0(<<>>) = 0
    <2>1. <<>> \in Seq(Nat) /\ Len(<<>>) = 0 /\ ~ \E i \in 1 .. 0 : TRUE
      BY EmptySeq
    <2> QED BY <2>1 DEF IsFeed, Last0
  <1>3. ASSUME NEW m \in Nat \ {0} PROVE IsFeed(<<m>>) /\ Last0(<<m>>) = m
    <2>1. <<m>> \in Seq(Nat) /\ Len(<<m>>) = 1 /\ <<m>>[1] = m /\ <<m>> # <<>>
      OBVIOUS
    <2>2. Last0(<<m>>) = m
      BY <2>1 DEF Last0, Last
    <2>3. \A i \in 1 .. 1 : i = 1
      OBVIOUS
    <2> QED BY <2>1, <2>2, <2>3 DEF IsFeed, Notice
  <1>4. ASSUME NEW s, IsFeed(s)
        PROVE  IsFeed(Append(s, Last0(s) + 1)) /\ Last0(Append(s, Last0(s) + 1)) = Last0(s) + 1
    <2>1. PICK m \in Nat : m = Last0(s) + 1
      BY <1>1, <1>4
    <2>2. m # 0 /\ Last0(s) < m /\ s \in Seq(Nat) /\ Len(s) \in Nat /\ Last0(s) \in Nat
      BY <1>1, <1>4, <2>1
    <2>3. PICK q : q = Append(s, m)
      OBVIOUS
    <2>4. /\ q \in Seq(Nat) /\ Len(q) = Len(s) + 1 /\ q[Len(s) + 1] = m /\ Last0(q) = m
          /\ \A i \in 1 .. Len(s) : q[i] = s[i]
      BY <2>2, <2>3, AppendFacts
    <2>5. \A i \in 1 .. Len(s) + 1 : i \in 1 .. Len(s) \/ i = Len(s) + 1
      BY <2>2
    <2>6. \A i \in 1 .. Len(s) : s[i] # Notice /\ s[i] <= Last0(s) /\ s[i] \in Nat
      BY <1>4, <2>2, ElementOfSeq DEF IsFeed
    <2>7. \A i \in 1 .. Len(q) : q[i] # Notice /\ q[i] <= m
      <3>1. \A i \in 1 .. Len(s) : q[i] # Notice /\ q[i] <= m
        <4> SUFFICES ASSUME NEW i \in 1 .. Len(s) PROVE q[i] # Notice /\ q[i] <= m
          OBVIOUS
        <4>1. q[i] = s[i] /\ s[i] # Notice /\ s[i] <= Last0(s) /\ s[i] \in Nat
          BY <2>4, <2>6
        <4> QED BY <2>2, <4>1
      <3>2. q[Len(s) + 1] # Notice /\ q[Len(s) + 1] <= m
        BY <2>2, <2>4 DEF Notice
      <3> QED BY <2>4, <2>5, <3>1, <3>2
    <2> QED BY <2>1, <2>3, <2>4, <2>7 DEF IsFeed
  <1> QED BY <1>1, <1>2, <1>3, <1>4

(* What the writing leaves on the screen.                                  *)
LEMMA NoticeFacts ==
  ASSUME NEW text \in Seq(Nat), NEW stop \in BOOLEAN, NEW told \in BOOLEAN,
         told => Contains(text, Notice),
         NEW screen, screen = IF stop /\ ~ told THEN Append(text, Notice) ELSE text
  PROVE  /\ screen \in Seq(Nat) /\ Chunks(screen) = Chunks(text)
         /\ stop => Contains(screen, Notice)
  <1>1. Notice \in Nat
    BY DEF Notice
  <1>2. CASE stop /\ ~ told
    <2>1. /\ screen \in Seq(Nat) /\ Len(screen) = Len(text) + 1 /\ screen[Len(text) + 1] = Notice
      BY <1>1, <1>2, AppendFacts
    <2>2. Len(text) \in Nat
      BY LenProperties
    <2>3. Contains(screen, Notice)
      BY <2>1, <2>2 DEF Contains
    <2> QED BY <1>2, <2>1, <2>3, ChunksFacts
  <1>3. CASE ~ (stop /\ ~ told)
    BY <1>3
  <1> QED BY <1>2, <1>3

(* The terminal w is v after a list has been written into it.              *)
Shows(w, v, text, stop, n) ==
  /\ w \in TermSet /\ w.tab = v.tab /\ w.look = v.look /\ w.done = v.done
  /\ Current(w, text, stop, n)

(* A list is written into a terminal that starts with it.                  *)
LEMMA WriteFresh ==
  ASSUME NEW v \in TermSet, NEW text, IsFeed(text), NEW stop \in BOOLEAN, NEW n,
         v.seen # <<text, stop>>,
         \/ Len(text) < v.written
         \/ v.screen = <<>> /\ v.written = 0 /\ ~ v.noticed /\ ~ v.kept
  PROVE  Shows(WriteChunks(v, text, stop), v, text, stop, n)
  <1> DEFINE shorter == Len(text) < v.written
             old     == IF shorter THEN <<>> ELSE v.screen
             before  == IF shorter THEN 0 ELSE v.written
             noticed == ~ shorter /\ v.noticed
             all     == old \o SubSeq(text, before + 1, Len(text))
             screen  == IF stop /\ ~ noticed THEN Append(all, Notice) ELSE all
             keeps    == IF shorter THEN FALSE
                        ELSE v.kept \/ (before > 0 /\ ~ IsPrefix(v.seen[1], text))
             w       == WriteChunks(v, text, stop)
  <1>1. w = [v EXCEPT !.screen = screen, !.written = Len(text), !.ends = stop,
                      !.noticed = stop, !.kept = keeps, !.seen = <<text, stop>>]
    BY DEF WriteChunks
  <1>2. text \in Seq(Nat) /\ Len(text) \in Nat /\ v.written \in Nat
    BY FeedFacts DEF TermSet
  <1>3. old = <<>> /\ before = 0 /\ noticed = FALSE /\ keeps = FALSE
    BY <1>2 DEF TermSet
  <1>4. all = text
    <2>1. SubSeq(text, 1, Len(text)) = text
      BY <1>2, SubSeqFull
    <2> HIDE DEF old, before
    <2> QED BY <1>2, <1>3, <2>1, ConcatEmptySeq
  <1>5. screen \in Seq(Nat) /\ Chunks(screen) = Chunks(text) /\ (stop => Contains(screen, Notice))
    <2>1. screen = IF stop /\ ~ FALSE THEN Append(text, Notice) ELSE text
      BY <1>3, <1>4
    <2> HIDE DEF screen
    <2> QED BY <1>2, <2>1, NoticeFacts
  <1>6. Chunks(screen) = text
    BY <1>5, ChunksFacts
  <1> HIDE DEF screen, keeps, w, all, old
  <1>7. /\ w \in TermSet /\ w.tab = v.tab /\ w.look = v.look /\ w.done = v.done
        /\ w.seen = <<text, stop>> /\ w.written = Len(text) /\ w.ends = stop
        /\ w.noticed = stop /\ w.screen = screen
    BY <1>1, <1>2, <1>3, <1>5 DEF TermSet
  <1> QED BY <1>5, <1>6, <1>7 DEF w, Shows, Current, Complete

(* One more chunk is written into a terminal that shows the others.        *)
LEMMA WriteMore ==
  ASSUME NEW v \in TermSet, NEW text, IsFeed(text), NEW was \in BOOLEAN, NEW n \in Nat,
         Current(v, text, was, n), n <= Last0(text),
         NEW more, more = Append(text, Last0(text) + 1), NEW stop \in BOOLEAN
  PROVE  Shows(WriteChunks(v, more, stop), v, more, stop, n)
  <1>1. PICK m \in Nat : m = Last0(text) + 1
    BY FeedFacts
  <1>2. m # 0 /\ n < m /\ text \in Seq(Nat) /\ Len(text) \in Nat /\ more = Append(text, m)
        /\ m \in Nat \ {0}
    <2>1. text \in Seq(Nat) /\ Len(text) \in Nat /\ Last0(text) \in Nat
      BY FeedFacts
    <2>2. m # 0 /\ n < m
      BY <1>1, <2>1
    <2> QED BY <1>1, <2>1, <2>2
  <1>3. more \in Seq(Nat) /\ Len(more) = Len(text) + 1 /\ more[Len(text) + 1] = m
        /\ \A i \in 1 .. Len(text) : more[i] = text[i]
    BY <1>2, AppendFacts
  <1>4. v.seen = <<text, was>> /\ v.written = Len(text) /\ v.noticed = was /\ v.screen \in Seq(Nat)
    BY DEF Current, TermSet
  <1>5. v.seen # <<more, stop>> /\ ~ (Len(more) < v.written)
    BY <1>2, <1>3, <1>4
  <1>6. IsPrefix(v.seen[1], more)
    <2>1. v.seen[1] = text
      BY <1>4
    <2>2. more = text \o <<m>> /\ <<m>> \in Seq(Nat)
      BY <1>2, AppendIsConcat
    <2>3. SubSeq(more, 1, Len(text)) = SubSeq(text, 1, Len(text))
      <3>1. CASE Len(text) = 0
        BY <3>1, SubSeqEmpty
      <3>2. CASE Len(text) # 0
        <4>1. 1 \in 1 .. Len(text) /\ Len(text) \in 1 .. Len(text)
          BY <1>2, <3>2
        <4> QED BY <1>2, <2>2, <4>1, SubSeqOfConcat1
      <3> QED BY <3>1, <3>2
    <2> QED BY <1>2, <1>3, <2>1, <2>3 DEF IsPrefix
  <1> DEFINE all    == v.screen \o SubSeq(more, v.written + 1, Len(more))
             screen == IF stop /\ ~ v.noticed THEN Append(all, Notice) ELSE all
             w      == WriteChunks(v, more, stop)
  <1>7. w = [v EXCEPT !.screen = screen, !.written = Len(more), !.ends = stop,
                      !.noticed = stop, !.kept = v.kept, !.seen = <<more, stop>>]
    <2>1. (v.kept \/ (v.written > 0 /\ ~ IsPrefix(v.seen[1], more))) = v.kept
      BY <1>6 DEF TermSet
    <2> QED BY <1>5, <2>1 DEF WriteChunks
  <1>8. all = Append(v.screen, m)
    <2>1. SubSeq(more, Len(text) + 1, Len(text) + 1) = <<m>>
      <3>1. Len(text) + 1 \in 1 .. Len(more) /\ Len(text) + 1 \in Len(text) + 1 .. Len(more)
        BY <1>2, <1>3
      <3>2. SubSeq(more, Len(text) + 1, Len(text) + 1) = <<more[Len(text) + 1]>> \o SubSeq(more, (Len(text) + 1) + 1, Len(text) + 1)
        BY <1>3, <3>1, SubSeqRecursiveFirst
      <3>3. SubSeq(more, (Len(text) + 1) + 1, Len(text) + 1) = <<>>
        BY <1>2, SubSeqEmpty
      <3>4. <<m>> \in Seq(Nat)
        OBVIOUS
      <3> QED BY <1>3, <3>2, <3>3, <3>4, ConcatEmptySeq
    <2> QED BY <1>3, <1>4, <2>1, AppendIsConcat
  <1>9. all \in Seq(Nat) /\ Chunks(all) = Append(Chunks(v.screen), m)
        /\ (v.noticed => Contains(all, Notice))
    <2> HIDE DEF all
    <2>1. all \in Seq(Nat) /\ Len(all) = Len(v.screen) + 1 /\ \A i \in 1 .. Len(v.screen) : all[i] = v.screen[i]
      BY <1>4, <1>8, AppendFacts
    <2>2. Chunks(all) = Append(Chunks(v.screen), m)
      BY <1>2, <1>4, <1>8, ChunksFacts
    <2>3. v.noticed => Contains(v.screen, Notice)
      BY <1>4 DEF Current
    <2>4. Len(v.screen) \in Nat
      BY <1>4, LenProperties
    <2>5. \A i \in 1 .. Len(v.screen) : i \in 1 .. Len(all)
      BY <2>1, <2>4
    <2> QED BY <2>1, <2>2, <2>3, <2>5 DEF Contains
  <1>10. screen \in Seq(Nat) /\ Chunks(screen) = Chunks(all) /\ (stop => Contains(screen, Notice))
    <2>1. v.noticed \in BOOLEAN
      BY DEF TermSet
    <2> HIDE DEF all
    <2> QED BY <1>9, <2>1, NoticeFacts
  <1>11. Complete(v, text, n) => Chunks(screen) = more \/ Chunks(screen) = After(more, n)
    <2>1. After(more, n) = Append(After(text, n), m)
      BY <1>2, AfterFacts
    <2> HIDE DEF screen, all
    <2> QED BY <1>2, <1>9, <1>10, <2>1 DEF Complete
  <1>12. ~ v.again /\ ~ v.kept => Complete(v, text, n)
    BY DEF Current
  <1> HIDE DEF screen, all, w
  <1>13. /\ w \in TermSet /\ w.tab = v.tab /\ w.look = v.look /\ w.done = v.done
         /\ w.seen = <<more, stop>> /\ w.written = Len(more) /\ w.ends = stop
         /\ w.noticed = stop /\ w.screen = screen /\ w.again = v.again /\ w.kept = v.kept
    <2>1. PICK k \in Nat : k = Len(more)
      BY <1>2, <1>3
    <2>2. w = [v EXCEPT !.screen = screen, !.written = k, !.ends = stop,
                        !.noticed = stop, !.kept = v.kept, !.seen = <<more, stop>>]
      BY <1>7, <2>1
    <2> QED BY <1>3, <1>10, <2>1, <2>2 DEF TermSet
  <1> QED BY <1>10, <1>11, <1>12, <1>13 DEF w, Shows, Current, Complete

(* A list as long as the one written replaces it: the screen stays.        *)
LEMMA WriteOther ==
  ASSUME NEW v \in TermSet, NEW text, IsFeed(text), NEW was \in BOOLEAN, NEW n, NEW c,
         Current(v, text, was, n), Len(text) = 1,
         NEW m \in Nat, m # Last0(text)
  PROVE  /\ WriteChunks(v, <<m>>, was) \in TermSet
         /\ WriteChunks(v, <<m>>, was).tab = v.tab /\ WriteChunks(v, <<m>>, was).look = v.look
         /\ WriteChunks(v, <<m>>, was).done = v.done
         /\ Current(WriteChunks(v, <<m>>, was), <<m>>, was, c)
  <1>1. /\ v.seen = <<text, was>> /\ v.written = 1 /\ v.noticed = was /\ v.screen \in Seq(Nat)
        /\ text \in Seq(Nat) /\ text[1] = Last0(text) /\ text # <<>>
    <2>1. text \in Seq(Nat) /\ text # <<>>
      <3>1. Len(<<>>) = 0
        OBVIOUS
      <3>2. text # <<>>
        BY <3>1
      <3> QED BY <3>2 DEF IsFeed
    <2>2. text[1] = Last0(text)
      BY <2>1 DEF Last0, Last
    <2> QED BY <2>1, <2>2 DEF Current, TermSet
  <1>2. PICK q : q = <<m>>
    OBVIOUS
  <1>3. q \in Seq(Nat) /\ Len(q) = 1 /\ q[1] = m
    BY <1>2
  <1>4. v.seen # <<q, was>> /\ ~ (Len(q) < v.written)
    BY <1>1, <1>3
  <1>5. ~ IsPrefix(v.seen[1], q)
    <2>1. v.seen[1] = text
      BY <1>1
    <2>2. SubSeq(text, 1, 1) = text /\ SubSeq(q, 1, 1) = q
      BY <1>1, <1>3, SubSeqFull
    <2> QED BY <1>1, <1>3, <2>1, <2>2 DEF IsPrefix
  <1>6. v.screen \o SubSeq(q, v.written + 1, Len(q)) = v.screen
    <2>1. SubSeq(q, 2, 1) = <<>>
      BY SubSeqEmpty
    <2> QED BY <1>1, <1>3, <2>1, ConcatEmptySeq
  <1> DEFINE w == WriteChunks(v, q, was)
  <1>7. w = [v EXCEPT !.screen = v.screen, !.written = 1, !.ends = was,
                      !.noticed = was, !.kept = TRUE, !.seen = <<q, was>>]
    <2>1. (IF was /\ ~ v.noticed THEN Append(v.screen, Notice) ELSE v.screen) = v.screen
      BY <1>1
    <2>2. (v.kept \/ (v.written > 0 /\ ~ IsPrefix(v.seen[1], q))) = TRUE
      BY <1>1, <1>5 DEF TermSet
    <2> QED BY <1>1, <1>3, <1>4, <1>6, <2>1, <2>2 DEF WriteChunks
  <1> HIDE DEF w
  <1>8. /\ w \in TermSet /\ w.tab = v.tab /\ w.look = v.look /\ w.done = v.done
        /\ w.seen = <<q, was>> /\ w.written = 1 /\ w.ends = was
        /\ w.noticed = was /\ w.screen = v.screen /\ w.kept
    BY <1>1, <1>3, <1>7 DEF TermSet
  <1>9. was => Contains(v.screen, Notice)
    BY DEF Current
  <1> QED BY <1>2, <1>3, <1>8, <1>9 DEF w, Current

(* An old request is either not meant, or searches, or is obeyed again.    *)
LEMMA ObeysAgain ==
  ASSUME RequestInv, NEW v \in TermSet, v.tab \in Tabs, v.done <= request.nonce,
         NEW text, NEW stop \in BOOLEAN, NEW n, Current(v, text, stop, n),
         NEW w, w = Obey(v, request)
  PROVE  /\ w \in TermSet /\ w.tab = v.tab /\ w.look = v.look
         /\ w.done <= request.nonce /\ Current(w, text, stop, n)
  <1>1. request \in RequestSet /\ request.nonce \in Nat
    BY DEF RequestInv, RequestSet
  <1>2. CASE ~ Meant(v, request)
    BY <1>2 DEF Obey
  <1>3. CASE Meant(v, request) /\ request.action = "search"
    <2>1. w = [v EXCEPT !.done = request.nonce, !.find = TRUE]
      BY <1>3 DEF Obey
    <2>2. /\ w \in TermSet /\ w.tab = v.tab /\ w.look = v.look /\ w.done = request.nonce
          /\ w.seen = v.seen /\ w.written = v.written /\ w.ends = v.ends
          /\ w.noticed = v.noticed /\ w.screen = v.screen /\ w.again = v.again /\ w.kept = v.kept
      BY <1>1, <2>1 DEF TermSet
    <2> QED BY <1>1, <2>2 DEF Current, Complete
  <1>4. CASE Meant(v, request) /\ request.action # "search"
    <2>1. request.obeyed /\ request.tab = v.tab
      <3>1. request.tab = v.tab
        BY <1>4 DEF Meant
      <3>2. request.action # "none"
        BY <3>1, ScreenAssumption DEF RequestInv
      <3> QED BY <3>1, <3>2 DEF RequestInv
    <2>2. PICK s : s = IF v.ends THEN <<Notice>> ELSE <<>>
      OBVIOUS
    <2>3. s \in Seq(Nat) /\ (v.ends => Contains(s, Notice))
      <3>1. <<Notice>> \in Seq(Nat) /\ <<>> \in Seq(Nat) /\ Contains(<<Notice>>, Notice)
        BY DEF Notice, Contains
      <3> QED BY <2>2, <3>1
    <2>4. w = [v EXCEPT !.done = request.nonce, !.screen = s, !.noticed = v.ends,
                        !.kept = FALSE, !.again = request.obeyed /\ request.tab = v.tab]
      BY <1>4, <2>2 DEF Obey
    <2>5. (request.obeyed /\ request.tab = v.tab) = TRUE
      BY <1>1, <2>1 DEF RequestSet
    <2>6. w = [v EXCEPT !.done = request.nonce, !.screen = s, !.noticed = v.ends,
                        !.kept = FALSE, !.again = TRUE]
      BY <2>4, <2>5
    <2>7. /\ w \in TermSet /\ w.tab = v.tab /\ w.look = v.look /\ w.done = request.nonce
          /\ w.seen = v.seen /\ w.written = v.written /\ w.ends = v.ends
          /\ w.noticed = v.ends /\ w.screen = s /\ w.again
      BY <1>1, <2>3, <2>6 DEF TermSet
    <2> QED BY <1>1, <2>3, <2>7 DEF Current
  <1> QED BY <1>2, <1>3, <1>4

(* A new terminal for a tab.                                               *)
LEMMA BlankFacts ==
  ASSUME NEW t \in Tabs \cup {Home}, NEW ls \in {0, 1, 2}, NEW d \in Nat
  PROVE  LET v == Blank(t, ls, d) IN
         /\ v \in TermSet /\ v.tab = t /\ v.look = ls /\ v.done = d /\ v.seen = <<>>
         /\ v.screen = <<>> /\ v.written = 0 /\ ~ v.noticed /\ ~ v.kept
  <1>1. <<>> \in Seq(Nat)
    BY EmptySeq
  <1> QED BY <1>1 DEF Blank, TermSet

(* What the tab on the screen may have become by the next rendering.       *)
Moved(t) ==
  \/ shown' # shown
  \/ /\ feed'[t] = feed[t] /\ stopped'[t] = stopped[t] /\ looks'[t] = looks[t]
     /\ cleared'[t] = cleared[t]
  \/ /\ feed'[t] = Append(feed[t], Last0(feed[t]) + 1) /\ looks'[t] = looks[t]
     /\ cleared'[t] = cleared[t] /\ cleared[t] <= Last0(feed[t])
  \/ /\ feed'[t] = <<Last0(feed[t]) + 1>> /\ stopped'[t] = stopped[t]
     /\ cleared'[t] = 0 /\ cleared[t] <= Last0(feed[t])

(* The effects leave a terminal that shows its tab, before the request.    *)
LEMMA WritesTab ==
  ASSUME StoreInv, TermInv, request.nonce \in Nat, StoreInv', NEW t \in Tabs, shown' = t, Moved(t),
         NEW w, w = WriteChunks(CreateTerminal(term, t, looks'[t]), feed'[t], stopped'[t])
  PROVE  /\ w \in TermSet /\ w.tab = t /\ w.look = looks'[t] /\ w.done <= request.nonce
         /\ Current(w, feed'[t], stopped'[t], cleared'[t])
  <1>1. /\ IsFeed(feed[t]) /\ IsFeed(feed'[t]) /\ stopped[t] \in BOOLEAN /\ stopped'[t] \in BOOLEAN
        /\ looks'[t] \in {0, 1, 2} /\ cleared[t] \in Nat /\ t # Home
    BY ScreenAssumption DEF StoreInv
  <1>2. term \in TermSet /\ term.tab = shown /\ term.done <= request.nonce /\ term.done \in Nat
    BY DEF TermInv, TermSet
  <1>3. CASE shown # t
    <2>1. PICK v : v = Blank(t, looks'[t], 0)
      OBVIOUS
    <2>2. CreateTerminal(term, t, looks'[t]) = v
      BY <1>2, <1>3, <2>1 DEF CreateTerminal
    <2>3. /\ v \in TermSet /\ v.tab = t /\ v.look = looks'[t] /\ v.done = 0 /\ v.seen = <<>>
          /\ v.screen = <<>> /\ v.written = 0 /\ ~ v.noticed /\ ~ v.kept
      BY <1>1, <2>1, BlankFacts
    <2>4. v.seen # <<feed'[t], stopped'[t]>>
      <3>1. PICK x, y : x = feed'[t] /\ y = stopped'[t]
        OBVIOUS
      <3>2. <<>> # <<x, y>>
        OBVIOUS
      <3>3. v.seen = <<>>
        BY <2>3
      <3> QED BY <3>1, <3>2, <3>3
    <2>5. Shows(w, v, feed'[t], stopped'[t], cleared'[t])
      BY <1>1, <2>2, <2>3, <2>4, WriteFresh
    <2>6. 0 <= request.nonce
      OBVIOUS
    <2> QED BY <2>3, <2>5, <2>6 DEF Shows
  <1>4. CASE shown = t
    <2>1. /\ Current(term, feed[t], stopped[t], cleared[t]) /\ term.look = looks[t]
      BY <1>1, <1>4 DEF TermInv
    <2>2. term.seen = <<feed[t], stopped[t]>> /\ term.written = Len(feed[t])
      BY <2>1 DEF Current
    <2>3. looks'[t] = looks[t] => CreateTerminal(term, t, looks'[t]) = term
      BY <1>2, <1>4, <2>1 DEF CreateTerminal
    <2>4. CASE /\ feed'[t] = feed[t] /\ stopped'[t] = stopped[t] /\ looks'[t] = looks[t]
               /\ cleared'[t] = cleared[t]
      <3>1. w = term
        BY <2>2, <2>3, <2>4 DEF WriteChunks
      <3> QED BY <1>2, <1>4, <2>1, <2>4, <3>1
    <2>5. CASE /\ feed'[t] = Append(feed[t], Last0(feed[t]) + 1) /\ looks'[t] = looks[t]
               /\ cleared'[t] = cleared[t] /\ cleared[t] <= Last0(feed[t])
      <3>1. w = WriteChunks(term, feed'[t], stopped'[t])
        BY <2>3, <2>5
      <3>2. IsFeed(feed[t]) /\ Current(term, feed[t], stopped[t], cleared[t])
            /\ cleared[t] <= Last0(feed[t]) /\ feed'[t] = Append(feed[t], Last0(feed[t]) + 1)
        BY <1>1, <2>1, <2>5
      <3>3. Shows(w, term, feed'[t], stopped'[t], cleared[t])
        BY <1>1, <1>2, <3>1, <3>2, WriteMore
      <3> QED BY <1>2, <1>4, <2>1, <2>5, <3>3 DEF Shows
    <2>6. CASE /\ feed'[t] = <<Last0(feed[t]) + 1>> /\ stopped'[t] = stopped[t]
               /\ cleared'[t] = 0 /\ cleared[t] <= Last0(feed[t])
      <3>1. PICK m \in Nat : m = Last0(feed[t]) + 1
        BY <1>1, FeedFacts
      <3>2. /\ feed'[t] = <<m>> /\ Len(<<m>>) = 1 /\ Last0(<<m>>) = m /\ m # Last0(feed[t])
            /\ Len(feed[t]) \in Nat /\ Last0(feed[t]) \in Nat
        <4>1. Len(feed[t]) \in Nat /\ Last0(feed[t]) \in Nat
          BY <1>1, FeedFacts
        <4>2. m \in Nat \ {0}
          BY <3>1, <4>1
        <4>3. Last0(<<m>>) = m
          BY <4>2, FeedFacts
        <4> QED BY <2>6, <3>1, <4>1, <4>3
      <3>3. feed'[t] # feed[t]
        BY <3>2
      <3>4. CASE looks'[t] # looks[t]
        <4>1. PICK b : b = Blank(t, looks'[t], term.done)
          OBVIOUS
        <4>2. /\ b \in TermSet /\ b.tab = t /\ b.look = looks'[t] /\ b.done = term.done
              /\ b.screen = <<>> /\ b.written = 0 /\ ~ b.noticed /\ ~ b.kept
          BY <1>1, <1>2, <4>1, BlankFacts
        <4>3. PICK v : v = [b EXCEPT !.find = term.find, !.seen = term.seen]
          OBVIOUS
        <4>4. CreateTerminal(term, t, looks'[t]) = v
          BY <1>2, <1>4, <2>1, <3>4, <4>1, <4>3 DEF CreateTerminal
        <4>5. /\ v \in TermSet /\ v.tab = t /\ v.look = looks'[t] /\ v.done = term.done
              /\ v.screen = <<>> /\ v.written = 0 /\ ~ v.noticed /\ ~ v.kept
              /\ v.seen = <<feed[t], stopped[t]>>
          BY <1>2, <2>2, <4>2, <4>3 DEF TermSet
        <4>6. v.seen # <<feed'[t], stopped'[t]>>
          BY <3>3, <4>5
        <4>7. Shows(w, v, feed'[t], stopped'[t], cleared'[t])
          BY <1>1, <4>4, <4>5, <4>6, WriteFresh
        <4> QED BY <1>2, <4>5, <4>7 DEF Shows
      <3>5. CASE looks'[t] = looks[t] /\ Len(feed[t]) > 1
        <4>1. w = WriteChunks(term, feed'[t], stopped'[t])
          BY <2>3, <3>5
        <4>2. term.seen # <<feed'[t], stopped'[t]>> /\ Len(feed'[t]) < term.written
          BY <2>2, <3>2, <3>3, <3>5
        <4>3. Shows(w, term, feed'[t], stopped'[t], cleared'[t])
          BY <1>1, <1>2, <4>1, <4>2, WriteFresh
        <4> QED BY <1>2, <1>4, <2>1, <3>5, <4>3 DEF Shows
      <3>6. CASE looks'[t] = looks[t] /\ Len(feed[t]) = 1
        <4>1. w = WriteChunks(term, <<m>>, stopped[t])
          BY <2>3, <2>6, <3>2, <3>6
        <4>2. /\ w \in TermSet /\ w.tab = term.tab /\ w.look = term.look /\ w.done = term.done
              /\ Current(w, <<m>>, stopped[t], 0)
          BY <1>1, <1>2, <2>1, <3>2, <3>6, <4>1, WriteOther
        <4> QED BY <1>2, <1>4, <2>1, <2>6, <3>2, <3>6, <4>2
      <3>7. CASE looks'[t] = looks[t] /\ Len(feed[t]) = 0
        <4>1. feed[t] = <<>> /\ Last0(feed[t]) = 0 /\ cleared[t] = 0
          <5>1. feed[t] = <<>>
            BY <1>1, <3>7, EmptySeq DEF IsFeed
          <5> QED BY <1>1, <2>6, <5>1 DEF Last0
        <4>2. feed'[t] = Append(feed[t], Last0(feed[t]) + 1)
          BY <2>6, <4>1
        <4>3. w = WriteChunks(term, feed'[t], stopped'[t])
          BY <2>3, <3>7
        <4>4. cleared'[t] = 0 /\ cleared[t] = 0 /\ Last0(feed[t]) = 0 /\ 0 <= 0
          BY <2>6, <4>1
        <4>5. cleared[t] <= Last0(feed[t])
          BY <4>4
        <4>6. Shows(w, term, feed'[t], stopped'[t], cleared[t])
          BY <1>1, <1>2, <2>1, <4>2, <4>3, <4>5, WriteMore
        <4>7. cleared'[t] = cleared[t]
          BY <4>4
        <4>8. /\ w \in TermSet /\ w.tab = t /\ w.look = looks'[t] /\ w.done = term.done
              /\ Current(w, feed'[t], stopped'[t], cleared[t])
          BY <1>2, <1>4, <2>1, <3>7, <4>6 DEF Shows
        <4> QED BY <1>2, <4>7, <4>8
      <3>8. Len(feed[t]) > 1 \/ Len(feed[t]) = 1 \/ Len(feed[t]) = 0
        <4>1. PICK k \in Nat : k = Len(feed[t])
          BY <3>2
        <4>2. k > 1 \/ k = 1 \/ k = 0
          OBVIOUS
        <4> QED BY <4>1, <4>2
      <3> QED BY <3>4, <3>5, <3>6, <3>7, <3>8
    <2> QED BY <1>4, <2>4, <2>5, <2>6 DEF Moved
  <1> QED BY <1>3, <1>4

(* A rendering leaves a terminal that is that of its tab.                  *)
LEMMA Renders ==
  ASSUME StoreInv, RequestInv, TermInv, PasteInv, StoreInv', Render,
         shown' \in Tabs => Moved(shown'), pasted' = pasted
  PROVE  RequestInv' /\ TermInv' /\ PasteInv'
  <1>1. /\ request \in RequestSet /\ request.nonce \in Nat /\ term.tab = shown
        /\ (request.action = "none" => request.tab = Home)
    BY DEF RequestInv, RequestSet, TermInv
  <1>2. request' = request \/ request' = [request EXCEPT !.obeyed = TRUE]
    BY DEF Render, Told
  <1>3. RequestInv' /\ request'.nonce = request.nonce
    BY <1>1, <1>2 DEF RequestInv, RequestSet
  <1>4. shown' \in Tabs \cup {Home} /\ Home \notin Tabs
    <2>1. Open' \subseteq Tabs
      <3>1. row' \in Seq(Tabs)
        BY DEF StoreInv
      <3>2. \A i \in DOMAIN row' : row'[i] \in Tabs
        BY <3>1, LenProperties, ElementOfSeq
      <3> QED BY <3>2 DEF Open, ToSet
    <2> QED BY <2>1, ScreenAssumption DEF StoreInv
  <1>5. /\ term' \in TermSet /\ term'.tab = shown' /\ term'.done <= request.nonce
        /\ shown' # Home => /\ Current(term', feed'[shown'], stopped'[shown'], cleared'[shown'])
                            /\ term'.look = looks'[shown']
    <2>1. CASE shown' \notin Tabs
      <3>1. term' = NoTerm
        BY <2>1 DEF Render, Rendered
      <3>2. NoTerm \in TermSet /\ NoTerm.tab = Home /\ NoTerm.done = 0
        BY BlankFacts DEF NoTerm
      <3>3. 0 <= request.nonce
        BY <1>1
      <3> QED BY <1>4, <2>1, <3>1, <3>2, <3>3
    <2>2. CASE shown' \in Tabs
      <3>1. PICK t \in Tabs : t = shown'
        BY <2>2
      <3>2. PICK w : w = WriteChunks(CreateTerminal(term, t, looks'[t]), feed'[t], stopped'[t])
        OBVIOUS
      <3>3. /\ w \in TermSet /\ w.tab = t /\ w.look = looks'[t] /\ w.done <= request.nonce
            /\ Current(w, feed'[t], stopped'[t], cleared'[t])
        BY <1>1, <3>1, <3>2, WritesTab
      <3>4. term' = Obey(w, request)
        <4>1. stopped'[t] \in BOOLEAN
          BY DEF StoreInv
        <4>2. (t \in Tabs /\ stopped'[t]) = stopped'[t]
          BY <4>1
        <4> QED BY <3>1, <3>2, <4>2 DEF Render, Rendered
      <3>5. stopped'[t] \in BOOLEAN /\ t # Home
        BY <1>4, <3>1 DEF StoreInv
      <3>6. /\ term' \in TermSet /\ term'.tab = w.tab /\ term'.look = w.look
            /\ term'.done <= request.nonce /\ Current(term', feed'[t], stopped'[t], cleared'[t])
        BY <3>3, <3>4, <3>5, ObeysAgain
      <3> QED BY <3>1, <3>3, <3>6
    <2> QED BY <2>1, <2>2
  <1>6. TermInv'
    BY <1>3, <1>5 DEF TermInv
  <1>7. PasteInv'
    <2>1. PasteStaysHome'
      BY DEF PasteInv, PasteStaysHome
    <2>2. CASE term.tab = shown'
      <3>1. pastes' = pastes
        BY <2>2 DEF Render
      <3> QED BY <1>5, <2>1, <2>2, <3>1 DEF PasteInv
    <2>3. CASE term.tab # shown'
      <3>1. pastes' = {IF p.left THEN p ELSE [p EXCEPT !.left = TRUE, !.ends = term.ends] : p \in pastes}
        BY <2>3 DEF Render
      <3>2. term.ends \in BOOLEAN
        BY DEF TermInv, TermSet
      <3>3. ASSUME NEW q \in pastes' PROVE q \in PasteSet /\ q.left
        <4>1. PICK p \in pastes : q = IF p.left THEN p ELSE [p EXCEPT !.left = TRUE, !.ends = term.ends]
          BY <3>1
        <4>2. p \in PasteSet
          BY DEF PasteInv
        <4> QED BY <3>2, <4>1, <4>2 DEF PasteSet
      <3> QED BY <2>1, <3>3 DEF PasteInv
    <2> QED BY <2>2, <2>3
  <1> QED BY <1>3, <1>6, <1>7

(* The open tabs are tabs.                                                 *)
LEMMA OpenFacts ==
  ASSUME StoreInv
  PROVE  /\ Open \subseteq Tabs /\ shown \in Tabs \cup {Home} /\ Home \notin Tabs
         /\ shown # Home => shown \in Open /\ shown \in Tabs /\ cleared[shown] <= Last0(feed[shown])
  <1>1. row \in Seq(Tabs)
    BY DEF StoreInv
  <1>2. \A i \in DOMAIN row : row[i] \in Tabs
    BY <1>1, LenProperties, ElementOfSeq
  <1>3. Open \subseteq Tabs
    BY <1>2 DEF Open, ToSet
  <1>4. shown \in Open \cup {Home} /\ \A t \in Open : cleared[t] <= Last0(feed[t])
    BY DEF StoreInv
  <1> QED BY <1>3, <1>4, ScreenAssumption

(* A chunk more for one tab.                                               *)
LEMMA FedKeeps ==
  ASSUME StoreInv, TermInv, NEW t \in Open, NEW stop \in BOOLEAN, Fed(t, stop),
         UNCHANGED <<row, looks, cleared>>, shown' \in {t, shown}
  PROVE  StoreInv' /\ (shown' \in Tabs => Moved(shown'))
  <1>1. /\ feed' = [feed EXCEPT ![t] = Append(feed[t], Last0(feed[t]) + 1)]
        /\ stopped' = [stopped EXCEPT ![t] = stop]
    BY DEF Fed
  <1>2. /\ Open \subseteq Tabs /\ t \in Tabs /\ IsFeed(feed[t]) /\ Open' = Open
        /\ feed \in [Tabs -> Seq(Nat)] /\ stopped \in [Tabs -> BOOLEAN]
        /\ cleared \in [Tabs -> Nat] /\ cleared[t] \in Nat
    BY OpenFacts DEF StoreInv, Open
  <1>3. PICK q : q = Append(feed[t], Last0(feed[t]) + 1)
    OBVIOUS
  <1>4. /\ IsFeed(q) /\ q \in Seq(Nat) /\ Last0(q) = Last0(feed[t]) + 1
        /\ Last0(feed[t]) \in Nat
    BY <1>2, <1>3, FeedFacts
  <1>5. feed' = [feed EXCEPT ![t] = q]
    BY <1>1, <1>3
  <1>6. feed' \in [Tabs -> Seq(Nat)] /\ feed'[t] = q /\ \A u \in Tabs : u # t => feed'[u] = feed[u]
    BY <1>2, <1>4, <1>5
  <1>7. \A u \in Tabs : IsFeed(feed'[u])
    BY <1>4, <1>6 DEF StoreInv
  <1>8. cleared[t] <= Last0(feed[t]) /\ cleared[t] <= Last0(q)
    <2>1. cleared[t] <= Last0(feed[t])
      BY DEF StoreInv
    <2>2. PICK a \in Nat, b \in Nat : a = cleared[t] /\ b = Last0(feed[t])
      BY <1>2, <1>4
    <2>3. a <= b /\ Last0(q) = b + 1
      BY <1>4, <2>1, <2>2
    <2> QED BY <2>1, <2>2, <2>3
  <1>9. \A u \in Open : cleared[u] <= Last0(feed'[u])
    BY <1>2, <1>6, <1>8 DEF StoreInv
  <1>10. StoreInv'
    BY <1>1, <1>2, <1>6, <1>7, <1>9 DEF StoreInv
  <1>11. ASSUME shown' \in Tabs, shown' = shown PROVE Moved(shown')
    <2>1. CASE shown = t
      BY <1>3, <1>6, <1>8, <1>11, <2>1 DEF Moved
    <2>2. CASE shown # t
      <3>1. stopped'[shown] = stopped[shown]
        BY <1>1, <1>2, <1>11, <2>2
      <3> QED BY <1>6, <1>11, <2>2, <3>1 DEF Moved
    <2> QED BY <2>1, <2>2
  <1> QED BY <1>10, <1>11 DEF Moved

LEMMA OutputKeeps ==
  ASSUME ScreenInv, NEW t \in Tabs, NEW stop \in BOOLEAN, Output(t, stop)
  PROVE  ScreenInv'
  <1>1. /\ t \in Open /\ Fed(t, stop) /\ Render
        /\ UNCHANGED <<row, shown, looks, cleared, pasted>>
    BY DEF Output
  <1>2. StoreInv' /\ (shown' \in Tabs => Moved(shown'))
    BY <1>1, FedKeeps DEF ScreenInv
  <1> QED BY <1>1, <1>2, Renders DEF ScreenInv

LEMMA RestartSeedsKeeps ==
  ASSUME ScreenInv, NEW t \in Tabs, RestartSeeds(t)
  PROVE  ScreenInv'
  <1>1. CASE t \in Open
    <2>1. /\ Fed(t, FALSE) /\ shown' = t /\ Render
          /\ UNCHANGED <<row, looks, cleared, pasted>>
      BY <1>1 DEF RestartSeeds
    <2>2. StoreInv' /\ (shown' \in Tabs => Moved(shown'))
      BY <1>1, <2>1, FedKeeps DEF ScreenInv
    <2> QED BY <2>1, <2>2, Renders DEF ScreenInv
  <1>2. CASE t \notin Open
    BY <1>2 DEF RestartSeeds, ScreenInv, StoreInv, RequestInv, TermInv, PasteInv, PasteStaysHome, Open
  <1> QED BY <1>1, <1>2

LEMMA EditSessionKeeps ==
  ASSUME ScreenInv, NEW t \in Tabs, NEW ls \in {1, 2}, EditSession(t, ls)
  PROVE  ScreenInv'
  <1>1. /\ t \in Open /\ feed' = [feed EXCEPT ![t] = <<Last0(feed[t]) + 1>>]
        /\ looks' = [looks EXCEPT ![t] = ls] /\ cleared' = [cleared EXCEPT ![t] = 0]
        /\ UNCHANGED <<row, shown, stopped, pasted>> /\ Render
    BY DEF EditSession
  <1>2. /\ StoreInv /\ TermInv /\ IsFeed(feed[t]) /\ Open' = Open
        /\ feed \in [Tabs -> Seq(Nat)] /\ looks \in [Tabs -> {1, 2}]
        /\ cleared \in [Tabs -> Nat] /\ cleared[t] <= Last0(feed[t])
    BY <1>1 DEF ScreenInv, StoreInv, Open
  <1>3. PICK m \in Nat \ {0} : m = Last0(feed[t]) + 1
    BY <1>2, FeedFacts
  <1>4. PICK q : q = <<m>>
    OBVIOUS
  <1>5. q \in Seq(Nat) /\ IsFeed(q) /\ Last0(q) = m /\ 0 <= m
    BY <1>4, FeedFacts
  <1>6. /\ feed' = [feed EXCEPT ![t] = q] /\ feed' \in [Tabs -> Seq(Nat)] /\ feed'[t] = q
        /\ \A u \in Tabs : u # t => feed'[u] = feed[u]
    BY <1>1, <1>2, <1>3, <1>4, <1>5
  <1>7. /\ looks' \in [Tabs -> {1, 2}] /\ cleared' \in [Tabs -> Nat] /\ cleared'[t] = 0
        /\ \A u \in Tabs : u # t => looks'[u] = looks[u] /\ cleared'[u] = cleared[u]
    BY <1>1, <1>2
  <1>8. StoreInv'
    <2>1. \A u \in Tabs : IsFeed(feed'[u])
      BY <1>2, <1>5, <1>6 DEF StoreInv
    <2>2. \A u \in Open : cleared'[u] <= Last0(feed'[u])
      BY <1>2, <1>5, <1>6, <1>7, OpenFacts DEF StoreInv
    <2> QED BY <1>1, <1>2, <1>6, <1>7, <2>1, <2>2 DEF StoreInv
  <1>9. ASSUME shown' \in Tabs PROVE Moved(shown')
    <2>1. CASE shown = t
      BY <1>1, <1>2, <1>3, <1>4, <1>6, <1>7, <2>1 DEF Moved
    <2>2. CASE shown # t
      BY <1>1, <1>6, <1>7, <1>9, <2>2 DEF Moved
    <2> QED BY <2>1, <2>2
  <1> QED BY <1>1, <1>8, <1>9, Renders DEF ScreenInv

LEMMA SelectTabKeeps ==
  ASSUME ScreenInv, NEW t \in Tabs \cup {Home}, SelectTab(t)
  PROVE  ScreenInv'
  <1>1. /\ t \in Open \cup {Home} /\ t # shown /\ shown' = t /\ Render
        /\ UNCHANGED <<row, feed, stopped, looks, cleared, pasted>>
    BY DEF SelectTab
  <1>2. StoreInv'
    BY <1>1 DEF ScreenInv, StoreInv, Open
  <1>3. Moved(shown')
    BY <1>1 DEF Moved
  <1> QED BY <1>1, <1>2, <1>3, Renders DEF ScreenInv

LEMMA CloseTabKeeps ==
  ASSUME ScreenInv, NEW t \in Tabs, CloseTab(t)
  PROVE  ScreenInv'
  <1>1. /\ row' = Only(row, Tabs \ {t})
        /\ shown' = IF shown # t THEN shown ELSE IF row' = <<>> THEN Home ELSE Last(row')
        /\ feed' = [feed EXCEPT ![t] = <<>>] /\ stopped' = [stopped EXCEPT ![t] = FALSE]
        /\ UNCHANGED <<looks, cleared, pasted>> /\ Render
    BY DEF CloseTab
  <1>2. /\ StoreInv /\ feed \in [Tabs -> Seq(Nat)] /\ stopped \in [Tabs -> BOOLEAN]
        /\ row \in Seq(Tabs) /\ Open \subseteq Tabs
    BY OpenFacts DEF ScreenInv, StoreInv
  <1>3. PICK S : S = Tabs \ {t}
    OBVIOUS
  <1>4. row' \in Seq(Tabs) /\ \A x : x \in ToSet(row') <=> x \in ToSet(row) /\ x \in S
    BY <1>1, <1>2, <1>3, OnlyElements
  <1>5. Open' = Open \ {t}
    BY <1>2, <1>3, <1>4 DEF Open
  <1>6. row' # <<>> => Last(row') \in Open'
    <2>1. SUFFICES ASSUME row' # <<>> PROVE Last(row') \in Open'
      OBVIOUS
    <2>2. Len(row') \in DOMAIN row'
      <3>1. Len(row') \in Nat \ {0} /\ DOMAIN row' = 1 .. Len(row')
        BY <1>4, <2>1, EmptySeq, LenProperties
      <3> QED BY <3>1
    <2> QED BY <2>2 DEF Last, Open, ToSet
  <1>7. shown' \in Open' \cup {Home} /\ (shown' = shown \/ shown' # t)
    BY <1>1, <1>2, <1>5, <1>6 DEF StoreInv
  <1>8. /\ feed' \in [Tabs -> Seq(Nat)] /\ stopped' \in [Tabs -> BOOLEAN]
        /\ feed'[t] = <<>> /\ \A u \in Tabs : u # t => feed'[u] = feed[u] /\ stopped'[u] = stopped[u]
    <2>1. <<>> \in Seq(Nat)
      BY EmptySeq
    <2> QED BY <1>1, <1>2, <2>1
  <1>9. StoreInv'
    <2>1. \A u \in Tabs : IsFeed(feed'[u])
      BY <1>2, <1>8, FeedFacts DEF StoreInv
    <2>2. \A u \in Open' : cleared'[u] <= Last0(feed'[u])
      BY <1>1, <1>2, <1>5, <1>8 DEF StoreInv
    <2> QED BY <1>1, <1>2, <1>4, <1>7, <1>8, <2>1, <2>2 DEF StoreInv
  <1>10. ASSUME shown' \in Tabs PROVE Moved(shown')
    <2>1. CASE shown' # shown
      BY <2>1 DEF Moved
    <2>2. CASE shown' = shown
      <3>1. shown' # t
        BY <1>5, <1>7, <1>10, OpenFacts, <1>2
      <3> QED BY <1>1, <1>8, <1>10, <2>2, <3>1 DEF Moved
    <2> QED BY <2>1, <2>2
  <1> QED BY <1>1, <1>9, <1>10, Renders DEF ScreenInv

(* The text of a paste arrives.                                            *)
LEMMA PasteArrivesKeeps ==
  ASSUME ScreenInv, PasteArrives
  PROVE  ScreenInv'
  <1>1. PICK p \in pastes :
          /\ pastes' = pastes \ {p}
          /\ LET ends == IF p.left THEN p.ends ELSE term.ends
             IN pasted' = IF ends \/ p.tab \notin Open THEN pasted
                          ELSE pasted \cup {[from |-> p.tab, to |-> p.tab, left |-> p.left,
                                             dead |-> stopped[p.tab]]}
          /\ UNCHANGED <<store, request, term, cleared>>
    BY DEF PasteArrives, PasteTarget
  <1>2. p \in PasteSet /\ (~ p.left => p.tab = term.tab) /\ PasteStaysHome
    BY DEF ScreenInv, PasteInv
  <1>3. PasteStaysHome'
    <2>1. CASE pasted' = pasted
      BY <1>2, <2>1 DEF PasteStaysHome
    <2>2. CASE pasted' # pasted
      <3> DEFINE r == [from |-> p.tab, to |-> p.tab, left |-> p.left, dead |-> stopped[p.tab]]
      <3>1. pasted' = pasted \cup {r} /\ ~ (IF p.left THEN p.ends ELSE term.ends)
        BY <1>1, <2>2
      <3>2. r.to = r.from /\ (r.dead => r.left)
        <4>1. SUFFICES ASSUME ~ p.left PROVE ~ stopped[p.tab]
          OBVIOUS
        <4>2. p.tab = shown /\ p.tab \in Tabs /\ p.tab # Home
          BY <1>2, <4>1, ScreenAssumption DEF ScreenInv, TermInv, PasteSet
        <4>3. term.ends = stopped[shown]
          BY <4>2 DEF ScreenInv, TermInv, Current
        <4> QED BY <3>1, <4>1, <4>2, <4>3
      <3> HIDE DEF r
      <3> QED BY <1>2, <3>1, <3>2 DEF PasteStaysHome
    <2> QED BY <2>1, <2>2
  <1>4. PasteInv'
    BY <1>1, <1>3 DEF ScreenInv, PasteInv
  <1>5. StoreInv' /\ RequestInv' /\ TermInv'
    BY <1>1 DEF ScreenInv, StoreInv, RequestInv, TermInv, store, Open
  <1> QED BY <1>4, <1>5 DEF ScreenInv

(* A command of the menu is obeyed at once.                                *)
LEMMA CommandKeeps ==
  ASSUME ScreenInv, NEW c \in Commands, TerminalCommand(c)
  PROVE  ScreenInv'
  <1>1. PICK r : r = [action |-> c, nonce |-> request.nonce + 1, tab |-> shown, obeyed |-> FALSE]
    OBVIOUS
  <1>2. /\ shown \in Tabs /\ request' = Told(r) /\ term' = Obey(term, r)
        /\ cleared' = (IF c = "search" THEN cleared
                       ELSE [cleared EXCEPT ![shown] = Last0(feed[shown])])
        /\ UNCHANGED <<store, pastes, pasted>>
    BY <1>1 DEF TerminalCommand
  <1>3. /\ request.nonce \in Nat /\ term \in TermSet /\ term.tab = shown
        /\ term.done <= request.nonce /\ term.done \in Nat
        /\ Current(term, feed[shown], stopped[shown], cleared[shown]) /\ term.look = looks[shown]
        /\ IsFeed(feed[shown]) /\ stopped[shown] \in BOOLEAN
    <2>1. shown # Home
      BY <1>2, ScreenAssumption
    <2> QED BY <1>2, <2>1 DEF ScreenInv, StoreInv, RequestInv, RequestSet, TermInv, TermSet
  <1>4. PICK n \in Nat : n = request.nonce + 1
    BY <1>3
  <1>5. /\ r = [action |-> c, nonce |-> n, tab |-> shown, obeyed |-> FALSE]
        /\ n # term.done /\ c # "none"
    BY <1>1, <1>3, <1>4 DEF Commands
  <1>6. request' = [action |-> c, nonce |-> n, tab |-> shown, obeyed |-> TRUE]
    BY <1>2, <1>5 DEF Told
  <1>7. RequestInv' /\ request'.nonce = n
    <2>1. request' \in RequestSet
      BY <1>2, <1>6 DEF RequestSet
    <2>2. request'.action # "none" /\ request'.obeyed /\ request'.nonce = n
      BY <1>5, <1>6
    <2> QED BY <2>1, <2>2 DEF RequestInv
  <1>8. Meant(term, r)
    BY <1>3, <1>5 DEF Meant
  <1>9. CASE c = "search"
    <2>1. term' = [term EXCEPT !.done = n, !.find = TRUE] /\ cleared' = cleared
      BY <1>2, <1>5, <1>8, <1>9 DEF Obey
    <2>2. /\ term' \in TermSet /\ term'.tab = shown /\ term'.look = term.look /\ term'.done = n
          /\ term'.seen = term.seen /\ term'.written = term.written /\ term'.ends = term.ends
          /\ term'.noticed = term.noticed /\ term'.screen = term.screen
          /\ term'.again = term.again /\ term'.kept = term.kept
      BY <1>3, <2>1 DEF TermSet
    <2>3. Current(term', feed[shown], stopped[shown], cleared[shown])
      BY <1>3, <2>2 DEF Current, Complete
    <2>4. n <= n
      OBVIOUS
    <2>5. TermInv'
      BY <1>2, <1>3, <1>7, <2>1, <2>2, <2>3, <2>4 DEF TermInv, store
    <2>6. StoreInv' /\ PasteInv'
      BY <1>2, <1>3, <2>1, <2>2 DEF ScreenInv, StoreInv, PasteInv, PasteStaysHome, store, Open
    <2> QED BY <1>7, <2>5, <2>6 DEF ScreenInv
  <1>10. CASE c # "search"
    <2>1. PICK s : s = IF term.ends THEN <<Notice>> ELSE <<>>
      OBVIOUS
    <2>2. s \in Seq(Nat) /\ (term.ends => Contains(s, Notice)) /\ Chunks(s) = <<>>
      <3>1. <<Notice>> \in Seq(Nat) /\ <<>> \in Seq(Nat) /\ Contains(<<Notice>>, Notice)
        BY DEF Notice, Contains
      <3> QED BY <2>1, <3>1, ChunksFacts
    <2>3. term' = [term EXCEPT !.done = n, !.screen = s, !.noticed = term.ends,
                               !.kept = FALSE, !.again = FALSE]
      <3>1. (r.obeyed /\ r.tab = term.tab) = FALSE
        BY <1>5
      <3> QED BY <1>2, <1>5, <1>8, <1>10, <2>1, <3>1 DEF Obey
    <2>4. /\ term' \in TermSet /\ term'.tab = shown /\ term'.look = term.look /\ term'.done = n
          /\ term'.seen = term.seen /\ term'.written = term.written /\ term'.ends = term.ends
          /\ term'.noticed = term.ends /\ term'.screen = s
      BY <1>3, <2>2, <2>3 DEF TermSet
    <2>5. PICK l \in Nat : l = Last0(feed[shown])
      BY <1>3, FeedFacts
    <2>6. cleared' = [cleared EXCEPT ![shown] = l] /\ cleared \in [Tabs -> Nat]
      BY <1>2, <1>10, <2>5 DEF ScreenInv, StoreInv
    <2>7. /\ cleared' \in [Tabs -> Nat] /\ cleared'[shown] = l
          /\ \A t \in Tabs : t # shown => cleared'[t] = cleared[t]
      BY <1>2, <2>6
    <2>8. After(feed[shown], l) = <<>>
      BY <1>3, <2>5, AfterFacts
    <2>9. Current(term', feed[shown], stopped[shown], l)
      BY <1>3, <2>2, <2>4, <2>8 DEF Current, Complete
    <2>10. n <= n /\ l <= l
      OBVIOUS
    <2>11. TermInv'
      BY <1>2, <1>3, <1>7, <2>4, <2>7, <2>9, <2>10 DEF TermInv, store
    <2>12. StoreInv'
      <3>1. \A t \in Open : cleared'[t] <= Last0(feed[t])
        BY <2>5, <2>7, <2>10, OpenFacts DEF ScreenInv, StoreInv
      <3> QED BY <1>2, <2>7, <3>1 DEF ScreenInv, StoreInv, store, Open
    <2>13. PasteInv'
      BY <1>2, <1>3, <2>4 DEF ScreenInv, PasteInv, PasteStaysHome
    <2> QED BY <1>7, <2>11, <2>12, <2>13 DEF ScreenInv
  <1> QED BY <1>9, <1>10

LEMMA ScreenKept == ASSUME ScreenInv, [Next]_vars PROVE ScreenInv'
  <1>1. CASE ScreenStep
    <2>1. ASSUME NEW t \in Tabs, NEW stop \in {TRUE, FALSE}, Output(t, stop) PROVE ScreenInv'
      <3>1. stop \in BOOLEAN
        OBVIOUS
      <3> QED BY <2>1, <3>1, OutputKeeps
    <2>2. ASSUME NEW t \in Tabs, NEW ls \in {1, 2}, EditSession(t, ls) PROVE ScreenInv'
      BY <2>2, EditSessionKeeps
    <2>3. ASSUME NEW t \in Tabs, RestartSeeds(t) PROVE ScreenInv'
      BY <2>3, RestartSeedsKeeps
    <2>4. ASSUME NEW t \in Tabs \cup {Home}, SelectTab(t) PROVE ScreenInv'
      BY <2>4, SelectTabKeeps
    <2>5. CASE EnterKey
      <3>1. term.tab \in Tabs /\ CloseTab(term.tab)
        BY <2>5, OpenFacts DEF EnterKey, ScreenInv, TermInv, TermSet
      <3> QED BY <3>1, CloseTabKeeps
    <2>6. ASSUME NEW t \in Tabs, CloseTab(t) PROVE ScreenInv'
      BY <2>6, CloseTabKeeps
    <2>7. CASE RestartKey
      BY <2>7 DEF RestartKey, ScreenInv, StoreInv, RequestInv, TermInv, PasteInv, PasteStaysHome,
                  store, Open
    <2>8. CASE PasteKey
      <3>1. /\ term.tab # Home /\ pastes' = {[tab |-> term.tab, left |-> FALSE, ends |-> FALSE]}
            /\ UNCHANGED <<store, request, term, cleared, pasted>>
        BY <2>8 DEF PasteKey
      <3>2. term.tab \in Tabs
        BY <3>1 DEF ScreenInv, TermInv, TermSet
      <3>3. PasteInv'
        BY <3>1, <3>2 DEF ScreenInv, PasteInv, PasteSet, PasteStaysHome
      <3>4. StoreInv' /\ RequestInv' /\ TermInv'
        BY <3>1 DEF ScreenInv, StoreInv, RequestInv, TermInv, store, Open
      <3> QED BY <3>3, <3>4 DEF ScreenInv
    <2>9. CASE PasteArrives
      BY <2>9, PasteArrivesKeeps
    <2>10. ASSUME NEW c \in Commands, TerminalCommand(c) PROVE ScreenInv'
      BY <2>10, CommandKeeps
    <2> QED BY <1>1, <2>1, <2>2, <2>3, <2>4, <2>5, <2>6, <2>7, <2>8, <2>9, <2>10
            DEF ScreenStep, ScreenNext
  <1>2. CASE UNCHANGED stage
    BY <1>2 DEF ScreenInv, StoreInv, RequestInv, TermInv, PasteInv, PasteStaysHome,
                stage, store, Open
  <1>3. (LockFromSettings /\ UNCHANGED <<stage, boxVars, faults>>) \/ PrefStep \/ LockStep
          \/ BoxStep \/ BoxFault \/ UNCHANGED vars => UNCHANGED stage
    BY DEF PrefStep, LockStep, BoxStep, BoxFault, vars, stage, screenVars
  <1>4. ASSUME NEW ok \in BOOLEAN, Serve(ok) PROVE UNCHANGED stage
    BY <1>4 DEF Serve, stage, screenVars
  <1>5. Answer => UNCHANGED stage
    BY DEF Answer, stage, screenVars
  <1> QED BY <1>1, <1>2, <1>3, <1>4, <1>5 DEF Next

(* What the property says of the terminal.                                 *)
LEMMA ScreenFacts == ScreenInv => TerminalIsOfTab
  <1> SUFFICES ASSUME ScreenInv PROVE TerminalIsOfTab
    OBVIOUS
  <1>1. term.tab # Home => Current(term, feed[term.tab], stopped[term.tab], cleared[term.tab])
    BY DEF ScreenInv, TermInv
  <1>2. ScreenComplete
    BY <1>1 DEF ScreenComplete, Current, Complete
  <1>3. StopIsShown
    BY <1>1 DEF StopIsShown, Current
  <1>4. PasteStaysHome
    BY DEF ScreenInv, PasteInv
  <1> QED BY <1>2, <1>3, <1>4 DEF TerminalIsOfTab

-----------------------------------------------------------------------------
(* The start, and the theorems.                                            *)

(* The open tabs at the start are all of them.                             *)
LEMMA RowFacts == SetToSeq(Tabs) \in Seq(Tabs) /\ ToSet(SetToSeq(Tabs)) = Tabs
  <1> DEFINE n == Cardinality(Tabs)
             F == {f \in [1 .. n -> Tabs] : IsInjective(f)}
             row0 == SetToSeq(Tabs)
  <1>1. IsFiniteSet(Tabs)
    BY ScreenAssumption
  <1>2. n \in Nat /\ ExistsBijection(1 .. n, Tabs)
    BY <1>1, FS_CardinalityType
  <1>3. PICK g : g \in Bijection(1 .. n, Tabs)
    BY <1>2 DEF ExistsBijection
  <1>4. g \in F
    BY <1>3 DEF Bijection, Injection
  <1>5. row0 \in [1 .. n -> Tabs] /\ IsInjective(row0)
    <2>1. row0 = CHOOSE f \in [1 .. n -> Tabs] : IsInjective(f)
      BY DEF SetToSeq
    <2>2. \E f \in [1 .. n -> Tabs] : IsInjective(f)
      BY <1>4
    <2> QED BY <2>1, <2>2
  <1>6. row0 \in Seq(Tabs)
    BY <1>2, <1>5
  <1>7. ToSet(row0) = Tabs
    <2> HIDE DEF row0, n
    <2>1. DOMAIN row0 = 1 .. n /\ \A i \in 1 .. n : row0[i] \in Tabs
      BY <1>5
    <2>2. ASSUME NEW t \in Tabs PROVE \E i \in 1 .. n : row0[i] = t
      <3>1. Cardinality(1 .. n) = n /\ IsFiniteSet(1 .. n)
        <4>1. n \in Int /\ 1 \in Int
          BY <1>2
        <4>2. IsFiniteSet(1 .. n) /\ Cardinality(1 .. n) = IF 1 > n THEN 0 ELSE n - 1 + 1
          BY <4>1, FS_Interval
        <4> QED BY <1>2, <4>2
      <3>2. Cardinality(1 .. n) = Cardinality(Tabs)
        BY <3>1 DEF n
      <3>3. row0 \in Injection(1 .. n, Tabs)
        BY <1>5 DEF Injection
      <3>4. row0 \in Surjection(1 .. n, Tabs)
        BY <1>1, <3>1, <3>2, <3>3, FS_Injection
      <3> QED BY <3>4 DEF Surjection
    <2> QED BY <2>1, <2>2 DEF ToSet
  <1> QED BY <1>6, <1>7

LEMMA InitScreen == ScreenInit => ScreenInv
  <1> SUFFICES ASSUME ScreenInit PROVE ScreenInv
    OBVIOUS
  <1>1. /\ row \in Seq(Tabs) /\ Open = Tabs /\ shown \in Tabs /\ Home \notin Tabs
        /\ request = NoRequest /\ pastes = {} /\ pasted = {}
        /\ term = WriteChunks(Blank(shown, 1, 0), <<1>>, FALSE)
        /\ stopped = [t \in Tabs |-> FALSE] /\ looks = [t \in Tabs |-> 1]
        /\ cleared = [t \in Tabs |-> 0]
    BY RowFacts, ScreenAssumption DEF ScreenInit, Open
  <1>2. PICK q : q = <<1>>
    OBVIOUS
  <1>3. q \in Seq(Nat) /\ IsFeed(q) /\ Last0(q) = 1 /\ q # <<>> /\ 1 \in Nat \ {0}
    BY <1>2, FeedFacts
  <1>4. feed = [t \in Tabs |-> q]
    BY <1>2 DEF ScreenInit
  <1>5. StoreInv
    <2>1. \A t \in Open : cleared[t] <= Last0(feed[t])
      BY <1>1, <1>3, <1>4
    <2> QED BY <1>1, <1>3, <1>4, <2>1 DEF StoreInv
  <1>6. RequestInv
    BY <1>1 DEF RequestInv, RequestSet, NoRequest
  <1>7. PICK v : v = Blank(shown, 1, 0)
    OBVIOUS
  <1>8. /\ v \in TermSet /\ v.tab = shown /\ v.look = 1 /\ v.done = 0 /\ v.seen = <<>>
        /\ v.screen = <<>> /\ v.written = 0 /\ ~ v.noticed /\ ~ v.kept
    BY <1>1, <1>7, BlankFacts
  <1>9. v.seen # <<q, FALSE>>
    <2>1. <<>> # <<q, FALSE>>
      OBVIOUS
    <2> QED BY <1>8, <2>1
  <1>10. Shows(term, v, q, FALSE, 0)
    BY <1>1, <1>2, <1>3, <1>7, <1>8, <1>9, WriteFresh
  <1>11. TermInv
    <2>1. term.done <= request.nonce
      <3>1. term.done = 0
        BY <1>8, <1>10 DEF Shows
      <3>2. request.nonce = 0
        BY <1>1 DEF NoRequest
      <3> QED BY <3>1, <3>2
    <2> QED BY <1>1, <1>4, <1>8, <1>10, <2>1 DEF TermInv, Shows
  <1>12. PasteInv
    BY <1>1 DEF PasteInv, PasteStaysHome
  <1> QED BY <1>5, <1>6, <1>11, <1>12 DEF ScreenInv

LEMMA InitPref == Init => PrefInv
  <1> SUFFICES ASSUME Init PROVE PrefInv
    OBVIOUS
  <1>1. Widest \in Widths /\ (CHOOSE o \in Options : TRUE) \in Options
    BY ShellAssumption DEF Widest
  <1>2. PICK p \in PrefType : p = prefs
    BY <1>1 DEF Init, PrefType
  <1>3. /\ saved = p /\ wanted = p /\ saves = <<>> /\ lastAuto \in Tabs
        /\ drag = [on |-> FALSE, draft |-> "none", ref |-> Widest]
        /\ settings = [open |-> FALSE, tab |-> "interface", draft |-> p, touched |-> {},
                       saving |-> FALSE]
        /\ crossed = FALSE /\ failed = FALSE
    BY <1>2 DEF Init, ScreenInit
  <1>4. saves \in Seq(SaveSet) /\ Len(saves) = 0
    BY <1>3, EmptySeq
  <1>5. drag \in DragSet
    BY <1>1, <1>3 DEF DragSet
  <1>6. settings \in [open : BOOLEAN, tab : {"interface", "about"}, draft : PrefType,
                      touched : SUBSET Fields, saving : BOOLEAN]
    BY <1>3
  <1>7. PrefTypes
    BY <1>2, <1>3, <1>4, <1>5, <1>6 DEF PrefTypes
  <1>8. ~ \E i \in 1 .. Len(saves) : TRUE
    BY <1>4
  <1>9. QueueInv
    BY <1>2, <1>3, <1>8 DEF QueueInv, Served, Asked
  <1>10. Dragged(drag, saves, failed) /\ DraftInv
    BY <1>3 DEF Dragged, DraftInv
  <1> QED BY <1>7, <1>9, <1>10 DEF PrefInv

LEMMA InitBoxes == Init => LockInv /\ BoxInv
  <1> SUFFICES ASSUME Init PROVE LockInv /\ BoxInv
    OBVIOUS
  <1>1. LockInv
    BY DEF Init, LockInv
  <1>2. dialogs \in [Dialogs -> DialogSet] /\ posts \subseteq Dialogs \X Nat
    BY DEF Init, DialogSet
  <1>3. \A k \in Dialogs : ~ \E n \in 1 .. dialogs[k].no : TRUE
    BY DEF Init
  <1> QED BY <1>1, <1>2, <1>3 DEF BoxInv, DraftIsSavedOrKept

LEMMA SpecIInv == Spec => []IInv
  <1>1. Init => IInv
    BY InitScreen, InitPref, InitBoxes DEF IInv, Init
  <1>2. IInv /\ [Next]_vars => IInv'
    BY ScreenKept, PrefKept, LockKept, BoxKept DEF IInv
  <1> QED BY <1>1, <1>2, PTL DEF Spec

(* In every behaviour, with any number of tabs, chunks, commands and       *)
(* restarts, the terminal on the screen is that of its tab: it shows all   *)
(* that the tab printed since it was cleared, in order, knows whether the  *)
(* tab has stopped, and a paste goes where it was made (TerminalSurface).  *)
THEOREM TerminalAlwaysOfTab == Spec => []TerminalIsOfTab
  <1>1. IInv => TerminalIsOfTab
    BY ScreenFacts DEF IInv
  <1> QED BY <1>1, SpecIInv, PTL

(* In every behaviour the preferences the window shows while no save is    *)
(* under way are those of the state file, and those that were asked for    *)
(* unless saves crossed or failed (App.tsx, useOpenXTermStore.ts).         *)
THEOREM PreferencesAlwaysTrue == Spec => []PreferencesAreTrue
  <1>1. IInv => PreferencesAreTrue
    <2> SUFFICES ASSUME IInv PROVE PreferencesAreTrue
      OBVIOUS
    <2>1. SavedIsShown /\ EditsSurvive
      BY PrefFacts DEF IInv
    <2>2. lock.asks \subseteq 1 .. lock.no /\ posts \subseteq Dialogs \X Nat
      BY LockFacts DEF IInv, BoxInv
    <2>3. shown \in Open \cup {Home} /\ (term.tab = Home \/ term.written = Len(term.seen[1]))
      <3>1. term.tab # Home => term.seen = <<feed[shown], stopped[shown]>> /\ term.written = Len(feed[shown])
        BY DEF IInv, ScreenInv, TermInv, Current
      <3> QED BY <3>1 DEF IInv, ScreenInv, StoreInv
    <2>4. /\ prefs \in PrefType /\ saved \in PrefType /\ saves \in Seq(SaveSet)
          /\ drag.draft \in Widths \cup {"none"} /\ drag.ref \in Widths
          /\ lastAuto \in Tabs \cup {"none"}
      BY DEF IInv, PrefInv, PrefTypes, DragSet
    <2>5. TypeOK
      BY <2>2, <2>3, <2>4 DEF TypeOK, SaveSet
    <2> QED BY <2>1, <2>5 DEF PreferencesAreTrue
  <1> QED BY <1>1, SpecIInv, PTL

(* In every behaviour an answer that comes late, of the authentication     *)
(* that unlocks the window or of the save of a dialog, undoes nothing that *)
(* was done since (AppLockOverlay.tsx, SessionEditorModal.tsx).            *)
THEOREM LateAnswersAlwaysHarmless == Spec => []LateAnswersAreHarmless
  <1>1. IInv => LateAnswersAreHarmless
    BY LockFacts DEF IInv, BoxInv, LateAnswersAreHarmless
  <1> QED BY <1>1, SpecIInv, PTL

=============================================================================
