-------------------------- MODULE DesktopPanes_proof --------------------------
(***************************************************************************)
(* Theorems about the parts of DesktopPanes, for every value of their      *)
(* constants.  The invariants are stated in the modules of the parts.      *)
(***************************************************************************)
EXTENDS DesktopPanes, FiniteSetTheorems, FunctionTheorems, SequenceTheorems, TLAPS

\* A step is one of the part that runs, and that part goes on running.
LEMMA PanesPartStays == [PanesNext]_desktopVars => part' = part
BY DEF PanesNext, Moves, desktopVars

-----------------------------------------------------------------------------
(* The panes of a window.                                                  *)

LEMMA LeastOf ==
  ASSUME NEW S \in SUBSET Nat, S # {}
  PROVE  PL!Min(S) \in S
<1>1. PICK x \in S : \A y \in S : ~(<<y, x>> \in OpToRel(<, Nat))
  BY WFMin, NatLessThanWellFounded, Zenon
<1>2. \A y \in S : x <= y
  <2> SUFFICES ASSUME NEW y \in S PROVE x <= y
    OBVIOUS
  <2>1. ~(y < x)
    BY <1>1 DEF OpToRel
  <2> QED
    BY <2>1
<1> QED
  BY <1>2 DEF PL!Min

\* What is looked for in a list of panes or tabs.
LEMMA PaneFound ==
  ASSUME NEW tab \in PL!TabRecords, NEW id
  PROVE  /\ PL!PaneAt(tab, id) \in 0..Len(tab.panes)
         /\ PL!PaneAt(tab, id) # 0 => tab.panes[PL!PaneAt(tab, id)].id = id
         /\ PL!PaneAt(tab, id) = 0 => \A p \in PL!Range(tab.panes) : p.id # id
<1> DEFINE I == {i \in 1..Len(tab.panes) : tab.panes[i].id = id}
<1>1. PL!PaneAt(tab, id) = IF I # {} THEN PL!Min(I) ELSE 0
  BY DEF PL!PaneAt, PL!SelectInSeq
<1>2. tab.panes \in Seq(PL!PaneRecords)
  BY DEF PL!TabRecords
<1>3. Len(tab.panes) \in Nat /\ DOMAIN tab.panes = 1..Len(tab.panes)
  BY <1>2, LenProperties
<1>4. I # {} => PL!Min(I) \in I
  <2>1. I \in SUBSET Nat
    BY <1>3
  <2> HIDE DEF I
  <2> QED
    BY <2>1, LeastOf
<1>5. \A i \in I : i \in 1..Len(tab.panes) /\ i # 0 /\ tab.panes[i].id = id
  BY <1>3
<1>6. I = {} => \A i \in DOMAIN tab.panes : tab.panes[i].id # id
  BY <1>3
<1> HIDE DEF I
<1> QED
  BY <1>1, <1>3, <1>4, <1>5, <1>6 DEF PL!Range

LEMMA TabFound ==
  ASSUME NEW l \in PL!Layouts, NEW t
  PROVE  /\ PL!TabOf(l, t) \in 0..Len(l.tabs)
         /\ PL!TabOf(l, t) # 0 => l.tabs[PL!TabOf(l, t)].task = t
         /\ PL!TabOf(l, t) = 0 => \A i \in DOMAIN l.tabs : l.tabs[i].task # t
<1> DEFINE I == {i \in 1..Len(l.tabs) : l.tabs[i].task = t}
<1>1. PL!TabOf(l, t) = IF I # {} THEN PL!Min(I) ELSE 0
  BY DEF PL!TabOf, PL!SelectInSeq
<1>2. l.tabs \in Seq(PL!TabRecords)
  BY DEF PL!Layouts
<1>3. Len(l.tabs) \in Nat /\ DOMAIN l.tabs = 1..Len(l.tabs)
  BY <1>2, LenProperties
<1>4. I # {} => PL!Min(I) \in I
  <2>1. I \in SUBSET Nat
    BY <1>3
  <2> HIDE DEF I
  <2> QED
    BY <2>1, LeastOf
<1>5. \A i \in I : i \in 1..Len(l.tabs) /\ i # 0 /\ l.tabs[i].task = t
  BY <1>3
<1>6. I = {} => \A i \in DOMAIN l.tabs : l.tabs[i].task # t
  BY <1>3
<1> HIDE DEF I
<1> QED
  BY <1>1, <1>3, <1>4, <1>5, <1>6

LEMMA OwnerFound ==
  ASSUME NEW l \in PL!Layouts, NEW id
  PROVE  /\ PL!OwnerOf(l, id) \in 0..Len(l.tabs)
         /\ PL!OwnerOf(l, id) # 0 => PL!PaneAt(l.tabs[PL!OwnerOf(l, id)], id) # 0
         /\ PL!OwnerOf(l, id) = 0 => \A i \in DOMAIN l.tabs : PL!PaneAt(l.tabs[i], id) = 0
<1> DEFINE I == {i \in 1..Len(l.tabs) : PL!PaneAt(l.tabs[i], id) # 0}
<1>1. PL!OwnerOf(l, id) = IF I # {} THEN PL!Min(I) ELSE 0
  BY DEF PL!OwnerOf, PL!SelectInSeq
<1>2. l.tabs \in Seq(PL!TabRecords)
  BY DEF PL!Layouts
<1>3. Len(l.tabs) \in Nat /\ DOMAIN l.tabs = 1..Len(l.tabs)
  BY <1>2, LenProperties
<1>4. I # {} => PL!Min(I) \in I
  <2>1. I \in SUBSET Nat
    BY <1>3
  <2> HIDE DEF I
  <2> QED
    BY <2>1, LeastOf
<1>5. \A i \in I : i \in 1..Len(l.tabs) /\ i # 0 /\ PL!PaneAt(l.tabs[i], id) # 0
  BY <1>3
<1>6. I = {} => \A i \in DOMAIN l.tabs : PL!PaneAt(l.tabs[i], id) = 0
  BY <1>3
<1> HIDE DEF I
<1> QED
  BY <1>1, <1>3, <1>4, <1>5, <1>6

\* The panes of a layout.
LEMMA PaneOf ==
  ASSUME NEW l, NEW p
  PROVE  p \in PL!Panes(l) <=> \E i \in DOMAIN l.tabs : p \in PL!Range(l.tabs[i].panes)
BY DEF PL!Panes

LEMMA TabTypes ==
  ASSUME NEW l \in PL!Layouts
  PROVE  /\ l.tabs \in Seq(PL!TabRecords) /\ Len(l.tabs) \in Nat
         /\ DOMAIN l.tabs = 1..Len(l.tabs)
         /\ \A i \in DOMAIN l.tabs : l.tabs[i] \in PL!TabRecords
         /\ l.active \in PL!Tasks \union {None}
BY LenProperties, ElementOfSeq DEF PL!Layouts

LEMMA PaneTypes ==
  ASSUME NEW tab \in PL!TabRecords
  PROVE  /\ tab.panes \in Seq(PL!PaneRecords) /\ Len(tab.panes) \in Nat
         /\ DOMAIN tab.panes = 1..Len(tab.panes)
         /\ \A i \in DOMAIN tab.panes : tab.panes[i] \in PL!PaneRecords
         /\ \A p \in PL!Range(tab.panes) : p \in PL!PaneRecords
         /\ tab.task \in PL!Tasks /\ tab.activePane \in PL!PaneIds
<1>1. tab.panes \in Seq(PL!PaneRecords) /\ tab.task \in PL!Tasks /\ tab.activePane \in PL!PaneIds
  BY DEF PL!TabRecords
<1> QED
  BY <1>1, LenProperties, ElementOfSeq DEF PL!Range

\* One tab is replaced.
LEMMA OneTabChanges ==
  ASSUME NEW l \in PL!Layouts, PL!LayoutIsSound(l), NEW i \in DOMAIN l.tabs,
         NEW tab \in PL!TabRecords, tab.task = l.tabs[i].task, PL!TabIsSound(tab),
         NEW active \in {l.active, tab.task},
         PL!ToldApart(PL!Panes(l) \union PL!Range(tab.panes))
  PROVE  LET next == [tabs |-> [l.tabs EXCEPT ![i] = tab], active |-> active]
         IN  next \in PL!Layouts /\ PL!LayoutIsSound(next)
<1> DEFINE next == [tabs |-> [l.tabs EXCEPT ![i] = tab], active |-> active]
<1>1. next.tabs = [l.tabs EXCEPT ![i] = tab] /\ next.active = active
  OBVIOUS
<1>2. /\ DOMAIN next.tabs = DOMAIN l.tabs
      /\ next.tabs[i] = tab
      /\ \A j \in DOMAIN l.tabs : j # i => next.tabs[j] = l.tabs[j]
  BY <1>1, TabTypes
<1>3. next \in PL!Layouts
  <2>1. next.tabs \in Seq(PL!TabRecords)
    BY <1>1, TabTypes, ExceptSeq
  <2>2. active \in PL!Tasks \union {None}
    BY TabTypes, PaneTypes
  <2> QED
    BY <2>1, <2>2 DEF PL!Layouts
<1>4. \A j \in DOMAIN next.tabs : next.tabs[j].task = l.tabs[j].task
  BY <1>2
<1> HIDE DEF next
<1>5. \A j \in DOMAIN next.tabs : PL!TabIsSound(next.tabs[j])
  BY <1>2 DEF PL!LayoutIsSound
<1>6. \A j, k \in DOMAIN next.tabs : j # k => next.tabs[j].task # next.tabs[k].task
  BY <1>2, <1>4 DEF PL!LayoutIsSound
<1>7. next.active # None => \E j \in DOMAIN next.tabs : next.tabs[j].task = next.active
  BY <1>1, <1>2, <1>4 DEF PL!LayoutIsSound
<1>8. \A p \in PL!Panes(next) : p \in PL!Panes(l) \union PL!Range(tab.panes)
  BY <1>2, PaneOf
<1>9. PL!ToldApart(PL!Panes(next))
  BY <1>8 DEF PL!ToldApart
<1>10. next \in PL!Layouts /\ PL!LayoutIsSound(next)
  BY <1>3, <1>5, <1>6, <1>7, <1>9 DEF PL!LayoutIsSound
<1> QED
  BY <1>10 DEF next

\* A Session that no pane shows may be attached.
LEMMA NobodyShows ==
  ASSUME NEW l, NEW session, session \notin PL!Attached(l) \/ session = None
  PROVE  \A p \in PL!Panes(l) : p.session # None => p.session # session
BY DEF PL!Attached

LEMMA SessionsWiden ==
  ASSUME NEW S, NEW T, S \subseteq T
  PROVE  PL!SessionsOf(S) \subseteq PL!SessionsOf(T)
BY DEF PL!SessionsOf

LEMMA OpenTabKeeps ==
  ASSUME NEW l \in PL!Layouts, PL!LayoutIsSound(l), NEW t \in PL!Tasks,
         NEW session \in PL!SessionsOf({t}), ~PL!Clashes(l, t, session) \/ session = None
  PROVE  PL!OpenTab(l, t, session) \in PL!Layouts /\ PL!LayoutIsSound(PL!OpenTab(l, t, session))
<1>1. CASE PL!TabOf(l, t) # 0
  <2>1. PL!OpenTab(l, t, session) = [tabs |-> l.tabs, active |-> t]
    BY <1>1 DEF PL!OpenTab, PL!Layouts
  <2>2. PL!TabOf(l, t) \in DOMAIN l.tabs /\ l.tabs[PL!TabOf(l, t)].task = t
    BY <1>1, TabFound, TabTypes
  <2> DEFINE next == [tabs |-> l.tabs, active |-> t]
  <2>3. next.tabs = l.tabs /\ next.active = t
    OBVIOUS
  <2>4. next \in PL!Layouts
    BY TabTypes DEF PL!Layouts
  <2> HIDE DEF next
  <2>5. PL!Panes(next) = PL!Panes(l)
    BY <2>3 DEF PL!Panes
  <2>6. PL!LayoutIsSound(next)
    BY <2>2, <2>3, <2>5 DEF PL!LayoutIsSound
  <2> QED
    BY <2>1, <2>4, <2>6 DEF next
<1>2. CASE PL!TabOf(l, t) = 0
  <2> DEFINE pane == PL!Pane("primary", t, session, t)
             tab == PL!Tab(t, <<t, "primary">>, <<pane>>)
             next == [tabs |-> Append(l.tabs, tab), active |-> t]
             n == Len(l.tabs)
  <2>1. PL!OpenTab(l, t, session) = next
    BY <1>2 DEF PL!OpenTab
  <2>2. pane \in PL!PaneRecords /\ pane.session = session /\ pane.task = t /\ pane.id = <<t, "primary">>
    <3>1. session \in PL!SessionsOf(PL!Tasks)
      BY DEF PL!SessionsOf
    <3> QED
      BY <3>1 DEF PL!Pane, PL!PaneRecords, PL!PaneIds
  <2>3. /\ tab \in PL!TabRecords /\ tab.task = t /\ tab.activePane = <<t, "primary">>
        /\ PL!Range(tab.panes) = {pane} /\ Len(tab.panes) = 1
    <3> HIDE DEF pane
    <3>1. <<pane>> \in Seq(PL!PaneRecords) /\ Len(<<pane>>) = 1 /\ DOMAIN <<pane>> = 1..1 /\ <<pane>>[1] = pane
      BY <2>2
    <3>2. PL!Range(<<pane>>) = {pane}
      BY <3>1 DEF PL!Range
    <3> QED
      BY <3>1, <3>2 DEF PL!TabRecords, PL!PaneIds, PL!Tab
  <2>4. PL!TabIsSound(tab)
    <3> HIDE DEF tab, pane
    <3>1. PL!PaneIsSound(pane, tab.task)
      BY <2>2, <2>3 DEF PL!SessionsOf, PL!PaneIsSound
    <3> QED
      BY <2>2, <2>3, <3>1 DEF PL!TabIsSound
  <2>5. /\ next.tabs = Append(l.tabs, tab) /\ next.active = t
    OBVIOUS
  <2> HIDE DEF pane, tab, next
  <2>6. /\ next.tabs \in Seq(PL!TabRecords) /\ DOMAIN next.tabs = 1..n + 1
        /\ next.tabs[n + 1] = tab /\ \A i \in 1..n : next.tabs[i] = l.tabs[i]
    BY <2>3, <2>5, TabTypes, AppendProperties
  <2>7. next \in PL!Layouts
    <3>1. next = [tabs |-> next.tabs, active |-> next.active]
      BY DEF next
    <3> QED
      BY <2>5, <2>6, <3>1 DEF PL!Layouts
  <2>8. DOMAIN next.tabs = DOMAIN l.tabs \union {n + 1} /\ n + 1 \notin DOMAIN l.tabs
    BY <2>6, TabTypes
  <2>9. \A i \in DOMAIN next.tabs : PL!TabIsSound(next.tabs[i])
    BY <2>4, <2>6, <2>8, TabTypes DEF PL!LayoutIsSound
  <2>10. \A i \in DOMAIN l.tabs : l.tabs[i].task # t /\ next.tabs[i].task = l.tabs[i].task
    BY <1>2, <2>6, TabFound, TabTypes
  <2>11. \A i, j \in DOMAIN next.tabs : i # j => next.tabs[i].task # next.tabs[j].task
    <3> SUFFICES ASSUME NEW i \in DOMAIN next.tabs, NEW j \in DOMAIN next.tabs, i # j
                 PROVE  next.tabs[i].task # next.tabs[j].task
      OBVIOUS
    <3>1. CASE i = n + 1
      BY <2>3, <2>6, <2>8, <2>10, <3>1
    <3>2. CASE j = n + 1
      BY <2>3, <2>6, <2>8, <2>10, <3>2
    <3>3. CASE i \in DOMAIN l.tabs /\ j \in DOMAIN l.tabs
      BY <2>10, <3>3 DEF PL!LayoutIsSound
    <3> QED
      BY <2>8, <3>1, <3>2, <3>3
  <2>12. \E i \in DOMAIN next.tabs : next.tabs[i].task = next.active
    BY <2>3, <2>5, <2>6, <2>8
  <2>13. \A p \in PL!Panes(next) : p \in PL!Panes(l) \/ p = pane
    <3> SUFFICES ASSUME NEW p \in PL!Panes(next), p # pane PROVE p \in PL!Panes(l)
      OBVIOUS
    <3>1. PICK i \in DOMAIN next.tabs : p \in PL!Range(next.tabs[i].panes)
      BY PaneOf
    <3>2. i \in DOMAIN l.tabs /\ next.tabs[i] = l.tabs[i]
      BY <2>3, <2>6, <2>8, <3>1, TabTypes
    <3> QED
      BY <3>1, <3>2, PaneOf
  <2>14. \A p \in PL!Panes(l) : p.session # None => p.session # session
    BY <1>2, NobodyShows DEF PL!Clashes
  <2>15. PL!ToldApart(PL!Panes(next))
    BY <2>2, <2>13, <2>14 DEF PL!ToldApart, PL!LayoutIsSound
  <2> QED
    BY <2>1, <2>7, <2>9, <2>11, <2>12, <2>15 DEF PL!LayoutIsSound
<1> QED
  BY <1>1, <1>2

\* A list without one of its elements.
LEMMA OneIsRemoved ==
  ASSUME NEW S, NEW s \in Seq(S), NEW i \in 1..Len(s)
  PROVE  /\ PL!RemoveAt(s, i) \in Seq(S) /\ Len(PL!RemoveAt(s, i)) = Len(s) - 1
         /\ \A k \in 1..Len(s) - 1 : PL!RemoveAt(s, i)[k] = s[IF k < i THEN k ELSE k + 1]
<1> DEFINE front == SubSeq(s, 1, i - 1)
           rest == SubSeq(s, i + 1, Len(s))
<1>1. Len(s) \in Nat /\ i \in Nat /\ 1 <= i /\ i <= Len(s)
  BY LenProperties
<1>2. front \in Seq(S) /\ Len(front) = i - 1 /\ \A k \in 1..i - 1 : front[k] = s[k]
  <2>1. \A k \in 1..i - 1 : k \in 1..Len(s)
    BY <1>1
  <2> QED
    BY <1>1, <2>1, SubSeqProperties
<1>3. rest \in Seq(S) /\ Len(rest) = Len(s) - i /\ \A k \in 1..Len(s) - i : rest[k] = s[i + k]
  <2>1. \A k \in i + 1..Len(s) : k \in 1..Len(s)
    BY <1>1
  <2> QED
    BY <1>1, <2>1, SubSeqProperties
<1> HIDE DEF front, rest
<1>4. PL!RemoveAt(s, i) = front \o rest
  BY DEF PL!RemoveAt, front, rest
<1>5. /\ front \o rest \in Seq(S) /\ Len(front \o rest) = Len(s) - 1
      /\ \A k \in 1..Len(s) - 1 : (front \o rest)[k] = IF k <= i - 1 THEN front[k] ELSE rest[k - (i - 1)]
  <2>1. /\ front \o rest \in Seq(S) /\ Len(front \o rest) = Len(front) + Len(rest)
        /\ \A k \in 1..Len(front) + Len(rest) :
             (front \o rest)[k] = IF k <= Len(front) THEN front[k] ELSE rest[k - Len(front)]
    <3>1. front \in Seq(S) /\ rest \in Seq(S)
      BY <1>2, <1>3
    <3> QED
      BY <3>1, ConcatProperties
  <2>2. Len(front) = i - 1 /\ Len(front) + Len(rest) = Len(s) - 1
    BY <1>1, <1>2, <1>3
  <2> QED
    BY <2>1, <2>2
<1>6. ASSUME NEW k \in 1..Len(s) - 1
      PROVE  (front \o rest)[k] = s[IF k < i THEN k ELSE k + 1]
  <2>1. CASE k < i
    BY <1>1, <1>2, <1>5, <2>1
  <2>2. CASE ~(k < i)
    <3>1. k - (i - 1) \in 1..Len(s) - i /\ i + (k - (i - 1)) = k + 1
      BY <1>1, <2>2
    <3> QED
      BY <1>1, <1>3, <1>5, <2>2, <3>1
  <2> QED
    BY <2>1, <2>2
<1> QED
  BY <1>4, <1>5, <1>6

LEMMA CloseTabKeeps ==
  ASSUME NEW l \in PL!Layouts, PL!LayoutIsSound(l), NEW t, PL!TabOf(l, t) # 0
  PROVE  PL!CloseTab(l, t) \in PL!Layouts /\ PL!LayoutIsSound(PL!CloseTab(l, t))
<1> DEFINE i == PL!TabOf(l, t)
           tabs == PL!RemoveAt(l.tabs, i)
           at == IF i <= Len(tabs) THEN i ELSE Len(tabs)
           next == PL!CloseTab(l, t)
           old(k) == IF k < i THEN k ELSE k + 1
<1>1. i \in 1..Len(l.tabs) /\ l.tabs[i].task = t
  BY TabFound
<1>2. /\ tabs \in Seq(PL!TabRecords) /\ Len(tabs) = Len(l.tabs) - 1
      /\ \A k \in 1..Len(tabs) : tabs[k] = l.tabs[old(k)]
  <2>1. l.tabs \in Seq(PL!TabRecords)
    BY TabTypes
  <2> QED
    BY <1>1, <2>1, OneIsRemoved
<1>3. /\ next.tabs = tabs
      /\ next.active = IF l.active # t THEN l.active
                       ELSE IF tabs = << >> THEN None ELSE tabs[at].task
      /\ next = [tabs |-> next.tabs, active |-> next.active]
  BY DEF PL!CloseTab
<1>4. Len(l.tabs) \in Nat /\ Len(tabs) \in Nat /\ DOMAIN tabs = 1..Len(tabs)
      /\ DOMAIN l.tabs = 1..Len(l.tabs)
  BY <1>2, TabTypes, LenProperties
<1>5. /\ \A k \in DOMAIN tabs : old(k) \in DOMAIN l.tabs /\ old(k) # i /\ tabs[k] = l.tabs[old(k)]
      /\ \A j, k \in DOMAIN tabs : j # k => old(j) # old(k)
  <2> HIDE DEF tabs, i
  <2>1. \A k \in DOMAIN tabs : tabs[k] = l.tabs[old(k)]
    BY <1>2, <1>4
  <2>2. \A k \in DOMAIN tabs : old(k) \in DOMAIN l.tabs /\ old(k) # i
    BY <1>1, <1>2, <1>4
  <2>3. \A j, k \in DOMAIN tabs : j # k => old(j) # old(k)
    BY <1>1, <1>4
  <2> QED
    BY <2>1, <2>2, <2>3
<1>6. tabs # << >> => at \in DOMAIN tabs
  <2>1. tabs # << >> => Len(tabs) # 0
    BY <1>2, EmptySeq
  <2> QED
    BY <1>1, <1>4, <2>1
<1>7. \A j \in DOMAIN l.tabs : j # i => \E k \in DOMAIN tabs : j = old(k)
  <2> SUFFICES ASSUME NEW j \in DOMAIN l.tabs, j # i PROVE \E k \in DOMAIN tabs : j = old(k)
    OBVIOUS
  <2>1. CASE j < i
    BY <1>1, <1>2, <1>4, <2>1
  <2>2. CASE ~(j < i)
    <3>1. j - 1 \in DOMAIN tabs /\ j = old(j - 1)
      BY <1>1, <1>2, <1>4, <2>2
    <3> QED
      BY <3>1
  <2> QED
    BY <2>1, <2>2
<1> HIDE DEF i, tabs, at, next, old
<1>8. next.active \in PL!Tasks \union {None}
  <2>1. tabs # << >> => tabs[at].task \in PL!Tasks
    BY <1>2, <1>6, ElementOfSeq, PaneTypes, <1>4
  <2> QED
    BY <1>3, <2>1, TabTypes
<1>9. next \in PL!Layouts
  BY <1>2, <1>3, <1>8 DEF PL!Layouts
<1>10. \A k \in DOMAIN tabs : PL!TabIsSound(tabs[k])
  BY <1>5 DEF PL!LayoutIsSound
<1>11. \A j, k \in DOMAIN tabs : j # k => tabs[j].task # tabs[k].task
  BY <1>5 DEF PL!LayoutIsSound
<1>12. next.active # None => \E k \in DOMAIN tabs : tabs[k].task = next.active
  <2>1. CASE l.active = t
    BY <1>3, <1>6, <2>1
  <2>2. CASE l.active # t /\ l.active # None
    <3>1. PICK j \in DOMAIN l.tabs : l.tabs[j].task = l.active
      BY <2>2 DEF PL!LayoutIsSound
    <3>2. PICK k \in DOMAIN tabs : j = old(k)
      BY <1>1, <1>7, <2>2, <3>1
    <3> QED
      BY <1>3, <1>5, <2>2, <3>1, <3>2
  <2>3. CASE l.active # t /\ l.active = None
    BY <1>3, <2>3
  <2> QED
    BY <2>1, <2>2, <2>3
<1>13. \A p \in PL!Panes(next) : p \in PL!Panes(l)
  BY <1>3, <1>5, PaneOf
<1>14. PL!ToldApart(PL!Panes(next))
  BY <1>13 DEF PL!ToldApart, PL!LayoutIsSound
<1> QED
  BY <1>3, <1>9, <1>10, <1>11, <1>12, <1>14 DEF next, PL!LayoutIsSound

\* The tab of the panes that the window shows.
LEMMA ActiveTabIs ==
  ASSUME NEW l \in PL!Layouts, PL!LayoutIsSound(l), l.active # None
  PROVE  PL!TabOf(l, l.active) \in DOMAIN l.tabs /\ l.tabs[PL!TabOf(l, l.active)].task = l.active
BY TabFound, TabTypes DEF PL!LayoutIsSound

LEMMA SplitTabKeeps ==
  ASSUME NEW l \in PL!Layouts, PL!LayoutIsSound(l), l.active # None,
         NEW t \in PL!Tasks, NEW session \in PL!SessionsOf({t}), session \notin PL!Attached(l)
  PROVE  PL!SplitTab(l, session, t) \in PL!Layouts /\ PL!LayoutIsSound(PL!SplitTab(l, session, t))
<1> DEFINE i == PL!TabOf(l, l.active)
           pane == PL!Pane("split", l.active, session, t)
           tab == l.tabs[i]
           split == PL!Tab(l.active, pane.id, Append(tab.panes, pane))
<1>1. i \in DOMAIN l.tabs /\ tab.task = l.active /\ tab \in PL!TabRecords
  BY ActiveTabIs, TabTypes
<1>2. CASE Len(tab.panes) >= 2
  BY <1>2 DEF PL!SplitTab
<1>3. CASE ~(Len(tab.panes) >= 2)
  <2>1. /\ pane.session = session /\ pane.task = t /\ pane.id = <<tab.task, "split">>
        /\ pane.id \in PL!PaneIds /\ pane \in PL!PaneRecords
    <3>1. session \in PL!SessionsOf(PL!Tasks)
      BY DEF PL!SessionsOf
    <3>2. <<tab.task, "split">> \in PL!PaneIds
      BY <1>1, PaneTypes DEF PL!PaneIds
    <3> QED
      BY <1>1, <3>1, <3>2 DEF PL!Pane, PL!PaneRecords
  <2>2. PL!SplitTab(l, session, t) = [tabs |-> [l.tabs EXCEPT ![i] = split], active |-> l.active]
    BY <1>3 DEF PL!SplitTab, PL!ReplaceTab
  <2> HIDE DEF pane
  <2>3. Len(tab.panes) = 1
    <3>1. PL!TabIsSound(tab)
      BY <1>1 DEF PL!LayoutIsSound
    <3> HIDE DEF tab
    <3>2. Len(tab.panes) \in 1..2
      BY <3>1, Zenon DEF PL!TabIsSound
    <3> QED
      BY <1>3, <3>2
  <2>4. /\ split.panes \in Seq(PL!PaneRecords) /\ Len(split.panes) = 2
        /\ DOMAIN split.panes = 1..2
        /\ split.panes[1] = tab.panes[1] /\ split.panes[2] = pane
    BY <1>1, <2>1, <2>3, PaneTypes, AppendProperties DEF PL!Tab
  <2>5. split \in PL!TabRecords /\ split.task = tab.task /\ split.activePane = pane.id
    BY <1>1, <2>1, <2>4, PaneTypes DEF PL!TabRecords, PL!Tab
  <2>6. PL!Range(split.panes) = PL!Range(tab.panes) \union {pane}
    <3>1. DOMAIN tab.panes = 1..1
      BY <1>1, <2>3, PaneTypes
    <3> HIDE DEF split, tab
    <3>2. PL!Range(split.panes) = {split.panes[1], split.panes[2]}
      BY <2>4 DEF PL!Range
    <3>3. PL!Range(tab.panes) = {tab.panes[1]}
      BY <3>1 DEF PL!Range
    <3> QED
      BY <2>4, <3>2, <3>3
  <2> HIDE DEF split
  <2>7. PL!TabIsSound(tab)
    BY <1>1 DEF PL!LayoutIsSound
  <2>8. PL!TabIsSound(split)
    <3>1. PL!PaneIsSound(pane, split.task)
      BY <2>1, <2>5 DEF PL!SessionsOf, PL!PaneIsSound
    <3> QED
      BY <2>1, <2>4, <2>5, <2>6, <2>7, <3>1 DEF PL!TabIsSound
  <2>9. \A p \in PL!Panes(l) : p.session # None => p.session # session
    BY NobodyShows
  <2>10. PL!Range(tab.panes) \subseteq PL!Panes(l)
    BY <1>1, PaneOf
  <2>11. PL!ToldApart(PL!Panes(l) \union PL!Range(split.panes))
    BY <2>1, <2>6, <2>9, <2>10 DEF PL!ToldApart, PL!LayoutIsSound
  <2> HIDE DEF tab, i
  <2> QED
    BY <1>1, <2>2, <2>5, <2>8, <2>11, OneTabChanges DEF tab
<1> QED
  BY <1>2, <1>3

LEMMA ActivatePaneKeeps ==
  ASSUME NEW l \in PL!Layouts, PL!LayoutIsSound(l), NEW id \in PL!PaneIds, PL!OwnerOf(l, id) # 0
  PROVE  PL!ActivatePane(l, id) \in PL!Layouts /\ PL!LayoutIsSound(PL!ActivatePane(l, id))
<1> DEFINE i == PL!OwnerOf(l, id)
           tab == l.tabs[i]
           focused == PL!Tab(tab.task, id, tab.panes)
<1>1. i \in DOMAIN l.tabs /\ tab \in PL!TabRecords /\ PL!PaneAt(tab, id) # 0
  BY OwnerFound, TabTypes
<1>2. PL!ActivatePane(l, id) = [tabs |-> [l.tabs EXCEPT ![i] = focused], active |-> tab.task]
  BY DEF PL!ActivatePane, PL!ReplaceTab
<1>3. focused \in PL!TabRecords /\ focused.task = tab.task /\ focused.panes = tab.panes /\ focused.activePane = id
  BY <1>1 DEF PL!TabRecords, PL!Tab
<1> HIDE DEF focused
<1>4. \E p \in PL!Range(tab.panes) : p.id = id
  BY <1>1, PaneFound, PaneTypes DEF PL!Range
<1>5. PL!TabIsSound(focused)
  <2>1. PL!TabIsSound(tab)
    BY <1>1 DEF PL!LayoutIsSound
  <2> QED
    BY <1>3, <1>4, <2>1 DEF PL!TabIsSound
<1>6. PL!ToldApart(PL!Panes(l) \union PL!Range(focused.panes))
  <2>1. PL!Range(tab.panes) \subseteq PL!Panes(l)
    BY <1>1, PaneOf
  <2> QED
    BY <1>3, <2>1 DEF PL!ToldApart, PL!LayoutIsSound
<1> HIDE DEF tab, i
<1> QED
  BY <1>1, <1>2, <1>3, <1>5, <1>6, OneTabChanges DEF tab

LEMMA ClosePaneKeeps ==
  ASSUME NEW l \in PL!Layouts, PL!LayoutIsSound(l), NEW id \in PL!PaneIds, PL!OwnerOf(l, id) # 0
  PROVE  PL!ClosePane(l, id) \in PL!Layouts /\ PL!LayoutIsSound(PL!ClosePane(l, id))
<1> DEFINE i == PL!OwnerOf(l, id)
           tab == l.tabs[i]
           at == PL!PaneAt(tab, id)
           rest == PL!RemoveAt(tab.panes, at)
           next == IF at <= Len(rest) THEN at ELSE Len(rest)
           focus == IF tab.activePane = id THEN rest[next].id ELSE tab.activePane
           left == PL!Tab(tab.task, focus, rest)
<1>1. i \in DOMAIN l.tabs /\ tab \in PL!TabRecords /\ at # 0
  BY OwnerFound, TabTypes
<1>2. CASE Len(tab.panes) = 1 \/ \A p \in PL!Range(tab.panes) : p.id = id
  BY <1>2 DEF PL!ClosePane
<1>3. CASE ~(Len(tab.panes) = 1 \/ \A p \in PL!Range(tab.panes) : p.id = id)
  <2>1. PL!ClosePane(l, id) = [tabs |-> [l.tabs EXCEPT ![i] = left], active |-> l.active]
    BY <1>3 DEF PL!ClosePane, PL!ReplaceTab
  <2>2. PL!TabIsSound(tab)
    BY <1>1 DEF PL!LayoutIsSound
  <2>3. Len(tab.panes) = 2 /\ at \in {1, 2} /\ tab.panes[at].id = id
    BY <1>1, <1>3, <2>2, PaneFound, PaneTypes DEF PL!TabIsSound
  <2> DEFINE other == tab.panes[3 - at]
  <2>4. /\ rest \in Seq(PL!PaneRecords) /\ Len(rest) = 1 /\ DOMAIN rest = 1..1
        /\ rest[1] = other
    <3>1. at \in 1..Len(tab.panes) /\ tab.panes \in Seq(PL!PaneRecords)
      BY <1>1, <2>3, PaneTypes
    <3>2. /\ rest \in Seq(PL!PaneRecords) /\ Len(rest) = Len(tab.panes) - 1
          /\ \A k \in 1..Len(tab.panes) - 1 : rest[k] = tab.panes[IF k < at THEN k ELSE k + 1]
      BY <3>1, OneIsRemoved
    <3>3. rest[1] = tab.panes[IF 1 < at THEN 1 ELSE 1 + 1]
      BY <2>3, <3>2
    <3>4. (IF 1 < at THEN 1 ELSE 1 + 1) = 3 - at
      BY <2>3
    <3>5. DOMAIN rest = 1..Len(rest)
      BY <3>2, LenProperties
    <3> HIDE DEF rest
    <3> QED
      BY <2>3, <3>2, <3>3, <3>4, <3>5
  <2>5. next = 1
    BY <2>3, <2>4
  <2>6. PL!Range(tab.panes) = {tab.panes[at], other} /\ other \in PL!Range(tab.panes)
    <3>1. DOMAIN tab.panes = 1..2
      BY <1>1, <2>3, PaneTypes
    <3> QED
      BY <2>3, <3>1 DEF PL!Range
  <2>7. other \in PL!PaneRecords /\ other.id # id
    BY <1>1, <1>3, <2>3, <2>6, PaneTypes
  <2> HIDE DEF rest, next, other
  <2>8. focus = other.id
    BY <2>2, <2>3, <2>4, <2>5, <2>6, <2>7 DEF PL!TabIsSound
  <2>9. PL!Range(rest) = {other}
    BY <2>4 DEF PL!Range
  <2>10. /\ left \in PL!TabRecords /\ left.task = tab.task /\ left.activePane = other.id
         /\ left.panes = rest
    <3>1. other.id \in PL!PaneIds
      BY <2>7 DEF PL!PaneRecords
    <3> QED
      BY <1>1, <2>4, <2>8, <3>1, PaneTypes DEF PL!TabRecords, PL!Tab
  <2> HIDE DEF left
  <2>11. PL!TabIsSound(left)
    BY <2>2, <2>4, <2>6, <2>9, <2>10 DEF PL!TabIsSound
  <2>12. PL!ToldApart(PL!Panes(l) \union PL!Range(left.panes))
    <3>1. other \in PL!Panes(l)
      BY <1>1, <2>6, PaneOf
    <3> QED
      BY <2>9, <2>10, <3>1 DEF PL!ToldApart, PL!LayoutIsSound
  <2> HIDE DEF tab, i
  <2> QED
    BY <1>1, <2>1, <2>10, <2>11, <2>12, OneTabChanges DEF tab
<1> QED
  BY <1>2, <1>3

\* What a refresh makes of a tab.
Refreshed(l, sessions, tab) ==
  LET first == tab.panes[1]
      wanted == sessions[tab.task]
      elsewhere == \E p \in PL!Panes(l) : p.id # first.id /\ p.session = wanted
  IN IF wanted = None \/ elsewhere THEN tab
     ELSE [tab EXCEPT !.panes[1].session = wanted]

\* A pane that a refresh has changed.
ShowsNext(l, tab, wanted, p) ==
  /\ p.id = tab.panes[1].id /\ p.session = wanted
  /\ p.session # None /\ p.session \in PL!SessionsOf({tab.task})
  /\ \A q \in PL!Panes(l) : p.id # q.id => q.session # p.session

LEMMA RefreshedTab ==
  ASSUME PL!WellFormed, NEW l \in PL!Layouts, PL!LayoutIsSound(l), NEW i \in DOMAIN l.tabs,
         NEW sessions, \A t \in PL!Tasks : sessions[t] \in PL!SessionsOf({t})
  PROVE  LET tab == l.tabs[i]
             new == Refreshed(l, sessions, tab)
         IN  /\ new \in PL!TabRecords /\ new.task = tab.task /\ PL!TabIsSound(new)
             /\ \A p \in PL!Range(new.panes) :
                  \/ p \in PL!Panes(l)
                  \/ ShowsNext(l, tab, sessions[tab.task], p)
<1> DEFINE tab == l.tabs[i]
           first == tab.panes[1]
           wanted == sessions[tab.task]
           elsewhere == \E p \in PL!Panes(l) : p.id # first.id /\ p.session = wanted
           new == Refreshed(l, sessions, tab)
           shown == [first EXCEPT !.session = wanted]
<1>1. tab \in PL!TabRecords /\ PL!TabIsSound(tab) /\ PL!Range(tab.panes) \subseteq PL!Panes(l)
  BY TabTypes, PaneOf DEF PL!LayoutIsSound
<1>2. CASE wanted = None \/ elsewhere
  <2>1. new = tab
    BY <1>2 DEF Refreshed
  <2> QED
    BY <1>1, <2>1
<1>3. CASE ~(wanted = None \/ elsewhere)
  <2>1. tab.task \in PL!Tasks /\ wanted \in PL!SessionsOf({tab.task})
    BY <1>1, PaneTypes
  <2>2. tab.panes \in Seq(PL!PaneRecords) /\ 1 \in DOMAIN tab.panes /\ first \in PL!PaneRecords
        /\ first \in PL!Range(tab.panes) /\ Len(tab.panes) \in 1..2 /\ DOMAIN tab.panes = 1..Len(tab.panes)
    BY <1>1, PaneTypes DEF PL!TabIsSound, PL!Range
  <2>3. shown \in PL!PaneRecords /\ shown.id = first.id /\ shown.task = first.task
        /\ shown.session = wanted
    <3>1. wanted \in PL!SessionsOf(PL!Tasks)
      BY <2>1 DEF PL!SessionsOf
    <3> HIDE DEF first, wanted
    <3> QED
      BY <2>2, <3>1 DEF PL!PaneRecords
  <2> DEFINE panes == [tab.panes EXCEPT ![1] = shown]
             next == [tab EXCEPT !.panes = panes]
  <2>4. new = next
    <3>1. new = [tab EXCEPT !.panes[1].session = wanted]
      BY <1>3 DEF Refreshed
    <3> HIDE DEF tab, wanted
    <3>2. [tab EXCEPT !.panes[1].session = wanted] = next
      BY DEF first
    <3> QED
      BY <3>1, <3>2
  <2> HIDE DEF shown, first, wanted, elsewhere, new
  <2>5. panes \in Seq(PL!PaneRecords) /\ Len(panes) = Len(tab.panes) /\ DOMAIN panes = DOMAIN tab.panes
        /\ panes[1] = shown /\ \A k \in DOMAIN panes : k # 1 => panes[k] = tab.panes[k]
    BY <2>2, <2>3, ExceptSeq
  <2> HIDE DEF panes
  <2>6. next \in PL!TabRecords /\ next.task = tab.task /\ next.activePane = tab.activePane
        /\ next.panes = panes
    <3> HIDE DEF tab
    <3> QED
      BY <1>1, <2>5 DEF PL!TabRecords
  <2> HIDE DEF next
  <2>7. \A p \in PL!Range(panes) : p = shown \/ p \in PL!Range(tab.panes)
    BY <2>5 DEF PL!Range
  <2>8. \A p \in PL!Range(tab.panes) : p \in PL!Range(panes) \/ (p.id = shown.id /\ shown \in PL!Range(panes))
    <3> SUFFICES ASSUME NEW k \in DOMAIN tab.panes
                 PROVE  \/ tab.panes[k] \in PL!Range(panes)
                        \/ tab.panes[k].id = shown.id /\ shown \in PL!Range(panes)
      BY DEF PL!Range
    <3>1. CASE k = 1
      BY <2>2, <2>3, <2>5, <3>1 DEF PL!Range, first
    <3>2. CASE k # 1
      BY <2>5, <3>2 DEF PL!Range
    <3> QED
      BY <3>1, <3>2
  <2>9. PL!PaneIsSound(shown, tab.task)
    <3>1. PL!PaneIsSound(first, tab.task)
      BY <1>1, <2>2 DEF PL!TabIsSound
    <3>2. wanted \in PL!SessionsOf({shown.task, tab.task})
      BY <2>1 DEF PL!SessionsOf
    <3> QED
      BY <2>3, <3>1, <3>2 DEF PL!PaneIsSound
  <2>10. PL!TabIsSound(next)
    <3>1. \A p \in PL!Range(panes) : PL!PaneIsSound(p, tab.task)
      BY <1>1, <2>7, <2>9 DEF PL!TabIsSound
    <3>2. \E p \in PL!Range(panes) : p.id = tab.activePane
      BY <1>1, <2>8 DEF PL!TabIsSound
    <3> QED
      BY <2>2, <2>5, <2>6, <3>1, <3>2 DEF PL!TabIsSound
  <2>11. \A q \in PL!Panes(l) : shown.id # q.id => q.session # shown.session
    BY <1>3, <2>3 DEF elsewhere
  <2>12. \A p \in PL!Range(next.panes) :
            \/ p \in PL!Panes(l)
            \/ ShowsNext(l, tab, wanted, p)
    <3> SUFFICES ASSUME NEW p \in PL!Range(panes), p = shown
                 PROVE  ShowsNext(l, tab, wanted, p)
      BY <1>1, <2>6, <2>7
    <3> QED
      BY <1>3, <2>1, <2>3, <2>11 DEF ShowsNext, first
  <2> QED
    BY <2>4, <2>6, <2>10, <2>12 DEF new, wanted
<1> QED
  BY <1>2, <1>3

LEMMA ReconcileKeeps ==
  ASSUME PL!WellFormed, NEW l \in PL!Layouts, PL!LayoutIsSound(l),
         NEW sessions, \A t \in PL!Tasks : sessions[t] \in PL!SessionsOf({t})
  PROVE  PL!Reconcile(l, sessions) \in PL!Layouts /\ PL!LayoutIsSound(PL!Reconcile(l, sessions))
<1> DEFINE tabs == [i \in DOMAIN l.tabs |-> Refreshed(l, sessions, l.tabs[i])]
           active == IF l.active = None /\ l.tabs # << >> THEN l.tabs[1].task ELSE l.active
           next == [tabs |-> tabs, active |-> active]
<1>1. PL!Reconcile(l, sessions) = next
  <2>1. PL!Reconcile(l, sessions) = [l EXCEPT !.tabs = tabs, !.active = active]
    BY DEF PL!Reconcile, Refreshed
  <2>2. l = [tabs |-> l.tabs, active |-> l.active]
    BY DEF PL!Layouts
  <2> HIDE DEF tabs, active
  <2> QED
    BY <2>1, <2>2
<1>2. /\ DOMAIN tabs = DOMAIN l.tabs
      /\ \A i \in DOMAIN l.tabs :
           /\ tabs[i] \in PL!TabRecords /\ tabs[i].task = l.tabs[i].task /\ PL!TabIsSound(tabs[i])
           /\ \A p \in PL!Range(tabs[i].panes) :
                \/ p \in PL!Panes(l)
                \/ ShowsNext(l, l.tabs[i], sessions[l.tabs[i].task], p)
  BY RefreshedTab
<1>3. tabs \in Seq(PL!TabRecords)
  <2> HIDE DEF tabs
  <2>1. DOMAIN tabs = 1..Len(l.tabs) /\ Len(l.tabs) \in Nat
    BY <1>2, TabTypes
  <2>2. \A i \in DOMAIN tabs : tabs[i] \in PL!TabRecords
    BY <1>2
  <2>3. tabs = [i \in 1..Len(l.tabs) |-> tabs[i]]
    <3>1. tabs = [i \in DOMAIN tabs |-> tabs[i]]
      BY DEF tabs
    <3> QED
      BY <2>1, <3>1
  <2> QED
    BY <2>1, <2>2, <2>3, SeqDef
<1>4. l.tabs # << >> => 1 \in DOMAIN l.tabs
  BY TabTypes, EmptySeq
<1>5. active \in PL!Tasks \union {None}
  <2>1. l.tabs # << >> => l.tabs[1].task \in PL!Tasks
    BY <1>4, TabTypes, PaneTypes
  <2> QED
    BY <2>1, TabTypes
<1>6. next.tabs = tabs /\ next.active = active
  OBVIOUS
<1>7. next \in PL!Layouts
  <2> HIDE DEF tabs, active
  <2> QED
    BY <1>3, <1>5 DEF PL!Layouts
<1>8. active # None => \E i \in DOMAIN l.tabs : l.tabs[i].task = active
  BY <1>4 DEF PL!LayoutIsSound
<1> HIDE DEF tabs, active, next
<1>9. \A i \in DOMAIN next.tabs : PL!TabIsSound(next.tabs[i])
  BY <1>2, <1>6
<1>10. \A i, j \in DOMAIN next.tabs : i # j => next.tabs[i].task # next.tabs[j].task
  <2>1. DOMAIN next.tabs = DOMAIN l.tabs /\ \A i \in DOMAIN l.tabs : next.tabs[i].task = l.tabs[i].task
    BY <1>2, <1>6
  <2>2. \A i, j \in DOMAIN l.tabs : i # j => l.tabs[i].task # l.tabs[j].task
    BY DEF PL!LayoutIsSound
  <2> QED
    BY <2>1, <2>2
<1>11. next.active # None => \E i \in DOMAIN next.tabs : next.tabs[i].task = next.active
  BY <1>2, <1>6, <1>8
<1>12. \A p, q \in PL!Panes(next) : p.id # q.id /\ p.session # None => p.session # q.session
  <2> SUFFICES ASSUME NEW p \in PL!Panes(next), NEW q \in PL!Panes(next), p.id # q.id, p.session # None
               PROVE  p.session # q.session
    OBVIOUS
  <2>1. PICK i \in DOMAIN l.tabs : p \in PL!Range(tabs[i].panes)
    BY <1>2, <1>6, PaneOf
  <2>2. PICK j \in DOMAIN l.tabs : q \in PL!Range(tabs[j].panes)
    BY <1>2, <1>6, PaneOf
  <2>3. CASE p \in PL!Panes(l) /\ q \in PL!Panes(l)
    BY <2>3 DEF PL!LayoutIsSound, PL!ToldApart
  <2>4. CASE p \notin PL!Panes(l) /\ q \in PL!Panes(l)
    BY <1>2, <2>1, <2>4 DEF ShowsNext
  <2>5. CASE p \in PL!Panes(l) /\ q \notin PL!Panes(l)
    BY <1>2, <2>2, <2>5 DEF ShowsNext
  <2>6. CASE p \notin PL!Panes(l) /\ q \notin PL!Panes(l)
    <3>1. /\ p.session # None /\ p.session \in PL!SessionsOf({l.tabs[i].task})
          /\ q.session # None /\ q.session \in PL!SessionsOf({l.tabs[j].task})
          /\ p.id = l.tabs[i].panes[1].id /\ q.id = l.tabs[j].panes[1].id
      BY <1>2, <2>1, <2>2, <2>6 DEF ShowsNext
    <3>2. p.session[1] = l.tabs[i].task /\ q.session[1] = l.tabs[j].task
      BY <3>1 DEF PL!SessionsOf
    <3>3. i # j
      BY <3>1
    <3> QED
      BY <3>2, <3>3 DEF PL!LayoutIsSound
  <2> QED
    BY <2>3, <2>4, <2>5, <2>6
<1>13. PL!ToldApart(PL!Panes(next))
  BY <1>12 DEF PL!ToldApart
<1> QED
  BY <1>1, <1>7, <1>9, <1>10, <1>11, <1>13 DEF PL!LayoutIsSound

LEMMA FocusMoves ==
  ASSUME NEW l \in PL!Layouts, PL!LayoutIsSound(l), NEW i \in DOMAIN l.tabs
  PROVE  LET next == [l EXCEPT !.active = l.tabs[i].task]
         IN  next \in PL!Layouts /\ PL!LayoutIsSound(next)
<1> DEFINE next == [l EXCEPT !.active = l.tabs[i].task]
<1>1. l.tabs[i].task \in PL!Tasks
  BY TabTypes, PaneTypes
<1>2. next \in PL!Layouts /\ next.tabs = l.tabs /\ next.active = l.tabs[i].task
  BY <1>1 DEF PL!Layouts
<1> HIDE DEF next
<1>3. PL!Panes(next) = PL!Panes(l)
  BY <1>2 DEF PL!Panes
<1>4. PL!LayoutIsSound(next)
  BY <1>2, <1>3 DEF PL!LayoutIsSound
<1> QED
  BY <1>2, <1>4 DEF next

LEMMA AroundIs ==
  ASSUME NEW at \in Nat, NEW length \in Nat \ {0, 1}, NEW delta \in {-1, 1}
  PROVE  PL!Around(at, delta, length) \in 1..length
<1>1. at - 1 + delta + length \in Nat
  OBVIOUS
<1>2. \A n \in Nat : n % length \in 0..length - 1
  OBVIOUS
<1> QED
  BY <1>1, <1>2 DEF PL!Around

LEMMA RunningIs ==
  ASSUME PL!TypeOK
  PROVE  \A t \in PL!Tasks : PL!Running[t] \in PL!SessionsOf({t})
BY DEF PL!TypeOK, PL!Running, PL!SessionsOf

LEMMA PublishKeeps ==
  ASSUME PL!WellFormed, PL!IInv, NEW l \in PL!Layouts, PL!LayoutIsSound(l),
         NEW preferred \in PL!Tasks, PL!PublishReady(l, preferred)
  PROVE  PL!IInv'
<1> DEFINE opened == PL!OpenTab(l, preferred, PL!Running[preferred])
<1>1. PL!TypeOK /\ \A t \in PL!Tasks : PL!Running[t] \in PL!SessionsOf({t})
  BY RunningIs DEF PL!IInv
<1>2. /\ ~PL!Clashes(l, preferred, PL!Running[preferred])
      /\ v3' = PL!Running /\ v4' = PL!Reconcile(opened, PL!Running) /\ UNCHANGED <<v1, v2>>
  BY DEF PL!PublishReady
<1>3. opened \in PL!Layouts /\ PL!LayoutIsSound(opened)
  BY <1>1, <1>2, OpenTabKeeps
<1> HIDE DEF opened
<1>4. v4' \in PL!Layouts /\ PL!LayoutIsSound(v4')
  BY <1>1, <1>2, <1>3, ReconcileKeeps
<1>5. \A t \in PL!Tasks : v3'[t] \in PL!SessionsOf({t})
  BY <1>1, <1>2
<1>6. v3' \in [PL!Tasks -> PL!SessionsOf(PL!Tasks)]
  <2>1. \A t \in PL!Tasks : PL!Running[t] \in PL!SessionsOf(PL!Tasks)
    BY <1>1 DEF PL!SessionsOf
  <2>2. PL!Running = [t \in PL!Tasks |-> PL!Running[t]]
    BY DEF PL!Running
  <2> QED
    BY <1>2, <2>1, <2>2
<1> QED
  BY <1>1, <1>2, <1>4, <1>5, <1>6 DEF PL!IInv, PL!TypeOK

LEMMA FirstTaskIs ==
  ASSUME PL!WellFormed
  PROVE  Head(LayoutTasks) \in PL!Tasks
BY HeadTailProperties DEF PL!WellFormed

\* What stays when only the layout changes.
LEMMA LayoutChanges ==
  ASSUME PL!IInv, NEW next \in PL!Layouts, PL!LayoutIsSound(next), PL!Changes(next)
  PROVE  PL!IInv'
BY DEF PL!IInv, PL!TypeOK, PL!Changes

LEMMA PanesStart == PL!WellFormed /\ PL!Init => PL!IInv
<1> SUFFICES ASSUME PL!WellFormed, PL!Init PROVE PL!IInv
  OBVIOUS
<1>1. v4 \in PL!Layouts /\ v4.tabs = << >> /\ v4.active = None /\ DOMAIN v4.tabs = {}
  BY DEF PL!Init, PL!Layouts
<1>2. PL!Panes(v4) = {}
  BY <1>1 DEF PL!Panes
<1>3. PL!LayoutIsSound(v4)
  BY <1>1, <1>2 DEF PL!LayoutIsSound, PL!ToldApart
<1>4. PL!TypeOK
  BY <1>1 DEF PL!Init, PL!TypeOK, PL!SessionsOf
<1> QED
  BY <1>3, <1>4 DEF PL!IInv

LEMMA PanesKeep == PL!WellFormed /\ PL!IInv /\ [PL!Next]_(PL!paneVars) => PL!IInv'
<1> SUFFICES ASSUME PL!WellFormed, PL!IInv, [PL!Next]_(PL!paneVars) PROVE PL!IInv'
  OBVIOUS
<1>1. v4 \in PL!Layouts /\ PL!LayoutIsSound(v4) /\ PL!TypeOK
  BY DEF PL!IInv, PL!TypeOK
<1>2. CASE UNCHANGED PL!paneVars
  BY <1>2 DEF PL!paneVars, PL!IInv, PL!TypeOK
<1>3. ASSUME NEW t \in PL!Tasks, PL!SessionStarts(t) PROVE PL!IInv'
  BY <1>3 DEF PL!SessionStarts, PL!IInv, PL!TypeOK
<1>4. ASSUME NEW t \in PL!Tasks, PL!SessionEnds(t) PROVE PL!IInv'
  BY <1>4 DEF PL!SessionEnds, PL!IInv, PL!TypeOK
<1>5. ASSUME NEW t \in PL!Tasks, PL!SelectTask(t) PROVE PL!IInv'
  <2> DEFINE session == IF PL!Clashes(v4, t, v3[t]) THEN None ELSE v3[t]
  <2>1. session \in PL!SessionsOf({t}) /\ (~PL!Clashes(v4, t, session) \/ session = None)
    BY <1>1 DEF PL!TypeOK, PL!SessionsOf
  <2>2. PL!Changes(PL!OpenTab(v4, t, session))
    BY <1>5 DEF PL!SelectTask
  <2> HIDE DEF session
  <2> QED
    BY <1>1, <2>1, <2>2, OpenTabKeeps, LayoutChanges
<1>6. ASSUME NEW t \in PL!Tasks, PL!SelectTab(t) PROVE PL!IInv'
  <2>1. PL!TabOf(v4, t) \in DOMAIN v4.tabs /\ v4.tabs[PL!TabOf(v4, t)].task = t
    BY <1>1, <1>6, TabFound, TabTypes DEF PL!SelectTab
  <2>2. PL!Changes([v4 EXCEPT !.active = v4.tabs[PL!TabOf(v4, t)].task])
    BY <1>6, <2>1 DEF PL!SelectTab
  <2> QED
    BY <1>1, <2>1, <2>2, FocusMoves, LayoutChanges
<1>7. ASSUME NEW t \in PL!Tasks, PL!CloseTheTab(t) PROVE PL!IInv'
  <2>1. PL!TabOf(v4, t) # 0 /\ PL!Changes(PL!CloseTab(v4, t))
    BY <1>7 DEF PL!CloseTheTab
  <2> QED
    BY <1>1, <2>1, CloseTabKeeps, LayoutChanges
<1>8. ASSUME NEW delta \in {-1, 1}, PL!CycleTab(delta) PROVE PL!IInv'
  <2> DEFINE i == PL!Around(PL!TabOf(v4, v4.active), delta, Len(v4.tabs))
  <2>1. i \in DOMAIN v4.tabs
    <3>1. PL!TabOf(v4, v4.active) \in Nat /\ Len(v4.tabs) \in Nat \ {0, 1}
      BY <1>1, <1>8, TabFound, TabTypes DEF PL!CycleTab
    <3> QED
      BY <1>1, <3>1, AroundIs, TabTypes
  <2>2. PL!Changes([v4 EXCEPT !.active = v4.tabs[i].task])
    BY <1>8 DEF PL!CycleTab
  <2> HIDE DEF i
  <2> QED
    BY <1>1, <2>1, <2>2, FocusMoves, LayoutChanges
<1>9. ASSUME NEW delta \in {-1, 1}, PL!CyclePane(delta) PROVE PL!IInv'
  <2> DEFINE tab == PL!ActiveTab(v4)
             k == PL!Around(PL!PaneAt(tab, tab.activePane), delta, Len(tab.panes))
             id == tab.panes[k].id
  <2>1. /\ v4.active # None /\ Len(tab.panes) >= 2
        /\ PL!Changes(PL!ActivatePane(v4, tab.panes[k].id))
    BY <1>9 DEF PL!CyclePane
  <2>2. PL!TabOf(v4, v4.active) \in DOMAIN v4.tabs /\ tab = v4.tabs[PL!TabOf(v4, v4.active)]
    BY <1>1, <2>1, ActiveTabIs DEF PL!ActiveTab
  <2>3. tab \in PL!TabRecords
    BY <1>1, <2>2, TabTypes
  <2>4. k \in DOMAIN tab.panes
    <3>1. PL!PaneAt(tab, tab.activePane) \in Nat /\ Len(tab.panes) \in Nat \ {0, 1}
      BY <2>1, <2>3, PaneFound, PaneTypes
    <3> QED
      BY <2>3, <3>1, AroundIs, PaneTypes
  <2>5. id \in PL!PaneIds /\ PL!PaneAt(tab, id) # 0
    <3>1. tab.panes[k] \in PL!Range(tab.panes) /\ tab.panes[k] \in PL!PaneRecords
      BY <2>3, <2>4, PaneTypes DEF PL!Range
    <3>2. id \in PL!PaneIds
      BY <3>1 DEF PL!PaneRecords
    <3>3. PL!PaneAt(tab, id) # 0
      BY <2>3, <3>1, PaneFound
    <3> QED
      BY <3>2, <3>3
  <2>6. PL!OwnerOf(v4, id) # 0
    BY <1>1, <2>2, <2>5, OwnerFound
  <2> HIDE DEF tab, k
  <2> QED
    BY <1>1, <2>1, <2>5, <2>6, ActivatePaneKeeps, LayoutChanges
<1>10. ASSUME NEW id \in PL!PaneIds, PL!SelectPane(id) PROVE PL!IInv'
  <2>1. PL!OwnerOf(v4, id) # 0 /\ PL!Changes(PL!ActivatePane(v4, id))
    BY <1>10 DEF PL!SelectPane
  <2> QED
    BY <1>1, <2>1, ActivatePaneKeeps, LayoutChanges
<1>11. ASSUME NEW id \in PL!PaneIds, PL!CloseThePane(id) PROVE PL!IInv'
  <2>1. PL!OwnerOf(v4, id) # 0 /\ PL!Changes(PL!ClosePane(v4, id))
    BY <1>11 DEF PL!CloseThePane
  <2> QED
    BY <1>1, <2>1, ClosePaneKeeps, LayoutChanges
<1>12. ASSUME PL!Split PROVE PL!IInv'
  <2> DEFINE I == {i \in 1..Len(LayoutTasks) : v3[LayoutTasks[i]] \notin PL!Attached(v4) \union {None}}
             free == IF I # {} THEN PL!Min(I) ELSE 0
             t == LayoutTasks[free]
  <2>1. /\ v4.active # None /\ free # 0
        /\ PL!Changes(PL!SplitTab(v4, v3[t], t))
    BY <1>12 DEF PL!Split, PL!SelectInSeq
  <2>2. Len(LayoutTasks) \in Nat /\ DOMAIN LayoutTasks = 1..Len(LayoutTasks)
    BY LenProperties DEF PL!WellFormed
  <2>3. I \in SUBSET Nat
    BY <2>2
  <2>4. free \in I
    <3> HIDE DEF I
    <3> QED
      BY <2>1, <2>3, LeastOf
  <2>5. t \in PL!Tasks /\ v3[t] \notin PL!Attached(v4)
    BY <2>2, <2>4, ElementOfSeq DEF PL!WellFormed
  <2> HIDE DEF t
  <2>6. v3[t] \in PL!SessionsOf({t})
    BY <1>1, <2>5 DEF PL!TypeOK
  <2> QED
    BY <1>1, <2>1, <2>5, <2>6, SplitTabKeeps, LayoutChanges
<1>13. \A s \in PL!Tasks : PL!Running[s] \in PL!SessionsOf({s})
  BY <1>1, RunningIs
<1>14. CASE PL!Refresh
  <2> DEFINE preferred == IF v4.active = None THEN Head(LayoutTasks) ELSE v4.active
             reconciled == PL!Reconcile(v4, PL!Running)
  <2>1. preferred \in PL!Tasks
    BY <1>1, FirstTaskIs, TabTypes
  <2>2. reconciled \in PL!Layouts /\ PL!LayoutIsSound(reconciled)
    BY <1>1, <1>13, ReconcileKeeps DEF PL!TypeOK
  <2>3. PL!PublishReady(reconciled, preferred)
    BY <1>14 DEF PL!Refresh
  <2> QED
    BY <2>1, <2>2, <2>3, PublishKeeps
<1>15. CASE PL!Reopen
  <2>1. PL!PublishReady(v4, Head(LayoutTasks))
    BY <1>15 DEF PL!Reopen
  <2> QED
    BY <1>1, <2>1, FirstTaskIs, PublishKeeps DEF PL!TypeOK
<1> QED
  BY <1>2, <1>3, <1>4, <1>5, <1>6, <1>7, <1>8, <1>9, <1>10, <1>11, <1>12, <1>14, <1>15 DEF PL!Next

\* What follows of the panes.
LEMMA PanesFollow == PL!WellFormed /\ PL!IInv => PL!PanesSafe
<1> SUFFICES ASSUME PL!WellFormed, PL!IInv PROVE PL!PanesSafe
  OBVIOUS
<1> DEFINE tabs == v4.tabs
<1>1. v4 \in PL!Layouts /\ PL!LayoutIsSound(v4)
  BY DEF PL!IInv, PL!TypeOK
<1>2. \A i \in DOMAIN tabs : /\ tabs[i] \in PL!TabRecords /\ PL!TabIsSound(tabs[i])
                             /\ PL!Range(tabs[i].panes) \subseteq PL!Panes(v4)
  BY <1>1, TabTypes, PaneOf DEF PL!LayoutIsSound
<1>3. ASSUME NEW i \in DOMAIN tabs, NEW p \in PL!Range(tabs[i].panes)
      PROVE  p.id[1] = tabs[i].task /\ (p.session = None \/ p.session[1] \in {p.task, tabs[i].task})
  <2>1. p.id[1] = tabs[i].task /\ p.session \in PL!SessionsOf({p.task, tabs[i].task})
    BY <1>2, <1>3 DEF PL!TabIsSound, PL!PaneIsSound
  <2> QED
    BY <2>1 DEF PL!SessionsOf
<1>4. PL!OwnTask
  BY <1>3 DEF PL!OwnTask
<1>5. ASSUME PL!UniqueIds PROVE PL!OneTerminal
  <2> SUFFICES ASSUME NEW i \in DOMAIN tabs, NEW m \in DOMAIN tabs,
                      NEW j \in DOMAIN tabs[i].panes, NEW k \in DOMAIN tabs[m].panes,
                      <<i, j>> # <<m, k>>, tabs[i].panes[j].session # None
               PROVE  tabs[i].panes[j].session # tabs[m].panes[k].session
    BY DEF PL!OneTerminal
  <2> DEFINE p == tabs[i].panes[j]
             q == tabs[m].panes[k]
  <2>1. p \in PL!Panes(v4) /\ q \in PL!Panes(v4)
    BY <1>2 DEF PL!Range
  <2>2. p.id # q.id
    <3>1. CASE i = m
      BY <1>5, <3>1 DEF PL!UniqueIds
    <3>2. CASE i # m
      <4>1. tabs[i].task # tabs[m].task
        BY <1>1, <3>2 DEF PL!LayoutIsSound
      <4>2. p.id[1] = tabs[i].task /\ q.id[1] = tabs[m].task
        BY <1>3 DEF PL!Range
      <4> QED
        BY <4>1, <4>2
    <3> QED
      BY <3>1, <3>2
  <2> QED
    BY <1>1, <2>1, <2>2 DEF PL!LayoutIsSound, PL!ToldApart
<1>6. ASSUME PL!UniqueIds, Len(tabs) <= MaxTabs PROVE PL!Valid(v4)
  <2>1. ASSUME NEW i \in DOMAIN tabs
        PROVE  /\ Len(tabs[i].panes) \in 1..2
               /\ PL!PaneAt(tabs[i], tabs[i].activePane) # 0
               /\ \A j, k \in DOMAIN tabs[i].panes : j # k => tabs[i].panes[j].id # tabs[i].panes[k].id
    <3>1. Len(tabs[i].panes) \in 1..2 /\ \E p \in PL!Range(tabs[i].panes) : p.id = tabs[i].activePane
      BY <1>2 DEF PL!TabIsSound
    <3>2. PL!PaneAt(tabs[i], tabs[i].activePane) # 0
      BY <1>2, <3>1, PaneFound
    <3> QED
      BY <1>6, <3>1, <3>2 DEF PL!UniqueIds
  <2>2. \A i, j \in DOMAIN tabs : i # j => tabs[i].task # tabs[j].task
    BY <1>1 DEF PL!LayoutIsSound
  <2>3. v4.active = None \/ PL!TabOf(v4, v4.active) # 0
    BY <1>1, ActiveTabIs, TabTypes
  <2> QED
    BY <1>6, <2>1, <2>2, <2>3 DEF PL!Valid
<1> QED
  BY <1>4, <1>5, <1>6 DEF PL!PanesSafe

LEMMA PanesPart ==
  ASSUME part = "layout", [PanesNext]_desktopVars
  PROVE  [PL!Next]_(PL!paneVars)
BY DEF PanesNext, Moves, desktopVars, PL!paneVars

\* For any Tasks, any number of Sessions of each and any number of tabs, splits and
\* refreshes: no pane shows a Session of a foreign Task, panes with different ids
\* never show one Session, and while pane ids are unique the layout can be saved
\* (splitTerminalTab, closePane, reconcileTerminalWorkspace).
THEOREM PanesAlwaysSafe == PanesSpec => []PanesSafe
<1> DEFINE Inv == part = "layout" => PL!IInv
<1>1. PanesInit => Inv
  BY PanesWellFormed, PanesStart DEF PanesInit
<1>2. Inv /\ [PanesNext]_desktopVars => Inv'
  BY PanesWellFormed, PanesPartStays, PanesPart, PanesKeep
<1>3. Inv => PanesSafe
  BY PanesWellFormed, PanesFollow DEF PanesSafe
<1> QED
  BY <1>1, <1>2, <1>3, PTL DEF PanesSpec

-----------------------------------------------------------------------------
(* The terminals.                                                          *)

LEMMA TerminalsPart ==
  ASSUME part = "terminals", [PanesNext]_desktopVars
  PROVE  [TE!Next]_(TE!terminalVars)
BY DEF PanesNext, Moves, desktopVars, TE!terminalVars, TE!mainVars, TE!windowVars

\* What taking the first message of a queue leaves.
LEMMA FirstTaken ==
  ASSUME NEW S, NEW q \in Seq(S), q # << >>
  PROVE  /\ Head(q) \in S /\ Head(q) = q[1] /\ Len(q) \in Nat /\ Len(q) >= 1
         /\ Tail(q) \in Seq(S) /\ Len(Tail(q)) = Len(q) - 1
         /\ \A i \in 1..Len(Tail(q)) : i + 1 \in 1..Len(q) /\ Tail(q)[i] = q[i + 1]
BY HeadTailProperties, EmptySeq

\* What adding to a queue makes.
LEMMA Added ==
  ASSUME NEW S, NEW q \in Seq(S), NEW m \in S
  PROVE  /\ Append(q, m) \in Seq(S) /\ Len(q) \in Nat /\ Len(Append(q, m)) = Len(q) + 1
         /\ \A i \in 1..Len(q) : Append(q, m)[i] = q[i]
         /\ Append(q, m)[Len(q) + 1] = m
BY AppendProperties

LEMMA Joined ==
  ASSUME NEW S, NEW q \in Seq(S), NEW r \in Seq(S)
  PROVE  /\ q \o r \in Seq(S) /\ Len(q) \in Nat /\ Len(r) \in Nat
         /\ Len(q \o r) = Len(q) + Len(r)
         /\ \A i \in 1..Len(q) : (q \o r)[i] = q[i]
         /\ \A i \in 1..Len(r) : (q \o r)[Len(q) + i] = r[i]
BY ConcatProperties

\* What the types say of the parts.
LEMMA Typed ==
  ASSUME TE!TypeOK
  PROVE  /\ Len(v4) \in Nat /\ Len(v5) \in Nat /\ Len(v7) \in Nat
         /\ \A i \in 1..Len(v4) : v4[i] \in TE!Messages /\ v4[i].to \in Nat
         /\ \A i \in 1..Len(v4) :
              v4[i].kind = "write" => v4[i].item \in TE!Items /\ v4[i].item.nth \in Nat
         /\ \A i \in 1..Len(v5) : v5[i] \in TE!Answers /\ v5[i].to \in Nat
         /\ \A i \in 1..Len(v7) : v7[i] \in TerminalSessions
         /\ \A s \in TerminalSessions :
              v2[s] \in Nat /\ v3[s] \in Seq(TE!Items) /\ Len(v3[s]) \in Nat
         /\ \A s \in TerminalSessions : \A i \in 1..Len(v3[s]) :
              /\ v3[s][i] \in TE!Items /\ v3[s][i].by \in Nat /\ v3[s][i].nth \in Nat
              /\ v3[s][i].meant \in TerminalSessions
         /\ \A n \in 1..MaxAttempts : v11[n] \in Seq(TE!Items) /\ Len(v11[n]) \in Nat
         /\ \A a \in v6 : a.to \in Nat /\ a.ok \in BOOLEAN /\ a = [to |-> a.to, ok |-> a.ok]
         /\ v9.attempt \in Nat /\ v9.active \in Nat /\ v9.queue \in Seq(TE!Items)
         /\ Len(v9.queue) \in Nat /\ v9.sending \in TE!Items \cup {None}
         /\ v9.unavailable \in BOOLEAN /\ v9.state \in TE!States
         /\ MaxAttempts \in Nat /\ 1..Len(v7) \subseteq 1..MaxAttempts
         /\ v8.session \in TerminalSessions \cup {None}
<1> USE TerminalsWellFormed DEF TE!TypeOK, TE!WellFormed
<1>1. \A i \in 1..Len(v4) : v4[i] \in TE!Messages
  BY ElementOfSeq
<1>2. ASSUME NEW m \in TE!Messages
      PROVE  m.to \in Nat /\ (m.kind = "write" => m.item \in TE!Items)
  <2>1. CASE m \in [kind : {"attach", "detach"}, to : Nat]
    BY <2>1
  <2>2. CASE m \in [kind : {"write"}, to : Nat, item : TE!Items]
    BY <2>2
  <2> QED
    BY <2>1, <2>2 DEF TE!Messages
<1>3. \A item \in TE!Items : item.nth \in Nat /\ item.by \in Nat /\ item.meant \in TerminalSessions
  BY DEF TE!Items
<1>4. \A i \in 1..Len(v5) : v5[i] \in TE!Answers /\ v5[i].to \in Nat
  <2>1. \A i \in 1..Len(v5) : v5[i] \in TE!Answers
    BY ElementOfSeq
  <2>2. \A m \in TE!Answers : m.to \in Nat
    BY DEF TE!Answers
  <2> QED
    BY <2>1, <2>2
<1>5. \A s \in TerminalSessions : v3[s] \in Seq(TE!Items)
  OBVIOUS
<1>6. \A s \in TerminalSessions : \A i \in 1..Len(v3[s]) : v3[s][i] \in TE!Items
  BY <1>5, ElementOfSeq
<1>7. \A n \in 1..MaxAttempts : v11[n] \in Seq(TE!Items)
  OBVIOUS
<1>8. \A i \in 1..Len(v7) : v7[i] \in TerminalSessions
  BY ElementOfSeq
<1>9. \A a \in v6 : a.to \in Nat /\ a.ok \in BOOLEAN /\ a = [to |-> a.to, ok |-> a.ok]
  OBVIOUS
<1>10. /\ v9.attempt \in Nat /\ v9.active \in Nat /\ v9.queue \in Seq(TE!Items)
       /\ v9.sending \in TE!Items \cup {None} /\ v9.unavailable \in BOOLEAN
       /\ v9.state \in TE!States
  BY DEF TE!Controllers
<1>11. /\ Len(v4) \in Nat /\ Len(v5) \in Nat /\ Len(v7) \in Nat
       /\ Len(v9.queue) \in Nat
  BY <1>10, LenProperties
<1>12. \A s \in TerminalSessions : Len(v3[s]) \in Nat
  BY <1>5, LenProperties
<1>13. \A n \in 1..MaxAttempts : Len(v11[n]) \in Nat
  BY <1>7, LenProperties
<1>14. v8.session \in TerminalSessions \cup {None}
  BY DEF TE!Panes
<1>15. 1..Len(v7) \subseteq 1..MaxAttempts
  BY <1>11
<1> QED
  BY <1>1, <1>2, <1>3, <1>4, <1>5, <1>6, <1>7, <1>8, <1>9, <1>10, <1>11, <1>12, <1>13,
     <1>14, <1>15

LEMMA TypedLater ==
  ASSUME TE!TypeOK'
  PROVE  /\ Len(v7') \in Nat /\ 1..Len(v7') \subseteq 1..MaxAttempts
         /\ \A i \in 1..Len(v7') : v7'[i] \in TerminalSessions
         /\ \A n \in 1..MaxAttempts : v11'[n] \in Seq(TE!Items) /\ Len(v11'[n]) \in Nat
<1>1. v7' \in Seq(TerminalSessions) /\ Len(v7') <= MaxAttempts /\ MaxAttempts \in Nat
  BY TerminalsWellFormed DEF TE!TypeOK, TE!WellFormed
<1>2. v11' \in [1..MaxAttempts -> Seq(TE!Items)]
  BY DEF TE!TypeOK
<1>3. Len(v7') \in Nat
  BY <1>1, LenProperties
<1>4. \A i \in 1..Len(v7') : v7'[i] \in TerminalSessions
  BY <1>1, ElementOfSeq
<1>5. \A n \in 1..MaxAttempts : v11'[n] \in Seq(TE!Items) /\ Len(v11'[n]) \in Nat
  BY <1>2, LenProperties
<1> QED
  BY <1>1, <1>3, <1>4, <1>5

LEMMA ReadsTyped ==
  ASSUME NEW p \in TE!Panes
  PROVE  TE!Reads(p) \in [session : TerminalSessions \cup {None}, same : BOOLEAN] \cup {None}
<1>1. CASE p.clipboard = None
  BY <1>1 DEF TE!Reads
<1>2. CASE p.clipboard # None
  <2>1. /\ p.clipboard \in [session : TerminalSessions \cup {None}, same : BOOLEAN]
        /\ p.hooked \in BOOLEAN
    BY <1>2 DEF TE!Panes
  <2>2. [p.clipboard EXCEPT !.same = @ /\ p.hooked]
            \in [session : TerminalSessions \cup {None}, same : BOOLEAN]
    BY <2>1
  <2> QED
    BY <1>2, <2>2 DEF TE!Reads
<1> QED
  BY <1>1, <1>2

LEMMA PaneTyped ==
  ASSUME NEW p \in TE!Panes, NEW c \in TE!Controllers, NEW d \in TE!Controllers
  PROVE  /\ TE!Rendered(p) \in TE!Panes /\ TE!Rendered(p).session = p.session
         /\ TE!Shown(p, c, d) \in TE!Panes /\ TE!Shown(p, c, d).session = p.session
<1>1. TE!Reads(p) \in [session : TerminalSessions \cup {None}, same : BOOLEAN] \cup {None}
  BY ReadsTyped
<1>2. PICK r : r = TE!Reads(p)
  OBVIOUS
<1>3. TE!Rendered(p) \in TE!Panes /\ TE!Rendered(p).session = p.session
  BY <1>1, <1>2 DEF TE!Rendered, TE!Panes
<1>4. d.state \in TE!States
  BY DEF TE!Controllers
<1>5. TE!Shown(p, c, d) \in TE!Panes /\ TE!Shown(p, c, d).session = p.session
  <2>1. PICK q : q = TE!Rendered(p)
    OBVIOUS
  <2>2. [q EXCEPT !.label = d.state, !.due = TRUE] \in TE!Panes
        /\ [q EXCEPT !.label = d.state, !.due = TRUE].session = q.session
    BY <1>3, <1>4, <2>1 DEF TE!Panes
  <2> QED
    BY <1>3, <2>1, <2>2 DEF TE!Shown
<1> QED
  BY <1>3, <1>5

AttemptsGrow ==
  \A n \in 1..Len(v7) : n \in 1..Len(v7') /\ v7'[n] = v7[n]

LEMMA TakenStays ==
  ASSUME TE!IInv, AttemptsGrow, v11' = v11
  PROVE  TE!TakenInOrder'
<1> SUFFICES ASSUME NEW n \in 1..MaxAttempts, NEW p \in 1..Len(v11[n])
             PROVE  n <= Len(v7') /\ v11[n][p] = TE!Item(n, p)'
  BY DEF TE!TakenInOrder
<1>1. n <= Len(v7) /\ v11[n][p] = TE!Item(n, p)
  BY DEF TE!IInv, TE!TakenInOrder
<1>2. n \in 1..Len(v7)
  BY <1>1, Typed DEF TE!IInv
<1> QED
  BY <1>1, <1>2 DEF AttemptsGrow, TE!Item

\* What was given and taken when the processes are given nothing.
LEMMA LogStays ==
  ASSUME TE!IInv, TE!TypeOK', AttemptsGrow, TE!TakenInOrder', v3' = v3,
         \A n \in 1..MaxAttempts : Len(v11[n]) <= Len(v11'[n]),
         \A s \in TerminalSessions : v2'[s] # 0 =>
           v2'[s] = v2[s] \/ \A i \in 1..Len(v3[s]) : v3[s][i].by <= v2'[s]
  PROVE  TE!LogIsTaken' /\ TE!NothingIsSkipped'
<1>1. TE!TypeOK /\ TE!LogIsTaken /\ TE!TakenInOrder /\ TE!NothingIsSkipped
  BY DEF TE!IInv
<1>2. \A n \in 1..Len(v7) : n \in 1..MaxAttempts
  BY <1>1, Typed, SMTT(30)
<1>3. TE!LogIsTaken'
  <2> SUFFICES ASSUME NEW s \in TerminalSessions, NEW i \in 1..Len(v3[s])
               PROVE  LET item == v3[s][i]
                      IN  /\ item.by \in 1..Len(v7') /\ v7'[item.by] = s
                          /\ item.nth \in 1..Len(v11'[item.by])
                          /\ item = TE!Item(item.by, item.nth)'
                          /\ v2'[s] # 0 => item.by <= v2'[s]
                          /\ \A j \in 1..Len(v3[s]) : i < j => item.by <= v3[s][j].by
    BY DEF TE!LogIsTaken
  <2>1. PICK n, p : n = v3[s][i].by /\ p = v3[s][i].nth
    OBVIOUS
  <2>2. /\ n \in 1..Len(v7) /\ v7[n] = s
        /\ p \in 1..Len(v11[n]) /\ v3[s][i] = TE!Item(n, p)
        /\ v2[s] # 0 => n <= v2[s]
        /\ \A j \in 1..Len(v3[s]) : i < j => n <= v3[s][j].by
    BY <1>1, <2>1 DEF TE!LogIsTaken
  <2>3. n \in 1..Len(v7') /\ v7'[n] = s
    BY <2>2 DEF AttemptsGrow
  <2>4. p \in 1..Len(v11'[n])
    <3>1. Len(v11[n]) \in Nat /\ Len(v11'[n]) \in Nat /\ Len(v11[n]) <= Len(v11'[n])
      BY <1>1, <1>2, <2>2, Typed, LenProperties DEF TE!TypeOK
    <3> QED
      BY <2>2, <3>1
  <2>5. v3[s][i] = TE!Item(n, p)'
    BY <2>2, <2>3 DEF TE!Item
  <2>6. v2'[s] # 0 => n <= v2'[s]
    BY <2>1, <2>2
  <2> QED
    BY <2>1, <2>2, <2>3, <2>4, <2>5, <2>6
<1>4. TE!NothingIsSkipped'
  <2> SUFFICES ASSUME NEW n \in 1..Len(v7')
               PROVE  LET given == v3[v7'[n]]
                      IN  \E before \in 0..Len(given), k \in 0..Len(v11'[n]) :
                            /\ \A i \in 1..Len(given) :
                                 given[i].by = n <=> before < i /\ i <= before + k
                            /\ \A j \in 1..k : before + j <= Len(given)
                                               /\ given[before + j] = v11'[n][j]
    BY ZenonT(60) DEF TE!NothingIsSkipped
  <2>0. /\ Len(v7') \in Nat /\ n \in 1..MaxAttempts /\ v7'[n] \in TerminalSessions
        /\ v11'[n] \in Seq(TE!Items) /\ Len(v11'[n]) \in Nat
    BY TypedLater
  <2>1. CASE n \in 1..Len(v7)
    <3>1. PICK before \in 0..Len(v3[v7[n]]), k \in 0..Len(v11[n]) :
            /\ \A i \in 1..Len(v3[v7[n]]) :
                 v3[v7[n]][i].by = n <=> before < i /\ i <= before + k
            /\ \A j \in 1..k : before + j <= Len(v3[v7[n]])
                               /\ v3[v7[n]][before + j] = v11[n][j]
      BY <1>1, <2>1 DEF TE!NothingIsSkipped
    <3>2. Len(v11[n]) \in Nat /\ Len(v11[n]) <= Len(v11'[n])
      BY <1>1, <2>0, Typed
    <3>3. v7'[n] = v7[n]
      BY <2>1 DEF AttemptsGrow
    <3>4. \A j \in 1..k : v11'[n][j] = v11[n][j]
      <4> TAKE j \in 1..k
      <4>1. j \in 1..Len(v11[n]) /\ j \in 1..Len(v11'[n])
        BY <2>0, <3>2
      <4>2. v11[n][j] = TE!Item(n, j)
        BY <1>1, <2>0, <4>1 DEF TE!TakenInOrder
      <4>3. v11'[n][j] = TE!Item(n, j)'
        BY <2>0, <4>1 DEF TE!TakenInOrder, TE!Item
      <4> QED
        BY <3>3, <4>2, <4>3 DEF TE!Item
    <3>5. k \in 0..Len(v11'[n])
      BY <2>0, <3>2
    <3>6. /\ before \in 0..Len(v3[v7'[n]])
          /\ \A i \in 1..Len(v3[v7'[n]]) :
               v3[v7'[n]][i].by = n <=> before < i /\ i <= before + k
          /\ \A j \in 1..k : before + j <= Len(v3[v7'[n]])
                             /\ v3[v7'[n]][before + j] = v11'[n][j]
      BY <3>1, <3>3, <3>4
    <3> QED
      BY <3>5, <3>6, Zenon
  <2>2. CASE n \notin 1..Len(v7)
    <3>1. \A i \in 1..Len(v3[v7'[n]]) : v3[v7'[n]][i].by # n
      BY <1>1, <2>0, <2>2 DEF TE!LogIsTaken
    <3>2. Len(v3[v7'[n]]) \in Nat
      BY <1>1, <2>0, Typed
    <3>3. 0 \in 0..Len(v3[v7'[n]]) /\ 0 \in 0..Len(v11'[n]) /\ 1..0 = {}
      BY <2>0, <3>2
    <3>4. \A i \in 1..Len(v3[v7'[n]]) :
            v3[v7'[n]][i].by = n <=> 0 < i /\ i <= 0 + 0
      BY <3>1
    <3> QED
      BY <3>3, <3>4
  <2> QED
    BY <2>1, <2>2
<1> QED
  BY <1>3, <1>4

\* The messages that attach, when none is added to them.
LEMMA AttachesStay ==
  ASSUME TE!IInv, NEW k \in Nat, NEW top \in Nat,
         \A i \in 1..Len(v4') : v4'[i].kind = "attach" =>
           i + k \in 1..Len(v4) /\ v4'[i] = v4[i + k] /\ top < v4'[i].to,
         \A s \in TerminalSessions : v2'[s] \in {v2[s], 0, top},
         \A j \in 1..Len(v5') :
           v5'[j].to = top \/ \E l \in 1..Len(v5) : v5'[j].to = v5[l].to,
         v9'.active \in {0, v9.active, top},
         \A m \in 1..MaxAttempts : v11'[m] = v11[m] \/ m = top
  PROVE  TE!AttachesAreNew'
<1>1. TE!AttachesAreNew /\ TE!TypeOK
  BY DEF TE!IInv
<1> SUFFICES ASSUME NEW i \in 1..Len(v4'), v4'[i].kind = "attach"
             PROVE  /\ \A s \in TerminalSessions : v2'[s] < v4'[i].to
                    /\ \A j \in 1..Len(v5') : v5'[j].to < v4'[i].to
                    /\ v9'.active < v4'[i].to
                    /\ \A m \in 1..MaxAttempts : v4'[i].to <= m => v11'[m] = << >>
                    /\ \A j \in 1..Len(v4') :
                         i < j /\ v4'[j].kind = "attach" => v4'[i].to < v4'[j].to
  BY DEF TE!AttachesAreNew
<1>2. PICK n : n = v4'[i].to
  OBVIOUS
<1>3. i + k \in 1..Len(v4) /\ v4[i + k].kind = "attach" /\ v4[i + k].to = n /\ top < n
  BY <1>2
<1>4. /\ \A s \in TerminalSessions : v2[s] < n
      /\ \A j \in 1..Len(v5) : v5[j].to < n
      /\ v9.active < n
      /\ \A m \in 1..MaxAttempts : n <= m => v11[m] = << >>
      /\ \A j \in 1..Len(v4) : i + k < j /\ v4[j].kind = "attach" => n < v4[j].to
  BY <1>1, <1>3 DEF TE!AttachesAreNew
<1>5. n \in Nat /\ 0 < n
  BY <1>1, <1>3, Typed
<1>6. \A s \in TerminalSessions : v2'[s] < n
  BY <1>3, <1>4, <1>5
<1>7. \A j \in 1..Len(v5') : v5'[j].to < n
  BY <1>3, <1>4
<1>8. \A m \in 1..MaxAttempts : n <= m => v11'[m] = << >>
  <2> SUFFICES ASSUME NEW m \in 1..MaxAttempts, n <= m
               PROVE  v11'[m] = << >>
    OBVIOUS
  <2>1. m \in Nat /\ m # top
    BY <1>3, <1>5, TerminalsWellFormed DEF TE!WellFormed
  <2> QED
    BY <1>4, <2>1
<1>9. \A j \in 1..Len(v4') : i < j /\ v4'[j].kind = "attach" => n < v4'[j].to
  <2> SUFFICES ASSUME NEW j \in 1..Len(v4'), i < j, v4'[j].kind = "attach"
               PROVE  n < v4'[j].to
    OBVIOUS
  <2>1. j + k \in 1..Len(v4) /\ v4'[j] = v4[j + k] /\ i + k < j + k
    OBVIOUS
  <2> QED
    BY <1>4, <2>1
<1> QED
  BY <1>2, <1>3, <1>4, <1>5, <1>6, <1>7, <1>8, <1>9

\* The answers about attachments, when none is added to them.
LEMMA AttachedStay ==
  ASSUME TE!IInv, NEW h \in Nat,
         \A i \in 1..Len(v5') : v5'[i].kind = "attached" =>
           /\ i + h \in 1..Len(v5) /\ v5'[i] = v5[i + h]
           /\ v5'[i].to # v9'.active /\ v11'[v5'[i].to] = << >>
  PROVE  TE!AttachedOnce'
<1> SUFFICES ASSUME NEW i \in 1..Len(v5'), v5'[i].kind = "attached",
                    NEW j \in 1..Len(v5'), v5'[j].kind = "attached",
                    v5'[j].to = v5'[i].to
             PROVE  j = i
  BY DEF TE!AttachedOnce
<1>1. /\ i + h \in 1..Len(v5) /\ v5'[i] = v5[i + h]
      /\ j + h \in 1..Len(v5) /\ v5'[j] = v5[j + h]
  OBVIOUS
<1>2. j + h = i + h
  BY <1>1 DEF TE!IInv, TE!AttachedOnce
<1> QED
  BY <1>2

LEMMA GivenStays ==
  ASSUME AttemptsGrow, v3' = v3, NEW n \in 1..Len(v7), NEW p
  PROVE  (TE!GivenUpTo(n, p)' <=> TE!GivenUpTo(n, p)) /\ TE!Item(n, p)' = TE!Item(n, p)
<1>1. v7'[n] = v7[n]
  BY DEF AttemptsGrow
<1> QED
  BY <1>1 DEF TE!GivenUpTo, TE!Item

\* The writes on their way, when none is added to them.
LEMMA WritesStay ==
  ASSUME TE!IInv, TE!TypeOK', AttemptsGrow, NEW k \in Nat,
         \A n \in 1..MaxAttempts : Len(v11[n]) <= Len(v11'[n]),
         \A i \in 1..Len(v4') : v4'[i].kind = "write" =>
           /\ i + k \in 1..Len(v4) /\ v4'[i] = v4[i + k]
           /\ \A a \in v6' : a.to # v4'[i].to
           /\ v4'[i].to = v9'.active =>
                v4'[i].to = v9.active /\ v9'.sending = v9.sending,
         \A n \in 1..Len(v7), p \in Nat :
           (\E i \in 1..Len(v4') : v4'[i].kind = "write" /\ v4'[i].to = n)
             /\ TE!GivenUpTo(n, p) => TE!GivenUpTo(n, p)'
  PROVE  TE!WritesAreNext'
<1>1. TE!WritesAreNext /\ TE!TypeOK /\ TE!AttemptsAreMade
  BY DEF TE!IInv
<1>2. ASSUME NEW i \in 1..Len(v4'), v4'[i].kind = "write",
             NEW n, n = v4'[i].to, NEW item, item = v4'[i].item
      PROVE  /\ item.nth \in 1..Len(v11'[n]) /\ item = TE!Item(n, item.nth)'
             /\ TE!GivenUpTo(n, item.nth - 1)'
             /\ n = v9'.active => item = v9'.sending
             /\ \A a \in v6' : a.to # n
             /\ \A j \in 1..Len(v4') :
                  v4'[j].kind = "write" /\ v4'[j].to = n => j = i
  <2>1. /\ i + k \in 1..Len(v4) /\ v4'[i] = v4[i + k] /\ \A a \in v6' : a.to # n
        /\ n = v9'.active => n = v9.active /\ v9'.sending = v9.sending
    BY <1>2
  <2>2. v4[i + k].kind = "write" /\ n = v4[i + k].to /\ item = v4[i + k].item
    BY <1>2, <2>1
  <2>3. /\ item.nth \in 1..Len(v11[n]) /\ item = TE!Item(n, item.nth)
        /\ TE!GivenUpTo(n, item.nth - 1)
        /\ n = v9.active => item = v9.sending
        /\ \A j \in 1..Len(v4) : v4[j].kind = "write" /\ v4[j].to = n => j = i + k
    BY <1>1, <2>1, <2>2 DEF TE!WritesAreNext
  <2>4. n \in 1..Len(v7) /\ v7'[n] = v7[n]
    BY <1>1, <2>1, <2>2 DEF TE!AttemptsAreMade, AttemptsGrow
  <2>5. n \in 1..MaxAttempts
    BY <1>1, <2>4, Typed
  <2>6. Len(v11[n]) \in Nat /\ Len(v11'[n]) \in Nat /\ Len(v11[n]) <= Len(v11'[n])
    BY <1>1, <2>5, Typed, TypedLater
  <2>7. item.nth \in 1..Len(v11'[n])
    BY <2>3, <2>6
  <2>8. item = TE!Item(n, item.nth)'
    BY <2>3, <2>4 DEF TE!Item
  <2>9. TE!GivenUpTo(n, item.nth - 1)'
    <3>1. PICK p \in Nat : p = item.nth - 1
      BY <2>3, <2>6
    <3> QED
      BY <1>2, <2>3, <2>4, <3>1
  <2>10. \A j \in 1..Len(v4') : v4'[j].kind = "write" /\ v4'[j].to = n => j = i
    <3> SUFFICES ASSUME NEW j \in 1..Len(v4'), v4'[j].kind = "write", v4'[j].to = n
                 PROVE  j = i
      OBVIOUS
    <3>1. j + k \in 1..Len(v4) /\ v4'[j] = v4[j + k]
      OBVIOUS
    <3>2. j + k = i + k
      BY <2>3, <3>1
    <3> QED
      BY <3>2
  <2> QED
    BY <2>1, <2>3, <2>7, <2>8, <2>9, <2>10
<1> QED
  BY <1>2, Zenon DEF TE!WritesAreNext

\* The answers to writes, when none is added to them.
LEMMA AnswersStay ==
  ASSUME TE!IInv, AttemptsGrow, v6' \subseteq v6,
         \A n \in 1..MaxAttempts : v11[n] # << >> => v11'[n] # << >>,
         \A a \in v6' : a.to = v9'.active =>
           v9'.active = v9.active /\ v9'.sending = v9.sending,
         \A n \in 1..Len(v7), p \in Nat : TE!GivenUpTo(n, p) => TE!GivenUpTo(n, p)'
  PROVE  TE!AnswersAreTrue'
<1>1. TE!AnswersAreTrue /\ TE!AttemptsAreMade /\ TE!TypeOK /\ TE!QueueIsTaken
  BY DEF TE!IInv
<1>2. ASSUME NEW a \in v6'
      PROVE  /\ v11'[a.to] # << >>
             /\ a.to = v9'.active =>
                  v9'.sending # None /\ (a.ok => TE!GivenUpTo(a.to, v9.sending.nth)')
             /\ \A b \in v6' : a.to = b.to => a = b
  <2>1. a \in v6 /\ a.to \in 1..Len(v7) /\ a.to \in 1..MaxAttempts
    BY <1>1, <1>2, Typed DEF TE!AttemptsAreMade
  <2>2. /\ v11[a.to] # << >>
        /\ a.to = v9.active => v9.sending # None /\ (a.ok => TE!GivenUpTo(a.to, v9.sending.nth))
        /\ \A b \in v6 : a.to = b.to => a = b
    BY <1>1, <2>1 DEF TE!AnswersAreTrue
  <2>3. CASE a.to = v9'.active
    <3>1. a.to = v9.active /\ v9'.sending = v9.sending /\ v9.sending # None
      BY <1>2, <2>2, <2>3
    <3>2. PICK p \in Nat : p = v9.sending.nth
      BY <1>1, <3>1, Typed DEF TE!Items
    <3>3. a.ok => TE!GivenUpTo(a.to, p)'
      BY <2>1, <2>2, <3>1, <3>2
    <3> QED
      BY <2>1, <2>2, <3>1, <3>2, <3>3
  <2>4. CASE a.to # v9'.active
    BY <2>1, <2>2, <2>4
  <2> QED
    BY <2>3, <2>4
<1>3. \A a \in v6' : a.to = v9'.active => v9'.sending = v9.sending
  OBVIOUS
<1> QED
  BY <1>2, <1>3 DEF TE!AnswersAreTrue

\* What stays of the controller's queue while its attempt stays.
LEMMA QueueStays ==
  ASSUME TE!IInv, UNCHANGED <<v3, v7, v11>>, v9' \in TE!Controllers,
         v9'.active # 0 => v9'.active = v9.active /\ v9'.sending = v9.sending,
         v9'.active # 0 /\ ~v9'.unavailable => ~v9.unavailable /\ v9'.queue = v9.queue
  PROVE  TE!QueueIsTaken'
<1>1. SUFFICES ASSUME v9'.active # 0
               PROVE  TE!QueueIsTaken'
  BY DEF TE!QueueIsTaken
<1>2. TE!QueueIsTaken /\ v9.active # 0
  BY <1>1 DEF TE!IInv
<1>3. PICK n : n = v9.active
  OBVIOUS
<1>4. PICK sending : sending = v9.sending
  OBVIOUS
<1>5. /\ sending # None =>
           sending.nth \in 1..Len(v11[n]) /\ sending = TE!Item(n, sending.nth)
      /\ ~v9.unavailable =>
           /\ Len(v11[n]) - Len(v9.queue) >= 0
           /\ \A i \in 1..Len(v9.queue) :
                v9.queue[i] = TE!Item(n, Len(v11[n]) - Len(v9.queue) + i)
           /\ IF sending = None THEN TE!GivenUpTo(n, Len(v11[n]) - Len(v9.queue))
              ELSE sending.nth = Len(v11[n]) - Len(v9.queue)
  BY <1>2, <1>3, <1>4 DEF TE!QueueIsTaken
<1>6. v9'.active = n /\ v9'.sending = sending
  BY <1>1, <1>3, <1>4
<1>7. CASE v9'.unavailable
  BY <1>5, <1>6, <1>7 DEF TE!QueueIsTaken, TE!Item
<1>8. CASE ~v9'.unavailable
  <2>1. ~v9.unavailable /\ v9'.queue = v9.queue
    BY <1>1, <1>8
  <2> QED
    BY <1>5, <1>6, <2>1 DEF TE!QueueIsTaken, TE!Item, TE!GivenUpTo
<1> QED
  BY <1>7, <1>8

\* A step of the window that sends no input: it may take the first answer or event,
\* put attempts away, and drop what is in the queue.
LEMMA TerminalSteps ==
  ASSUME TE!IInv, UNCHANGED <<v1, v2, v3, v6, v7, v11>>,
         v9' \in TE!Controllers, v8' \in TE!Panes, v8'.session = v8.session,
         v9'.attempt \in {0, v9.attempt}, v9'.active \in {0, v9'.attempt},
         v9'.active = 0 => v9'.queue = << >> /\ v9'.sending = None,
         NEW h \in {0, 1}, v5' \in Seq(TE!Answers), Len(v5') + h = Len(v5),
         \A i \in 1..Len(v5') : v5'[i] = v5[i + h],
         v4' \in Seq(TE!Messages), Len(v4) <= Len(v4'),
         \A i \in 1..Len(v4) : v4'[i] = v4[i],
         \A i \in 1..Len(v4') : i <= Len(v4) \/
           (v4'[i].kind = "detach" /\ v4'[i].to \in 1..Len(v7)),
         \/ v9'.active = 0
         \/ /\ v9'.active = v9.active /\ v9'.sending = v9.sending
            /\ ~v9'.unavailable => ~v9.unavailable /\ v9'.queue = v9.queue
         \/ /\ h = 1 /\ v9'.active = v5[1].to /\ v5[1].kind = "attached"
            /\ v9'.sending = None /\ v9'.queue = << >>,
         v9.active # 0 /\ v9'.active # v9.active =>
           \E i \in 1..Len(v4') : v4'[i].kind = "detach" /\ v4'[i].to = v9.active,
         h = 1 /\ v5[1].kind = "attached" =>
           \/ v9'.active = v5[1].to
           \/ \E i \in 1..Len(v4') : v4'[i].kind = "detach" /\ v4'[i].to = v5[1].to
  PROVE  TE!IInv'
<1>1. /\ TE!TypeOK /\ TE!AttemptsAreMade /\ TE!TakenInOrder /\ TE!AttachesAreNew /\ TE!AttachedOnce
      /\ TE!WritesAreNext /\ TE!AnswersAreTrue /\ TE!HoldersAreKnown
  BY DEF TE!IInv
<1>2. TE!TypeOK'
  BY <1>1 DEF TE!TypeOK
<1>3. AttemptsGrow
  BY DEF AttemptsGrow
<1>4. Len(v4) \in Nat /\ Len(v4') \in Nat /\ Len(v5) \in Nat /\ Len(v5') \in Nat
  BY <1>1, Typed, LenProperties
<1>5. \A i \in 1..Len(v5') : i + h \in 1..Len(v5)
  BY <1>4
<1>6. \A i \in 1..Len(v4') :
        v4'[i].kind # "detach" => i + 0 \in 1..Len(v4) /\ v4'[i] = v4[i + 0]
  BY <1>4
<1>7. TE!AttemptsAreMade'
  <2>1. \A i \in 1..Len(v4') : v4'[i].to \in 1..Len(v7)
    BY <1>1, <1>4 DEF TE!AttemptsAreMade
  <2>2. \A i \in 1..Len(v5') : v5'[i].to \in 1..Len(v7)
    BY <1>1, <1>5 DEF TE!AttemptsAreMade
  <2>3. v9'.attempt <= Len(v7)
        /\ (v9'.attempt # 0 => v7[v9'.attempt] = v8'.session)
    BY <1>1, Typed DEF TE!AttemptsAreMade
  <2>4. /\ \A s \in TerminalSessions :
             v2[s] # 0 => v2[s] <= Len(v7) /\ v7[v2[s]] = s
        /\ \A a \in v6 : a.to \in 1..Len(v7)
    BY <1>1 DEF TE!AttemptsAreMade
  <2> QED
    BY <2>1, <2>2, <2>3, <2>4 DEF TE!AttemptsAreMade
<1>8. TE!TakenInOrder'
  BY <1>3, TakenStays
<1>9. TE!LogIsTaken' /\ TE!NothingIsSkipped'
  <2>1. \A n \in 1..MaxAttempts : Len(v11[n]) <= Len(v11'[n])
    BY <1>1, Typed
  <2> QED
    BY <1>2, <1>3, <1>8, <2>1, LogStays
<1>10. TE!AttachesAreNew'
  <2>1. \A i \in 1..Len(v4') : v4'[i].kind = "attach" =>
          i + 0 \in 1..Len(v4) /\ v4'[i] = v4[i + 0] /\ v9'.active < v4'[i].to
    <3> SUFFICES ASSUME NEW i \in 1..Len(v4'), v4'[i].kind = "attach"
                 PROVE  i + 0 \in 1..Len(v4) /\ v4'[i] = v4[i + 0]
                        /\ v9'.active < v4'[i].to
      OBVIOUS
    <3>1. i + 0 \in 1..Len(v4) /\ v4'[i] = v4[i + 0] /\ i + 0 = i
      BY <1>6
    <3>2. /\ v4[i].to \in Nat /\ 0 < v4[i].to /\ v9.active < v4[i].to
          /\ \A j \in 1..Len(v5) : v5[j].to < v4[i].to
      BY <1>1, <3>1 DEF TE!AttachesAreNew, TE!AttemptsAreMade
    <3>3. h = 1 => 1 \in 1..Len(v5)
      BY <1>4
    <3> QED
      BY <3>1, <3>2, <3>3
  <2>2. \A j \in 1..Len(v5') : v5'[j].to = v9'.active
                               \/ \E l \in 1..Len(v5) : v5'[j].to = v5[l].to
    BY <1>5
  <2>3. v9'.active \in Nat /\ 0 \in Nat
    BY DEF TE!Controllers
  <2>4. /\ \A s \in TerminalSessions : v2'[s] \in {v2[s], 0, v9'.active}
        /\ v9'.active \in {0, v9.active, v9'.active}
        /\ \A m \in 1..MaxAttempts : v11'[m] = v11[m] \/ m = v9'.active
    OBVIOUS
  <2> QED
    BY <2>1, <2>2, <2>3, <2>4, AttachesStay, ZenonT(60)
<1>11. TE!AttachedOnce'
  <2>1. \A i \in 1..Len(v5') : v5'[i].kind = "attached" =>
          /\ i + h \in 1..Len(v5) /\ v5'[i] = v5[i + h]
          /\ v5'[i].to # v9'.active /\ v11'[v5'[i].to] = << >>
    <3> SUFFICES ASSUME NEW i \in 1..Len(v5'), v5'[i].kind = "attached"
                 PROVE  /\ i + h \in 1..Len(v5) /\ v5'[i] = v5[i + h]
                        /\ v5'[i].to # v9'.active /\ v11[v5'[i].to] = << >>
      OBVIOUS
    <3>1. i + h \in 1..Len(v5) /\ v5'[i] = v5[i + h]
      BY <1>5
    <3>2. /\ v5[i + h].to # v9.active /\ v11[v5[i + h].to] = << >>
          /\ \A j \in 1..Len(v5) :
               v5[j].kind = "attached" /\ v5[j].to = v5[i + h].to => j = i + h
      BY <1>1, <3>1 DEF TE!AttachedOnce
    <3>3. v5[i + h].to # 0
      BY <1>1, <3>1 DEF TE!AttemptsAreMade
    <3>4. h = 1 => 1 \in 1..Len(v5) /\ 1 # i + h
      BY <1>4
    <3> QED
      BY <3>1, <3>2, <3>3, <3>4
  <2>2. h \in Nat
    OBVIOUS
  <2> QED
    BY <2>1, <2>2, AttachedStay, Zenon
<1>12. \A n \in 1..Len(v7), p \in Nat : TE!GivenUpTo(n, p) => TE!GivenUpTo(n, p)'
  BY <1>3, GivenStays
<1>13. \A n \in 1..Len(v7) : v11[n] # << >> /\ n = v9'.active =>
         v9'.active = v9.active /\ v9'.sending = v9.sending
  <2>1. h = 1 /\ v5[1].kind = "attached" => v11[v5[1].to] = << >>
    BY <1>1, <1>4 DEF TE!AttachedOnce
  <2> QED
    BY <2>1
<1>14. TE!WritesAreNext'
  <2>1. \A i \in 1..Len(v4') : v4'[i].kind = "write" =>
          /\ i + 0 \in 1..Len(v4) /\ v4'[i] = v4[i + 0]
          /\ \A a \in v6' : a.to # v4'[i].to
          /\ v4'[i].to = v9'.active =>
               v4'[i].to = v9.active /\ v9'.sending = v9.sending
    <3> SUFFICES ASSUME NEW i \in 1..Len(v4'), v4'[i].kind = "write"
                 PROVE  /\ i + 0 \in 1..Len(v4) /\ v4'[i] = v4[i + 0]
                        /\ \A a \in v6 : a.to # v4'[i].to
                        /\ v4'[i].to = v9'.active =>
                             v4'[i].to = v9.active /\ v9'.sending = v9.sending
      OBVIOUS
    <3>1. i + 0 \in 1..Len(v4) /\ v4'[i] = v4[i + 0] /\ i + 0 = i
      BY <1>6
    <3>2. /\ \A a \in v6 : a.to # v4[i].to
          /\ v4[i].item.nth \in 1..Len(v11[v4[i].to])
      BY <1>1, <3>1 DEF TE!WritesAreNext
    <3>3. v11[v4[i].to] # << >> /\ v4[i].to \in 1..Len(v7)
      BY <1>1, <3>1, <3>2, EmptySeq DEF TE!AttemptsAreMade
    <3> QED
      BY <1>13, <3>1, <3>2, <3>3
  <2>2. \A n \in 1..MaxAttempts : Len(v11[n]) <= Len(v11'[n])
    BY <1>1, Typed
  <2> QED
    BY <1>2, <1>3, <1>12, <2>1, <2>2, WritesStay
<1>15. TE!AnswersAreTrue'
  <2>1. \A a \in v6' : a.to = v9'.active =>
          v9'.active = v9.active /\ v9'.sending = v9.sending
    <3>1. \A a \in v6 : v11[a.to] # << >> /\ a.to \in 1..Len(v7)
      BY <1>1 DEF TE!AnswersAreTrue, TE!AttemptsAreMade
    <3> QED
      BY <1>13, <3>1
  <2> QED
    BY <1>3, <1>12, <2>1, AnswersStay
<1>16. TE!QueueIsTaken'
  <2>1. CASE v9'.active = 0
    BY <2>1 DEF TE!QueueIsTaken
  <2>2. CASE /\ v9'.active = v9.active /\ v9'.sending = v9.sending
             /\ ~v9'.unavailable => ~v9.unavailable /\ v9'.queue = v9.queue
    BY <2>2, QueueStays
  <2>3. CASE /\ h = 1 /\ v9'.active = v5[1].to /\ v5[1].kind = "attached"
             /\ v9'.sending = None /\ v9'.queue = << >>
    <3>1. PICK n : n = v9'.active
      OBVIOUS
    <3>2. v11[n] = << >> /\ n \in 1..Len(v7)
      BY <1>1, <1>4, <2>3, <3>1 DEF TE!AttachedOnce, TE!AttemptsAreMade
    <3>3. \A i \in 1..Len(v3[v7[n]]) : v3[v7[n]][i].by # n
      <4> SUFFICES ASSUME NEW i \in 1..Len(v3[v7[n]]), v3[v7[n]][i].by = n
                   PROVE  FALSE
        OBVIOUS
      <4>1. v7[n] \in TerminalSessions
        BY <1>1, <3>2, Typed
      <4>2. v3[v7[n]][i].nth \in 1..Len(v11[n])
        BY <4>1 DEF TE!IInv, TE!LogIsTaken
      <4>3. Len(v11[n]) = 0
        BY <3>2, EmptySeq
      <4> QED
        BY <4>2, <4>3
    <3>4. Len(v11[n]) = 0 /\ Len(v9'.queue) = 0
      BY <2>3, <3>2, EmptySeq
    <3>5. TE!GivenUpTo(n, 0)'
      BY <3>3 DEF TE!GivenUpTo
    <3> QED
      BY <2>3, <3>1, <3>4, <3>5 DEF TE!QueueIsTaken
  <2> QED
    BY <2>1, <2>2, <2>3
<1>17. TE!HoldersAreKnown'
  <2> SUFFICES ASSUME NEW s \in TerminalSessions, v2[s] # 0
               PROVE  \/ v2[s] = v9'.active
                      \/ \E i \in 1..Len(v4') :
                           v4'[i].kind = "detach" /\ v4'[i].to = v2[s]
                      \/ \E i \in 1..Len(v5') :
                           v5'[i].kind = "attached" /\ v5'[i].to = v2[s]
    BY DEF TE!HoldersAreKnown
  <2>1. CASE v2[s] = v9.active
    BY <2>1
  <2>2. CASE \E i \in 1..Len(v4) : v4[i].kind = "detach" /\ v4[i].to = v2[s]
    BY <1>4, <2>2
  <2>3. ASSUME NEW i \in 1..Len(v5), v5[i].kind = "attached" /\ v5[i].to = v2[s]
        PROVE  \/ v2[s] = v9'.active
               \/ \E j \in 1..Len(v4') :
                    v4'[j].kind = "detach" /\ v4'[j].to = v2[s]
               \/ \E j \in 1..Len(v5') :
                    v5'[j].kind = "attached" /\ v5'[j].to = v2[s]
    <3>1. CASE h = 1 /\ i = 1
      BY <2>3, <3>1
    <3>2. CASE ~(h = 1 /\ i = 1)
      <4>1. i - h \in 1..Len(v5') /\ (i - h) + h = i
        BY <1>4, <3>2
      <4>2. v5'[i - h] = v5[i]
        BY <4>1
      <4> QED
        BY <2>3, <4>1, <4>2
    <3> QED
      BY <3>1, <3>2
  <2> QED
    BY <1>1, <2>1, <2>2, <2>3 DEF TE!HoldersAreKnown
<1> QED
  BY <1>2, <1>7, <1>8, <1>9, <1>10, <1>11, <1>14, <1>15, <1>16, <1>17 DEF TE!IInv

\* w is what is on the wire and a message to put attempt n away.
PutsAway(w, n) ==
  /\ w \in Seq(TE!Messages) /\ Len(w) = Len(v4) + 1
  /\ \A i \in 1..Len(v4) : w[i] = v4[i]
  /\ \A i \in 1..Len(w) : i <= Len(v4) \/ w[i] = [kind |-> "detach", to |-> n]
  /\ \E i \in 1..Len(w) : w[i].kind = "detach" /\ w[i].to = n

LEMMA DetachAdded ==
  ASSUME TE!TypeOK, NEW n \in 1..Len(v7), NEW w, w = v4 \o <<[kind |-> "detach", to |-> n]>>
  PROVE  PutsAway(w, n)
<1>1. PICK m : m = [kind |-> "detach", to |-> n]
  OBVIOUS
<1>2. m \in TE!Messages
  BY <1>1, Typed DEF TE!Messages
<1>3. <<m>> \in Seq(TE!Messages) /\ Len(<<m>>) = 1 /\ <<m>>[1] = m
  BY <1>2
<1>4. v4 \in Seq(TE!Messages) /\ w = v4 \o <<m>>
  BY <1>1 DEF TE!TypeOK
<1>5. PICK q : q = <<m>>
  OBVIOUS
<1>6. /\ w \in Seq(TE!Messages) /\ Len(v4) \in Nat /\ Len(w) = Len(v4) + 1
      /\ \A i \in 1..Len(v4) : w[i] = v4[i]
      /\ \A i \in 1..1 : w[Len(v4) + i] = q[i]
  BY <1>3, <1>4, <1>5, Joined
<1>7. w[Len(v4) + 1] = m
  BY <1>3, <1>5, <1>6
<1>8. \A i \in 1..Len(w) : i <= Len(v4) \/ i = Len(v4) + 1
  BY <1>6
<1>9. Len(v4) + 1 \in 1..Len(w)
  BY <1>6
<1>10. m.kind = "detach" /\ m.to = n
  BY <1>1
<1> QED
  BY <1>1, <1>6, <1>7, <1>8, <1>9, <1>10 DEF PutsAway

\* What putting the controller's attempt away sends.
LEMMA PutAway ==
  ASSUME TE!TypeOK, TE!AttemptsAreMade, NEW w, w = v4 \o TE!Detaches(v9)
  PROVE  /\ w \in Seq(TE!Messages) /\ Len(v4) <= Len(w)
         /\ \A i \in 1..Len(v4) : w[i] = v4[i]
         /\ \A i \in 1..Len(w) : i <= Len(v4) \/
              (w[i].kind = "detach" /\ w[i].to \in 1..Len(v7))
         /\ v9.active # 0 =>
              \E i \in 1..Len(w) : w[i].kind = "detach" /\ w[i].to = v9.active
<1>1. CASE v9.active = 0
  <2>1. w = v4
    BY <1>1, ConcatEmptySeq DEF TE!Detaches, TE!TypeOK
  <2>2. v4 \in Seq(TE!Messages) /\ Len(v4) \in Nat
    BY Typed DEF TE!TypeOK
  <2>3. \A i \in 1..Len(w) : i <= Len(v4)
    BY <2>1, <2>2
  <2> QED
    BY <1>1, <2>1, <2>2, <2>3
<1>2. CASE v9.active # 0
  <2>1. v9.active \in 1..Len(v7)
    BY <1>2, Typed DEF TE!AttemptsAreMade
  <2>2. w = v4 \o <<[kind |-> "detach", to |-> v9.active]>>
    BY <1>2 DEF TE!Detaches
  <2>3. /\ w \in Seq(TE!Messages) /\ Len(w) = Len(v4) + 1
        /\ \A i \in 1..Len(v4) : w[i] = v4[i]
        /\ \A i \in 1..Len(w) :
             i <= Len(v4) \/ w[i] = [kind |-> "detach", to |-> v9.active]
        /\ \E i \in 1..Len(w) : w[i].kind = "detach" /\ w[i].to = v9.active
    <3>1. PutsAway(w, v9.active)
      BY <2>1, <2>2, DetachAdded
    <3> QED
      BY <3>1 DEF PutsAway
  <2>4. \A i \in 1..Len(w) : i <= Len(v4) \/
          (w[i].kind = "detach" /\ w[i].to \in 1..Len(v7))
    <3> TAKE i \in 1..Len(w)
    <3>1. CASE w[i] = [kind |-> "detach", to |-> v9.active]
      BY <2>1, <3>1
    <3> QED
      BY <2>3, <3>1
  <2>5. Len(v4) <= Len(w)
    BY <2>3, Typed
  <2> QED
    BY <2>3, <2>4, <2>5
<1> QED
  BY <1>1, <1>2

\* The controller without what the invariant does not ask about.
SameQueue ==
  /\ v9' \in TE!Controllers /\ v9'.attempt = v9.attempt /\ v9'.active = v9.active
  /\ v9'.queue = v9.queue /\ v9'.sending = v9.sending /\ v9'.unavailable = v9.unavailable

LEMMA PaneSteps ==
  ASSUME TE!IInv, UNCHANGED <<v1, v2, v3, v4, v5, v6, v7, v11>>,
         SameQueue, v8' \in TE!Panes, v8'.session = v8.session
  PROVE  TE!IInv'
<1>1. TE!TypeOK /\ TE!AttemptsAreMade
  BY DEF TE!IInv
<1>2. /\ Len(v4) \in Nat /\ Len(v5) \in Nat /\ v4 \in Seq(TE!Messages) /\ v5 \in Seq(TE!Answers)
      /\ v9.active \in Nat
  BY <1>1, Typed DEF TE!TypeOK
<1>3. /\ v9'.attempt \in {0, v9.attempt} /\ v9'.active \in {0, v9'.attempt}
      /\ v9'.active = 0 => v9'.queue = << >> /\ v9'.sending = None
  BY <1>1 DEF TE!AttemptsAreMade, SameQueue
<1>4. 0 \in {0, 1} /\ Len(v5') + 0 = Len(v5)
      /\ \A i \in 1..Len(v5') : v5'[i] = v5[i + 0]
  BY <1>2
<1>5. /\ Len(v4) <= Len(v4') /\ \A i \in 1..Len(v4') : i <= Len(v4)
      /\ 0 # 1
  BY <1>2
<1>6. /\ v9' \in TE!Controllers /\ v9'.active = v9.active /\ v9'.sending = v9.sending
      /\ ~v9'.unavailable => ~v9.unavailable /\ v9'.queue = v9.queue
  BY DEF SameQueue
<1> QED
  BY <1>2, <1>3, <1>4, <1>5, <1>6, TerminalSteps, ZenonT(60)

LEMMA NewTyped ==
  /\ TE!NewController \in TE!Controllers
  /\ TE!NewController.attempt = 0 /\ TE!NewController.active = 0
  /\ TE!NewController.queue = << >> /\ TE!NewController.sending = None
  /\ ~TE!NewController.unavailable
BY EmptySeq DEF TE!NewController, TE!Controllers, TE!States

LEMMA RerenderKeeps ==
  ASSUME TE!IInv, TE!Rerender
  PROVE  TE!IInv'
<1>1. TE!TypeOK /\ TE!AttemptsAreMade
  BY DEF TE!IInv
<1>2. /\ UNCHANGED <<v1, v2, v3, v6, v7, v11, v5>>
      /\ v9' = TE!NewController /\ v4' = v4 \o TE!Detaches(v9)
      /\ v8' = [v8 EXCEPT !.clipboard = TE!Reads(v8), !.hooked = FALSE, !.due = FALSE]
  BY DEF TE!Rerender, TE!mainVars
<1>3. v8' \in TE!Panes /\ v8'.session = v8.session
  <2>1. PICK r : r = TE!Reads(v8)
    OBVIOUS
  <2>2. /\ r \in [session : TerminalSessions \cup {None}, same : BOOLEAN] \cup {None}
        /\ v8 \in TE!Panes
    BY <1>1, <2>1, ReadsTyped DEF TE!TypeOK
  <2> QED
    BY <1>2, <2>1, <2>2 DEF TE!Panes
<1>4. /\ v4' \in Seq(TE!Messages) /\ Len(v4) <= Len(v4')
      /\ \A i \in 1..Len(v4) : v4'[i] = v4[i]
      /\ \A i \in 1..Len(v4') : i <= Len(v4) \/
           (v4'[i].kind = "detach" /\ v4'[i].to \in 1..Len(v7))
      /\ v9.active # 0 =>
           \E i \in 1..Len(v4') : v4'[i].kind = "detach" /\ v4'[i].to = v9.active
  BY <1>1, <1>2, PutAway
<1>5. /\ v9' \in TE!Controllers /\ v9'.attempt = 0 /\ v9'.active = 0
      /\ v9'.queue = << >> /\ v9'.sending = None
  BY <1>2, NewTyped
<1>6. /\ 0 \in {0, 1} /\ 0 # 1 /\ v5' \in Seq(TE!Answers) /\ Len(v5') + 0 = Len(v5)
      /\ \A i \in 1..Len(v5') : v5'[i] = v5[i + 0]
  BY <1>1, <1>2, Typed DEF TE!TypeOK
<1>7. v9'.attempt \in {0, v9.attempt} /\ v9'.active \in {0, v9'.attempt}
  BY <1>5
<1> QED
  BY <1>2, <1>3, <1>4, <1>5, <1>6, <1>7, TerminalSteps, ZenonT(60)

\* The window's steps that only change what the pane shows.
LEMMA RefusedKeeps ==
  ASSUME TE!IInv, NEW p \in TE!Panes, p.session = v8.session, TE!Refused(p)
  PROVE  TE!IInv'
<1>1. UNCHANGED <<v1, v2, v3, v4, v5, v6, v7, v11, v9>>
  BY DEF TE!Refused, TE!mainVars
<1>2. v8' \in TE!Panes /\ v8'.session = v8.session
  BY PaneTyped DEF TE!Refused, TE!IInv, TE!TypeOK
<1>3. SameQueue
  BY <1>1 DEF SameQueue, TE!IInv, TE!TypeOK
<1> QED
  BY <1>1, <1>2, <1>3, PaneSteps

LEMMA FocusKeeps ==
  ASSUME TE!IInv, TE!Focus \/ TE!AskClipboard \/ TE!RejectPaste
  PROVE  TE!IInv'
<1>1. v8 \in TE!Panes /\ v9 \in TE!Controllers
  BY DEF TE!IInv, TE!TypeOK
<1>2. CASE TE!Focus
  <2>1. UNCHANGED <<v1, v2, v3, v4, v5, v6, v7, v11, v9>>
    BY <1>2 DEF TE!Focus, TE!mainVars
  <2>2. PICK p : p = TE!Rendered(v8)
    OBVIOUS
  <2>3. p \in TE!Panes /\ p.session = v8.session
    BY <1>1, <2>2, PaneTyped
  <2>4. v8' \in TE!Panes /\ v8'.session = v8.session
    BY <1>2, <2>2, <2>3 DEF TE!Focus, TE!Panes
  <2> QED
    BY <1>1, <2>1, <2>4, PaneSteps DEF SameQueue
<1>3. CASE TE!AskClipboard
  <2>1. UNCHANGED <<v1, v2, v3, v4, v5, v6, v7, v11, v9>>
    BY <1>3 DEF TE!AskClipboard, TE!mainVars
  <2>2. v8' \in TE!Panes /\ v8'.session = v8.session
    <3>1. PICK c : c = [session |-> v8.session, same |-> TRUE]
      OBVIOUS
    <3>2. c \in [session : TerminalSessions \cup {None}, same : BOOLEAN]
      BY <1>1, <3>1 DEF TE!Panes
    <3>3. v8' = [v8 EXCEPT !.clipboard = c]
      BY <1>3, <3>1 DEF TE!AskClipboard
    <3> QED
      BY <1>1, <3>2, <3>3 DEF TE!Panes
  <2> QED
    BY <1>1, <2>1, <2>2, PaneSteps DEF SameQueue
<1>4. CASE TE!RejectPaste
  <2>1. PICK p : p = [v8 EXCEPT !.paste = None]
    OBVIOUS
  <2>2. p \in TE!Panes /\ p.session = v8.session
    BY <1>1, <2>1 DEF TE!Panes
  <2>3. TE!Refused(p)
    BY <1>4, <2>1 DEF TE!RejectPaste
  <2> QED
    BY <2>2, <2>3, RefusedKeeps
<1> QED
  BY <1>2, <1>3, <1>4

\* What the head of the inbox makes of the controller, as far as it matters.
LEMMA ToldIs ==
  ASSUME TE!IInv, NEW m \in TE!Answers
  PROVE  /\ TE!Told(m) \in TE!Controllers /\ TE!Told(m).attempt = v9.attempt
         /\ TE!Told(m).unavailable = v9.unavailable
         /\ \/ /\ m.to # v9.attempt \/ m.kind \notin {"attached", "exited"}
               /\ TE!Told(m).active = v9.active /\ TE!Told(m).sending = v9.sending
               /\ TE!Told(m).queue = v9.queue
            \/ /\ m.to = v9.attempt /\ m.kind = "attached"
               /\ TE!Told(m).active = m.to /\ TE!Told(m).sending = v9.sending
               /\ TE!Told(m).queue = v9.queue
            \/ /\ m.to = v9.attempt /\ m.kind = "exited"
               /\ TE!Told(m).active = 0 /\ TE!Told(m).sending = None /\ TE!Told(m).queue = << >>
<1>1. v9 \in TE!Controllers
  BY DEF TE!IInv, TE!TypeOK
<1>2. << >> \in Seq(TE!Items)
  BY EmptySeq
<1>3. m.kind \in {"attached", "refused", "started", "failed", "exited"} /\ m.to \in Nat
  BY DEF TE!Answers
<1>4. CASE m.to # v9.attempt
  BY <1>1, <1>4 DEF TE!Told, TE!IsLate
<1>5. CASE m.to = v9.attempt /\ m.kind = "attached"
  <2>1. TE!Told(m) = [v9 EXCEPT !.active = m.to, !.state = "connected"]
    BY <1>5 DEF TE!Told, TE!IsLate
  <2> QED
    BY <1>1, <1>3, <1>5, <2>1 DEF TE!Controllers, TE!States
<1>6. CASE m.to = v9.attempt /\ m.kind = "exited"
  <2>1. PICK x : x = IF v9.fatal THEN "failed" ELSE "exited"
    OBVIOUS
  <2>2. TE!Told(m) = [v9 EXCEPT !.state = x, !.active = 0, !.queue = << >>, !.sending = None]
    BY <1>6, <2>1 DEF TE!Told, TE!IsLate
  <2>3. x \in TE!States
    BY <2>1 DEF TE!States
  <2>4. PICK q : q = << >> /\ q \in Seq(TE!Items)
    BY <1>2
  <2>5. PICK r : r = [v9 EXCEPT !.state = x, !.active = 0, !.queue = q, !.sending = None]
    OBVIOUS
  <2>6. r \in TE!Controllers
    BY <1>1, <2>3, <2>4, <2>5 DEF TE!Controllers
  <2>7. /\ r.attempt = v9.attempt /\ r.unavailable = v9.unavailable
        /\ r.active = 0 /\ r.sending = None /\ r.queue = q
    BY <1>1, <2>5 DEF TE!Controllers
  <2>8. TE!Told(m) = r
    BY <2>2, <2>4, <2>5
  <2> QED
    BY <1>6, <2>4, <2>6, <2>7, <2>8
<1>7. CASE m.to = v9.attempt /\ m.kind = "failed"
  <2>1. TE!Told(m) = [v9 EXCEPT !.state = "failed", !.fatal = TRUE]
    BY <1>7 DEF TE!Told, TE!IsLate
  <2> QED
    BY <1>1, <1>7, <2>1 DEF TE!Controllers, TE!States
<1>8. CASE m.to = v9.attempt /\ m.kind \in {"refused", "started"}
  <2>1. m.kind = "refused" => TE!Told(m) = [v9 EXCEPT !.state = "failed"]
    BY <1>8 DEF TE!Told, TE!IsLate
  <2>2. m.kind = "started" => TE!Told(m) = [v9 EXCEPT !.state = "connected"]
    BY <1>8 DEF TE!Told, TE!IsLate
  <2>3. PICK x \in TE!States : TE!Told(m) = [v9 EXCEPT !.state = x]
    BY <1>8, <2>1, <2>2 DEF TE!States
  <2> QED
    BY <1>1, <1>8, <2>3 DEF TE!Controllers
<1> QED
  BY <1>3, <1>4, <1>5, <1>6, <1>7, <1>8

LEMMA ReceiveKeeps ==
  ASSUME TE!IInv, TE!Receive
  PROVE  TE!IInv'
<1>1. TE!TypeOK /\ TE!AttemptsAreMade /\ TE!AttachedOnce
  BY DEF TE!IInv
<1>2. PICK m : m = Head(v5)
  OBVIOUS
<1>3. /\ v5 # << >> /\ v5' = Tail(v5)
      /\ UNCHANGED <<v1, v2, v3, v6, v7, v11>>
      /\ v9' = TE!Told(m) /\ v8' = TE!Shown(v8, v9, v9')
      /\ v4' = v4 \o
           CASE m.kind = "attached" /\ TE!IsLate(m.to) -> <<[kind |-> "detach", to |-> m.to]>>
             [] m.kind = "exited" /\ ~TE!IsLate(m.to) -> TE!Detaches(v9)
             [] OTHER -> << >>
  BY <1>2 DEF TE!Receive, TE!mainVars
<1>4. v5 \in Seq(TE!Answers)
  BY <1>1 DEF TE!TypeOK
<1>5. /\ m \in TE!Answers /\ m = v5[1] /\ v5' \in Seq(TE!Answers)
      /\ Len(v5') + 1 = Len(v5) /\ 1 \in 1..Len(v5)
      /\ \A i \in 1..Len(v5') : v5'[i] = v5[i + 1]
  BY <1>2, <1>3, <1>4, FirstTaken
<1>6. /\ v9' \in TE!Controllers /\ v9'.attempt = v9.attempt
      /\ v9'.unavailable = v9.unavailable
      /\ \/ /\ m.to # v9.attempt \/ m.kind \notin {"attached", "exited"}
            /\ v9'.active = v9.active /\ v9'.sending = v9.sending
            /\ v9'.queue = v9.queue
         \/ /\ m.to = v9.attempt /\ m.kind = "attached"
            /\ v9'.active = m.to /\ v9'.sending = v9.sending
            /\ v9'.queue = v9.queue
         \/ /\ m.to = v9.attempt /\ m.kind = "exited"
            /\ v9'.active = 0 /\ v9'.sending = None /\ v9'.queue = << >>
  BY <1>3, <1>5, ToldIs
<1>7. v8' \in TE!Panes /\ v8'.session = v8.session
  BY <1>1, <1>3, <1>6, PaneTyped DEF TE!TypeOK
<1>8. m.to \in 1..Len(v7) /\ (m.kind = "attached" => m.to # v9.active)
  BY <1>1, <1>5 DEF TE!AttemptsAreMade, TE!AttachedOnce
<1>9. v9.active = 0 => v9.queue = << >> /\ v9.sending = None
  BY <1>1 DEF TE!AttemptsAreMade
<1>10. /\ v9'.attempt \in {0, v9.attempt} /\ v9'.active \in {0, v9'.attempt}
       /\ v9'.active = 0 => v9'.queue = << >> /\ v9'.sending = None
       /\ \/ v9'.active = 0
          \/ /\ v9'.active = v9.active /\ v9'.sending = v9.sending
             /\ ~v9'.unavailable => ~v9.unavailable /\ v9'.queue = v9.queue
          \/ /\ v9'.active = m.to /\ m.kind = "attached"
             /\ v9'.sending = None /\ v9'.queue = << >>
  <2>1. v9.active \in {0, v9.attempt}
    BY <1>1 DEF TE!AttemptsAreMade
  <2> QED
    BY <1>6, <1>8, <1>9, <2>1
<1>11. /\ v4' \in Seq(TE!Messages) /\ Len(v4) <= Len(v4')
       /\ \A i \in 1..Len(v4) : v4'[i] = v4[i]
       /\ \A i \in 1..Len(v4') : i <= Len(v4) \/
            (v4'[i].kind = "detach" /\ v4'[i].to \in 1..Len(v7))
       /\ v9.active # 0 /\ v9'.active # v9.active =>
            \E i \in 1..Len(v4') : v4'[i].kind = "detach" /\ v4'[i].to = v9.active
       /\ m.kind = "attached" =>
            \/ v9'.active = m.to
            \/ \E i \in 1..Len(v4') : v4'[i].kind = "detach" /\ v4'[i].to = m.to
  <2>1. CASE m.kind = "attached" /\ m.to # v9.attempt
    <3>1. v4' = v4 \o <<[kind |-> "detach", to |-> m.to]>>
      BY <1>3, <2>1 DEF TE!IsLate
    <3>2. /\ v4' \in Seq(TE!Messages) /\ Len(v4') = Len(v4) + 1
          /\ \A i \in 1..Len(v4) : v4'[i] = v4[i]
          /\ \A i \in 1..Len(v4') :
               i <= Len(v4) \/ v4'[i] = [kind |-> "detach", to |-> m.to]
          /\ \E i \in 1..Len(v4') : v4'[i].kind = "detach" /\ v4'[i].to = m.to
      <4>1. PutsAway(v4', m.to)
        BY <1>1, <1>8, <3>1, DetachAdded
      <4> QED
        BY <4>1 DEF PutsAway
    <3>3. Len(v4) <= Len(v4')
      BY <1>1, <3>2, Typed
    <3> QED
      BY <1>6, <1>8, <2>1, <3>2, <3>3
  <2>2. CASE m.kind = "exited" /\ m.to = v9.attempt
    <3>1. v4' = v4 \o TE!Detaches(v9)
      BY <1>3, <2>2 DEF TE!IsLate
    <3> QED
      BY <1>1, <2>2, <3>1, PutAway
  <2>3. CASE /\ ~(m.kind = "attached" /\ m.to # v9.attempt)
             /\ ~(m.kind = "exited" /\ m.to = v9.attempt)
    <3>1. v4' = v4 \o << >>
      BY <1>3, <2>3 DEF TE!IsLate
    <3>2. v4' = v4 /\ v4 \in Seq(TE!Messages) /\ Len(v4) \in Nat
      BY <1>1, <3>1, ConcatEmptySeq, Typed DEF TE!TypeOK
    <3>3. \A i \in 1..Len(v4') : i <= Len(v4)
      BY <3>2
    <3>4. v9.active # 0 => v9'.active = v9.active
      <4>1. v9.active \in {0, v9.attempt}
        BY <1>1 DEF TE!AttemptsAreMade
      <4> QED
        BY <1>6, <2>3, <4>1
    <3> QED
      BY <1>6, <2>3, <3>2, <3>3, <3>4
  <2> QED
    BY <2>1, <2>2, <2>3
<1> QED
  BY <1>3, <1>5, <1>6, <1>7, <1>10, <1>11, TerminalSteps, ZenonT(60)

\* A step of the main process that gives no input to a process: it may take the
\* first message and tell the window something about one attempt.
LEMMA MainSteps ==
  ASSUME TE!IInv, TE!TypeOK', UNCHANGED <<v3, v6, v7, v9, v8, v11>>,
         NEW k \in {0, 1}, Len(v4') + k = Len(v4),
         \A i \in 1..Len(v4') : v4'[i] = v4[i + k],
         NEW top \in 0..Len(v7),
         \A i \in 1..Len(v4') : v4'[i].kind = "attach" => top < v4'[i].to,
         \A i \in 1..Len(v5') : (i \in 1..Len(v5) /\ v5'[i] = v5[i]) \/
           (i = Len(v5) + 1 /\ v5'[i].to = top /\ top # 0),
         \A i \in 1..Len(v5') : i = Len(v5) + 1 /\ v5'[i].kind = "attached" =>
           /\ top # v9.active /\ v11[top] = << >>
           /\ \A j \in 1..Len(v5) : v5[j].to # top,
         \A s \in TerminalSessions : v2'[s] \in {v2[s], 0} \/
           (/\ v2'[s] = top /\ v7[top] = s
            /\ \A i \in 1..Len(v3[s]) : v3[s][i].by <= top),
         TE!HoldersAreKnown'
  PROVE  TE!IInv'
<1>1. /\ TE!TypeOK /\ TE!AttemptsAreMade /\ TE!TakenInOrder /\ TE!AttachesAreNew /\ TE!AttachedOnce
      /\ TE!WritesAreNext /\ TE!AnswersAreTrue
  BY DEF TE!IInv
<1>2. AttemptsGrow
  BY DEF AttemptsGrow
<1>3. /\ Len(v4) \in Nat /\ Len(v5) \in Nat /\ Len(v7) \in Nat
      /\ top \in Nat /\ k \in Nat /\ 0 \in Nat
  BY <1>1, Typed
<1>4. \A i \in 1..Len(v4') : i + k \in 1..Len(v4) /\ v4'[i] = v4[i + k]
  <2>1. Len(v4') \in Nat
    BY LenProperties DEF TE!TypeOK
  <2> QED
    BY <1>3, <2>1
<1>5. TE!AttemptsAreMade'
  <2>1. \A i \in 1..Len(v4') : v4'[i].to \in 1..Len(v7)
    BY <1>1, <1>4, SMTT(30) DEF TE!AttemptsAreMade
  <2>2. \A i \in 1..Len(v5') : v5'[i].to \in 1..Len(v7)
    BY <1>1, <1>3 DEF TE!AttemptsAreMade
  <2>3. \A s \in TerminalSessions : v2'[s] # 0 =>
          v2'[s] <= Len(v7) /\ v7[v2'[s]] = s
    BY <1>1, <1>3 DEF TE!AttemptsAreMade
  <2> QED
    BY <1>1, <2>1, <2>2, <2>3 DEF TE!AttemptsAreMade
<1>6. TE!TakenInOrder'
  BY <1>2, TakenStays
<1>7. TE!LogIsTaken' /\ TE!NothingIsSkipped'
  <2>1. \A n \in 1..MaxAttempts : Len(v11[n]) <= Len(v11'[n])
    BY <1>1, Typed
  <2>2. \A s \in TerminalSessions : v2'[s] # 0 =>
           v2'[s] = v2[s] \/ \A i \in 1..Len(v3[s]) : v3[s][i].by <= v2'[s]
    OBVIOUS
  <2> QED
    BY <1>2, <1>6, <2>1, <2>2, LogStays
<1>8. TE!AttachesAreNew'
  <2>1. \A i \in 1..Len(v4') : v4'[i].kind = "attach" =>
          i + k \in 1..Len(v4) /\ v4'[i] = v4[i + k] /\ top < v4'[i].to
    BY <1>4
  <2>2. \A j \in 1..Len(v5') :
          v5'[j].to = top \/ \E l \in 1..Len(v5) : v5'[j].to = v5[l].to
    OBVIOUS
  <2>3. /\ \A s \in TerminalSessions : v2'[s] \in {v2[s], 0, top}
        /\ v9'.active \in {0, v9.active, top}
        /\ \A m \in 1..MaxAttempts : v11'[m] = v11[m] \/ m = top
    OBVIOUS
  <2> QED
    BY <1>3, <2>1, <2>2, <2>3, AttachesStay, Zenon
<1>9. TE!AttachedOnce'
  <2>1. CASE \E i \in 1..Len(v5') : i = Len(v5) + 1 /\ v5'[i].kind = "attached"
    <3>1. /\ top # v9.active /\ v11[top] = << >>
          /\ \A j \in 1..Len(v5) : v5[j].to # top
      BY <2>1
    <3>2. \A i \in 1..Len(v5') : v5'[i].kind = "attached" =>
            v5'[i].to # v9.active /\ v11[v5'[i].to] = << >>
      BY <1>1, <3>1 DEF TE!AttachedOnce
    <3>3. \A i, j \in 1..Len(v5') :
            v5'[i].kind = "attached" /\ v5'[j].kind = "attached"
              /\ v5'[j].to = v5'[i].to => j = i
      <4> SUFFICES ASSUME NEW i \in 1..Len(v5'), NEW j \in 1..Len(v5'),
                          v5'[i].kind = "attached", v5'[j].kind = "attached",
                          v5'[j].to = v5'[i].to
                   PROVE  j = i
        OBVIOUS
      <4>1. CASE i \in 1..Len(v5) /\ v5'[i] = v5[i]
        <5>1. v5'[j].to # top
          BY <3>1, <4>1
        <5>2. j \in 1..Len(v5) /\ v5'[j] = v5[j]
          BY <5>1
        <5> QED
          BY <1>1, <4>1, <5>2 DEF TE!AttachedOnce
      <4>2. CASE i = Len(v5) + 1 /\ v5'[i].to = top
        <5>1. ~(j \in 1..Len(v5) /\ v5'[j] = v5[j])
          BY <3>1, <4>2
        <5> QED
          BY <4>2, <5>1
      <4> QED
        BY <4>1, <4>2
    <3>4. v9' = v9 /\ v11' = v11
      OBVIOUS
    <3>5. \A i \in 1..Len(v5') : v5'[i].kind = "attached" =>
            /\ v5'[i].to # v9'.active /\ v11'[v5'[i].to] = << >>
            /\ \A j \in 1..Len(v5') :
                 v5'[j].kind = "attached" /\ v5'[j].to = v5'[i].to => j = i
      BY <3>2, <3>3, <3>4
    <3> QED
      BY <3>5, Zenon DEF TE!AttachedOnce
  <2>2. CASE \A i \in 1..Len(v5') : v5'[i].kind = "attached" => i # Len(v5) + 1
    <3>0. \A i \in 1..Len(v5) : i + 0 = i /\ (v5[i].kind = "attached" =>
            v5[i].to # v9.active /\ v11[v5[i].to] = << >>)
      BY <1>1, <1>3 DEF TE!AttachedOnce
    <3>1. \A i \in 1..Len(v5') : v5'[i].kind = "attached" =>
            /\ i + 0 \in 1..Len(v5) /\ v5'[i] = v5[i + 0]
            /\ v5'[i].to # v9'.active /\ v11'[v5'[i].to] = << >>
      BY <2>2, <3>0
    <3> QED
      BY <1>3, <3>1, AttachedStay, Zenon
  <2> QED
    BY <2>1, <2>2
<1>10. \A n \in 1..Len(v7), p \in Nat : TE!GivenUpTo(n, p) => TE!GivenUpTo(n, p)'
  BY <1>2, GivenStays
<1>11. TE!WritesAreNext'
  <2>1. \A i \in 1..Len(v4') : v4'[i].kind = "write" =>
          /\ i + k \in 1..Len(v4) /\ v4'[i] = v4[i + k]
          /\ \A a \in v6' : a.to # v4'[i].to
          /\ v4'[i].to = v9'.active =>
               v4'[i].to = v9.active /\ v9'.sending = v9.sending
    <3> SUFFICES ASSUME NEW i \in 1..Len(v4'), v4'[i].kind = "write"
                 PROVE  /\ i + k \in 1..Len(v4) /\ v4'[i] = v4[i + k]
                        /\ \A a \in v6 : a.to # v4'[i].to
      OBVIOUS
    <3>1. PICK j \in 1..Len(v4) : j = i + k /\ v4'[i] = v4[j]
      BY <1>4
    <3>2. \A a \in v6 : a.to # v4[j].to
      BY <1>1, <3>1 DEF TE!WritesAreNext
    <3> QED
      BY <3>1, <3>2
  <2>2. \A n \in 1..MaxAttempts : Len(v11[n]) <= Len(v11'[n])
    BY <1>1, Typed
  <2> QED
    BY <1>2, <1>3, <1>10, <2>1, <2>2, WritesStay
<1>12. TE!AnswersAreTrue'
  BY <1>2, <1>10, AnswersStay
<1>13. TE!QueueIsTaken'
  <2>1. v9' \in TE!Controllers
    BY DEF TE!TypeOK
  <2> QED
    BY <2>1, QueueStays
<1> QED
  BY <1>5, <1>6, <1>7, <1>8, <1>9, <1>11, <1>12, <1>13 DEF TE!IInv

\* The main process takes the first message.
LEMMA WireTaken ==
  ASSUME TE!TypeOK, NEW kind, TE!Takes(kind)
  PROVE  /\ v4' \in Seq(TE!Messages) /\ Len(v4) \in Nat /\ Len(v4') \in Nat
         /\ Len(v4') + 1 = Len(v4) /\ 1 \in 1..Len(v4)
         /\ Head(v4) = v4[1] /\ v4[1].kind = kind
         /\ \A i \in 1..Len(v4') : i + 1 \in 1..Len(v4) /\ v4'[i] = v4[i + 1]
         /\ \A i \in 1..Len(v4) : i # 1 => i - 1 \in 1..Len(v4') /\ v4'[i - 1] = v4[i]
<1>1. v4 \in Seq(TE!Messages) /\ v4 # << >> /\ v4' = Tail(v4) /\ Head(v4).kind = kind
  BY DEF TE!TypeOK, TE!Takes
<1>2. /\ v4' \in Seq(TE!Messages) /\ Head(v4) = v4[1] /\ Len(v4) \in Nat /\ Len(v4) >= 1
      /\ Len(v4') = Len(v4) - 1
      /\ \A i \in 1..Len(v4') : i + 1 \in 1..Len(v4) /\ v4'[i] = v4[i + 1]
  BY <1>1, FirstTaken
<1>3. \A i \in 1..Len(v4) : i # 1 => i - 1 \in 1..Len(v4') /\ v4'[i - 1] = v4[i]
  <2> TAKE i \in 1..Len(v4)
  <2> HAVE i # 1
  <2>1. i - 1 \in 1..Len(v4') /\ (i - 1) + 1 = i
    BY <1>2
  <2> QED
    BY <1>2, <2>1
<1> QED
  BY <1>1, <1>2, <1>3

LEMMA MainDetachesKeeps ==
  ASSUME TE!IInv, TE!MainDetaches
  PROVE  TE!IInv'
<1>1. TE!TypeOK /\ TE!AttemptsAreMade /\ TE!HoldersAreKnown
  BY DEF TE!IInv
<1>2. PICK n : n = v4[1].to
  OBVIOUS
<1>3. /\ v4' \in Seq(TE!Messages) /\ Len(v4) \in Nat /\ Len(v4') \in Nat
      /\ Len(v4') + 1 = Len(v4) /\ 1 \in 1..Len(v4)
      /\ Head(v4) = v4[1] /\ v4[1].kind = "detach"
      /\ \A i \in 1..Len(v4') : i + 1 \in 1..Len(v4) /\ v4'[i] = v4[i + 1]
      /\ \A i \in 1..Len(v4) : i # 1 => i - 1 \in 1..Len(v4') /\ v4'[i - 1] = v4[i]
  BY <1>1, WireTaken DEF TE!MainDetaches
<1>4. /\ UNCHANGED <<v1, v3, v5, v6, v7, v8, v9, v11>>
      /\ v2' = IF v2[v7[n]] = n THEN [v2 EXCEPT ![v7[n]] = 0]
               ELSE v2
  BY <1>2, <1>3 DEF TE!MainDetaches, TE!windowVars
<1>5. n \in 1..Len(v7) /\ v7[n] \in TerminalSessions
  BY <1>1, <1>2, <1>3, Typed DEF TE!AttemptsAreMade
<1>6. TE!TypeOK'
  BY <1>1, <1>3, <1>4 DEF TE!TypeOK
<1>7. \A s \in TerminalSessions : v2'[s] \in {v2[s], 0} /\ (v2[s] = n => v2'[s] = 0)
  <2> TAKE s \in TerminalSessions
  <2>1. n # 0 /\ v2 \in [TerminalSessions -> Nat]
    BY <1>1, <1>5 DEF TE!TypeOK
  <2>2. v2[s] = n => v7[n] = s
    BY <1>1, <2>1 DEF TE!AttemptsAreMade
  <2> QED
    BY <1>4, <1>5, <2>1, <2>2
<1>8. TE!HoldersAreKnown'
  <2> SUFFICES ASSUME NEW s \in TerminalSessions, v2'[s] # 0
               PROVE  \/ v2'[s] = v9.active
                      \/ \E i \in 1..Len(v4') :
                           v4'[i].kind = "detach" /\ v4'[i].to = v2'[s]
                      \/ \E i \in 1..Len(v5) :
                           v5[i].kind = "attached" /\ v5[i].to = v2'[s]
    BY <1>4 DEF TE!HoldersAreKnown
  <2>1. v2'[s] = v2[s] /\ v2[s] # 0 /\ v2[s] # n
    BY <1>7
  <2>2. ASSUME NEW i \in 1..Len(v4), v4[i].kind = "detach", v4[i].to = v2[s]
        PROVE  \E j \in 1..Len(v4') : v4'[j].kind = "detach" /\ v4'[j].to = v2'[s]
    <3>1. i - 1 \in 1..Len(v4') /\ v4'[i - 1] = v4[i]
      BY <1>2, <1>3, <2>1, <2>2
    <3> QED
      BY <2>1, <2>2, <3>1
  <2> QED
    BY <1>1, <2>1, <2>2 DEF TE!HoldersAreKnown
<1>9. /\ 1 \in {0, 1} /\ 0 \in 0..Len(v7)
      /\ \A i \in 1..Len(v4') : v4'[i].kind = "attach" => 0 < v4'[i].to
  <2>1. Len(v7) \in Nat
    BY <1>1, Typed
  <2>2. \A i \in 1..Len(v4) : v4[i].to \in 1..Len(v7)
    BY <1>1 DEF TE!AttemptsAreMade
  <2> QED
    BY <1>3, <2>1, <2>2
<1>10. /\ \A i \in 1..Len(v5') : (i \in 1..Len(v5) /\ v5'[i] = v5[i]) \/
            (i = Len(v5) + 1 /\ v5'[i].to = 0 /\ 0 # 0)
       /\ \A i \in 1..Len(v5') : i = Len(v5) + 1 /\ v5'[i].kind = "attached" =>
            /\ 0 # v9.active /\ v11[0] = << >>
            /\ \A j \in 1..Len(v5) : v5[j].to # 0
  BY <1>1, <1>4, Typed, SMTT(30)
<1> QED
  BY <1>3, <1>4, <1>6, <1>7, <1>8, <1>9, <1>10, MainSteps

LEMMA ReportsKeep ==
  ASSUME TE!IInv, NEW s \in TerminalSessions, TE!Starts(s) \/ TE!Fails(s) \/ TE!Exits(s)
  PROVE  TE!IInv'
<1>1. TE!TypeOK /\ TE!AttemptsAreMade /\ TE!HoldersAreKnown /\ TE!AttachesAreNew
  BY DEF TE!IInv
<1>2. PICK to, kind :
        /\ to \in {"running", "failed", "gone"} /\ kind \in {"started", "failed", "exited"}
        /\ v1' = [v1 EXCEPT ![s] = to]
        /\ IF v2[s] = 0 THEN UNCHANGED v5 ELSE TE!Tells(v2[s], kind)
        /\ UNCHANGED <<v2, v3, v4, v6, TE!windowVars>>
  BY DEF TE!Starts, TE!Fails, TE!Exits, TE!Reports
<1>3. UNCHANGED <<v2, v3, v4, v6, v7, v8, v9, v11>>
  BY <1>2 DEF TE!windowVars
<1>4. /\ Len(v7) \in Nat /\ Len(v5) \in Nat /\ Len(v4) \in Nat
      /\ v2[s] \in Nat /\ v5 \in Seq(TE!Answers)
  BY <1>1, Typed DEF TE!TypeOK
<1>5. v2[s] \in 0..Len(v7)
  BY <1>1, <1>4 DEF TE!AttemptsAreMade
<1>6. PICK m : m = [kind |-> kind, to |-> v2[s]]
  OBVIOUS
<1>7. m \in TE!Answers /\ m.to = v2[s] /\ m.kind # "attached"
  BY <1>2, <1>4, <1>6 DEF TE!Answers
<1>8. v5' = v5 \/ (v2[s] # 0 /\ v5' = Append(v5, m))
  BY <1>2, <1>6 DEF TE!Tells
<1>9. /\ Append(v5, m) \in Seq(TE!Answers) /\ Len(Append(v5, m)) = Len(v5) + 1
      /\ \A i \in 1..Len(v5) : Append(v5, m)[i] = v5[i]
      /\ Append(v5, m)[Len(v5) + 1] = m
  BY <1>4, <1>7, Added
<1>10. /\ v5' \in Seq(TE!Answers) /\ Len(v5') \in Nat /\ Len(v5) <= Len(v5')
       /\ \A i \in 1..Len(v5) : v5'[i] = v5[i]
       /\ \A i \in 1..Len(v5') : (i \in 1..Len(v5) /\ v5'[i] = v5[i]) \/
            (i = Len(v5) + 1 /\ v5'[i] = m /\ v2[s] # 0)
  <2>1. CASE v5' = v5
    BY <1>4, <2>1
  <2>2. CASE v2[s] # 0 /\ v5' = Append(v5, m)
    <3>1. /\ v5' \in Seq(TE!Answers) /\ Len(v5') = Len(v5) + 1
          /\ \A i \in 1..Len(v5) : v5'[i] = v5[i]
          /\ v5'[Len(v5) + 1] = m
      BY <1>9, <2>2
    <3>2. \A i \in 1..Len(v5') : i \in 1..Len(v5) \/ i = Len(v5) + 1
      BY <1>4, <3>1
    <3>3. Len(v5') \in Nat /\ Len(v5) <= Len(v5')
      BY <1>4, <3>1
    <3>4. ASSUME NEW i \in 1..Len(v5')
          PROVE  (i \in 1..Len(v5) /\ v5'[i] = v5[i]) \/
                   (i = Len(v5) + 1 /\ v5'[i] = m /\ v2[s] # 0)
      <4>1. CASE i \in 1..Len(v5)
        BY <3>1, <4>1
      <4>2. CASE i = Len(v5) + 1
        BY <2>2, <3>1, <4>2
      <4> QED
        BY <3>2, <4>1, <4>2
    <3> QED
      BY <3>1, <3>3, <3>4
  <2> QED
    BY <1>8, <2>1, <2>2
<1>11. TE!TypeOK'
  <2>1. v1' \in [TerminalSessions -> {"starting", "running", "failed", "gone"}]
    BY <1>1, <1>2 DEF TE!TypeOK
  <2> QED
    BY <1>1, <1>3, <1>10, <2>1 DEF TE!TypeOK
<1>12. TE!HoldersAreKnown'
  <2> SUFFICES ASSUME NEW r \in TerminalSessions, v2[r] # 0
               PROVE  \/ v2[r] = v9.active
                      \/ \E i \in 1..Len(v4) :
                           v4[i].kind = "detach" /\ v4[i].to = v2[r]
                      \/ \E i \in 1..Len(v5') :
                           v5'[i].kind = "attached" /\ v5'[i].to = v2[r]
    BY <1>3 DEF TE!HoldersAreKnown
  <2>1. \A i \in 1..Len(v5) : i \in 1..Len(v5') /\ v5'[i] = v5[i]
    BY <1>4, <1>10
  <2> QED
    BY <1>1, <2>1 DEF TE!HoldersAreKnown
<1>13. /\ 0 \in {0, 1} /\ Len(v4') + 0 = Len(v4)
       /\ \A i \in 1..Len(v4') : v4'[i] = v4[i + 0]
       /\ \A i \in 1..Len(v4') : v4'[i].kind = "attach" => v2[s] < v4'[i].to
       /\ \A r \in TerminalSessions : v2'[r] \in {v2[r], 0}
  BY <1>1, <1>3, <1>4 DEF TE!AttachesAreNew
<1>14. /\ \A i \in 1..Len(v5') : (i \in 1..Len(v5) /\ v5'[i] = v5[i]) \/
            (i = Len(v5) + 1 /\ v5'[i].to = v2[s] /\ v2[s] # 0)
       /\ \A i \in 1..Len(v5') : i = Len(v5) + 1 => v5'[i].kind # "attached"
  <2>1. Len(v5) + 1 \notin 1..Len(v5)
    BY <1>4
  <2> QED
    BY <1>7, <1>10, <2>1
<1> QED
  BY <1>3, <1>5, <1>11, <1>12, <1>13, <1>14, MainSteps, ZenonT(60)

LEMMA MainAttachesKeeps ==
  ASSUME TE!IInv, TE!MainAttaches
  PROVE  TE!IInv'
<1>1. /\ TE!TypeOK /\ TE!AttemptsAreMade /\ TE!HoldersAreKnown /\ TE!AttachesAreNew /\ TE!LogIsTaken
  BY DEF TE!IInv
<1>2. PICK n, s : n = v4[1].to /\ s = v7[n]
  OBVIOUS
<1>3. /\ v4' \in Seq(TE!Messages) /\ Len(v4) \in Nat /\ Len(v4') \in Nat
      /\ Len(v4') + 1 = Len(v4) /\ 1 \in 1..Len(v4)
      /\ Head(v4) = v4[1] /\ v4[1].kind = "attach"
      /\ \A i \in 1..Len(v4') : i + 1 \in 1..Len(v4) /\ v4'[i] = v4[i + 1]
      /\ \A i \in 1..Len(v4) : i # 1 => i - 1 \in 1..Len(v4') /\ v4'[i - 1] = v4[i]
  BY <1>1, WireTaken DEF TE!MainAttaches
<1>4. /\ UNCHANGED <<v1, v3, v6, v7, v8, v9, v11>>
      /\ IF TE!IsFree(s) THEN v2' = [v2 EXCEPT ![s] = n] /\ TE!Tells(n, "attached")
         ELSE TE!Tells(n, "refused") /\ UNCHANGED v2
  BY <1>2, <1>3 DEF TE!MainAttaches, TE!windowVars
<1>5. /\ n \in 1..Len(v7) /\ s \in TerminalSessions /\ n \in 1..MaxAttempts /\ n \in Nat
      /\ Len(v7) \in Nat /\ Len(v5) \in Nat /\ v5 \in Seq(TE!Answers)
      /\ v2 \in [TerminalSessions -> Nat]
  BY <1>1, <1>2, <1>3, Typed DEF TE!AttemptsAreMade, TE!TypeOK
<1>6. /\ \A r \in TerminalSessions : v2[r] < n
      /\ \A j \in 1..Len(v5) : v5[j].to < n
      /\ v9.active < n
      /\ \A m \in 1..MaxAttempts : n <= m => v11[m] = << >>
      /\ \A j \in 1..Len(v4) : 1 < j /\ v4[j].kind = "attach" => n < v4[j].to
  BY <1>1, <1>2, <1>3 DEF TE!AttachesAreNew
<1>7. PICK kind, m : /\ kind = IF TE!IsFree(s) THEN "attached" ELSE "refused"
                     /\ m = [kind |-> kind, to |-> n]
  OBVIOUS
<1>8. m \in TE!Answers /\ m.to = n /\ m.kind = kind /\ v5' = Append(v5, m)
  BY <1>4, <1>5, <1>7 DEF TE!Answers, TE!Tells
<1>9. /\ v5' \in Seq(TE!Answers) /\ Len(v5') = Len(v5) + 1
      /\ \A i \in 1..Len(v5) : v5'[i] = v5[i]
      /\ v5'[Len(v5) + 1] = m
  BY <1>5, <1>8, Added
<1>10. \A i \in 1..Len(v5') : (i \in 1..Len(v5) /\ v5'[i] = v5[i]) \/
         (i = Len(v5) + 1 /\ v5'[i].to = n /\ n # 0)
  BY <1>5, <1>8, <1>9
<1>11. v2' = v2 \/ (kind = "attached" /\ v2' = [v2 EXCEPT ![s] = n])
  BY <1>4, <1>7
<1>12. TE!TypeOK'
  <2>1. v2' \in [TerminalSessions -> Nat]
    BY <1>5, <1>11
  <2> QED
    BY <1>1, <1>3, <1>4, <1>9, <2>1 DEF TE!TypeOK
<1>13. TE!HoldersAreKnown'
  <2> SUFFICES ASSUME NEW r \in TerminalSessions, v2'[r] # 0
               PROVE  \/ v2'[r] = v9.active
                      \/ \E i \in 1..Len(v4') :
                           v4'[i].kind = "detach" /\ v4'[i].to = v2'[r]
                      \/ \E i \in 1..Len(v5') :
                           v5'[i].kind = "attached" /\ v5'[i].to = v2'[r]
    BY <1>4 DEF TE!HoldersAreKnown
  <2>1. CASE v2'[r] = n /\ kind = "attached"
    <3>1. Len(v5) + 1 \in 1..Len(v5')
      BY <1>5, <1>9
    <3> QED
      BY <1>8, <1>9, <2>1, <3>1
  <2>2. CASE v2'[r] = v2[r]
    <3>1. \A i \in 1..Len(v4) : v4[i].kind = "detach" =>
            i - 1 \in 1..Len(v4') /\ v4'[i - 1] = v4[i]
      BY <1>3
    <3>2. \A i \in 1..Len(v5) : i \in 1..Len(v5') /\ v5'[i] = v5[i]
      BY <1>5, <1>9
    <3> QED
      BY <1>1, <2>2, <3>1, <3>2 DEF TE!HoldersAreKnown
  <2> QED
    BY <1>5, <1>11, <2>1, <2>2
<1>14. /\ 1 \in {0, 1} /\ n \in 0..Len(v7)
       /\ \A i \in 1..Len(v4') : v4'[i].kind = "attach" => n < v4'[i].to
  <2>1. \A i \in 1..Len(v4') : 1 < i + 1
    OBVIOUS
  <2> QED
    BY <1>3, <1>5, <1>6, <2>1
<1>15. n # v9.active /\ v11[n] = << >> /\ \A j \in 1..Len(v5) : v5[j].to # n
  <2>1. v9.active \in Nat /\ \A j \in 1..Len(v5) : v5[j].to \in Nat
    BY <1>1, Typed
  <2> QED
    BY <1>5, <1>6, <2>1
<1>16. \A i \in 1..Len(v3[s]) : v3[s][i].by <= n
  <2> SUFFICES ASSUME NEW i \in 1..Len(v3[s]), ~(v3[s][i].by <= n)
               PROVE  FALSE
    OBVIOUS
  <2>1. PICK b : b = v3[s][i].by
    OBVIOUS
  <2>2. b \in 1..Len(v7) /\ v3[s][i].nth \in 1..Len(v11[b])
    BY <1>1, <1>5, <2>1 DEF TE!LogIsTaken
  <2>3. b \in 1..MaxAttempts /\ n <= b
    BY <1>1, <1>5, <2>1, <2>2, Typed, SMTT(30)
  <2>4. v11[b] = << >>
    BY <1>6, <2>3
  <2> QED
    BY <2>2, <2>4, EmptySeq
<1>17. \A r \in TerminalSessions : v2'[r] \in {v2[r], 0} \/
         (/\ v2'[r] = n /\ v7[n] = r
          /\ \A i \in 1..Len(v3[r]) : v3[r][i].by <= n)
  BY <1>2, <1>5, <1>11, <1>16
<1> QED
  BY <1>3, <1>4, <1>10, <1>12, <1>13, <1>14, <1>15, <1>17, MainSteps

\* What the log of Session s is after it was given one thing more.
Longer(s, item) ==
  /\ v3' \in [TerminalSessions -> Seq(TE!Items)] /\ s \in TerminalSessions /\ Len(v3[s]) \in Nat
  /\ \A r \in TerminalSessions : r # s => v3'[r] = v3[r]
  /\ Len(v3'[s]) = Len(v3[s]) + 1 /\ v3'[s][Len(v3[s]) + 1] = item
  /\ \A i \in 1..Len(v3[s]) : i \in 1..Len(v3'[s]) /\ v3'[s][i] = v3[s][i]
  /\ \A i \in 1..Len(v3'[s]) : i \in 1..Len(v3[s]) \/ i = Len(v3[s]) + 1

\* A process is given one thing more of what attempt n took.
LEMMA LogGrows ==
  ASSUME TE!TypeOK, v7' = v7, NEW n \in 1..Len(v7), NEW s, s = v7[n],
         NEW item \in TE!Items, item.by = n, v3' = [v3 EXCEPT ![s] = Append(@, item)]
  PROVE  /\ Longer(s, item)
         /\ \A q : \A m \in 1..Len(v7) : m # n => (TE!GivenUpTo(m, q)' <=> TE!GivenUpTo(m, q))
         /\ \A q \in Nat : TE!GivenUpTo(n, q) /\ item.nth = q + 1 => TE!GivenUpTo(n, q + 1)'
<1>1. /\ s \in TerminalSessions /\ v3 \in [TerminalSessions -> Seq(TE!Items)]
      /\ v3[s] \in Seq(TE!Items)
      /\ Len(v3[s]) \in Nat
  BY Typed DEF TE!TypeOK
<1>2. /\ Append(v3[s], item) \in Seq(TE!Items) /\ Len(Append(v3[s], item)) = Len(v3[s]) + 1
      /\ \A i \in 1..Len(v3[s]) : Append(v3[s], item)[i] = v3[s][i]
      /\ Append(v3[s], item)[Len(v3[s]) + 1] = item
  BY <1>1, Added
<1>3. PICK q : q = Append(v3[s], item)
  OBVIOUS
<1>4. /\ v3' = [v3 EXCEPT ![s] = q] /\ q \in Seq(TE!Items) /\ Len(q) = Len(v3[s]) + 1
      /\ \A i \in 1..Len(v3[s]) : q[i] = v3[s][i]
      /\ q[Len(v3[s]) + 1] = item
  BY <1>2, <1>3
<1>5. /\ v3' \in [TerminalSessions -> Seq(TE!Items)] /\ v3'[s] = q
      /\ \A r \in TerminalSessions : r # s => v3'[r] = v3[r]
  BY <1>1, <1>4
<1>6. /\ Len(v3'[s]) = Len(v3[s]) + 1 /\ v3'[s][Len(v3[s]) + 1] = item
      /\ \A i \in 1..Len(v3[s]) : i \in 1..Len(v3'[s]) /\ v3'[s][i] = v3[s][i]
      /\ \A i \in 1..Len(v3'[s]) : i \in 1..Len(v3[s]) \/ i = Len(v3[s]) + 1
  BY <1>1, <1>4, <1>5
<1>7. ASSUME NEW m \in 1..Len(v7), NEW p, m # n
      PROVE  TE!GivenUpTo(m, p)' <=> TE!GivenUpTo(m, p)
  <2>1. CASE v7[m] # s
    <3>1. v3'[v7'[m]] = v3[v7[m]]
      BY <1>5, <2>1, Typed
    <3> QED
      BY <3>1 DEF TE!GivenUpTo
  <2>2. CASE v7[m] = s
    <3>1. TE!GivenUpTo(m, p)' <=>
            /\ \A i \in 1..Len(v3'[s]) : v3'[s][i].by = m => v3'[s][i].nth <= p
            /\ p # 0 => \E i \in 1..Len(v3'[s]) : v3'[s][i].by = m /\ v3'[s][i].nth = p
      BY <2>2 DEF TE!GivenUpTo
    <3>2. TE!GivenUpTo(m, p) <=>
            /\ \A i \in 1..Len(v3[s]) : v3[s][i].by = m => v3[s][i].nth <= p
            /\ p # 0 => \E i \in 1..Len(v3[s]) : v3[s][i].by = m /\ v3[s][i].nth = p
      BY <2>2 DEF TE!GivenUpTo
    <3>3. \A i \in 1..Len(v3'[s]) : v3'[s][i].by = m =>
            i \in 1..Len(v3[s]) /\ v3'[s][i] = v3[s][i]
      BY <1>6, <1>7
    <3>4. TE!GivenUpTo(m, p)' => TE!GivenUpTo(m, p)
      BY <1>6, <3>1, <3>2, <3>3
    <3>5. TE!GivenUpTo(m, p) => TE!GivenUpTo(m, p)'
      BY <1>6, <3>1, <3>2, <3>3
    <3> QED
      BY <3>4, <3>5
  <2> QED
    BY <2>1, <2>2
<1>8. ASSUME NEW p \in Nat, TE!GivenUpTo(n, p), item.nth = p + 1
      PROVE  TE!GivenUpTo(n, p + 1)'
  <2>1. \A i \in 1..Len(v3[s]) : v3[s][i].by = n => v3[s][i].nth <= p
    BY <1>8 DEF TE!GivenUpTo
  <2>2. \A i \in 1..Len(v3[s]) : v3[s][i].nth \in Nat
    BY <1>1, Typed
  <2>3. \A i \in 1..Len(v3'[s]) : v3'[s][i].by = n => v3'[s][i].nth <= p + 1
    BY <1>6, <1>8, <2>1, <2>2
  <2>4. Len(v3[s]) + 1 \in 1..Len(v3'[s])
    BY <1>1, <1>6
  <2>5. \E i \in 1..Len(v3'[s]) : v3'[s][i].by = n /\ v3'[s][i].nth = p + 1
    BY <1>6, <1>8, <2>4
  <2>6. v7'[n] = s
    OBVIOUS
  <2> QED
    BY <2>3, <2>5, <2>6 DEF TE!GivenUpTo
<1> QED
  BY <1>1, <1>5, <1>6, <1>7, <1>8 DEF Longer

\* What a process was given stays in one piece when it is given the next thing of the
\* attempt that it is held by.
LEMMA PieceGrows ==
  ASSUME TE!IInv, UNCHANGED <<v7, v11>>, NEW n \in 1..Len(v7), NEW s,
         s = v7[n], v2[s] = n, NEW p \in 1..Len(v11[n]), TE!GivenUpTo(n, p - 1),
         NEW item \in TE!Items, item = TE!Item(n, p), item.by = n,
         v3' = [v3 EXCEPT ![s] = Append(@, item)]
  PROVE  TE!NothingIsSkipped'
<1>0. v7' = v7 /\ v11' = v11
  OBVIOUS
<1>1. TE!TypeOK /\ TE!NothingIsSkipped /\ TE!LogIsTaken /\ TE!TakenInOrder
  BY DEF TE!IInv
<1>2. /\ s \in TerminalSessions /\ Len(v3[s]) \in Nat
      /\ \A r \in TerminalSessions : r # s => v3'[r] = v3[r]
      /\ Len(v3'[s]) = Len(v3[s]) + 1 /\ v3'[s][Len(v3[s]) + 1] = item
      /\ \A i \in 1..Len(v3[s]) : i \in 1..Len(v3'[s]) /\ v3'[s][i] = v3[s][i]
      /\ \A i \in 1..Len(v3'[s]) : i \in 1..Len(v3[s]) \/ i = Len(v3[s]) + 1
  <2>1. Longer(s, item)
    BY <1>0, <1>1, LogGrows
  <2> QED
    BY <2>1 DEF Longer
<1>3. PICK len \in Nat : len = Len(v3[s])
  BY <1>2
<1>b. PICK given, later : given = v3[s] /\ later = v3'[s]
  OBVIOUS
<1>4. /\ Len(later) = len + 1 /\ later[len + 1] = item /\ Len(given) = len
      /\ \A i \in 1..len : later[i] = given[i]
      /\ \A i \in 1..(len + 1) : i \in 1..len \/ i = len + 1
  BY <1>2, <1>3, <1>b
<1> SUFFICES ASSUME NEW m \in 1..Len(v7')
             PROVE  LET now == v3'[v7'[m]]
                    IN  \E before \in 0..Len(now), k \in 0..Len(v11'[m]) :
                          /\ \A i \in 1..Len(now) :
                               now[i].by = m <=> before < i /\ i <= before + k
                          /\ \A j \in 1..k : before + j <= Len(now)
                                             /\ now[before + j] = v11'[m][j]
  BY DEF TE!NothingIsSkipped
<1>a. m \in 1..Len(v7) /\ v7'[m] = v7[m] /\ v11'[m] = v11[m]
  BY <1>0
<1>5. PICK before \in 0..Len(v3[v7[m]]), k \in 0..Len(v11[m]) :
        /\ \A i \in 1..Len(v3[v7[m]]) :
             v3[v7[m]][i].by = m <=> before < i /\ i <= before + k
        /\ \A j \in 1..k : before + j <= Len(v3[v7[m]])
                           /\ v3[v7[m]][before + j] = v11[m][j]
  BY <1>1, <1>a DEF TE!NothingIsSkipped
<1>6. Len(v11[m]) \in Nat /\ v7[m] \in TerminalSessions /\ Len(v11[n]) \in Nat
      /\ m \in 1..MaxAttempts /\ n \in 1..MaxAttempts
  BY <1>1, <1>a, Typed
<1>7. CASE v7[m] # s
  <2>1. v3'[v7[m]] = v3[v7[m]]
    BY <1>2, <1>6, <1>7
  <2>2. /\ before \in 0..Len(v3'[v7'[m]]) /\ k \in 0..Len(v11'[m])
        /\ \A i \in 1..Len(v3'[v7'[m]]) :
             v3'[v7'[m]][i].by = m <=> before < i /\ i <= before + k
        /\ \A j \in 1..k : before + j <= Len(v3'[v7'[m]])
                           /\ v3'[v7'[m]][before + j] = v11'[m][j]
    BY <1>5, <1>a, <2>1
  <2> QED
    BY <2>2, Zenon
<1>8. CASE v7[m] = s /\ m # n
  <2>1. /\ before \in 0..len /\ \A i \in 1..len : given[i].by = m <=> before < i /\ i <= before + k
        /\ \A j \in 1..k : before + j <= len /\ given[before + j] = v11[m][j]
    BY <1>3, <1>b, <1>5, <1>8
  <2>2. k = 0 \/ before + k <= len
    BY <1>6, <2>1
  <2>3. \A i \in 1..(len + 1) : later[i].by = m <=> before < i /\ i <= before + k
    <3> TAKE i \in 1..(len + 1)
    <3>1. CASE i = len + 1
      <4>1. later[i].by = n
        BY <1>4, <3>1
      <4> QED
        BY <1>6, <1>8, <2>1, <2>2, <3>1, <4>1
    <3> QED
      BY <1>4, <2>1, <3>1
  <2>4. \A j \in 1..k : before + j <= len + 1 /\ later[before + j] = v11[m][j]
    <3> TAKE j \in 1..k
    <3>1. before + j <= len /\ given[before + j] = v11[m][j] /\ before + j \in 1..len
      BY <1>6, <2>1
    <3> QED
      BY <1>4, <3>1
  <2>5. before \in 0..(len + 1)
    BY <2>1
  <2>6. v3'[v7'[m]] = later /\ Len(later) = len + 1
    BY <1>3, <1>b, <1>4, <1>8, <1>a
  <2>7. /\ before \in 0..Len(v3'[v7'[m]]) /\ k \in 0..Len(v11'[m])
        /\ \A i \in 1..Len(v3'[v7'[m]]) :
             v3'[v7'[m]][i].by = m <=> before < i /\ i <= before + k
        /\ \A j \in 1..k : before + j <= Len(v3'[v7'[m]])
                           /\ v3'[v7'[m]][before + j] = v11'[m][j]
    BY <1>a, <2>3, <2>4, <2>5, <2>6
  <2> QED
    BY <2>7, Zenon
<1>9. CASE m = n
  <2>1. /\ before \in 0..len /\ \A i \in 1..len : given[i].by = n <=> before < i /\ i <= before + k
        /\ k \in 0..Len(v11[n])
        /\ \A j \in 1..k : before + j <= len /\ given[before + j] = v11[n][j]
    BY <1>3, <1>b, <1>5, <1>9
  <2>2. \A j \in 1..k : given[before + j].nth = j
    <3> TAKE j \in 1..k
    <3>1. j \in 1..Len(v11[n])
      BY <1>6, <2>1
    <3>2. v11[n][j] = TE!Item(n, j)
      BY <1>1, <1>6, <3>1 DEF TE!TakenInOrder
    <3> QED
      BY <2>1, <3>2, SMTT(30) DEF TE!Item
  <2>3. p \in Nat /\ p >= 1 /\ p <= Len(v11[n]) /\ k \in Nat /\ before \in Nat
    BY <1>6, <2>1
  <2>4. /\ \A i \in 1..len : given[i].by = n => given[i].nth <= p - 1
        /\ p - 1 # 0 => \E i \in 1..len : given[i].by = n /\ given[i].nth = p - 1
    BY <1>3, <1>b DEF TE!GivenUpTo
  <2>5. k = p - 1
    <3>1. k <= p - 1
      <4>1. CASE k = 0
        BY <2>3, <4>1
      <4>2. CASE k # 0
        <5>1. k \in 1..k /\ before + k \in 1..len
          BY <2>1, <2>3, <4>2
        <5>2. given[before + k].by = n
          BY <2>1, <2>3, <4>2, <5>1
        <5> QED
          BY <2>2, <2>4, <5>1, <5>2
      <4> QED
        BY <4>1, <4>2
    <3>2. k >= p - 1
      <4>1. CASE p - 1 # 0
        <5>1. PICK i \in 1..len : given[i].by = n /\ given[i].nth = p - 1
          BY <2>4, <4>1
        <5>2. before < i /\ i <= before + k
          BY <2>1, <5>1
        <5>3. i - before \in 1..k /\ before + (i - before) = i
          BY <2>3, <5>2
        <5>4. given[i].nth = i - before
          BY <2>2, <5>3
        <5> QED
          BY <2>3, <5>1, <5>3, <5>4
      <4> QED
        BY <2>3, <4>1
    <3> QED
      BY <2>3, <3>1, <3>2
  <2>6. PICK b \in 0..len :
          /\ b + k = len
          /\ \A i \in 1..len : given[i].by = n <=> b < i
          /\ \A j \in 1..k : given[b + j] = v11[n][j]
    <3>1. CASE k = 0
      <4>1. len \in 0..len /\ len + k = len
        BY <3>1
      <4>2. \A i \in 1..len : given[i].by = n <=> len < i
        BY <2>1, <3>1
      <4>3. \A j \in 1..k : FALSE
        BY <3>1
      <4> QED
        BY <4>1, <4>2, <4>3
    <3>2. CASE k # 0
      <4>1. k \in 1..k /\ before + k \in 1..len
        BY <2>1, <2>3, <3>2
      <4>2. before + k = len
        <5> SUFFICES ASSUME before + k # len
                     PROVE  FALSE
          OBVIOUS
        <5>1. len \in 1..len /\ before + k < len
          BY <2>3, <4>1
        <5>2. given[before + k].by = n /\ given[len].by # n
          BY <2>1, <2>3, <3>2, <4>1, <5>1
        <5>3. given[len].by <= n /\ n <= given[len].by
          <6>1. /\ \A i \in 1..len : v2[s] # 0 => given[i].by <= v2[s]
                /\ \A i, j \in 1..len : i < j => given[i].by <= given[j].by
            BY <1>1, <1>2, <1>3, <1>b, ZenonT(60) DEF TE!LogIsTaken
          <6>2. v2[s] # 0
            OBVIOUS
          <6> QED
            BY <4>1, <5>1, <5>2, <6>1, <6>2
        <5>4. given[len].by \in Nat
          BY <1>1, <1>2, <1>3, <1>b, <5>1, Typed
        <5> QED
          BY <5>2, <5>3, <5>4
      <4>3. \A i \in 1..len : given[i].by = n <=> before < i
        BY <2>1, <4>2, SMTT(30)
      <4> QED
        BY <2>1, <4>2, <4>3
    <3> QED
      BY <3>1, <3>2
  <2>7. \A i \in 1..(len + 1) : later[i].by = n <=> b < i /\ i <= b + p
    <3> TAKE i \in 1..(len + 1)
    <3>1. b + p = len + 1
      BY <2>3, <2>5, <2>6, SMTT(30)
    <3>2. CASE i = len + 1
      BY <1>4, <2>6, <3>1, <3>2
    <3>3. CASE i \in 1..len
      <4>1. later[i] = given[i]
        BY <1>4, <3>3
      <4>2. i <= b + p
        BY <3>1, <3>3
      <4> QED
        BY <2>6, <3>3, <4>1, <4>2
    <3> QED
      BY <1>4, <3>2, <3>3
  <2>8. \A j \in 1..p : b + j <= len + 1 /\ later[b + j] = v11[n][j]
    <3> TAKE j \in 1..p
    <3>1. b + p = len + 1 /\ b + j <= len + 1
      BY <2>3, <2>5, <2>6
    <3>2. CASE j = p
      <4>1. v11[n][p] = item
        BY <1>1, <1>6 DEF TE!TakenInOrder
      <4> QED
        BY <1>4, <3>1, <3>2, <4>1
    <3>3. CASE j # p
      <4>1. j \in 1..k /\ b + j \in 1..len
        <5>1. j \in Nat /\ j >= 1 /\ j <= p /\ p \in Nat /\ b \in Nat /\ k = p - 1
              /\ b + p = len + 1
          BY <2>3, <2>5, <2>6, <3>1
        <5> QED
          BY <3>3, <5>1
      <4> QED
        BY <1>4, <2>6, <3>1, <4>1
    <3> QED
      BY <3>2, <3>3
  <2>9. b \in 0..(len + 1) /\ p \in 0..Len(v11[n])
    BY <2>3, <2>6
  <2>10. v3'[v7'[m]] = later /\ Len(later) = len + 1
    BY <1>3, <1>b, <1>4, <1>9, <1>a
  <2>11. /\ b \in 0..Len(v3'[v7'[m]]) /\ p \in 0..Len(v11'[m])
         /\ \A i \in 1..Len(v3'[v7'[m]]) :
              v3'[v7'[m]][i].by = m <=> b < i /\ i <= b + p
         /\ \A j \in 1..p : b + j <= Len(v3'[v7'[m]])
                            /\ v3'[v7'[m]][b + j] = v11'[m][j]
    BY <1>9, <1>a, <2>7, <2>8, <2>9, <2>10
  <2> QED
    BY <2>11, Zenon
<1> QED
  BY <1>7, <1>8, <1>9

LEMMA MainWritesKeeps ==
  ASSUME TE!IInv, TE!MainWrites
  PROVE  TE!IInv'
<1>1. /\ TE!TypeOK /\ TE!AttemptsAreMade /\ TE!TakenInOrder /\ TE!LogIsTaken /\ TE!NothingIsSkipped
      /\ TE!AttachesAreNew /\ TE!AttachedOnce /\ TE!WritesAreNext /\ TE!AnswersAreTrue
      /\ TE!QueueIsTaken /\ TE!HoldersAreKnown
  BY DEF TE!IInv
<1>2. PICK n, s, item : n = v4[1].to /\ s = v7[n] /\ item = v4[1].item
  OBVIOUS
<1>3. /\ v4' \in Seq(TE!Messages) /\ Len(v4) \in Nat /\ Len(v4') \in Nat
      /\ Len(v4') + 1 = Len(v4) /\ 1 \in 1..Len(v4)
      /\ Head(v4) = v4[1] /\ v4[1].kind = "write"
      /\ \A i \in 1..Len(v4') : i + 1 \in 1..Len(v4) /\ v4'[i] = v4[i + 1]
      /\ \A i \in 1..Len(v4) : i # 1 => i - 1 \in 1..Len(v4') /\ v4'[i - 1] = v4[i]
  BY <1>1, WireTaken DEF TE!MainWrites
<1>4. PICK reaches \in {FALSE, TE!IsOpen(n)}, ok \in BOOLEAN :
        /\ ok => reaches
        /\ v3' = IF reaches THEN [v3 EXCEPT ![s] = Append(@, item)] ELSE v3
        /\ v6' = v6 \union {[to |-> n, ok |-> ok]}
  BY <1>2, <1>3 DEF TE!MainWrites
<1>5. UNCHANGED <<v1, v2, v5, v7, v8, v9, v11>>
  BY DEF TE!MainWrites, TE!windowVars
<1>6. PICK p : p = item.nth
  OBVIOUS
<1>7. /\ p \in 1..Len(v11[n]) /\ item = TE!Item(n, p) /\ TE!GivenUpTo(n, p - 1)
      /\ n = v9.active => item = v9.sending
      /\ \A a \in v6 : a.to # n
      /\ \A j \in 1..Len(v4) : v4[j].kind = "write" /\ v4[j].to = n => j = 1
  BY <1>1, <1>2, <1>3, <1>6 DEF TE!WritesAreNext
<1>8. /\ n \in 1..Len(v7) /\ n \in 1..MaxAttempts /\ s \in TerminalSessions /\ n \in Nat
      /\ item \in TE!Items /\ item # None /\ item.by = n /\ Len(v11[n]) \in Nat
  <2>1. n \in 1..Len(v7)
    BY <1>1, <1>2, <1>3 DEF TE!AttemptsAreMade
  <2>2. item \in TE!Items
    BY <1>1, <1>2, <1>3, Typed
  <2>3. item.by = n
    BY <1>7 DEF TE!Item
  <2>4. None \notin TE!Items
    BY TerminalsWellFormed DEF TE!WellFormed
  <2> QED
    BY <1>1, <1>2, <2>1, <2>2, <2>3, <2>4, Typed
<1>9. PICK q \in Nat : q = p - 1 /\ p = q + 1
  BY <1>7, <1>8
<1>10. AttemptsGrow
  BY <1>5 DEF AttemptsGrow
<1>11. reaches => TE!IsOpen(n) /\ v2[s] = n /\ n # 0
  <2>1. reaches = FALSE \/ reaches = TE!IsOpen(n)
    BY <1>4
  <2>2. reaches => TE!IsOpen(n)
    BY <2>1
  <2> QED
    BY <1>2, <1>8, <2>2 DEF TE!IsOpen
<1>12. reaches => Longer(s, item) /\ TE!GivenUpTo(n, p)'
         /\ \A r : \A m \in 1..Len(v7) : m # n => (TE!GivenUpTo(m, r)' <=> TE!GivenUpTo(m, r))
  <2> SUFFICES ASSUME reaches
               PROVE  Longer(s, item) /\ TE!GivenUpTo(n, p)'
                      /\ \A r : \A m \in 1..Len(v7) :
                           m # n => (TE!GivenUpTo(m, r)' <=> TE!GivenUpTo(m, r))
    OBVIOUS
  <2>1. v3' = [v3 EXCEPT ![s] = Append(@, item)] /\ v7' = v7
    BY <1>4, <1>5
  <2>2. /\ Longer(s, item)
        /\ \A r : \A m \in 1..Len(v7) : m # n => (TE!GivenUpTo(m, r)' <=> TE!GivenUpTo(m, r))
        /\ \A r \in Nat : TE!GivenUpTo(n, r) /\ item.nth = r + 1 => TE!GivenUpTo(n, r + 1)'
    BY <1>1, <1>2, <1>8, <2>1, LogGrows
  <2>3. TE!GivenUpTo(n, q) /\ item.nth = q + 1
    BY <1>6, <1>7, <1>9
  <2>4. TE!GivenUpTo(n, q + 1)'
    BY <2>2, <2>3
  <2> QED
    BY <1>9, <2>2, <2>4
<1>13. ~reaches => v3' = v3
  BY <1>4
<1>14. \A r : \A m \in 1..Len(v7) : m # n => (TE!GivenUpTo(m, r)' <=> TE!GivenUpTo(m, r))
  <2>1. CASE reaches
    BY <1>12, <2>1
  <2>2. CASE ~reaches
    BY <1>10, <1>13, <2>2, GivenStays
  <2> QED
    BY <2>1, <2>2
<1>15. TE!TypeOK'
  <2>1. v3' \in [TerminalSessions -> Seq(TE!Items)]
    BY <1>1, <1>12, <1>13 DEF Longer, TE!TypeOK
  <2>2. v6' \subseteq [to : Nat, ok : BOOLEAN]
    BY <1>1, <1>4, <1>8 DEF TE!TypeOK
  <2> QED
    BY <1>1, <1>3, <1>5, <2>1, <2>2 DEF TE!TypeOK
<1>16. TE!AttemptsAreMade'
  <2>1. \A i \in 1..Len(v4') : v4'[i].to \in 1..Len(v7)
    BY <1>1, <1>3 DEF TE!AttemptsAreMade
  <2>2. \A a \in v6' : a.to \in 1..Len(v7)
    BY <1>1, <1>4, <1>8 DEF TE!AttemptsAreMade
  <2> QED
    BY <1>1, <1>5, <2>1, <2>2 DEF TE!AttemptsAreMade
<1>17. TE!TakenInOrder'
  BY <1>5, <1>10, TakenStays
<1>18. TE!LogIsTaken' /\ TE!NothingIsSkipped'
  <2>1. CASE ~reaches
    <3>1. v3' = v3 /\ \A m \in 1..MaxAttempts : Len(v11[m]) <= Len(v11'[m])
      BY <1>1, <1>5, <1>13, <2>1, Typed
    <3>2. \A r \in TerminalSessions : v2'[r] = v2[r]
      BY <1>5
    <3> QED
      BY <1>10, <1>15, <1>17, <3>1, <3>2, LogStays
  <2>2. CASE reaches
    <3>1. TE!NothingIsSkipped'
      BY <1>2, <1>4, <1>5, <1>7, <1>8, <1>11, <2>2, PieceGrows
    <3>2. Longer(s, item)
      BY <1>12, <2>2
    <3>3. TE!LogIsTaken'
      <4> SUFFICES ASSUME NEW r \in TerminalSessions, NEW i \in 1..Len(v3'[r])
                   PROVE  LET it == v3'[r][i]
                          IN  /\ it.by \in 1..Len(v7) /\ v7[it.by] = r
                              /\ it.nth \in 1..Len(v11[it.by]) /\ it = TE!Item(it.by, it.nth)
                              /\ v2[r] # 0 => it.by <= v2[r]
                              /\ \A j \in 1..Len(v3'[r]) : i < j => it.by <= v3'[r][j].by
        BY <1>5 DEF TE!LogIsTaken, TE!Item
      <4>1. CASE r # s
        <5>1. v3'[r] = v3[r]
          BY <3>2, <4>1 DEF Longer
        <5> QED
          BY <1>1, <5>1 DEF TE!LogIsTaken
      <4>2. CASE r = s /\ i \in 1..Len(v3[s])
        <5>1. /\ v3'[s][i] = v3[s][i] /\ v3[s][i].by <= n /\ v3[s][i].by \in Nat
              /\ \A j \in 1..Len(v3[s]) : i < j => v3[s][i].by <= v3[s][j].by
          BY <1>1, <1>8, <1>11, <2>2, <3>2, <4>2, Typed DEF TE!LogIsTaken, Longer
        <5>2. \A j \in 1..Len(v3'[s]) : i < j => v3[s][i].by <= v3'[s][j].by
          BY <1>8, <3>2, <5>1 DEF Longer
        <5>3. LET it == v3[s][i]
              IN  /\ it.by \in 1..Len(v7) /\ v7[it.by] = s
                  /\ it.nth \in 1..Len(v11[it.by]) /\ it = TE!Item(it.by, it.nth)
                  /\ v2[s] # 0 => it.by <= v2[s]
          BY <1>1, <1>8, <4>2 DEF TE!LogIsTaken
        <5> QED
          BY <4>2, <5>1, <5>2, <5>3
      <4>3. CASE r = s /\ i = Len(v3[s]) + 1
        <5>1. v3'[s][i] = item /\ \A j \in 1..Len(v3'[s]) : ~(i < j)
          BY <3>2, <4>3 DEF Longer
        <5>2. /\ item.by \in 1..Len(v7) /\ v7[item.by] = s
              /\ item.nth \in 1..Len(v11[item.by]) /\ item = TE!Item(item.by, item.nth)
          BY <1>2, <1>6, <1>7, <1>8
        <5>3. item.by <= v2[s]
          BY <1>8, <1>11, <2>2
        <5> QED
          BY <4>3, <5>1, <5>2, <5>3
      <4> QED
        BY <3>2, <4>1, <4>2, <4>3 DEF Longer
    <3> QED
      BY <3>1, <3>3
  <2> QED
    BY <2>1, <2>2
<1>19. TE!AttachesAreNew'
  <2>1. \A i \in 1..Len(v4') : v4'[i].kind = "attach" =>
          i + 1 \in 1..Len(v4) /\ v4'[i] = v4[i + 1] /\ 0 < v4'[i].to
    <3>1. \A i \in 1..Len(v4) : v4[i].to \in 1..Len(v7)
      BY <1>1 DEF TE!AttemptsAreMade
    <3> QED
      BY <1>3, <3>1
  <2>2. /\ \A r \in TerminalSessions : v2'[r] \in {v2[r], 0, 0}
        /\ \A j \in 1..Len(v5') :
             v5'[j].to = 0 \/ \E l \in 1..Len(v5) : v5'[j].to = v5[l].to
        /\ v9'.active \in {0, v9.active, 0}
        /\ \A m \in 1..MaxAttempts : v11'[m] = v11[m] \/ m = 0
        /\ 1 \in Nat /\ 0 \in Nat
    BY <1>5
  <2> QED
    BY <2>1, <2>2, AttachesStay, Zenon
<1>20. TE!AttachedOnce'
  BY <1>1, <1>5 DEF TE!AttachedOnce
<1>21. TE!WritesAreNext'
  <2>1. \A i \in 1..Len(v4') : v4'[i].kind = "write" => v4'[i].to # n
    <3> SUFFICES ASSUME NEW i \in 1..Len(v4'), v4'[i].kind = "write", v4'[i].to = n
                 PROVE  FALSE
      OBVIOUS
    <3>1. i + 1 = 1
      BY <1>3, <1>7
    <3> QED
      BY <3>1
  <2>2. \A i \in 1..Len(v4') : v4'[i].kind = "write" =>
          /\ i + 1 \in 1..Len(v4) /\ v4'[i] = v4[i + 1]
          /\ \A a \in v6' : a.to # v4'[i].to
          /\ v4'[i].to = v9'.active =>
               v4'[i].to = v9.active /\ v9'.sending = v9.sending
    <3> SUFFICES ASSUME NEW i \in 1..Len(v4'), v4'[i].kind = "write"
                 PROVE  /\ i + 1 \in 1..Len(v4) /\ v4'[i] = v4[i + 1]
                        /\ \A a \in v6' : a.to # v4'[i].to
      BY <1>5
    <3>1. i + 1 \in 1..Len(v4) /\ v4'[i] = v4[i + 1] /\ v4'[i].to # n
      BY <1>3, <2>1
    <3>2. \A a \in v6 : a.to # v4'[i].to
      BY <1>1, <3>1 DEF TE!WritesAreNext
    <3> QED
      BY <1>4, <3>1, <3>2
  <2>3. /\ \A m \in 1..MaxAttempts : Len(v11[m]) <= Len(v11'[m])
        /\ 1 \in Nat
    BY <1>1, <1>5, Typed
  <2>4. \A m \in 1..Len(v7), r \in Nat :
          (\E i \in 1..Len(v4') : v4'[i].kind = "write" /\ v4'[i].to = m)
             /\ TE!GivenUpTo(m, r) => TE!GivenUpTo(m, r)'
    BY <1>14, <2>1
  <2> QED
    BY <1>10, <1>15, <2>2, <2>3, <2>4, WritesStay
<1>22. TE!AnswersAreTrue'
  <2>1. ASSUME NEW a \in v6', a.to = v9.active
        PROVE  v9.sending # None /\ (a.ok => TE!GivenUpTo(a.to, v9.sending.nth)')
    <3>1. CASE a \in v6
      <4>1. v9.sending # None /\ (a.ok => TE!GivenUpTo(a.to, v9.sending.nth))
        BY <1>1, <2>1, <3>1 DEF TE!AnswersAreTrue
      <4>2. a.to # n /\ a.to \in 1..Len(v7)
        BY <1>1, <1>7, <3>1 DEF TE!AttemptsAreMade
      <4>3. PICK r : r = v9.sending.nth
        OBVIOUS
      <4>4. TE!GivenUpTo(a.to, r)' <=> TE!GivenUpTo(a.to, r)
        BY <1>14, <4>2
      <4> QED
        BY <1>5, <4>1, <4>3, <4>4
    <3>2. CASE a = [to |-> n, ok |-> ok]
      <4>1. a.to = n /\ a.ok = ok /\ v9.sending = item
        BY <1>7, <2>1, <3>2
      <4>2. ok => TE!GivenUpTo(n, p)'
        BY <1>4, <1>12
      <4> QED
        BY <1>5, <1>6, <1>8, <4>1, <4>2
    <3> QED
      BY <1>4, <3>1, <3>2
  <2>2. \A a \in v6' : v11[a.to] # << >>
    <3>1. v11[n] # << >>
      BY <1>7, <1>8, EmptySeq
    <3> QED
      BY <1>1, <1>4, <3>1 DEF TE!AnswersAreTrue
  <2>3. \A a, b \in v6' : a.to = b.to => a = b
    <3>1. \A a, b \in v6 : a.to = b.to => a = b
      BY <1>1 DEF TE!AnswersAreTrue
    <3> QED
      BY <1>4, <1>7, <3>1
  <2>4. PICK r : r = v9.sending.nth
    OBVIOUS
  <2>5. \A a \in v6' : a.to = v9.active => v9.sending # None
          /\ (a.ok => TE!GivenUpTo(a.to, r)')
    BY <1>5, <2>1, <2>4
  <2> QED
    BY <1>5, <2>2, <2>3, <2>4, <2>5 DEF TE!AnswersAreTrue
<1>23. TE!QueueIsTaken'
  <2>1. SUFFICES ASSUME v9.active # 0
                 PROVE  TE!QueueIsTaken'
    BY <1>5 DEF TE!QueueIsTaken
  <2>2. PICK c, sending : c = v9.active /\ sending = v9.sending
    OBVIOUS
  <2>3. /\ sending # None =>
             sending.nth \in 1..Len(v11[c]) /\ sending = TE!Item(c, sending.nth)
        /\ ~v9.unavailable =>
             /\ Len(v11[c]) - Len(v9.queue) >= 0
             /\ \A i \in 1..Len(v9.queue) :
                  v9.queue[i] = TE!Item(c, Len(v11[c]) - Len(v9.queue) + i)
             /\ IF sending = None THEN TE!GivenUpTo(c, Len(v11[c]) - Len(v9.queue))
                ELSE sending.nth = Len(v11[c]) - Len(v9.queue)
    BY <1>1, <2>1, <2>2 DEF TE!QueueIsTaken
  <2>4. c \in 1..Len(v7)
    BY <1>1, <2>1, <2>2, Typed DEF TE!AttemptsAreMade
  <2>5. PICK r : r = Len(v11[c]) - Len(v9.queue)
    OBVIOUS
  <2>6. sending = None => (TE!GivenUpTo(c, r)' <=> TE!GivenUpTo(c, r))
    <3>1. sending = None => c # n
      BY <1>7, <1>8, <2>2
    <3> QED
      BY <1>14, <2>4, <3>1
  <2>7. /\ sending # None =>
             sending.nth \in 1..Len(v11[c]) /\ sending = TE!Item(c, sending.nth)
        /\ ~v9.unavailable =>
             /\ r >= 0 /\ \A i \in 1..Len(v9.queue) : v9.queue[i] = TE!Item(c, r + i)
             /\ IF sending = None THEN TE!GivenUpTo(c, r)' ELSE sending.nth = r
    BY <2>3, <2>5, <2>6
  <2> QED
    BY <1>5, <2>2, <2>5, <2>7 DEF TE!QueueIsTaken, TE!Item
<1>24. TE!HoldersAreKnown'
  <2>1. \A i \in 1..Len(v4) : v4[i].kind = "detach" =>
          i - 1 \in 1..Len(v4') /\ v4'[i - 1] = v4[i]
    BY <1>3
  <2> SUFFICES ASSUME NEW r \in TerminalSessions, v2[r] # 0
               PROVE  \/ v2[r] = v9.active
                      \/ \E i \in 1..Len(v4') :
                           v4'[i].kind = "detach" /\ v4'[i].to = v2[r]
                      \/ \E i \in 1..Len(v5) :
                           v5[i].kind = "attached" /\ v5[i].to = v2[r]
    BY <1>5 DEF TE!HoldersAreKnown
  <2> QED
    BY <1>1, <2>1 DEF TE!HoldersAreKnown
<1> QED
  BY <1>15, <1>16, <1>17, <1>18, <1>19, <1>20, <1>21, <1>22, <1>23, <1>24 DEF TE!IInv

\* What drainInput does up to its first await, as far as it matters.
LEMMA DrainedIs ==
  ASSUME NEW c \in TE!Controllers
  PROVE  /\ TE!Drained(c) \in TE!Controllers /\ TE!Drained(c).attempt = c.attempt
         /\ TE!Drained(c).active = c.active /\ TE!Drained(c).unavailable = c.unavailable
         /\ \/ TE!Drained(c) = c
            \/ /\ c.sending = None /\ c.queue # << >> /\ c.active # 0 /\ ~c.unavailable
               /\ TE!Drained(c).queue = Tail(c.queue) /\ TE!Drained(c).sending = Head(c.queue)
               /\ Head(c.queue) \in TE!Items
<1>1. CASE c.sending = None /\ c.queue # << >> /\ c.active # 0
           /\ c.state = "connected" /\ ~c.unavailable
  <2>1. c.queue \in Seq(TE!Items)
    BY DEF TE!Controllers
  <2>2. Tail(c.queue) \in Seq(TE!Items) /\ Head(c.queue) \in TE!Items
    BY <1>1, <2>1, FirstTaken
  <2>3. PICK q, m : q = Tail(c.queue) /\ m = Head(c.queue)
    OBVIOUS
  <2>4. PICK d : d = [c EXCEPT !.queue = q, !.sending = m]
    OBVIOUS
  <2>5. TE!Drained(c) = d
    BY <1>1, <2>3, <2>4 DEF TE!Drained
  <2>6. q \in Seq(TE!Items) /\ m \in TE!Items
    BY <2>2, <2>3
  <2>7. d \in TE!Controllers
    BY <2>4, <2>6 DEF TE!Controllers
  <2>8. /\ d.attempt = c.attempt /\ d.active = c.active /\ d.unavailable = c.unavailable
        /\ d.queue = q /\ d.sending = m
    BY <2>4 DEF TE!Controllers
  <2> QED
    BY <1>1, <2>3, <2>5, <2>6, <2>7, <2>8
<1>2. CASE ~(c.sending = None /\ c.queue # << >> /\ c.active # 0
             /\ c.state = "connected" /\ ~c.unavailable)
  BY <1>2 DEF TE!Drained
<1> QED
  BY <1>1, <1>2

\* QueueIsTaken of a controller of attempt n, which took len things.
QueueOf(c, n, len) ==
  LET sent == len - Len(c.queue)
  IN  /\ c.sending # None => c.sending.nth \in 1..len /\ c.sending = TE!Item(n, c.sending.nth)
      /\ ~c.unavailable =>
           /\ sent >= 0
           /\ \A i \in 1..Len(c.queue) : c.queue[i] = TE!Item(n, sent + i)
           /\ IF c.sending = None THEN TE!GivenUpTo(n, sent) ELSE c.sending.nth = sent

\* Draining keeps it, and what it sends is the next thing.
LEMMA DrainedNext ==
  ASSUME TE!WellFormed, NEW c \in TE!Controllers, NEW n, NEW len \in Nat, QueueOf(c, n, len)
  PROVE  /\ QueueOf(TE!Drained(c), n, len)
         /\ TE!Drained(c) # c =>
              LET item == TE!Drained(c).sending
              IN  /\ item \in TE!Items /\ item.nth \in 1..len /\ item = TE!Item(n, item.nth)
                  /\ TE!GivenUpTo(n, item.nth - 1)
<1>1. CASE TE!Drained(c) = c
  BY <1>1
<1>2. CASE TE!Drained(c) # c
  <2>1. PICK d : d = TE!Drained(c)
    OBVIOUS
  <2>2. /\ c.sending = None /\ c.queue # << >> /\ ~c.unavailable /\ ~d.unavailable
        /\ d.queue = Tail(c.queue) /\ d.sending = Head(c.queue) /\ d.sending \in TE!Items
    BY <1>2, <2>1, DrainedIs
  <2>3. c.queue \in Seq(TE!Items)
    BY DEF TE!Controllers
  <2>4. PICK q, r, m : q = c.queue /\ r = d.queue /\ m = d.sending
    OBVIOUS
  <2>5. /\ m = q[1] /\ Len(q) \in Nat /\ Len(q) >= 1 /\ Len(r) = Len(q) - 1
        /\ \A i \in 1..Len(r) : i + 1 \in 1..Len(q) /\ r[i] = q[i + 1]
    BY <2>2, <2>3, <2>4, FirstTaken
  <2>6. PICK sent : sent = len - Len(q)
    OBVIOUS
  <2>7. /\ sent >= 0 /\ \A i \in 1..Len(q) : q[i] = TE!Item(n, sent + i)
        /\ TE!GivenUpTo(n, sent)
    BY <2>2, <2>4, <2>6 DEF QueueOf
  <2>8. sent \in Nat
    BY <2>5, <2>6, <2>7
  <2>9. m = TE!Item(n, sent + 1)
    BY <2>5, <2>7
  <2>10. m.nth = sent + 1 /\ m.nth - 1 = sent /\ m.nth \in 1..len
    BY <2>5, <2>6, <2>8, <2>9 DEF TE!Item
  <2>11. len - Len(r) = sent + 1
    BY <2>5, <2>6
  <2>12. \A i \in 1..Len(r) : r[i] = TE!Item(n, (sent + 1) + i)
    <3> TAKE i \in 1..Len(r)
    <3>1. sent + (i + 1) = (sent + 1) + i
      BY <2>8
    <3> QED
      BY <2>5, <2>7, <3>1
  <2>13. m # None /\ m \in TE!Items
    BY <2>2, <2>4 DEF TE!WellFormed
  <2>14. QueueOf(d, n, len)
    <3>1. m.nth \in 1..len /\ m = TE!Item(n, m.nth)
      BY <2>9, <2>10
    <3>2. sent + 1 >= 0
      BY <2>8
    <3>3. PICK now : now = sent + 1
      OBVIOUS
    <3>4. /\ len - Len(d.queue) = now /\ now >= 0 /\ d.sending.nth = now /\ d.sending # None
          /\ \A i \in 1..Len(d.queue) : d.queue[i] = TE!Item(n, now + i)
          /\ d.sending.nth \in 1..len /\ d.sending = TE!Item(n, d.sending.nth)
      BY <2>4, <2>10, <2>11, <2>12, <2>13, <3>1, <3>2, <3>3
    <3> QED
      BY <3>4 DEF QueueOf
  <2>15. TE!GivenUpTo(n, m.nth - 1) /\ m = TE!Item(n, m.nth)
    BY <2>7, <2>9, <2>10
  <2> QED
    BY <2>1, <2>4, <2>10, <2>13, <2>14, <2>15
<1> QED
  BY <1>1, <1>2

\* No write of attempt n is on its way to the main process, and no answer to one is
\* left.
NoWrite(n) ==
  /\ \A i \in 1..Len(v4) : v4[i].kind = "write" => v4[i].to # n
  /\ \A a \in v6' : a.to # n

\* The next write of attempt n is sent.
SendsNext(n, item) ==
  /\ Len(v4') = Len(v4) + 1
  /\ v4'[Len(v4) + 1] = [kind |-> "write", to |-> n, item |-> item]
  /\ n \in 1..Len(v7) /\ item \in TE!Items
  /\ item.nth \in 1..Len(v11'[n]) /\ item = TE!Item(n, item.nth) /\ TE!GivenUpTo(n, item.nth - 1)

\* A step of the window that changes what its attempt sends.
LEMMA SendSteps ==
  ASSUME TE!IInv, TE!TypeOK', UNCHANGED <<v1, v2, v3, v5, v7>>,
         v8'.session = v8.session, v9'.attempt = v9.attempt,
         NEW n, n = v9.active, v9'.active = n,
         v9'.active = 0 => v9'.queue = << >> /\ v9'.sending = None,
         v6' \subseteq v6, TE!TakenInOrder', TE!QueueIsTaken',
         \A m \in 1..MaxAttempts : m # n => v11'[m] = v11[m],
         \A m \in 1..MaxAttempts : Len(v11[m]) <= Len(v11'[m]),
         v9'.sending = v9.sending \/ NoWrite(n),
         \A i \in 1..Len(v4) : v4'[i] = v4[i],
         v4' = v4 \/ (NoWrite(n) /\ SendsNext(n, v9'.sending))
  PROVE  TE!IInv'
<1>1. /\ TE!TypeOK /\ TE!AttemptsAreMade /\ TE!TakenInOrder /\ TE!AttachesAreNew /\ TE!AttachedOnce
      /\ TE!WritesAreNext /\ TE!AnswersAreTrue /\ TE!HoldersAreKnown
  BY DEF TE!IInv
<1>2. AttemptsGrow
  BY DEF AttemptsGrow
<1>3. /\ Len(v4) \in Nat /\ Len(v5) \in Nat /\ Len(v7) \in Nat /\ n \in Nat
      /\ 1..Len(v7) \subseteq 1..MaxAttempts /\ n <= Len(v7)
      /\ \A m \in 1..MaxAttempts : Len(v11[m]) \in Nat /\ Len(v11'[m]) \in Nat
  <2>1. n <= Len(v7)
    BY <1>1, Typed DEF TE!AttemptsAreMade
  <2> QED
    BY <1>1, <2>1, Typed, TypedLater
<1>4. PICK item : item = v9'.sending
  OBVIOUS
<1>5. \A i \in 1..Len(v4') : (i \in 1..Len(v4) /\ v4'[i] = v4[i]) \/
        (/\ i = Len(v4) + 1 /\ NoWrite(n) /\ SendsNext(n, item)
         /\ v4'[i] = [kind |-> "write", to |-> n, item |-> item])
  BY <1>3, <1>4 DEF SendsNext
<1>6. \A i \in 1..Len(v4) : i \in 1..Len(v4')
  BY <1>3 DEF SendsNext
<1>7. TE!AttemptsAreMade'
  <2>1. \A i \in 1..Len(v4') : v4'[i].to \in 1..Len(v7)
    <3> TAKE i \in 1..Len(v4')
    <3>1. CASE i \in 1..Len(v4) /\ v4'[i] = v4[i]
      BY <1>1, <3>1 DEF TE!AttemptsAreMade
    <3>2. CASE SendsNext(n, item) /\ v4'[i] = [kind |-> "write", to |-> n, item |-> item]
      BY <3>2 DEF SendsNext
    <3> QED
      BY <1>5, <3>1, <3>2
  <2>2. /\ \A a \in v6' : a.to \in 1..Len(v7)
        /\ v9'.active \in {0, v9'.attempt}
    BY <1>1 DEF TE!AttemptsAreMade
  <2> QED
    BY <1>1, <2>1, <2>2 DEF TE!AttemptsAreMade
<1>8. TE!LogIsTaken' /\ TE!NothingIsSkipped'
  BY <1>2, LogStays
<1>9. TE!AttachesAreNew'
  <2>1. \A i \in 1..Len(v4') : v4'[i].kind = "attach" =>
          i + 0 \in 1..Len(v4) /\ v4'[i] = v4[i + 0] /\ n < v4'[i].to
    <3> SUFFICES ASSUME NEW i \in 1..Len(v4'), v4'[i].kind = "attach"
                 PROVE  i + 0 \in 1..Len(v4) /\ v4'[i] = v4[i + 0] /\ n < v4'[i].to
      OBVIOUS
    <3>1. i \in 1..Len(v4) /\ v4'[i] = v4[i] /\ i + 0 = i
      BY <1>5
    <3> QED
      BY <1>1, <3>1 DEF TE!AttachesAreNew
  <2>2. /\ \A r \in TerminalSessions : v2'[r] \in {v2[r], 0, n}
        /\ \A j \in 1..Len(v5') :
             v5'[j].to = n \/ \E l \in 1..Len(v5) : v5'[j].to = v5[l].to
        /\ v9'.active \in {0, v9.active, n}
        /\ \A m \in 1..MaxAttempts : v11'[m] = v11[m] \/ m = n
        /\ 0 \in Nat /\ n \in Nat
    BY <1>3
  <2> QED
    BY <2>1, <2>2, AttachesStay, Zenon
<1>10. TE!AttachedOnce'
  <2>1. \A i \in 1..Len(v5') : v5'[i].kind = "attached" =>
          /\ i + 0 \in 1..Len(v5) /\ v5'[i] = v5[i + 0]
          /\ v5'[i].to # v9'.active /\ v11'[v5'[i].to] = << >>
    <3> SUFFICES ASSUME NEW i \in 1..Len(v5), v5[i].kind = "attached"
                 PROVE  i + 0 = i /\ v5[i].to # n /\ v11'[v5[i].to] = << >>
      OBVIOUS
    <3>1. v5[i].to # n /\ v11[v5[i].to] = << >> /\ v5[i].to \in 1..MaxAttempts
      BY <1>1, <1>3 DEF TE!AttachedOnce, TE!AttemptsAreMade
    <3> QED
      BY <3>1
  <2> QED
    BY <1>3, <2>1, AttachedStay, Zenon
<1>11. \A m \in 1..Len(v7), p \in Nat : TE!GivenUpTo(m, p) => TE!GivenUpTo(m, p)'
  BY <1>2, GivenStays
<1>12. TE!WritesAreNext'
  <2>1. ASSUME NEW i \in 1..Len(v4'), v4'[i].kind = "write",
               NEW m, m = v4'[i].to, NEW it, it = v4'[i].item
        PROVE  /\ it.nth \in 1..Len(v11'[m]) /\ it = TE!Item(m, it.nth)'
               /\ TE!GivenUpTo(m, it.nth - 1)'
               /\ m = v9'.active => it = v9'.sending
               /\ \A a \in v6' : a.to # m
    <3>1. ASSUME m \in 1..Len(v7), it = TE!Item(m, it.nth), TE!GivenUpTo(m, it.nth - 1),
                 it.nth \in 1..Len(v11'[m])
          PROVE  it = TE!Item(m, it.nth)' /\ TE!GivenUpTo(m, it.nth - 1)'
      <4>1. PICK p : p = it.nth - 1
        OBVIOUS
      <4>2. TE!GivenUpTo(m, p)' <=> TE!GivenUpTo(m, p)
        BY <1>2, <3>1, GivenStays
      <4>3. PICK q : q = it.nth
        OBVIOUS
      <4>4. TE!Item(m, q)' = TE!Item(m, q)
        BY DEF TE!Item
      <4> QED
        BY <3>1, <4>1, <4>2, <4>3, <4>4
    <3>2. CASE i \in 1..Len(v4) /\ v4'[i] = v4[i]
      <4>1. /\ it.nth \in 1..Len(v11[m]) /\ it = TE!Item(m, it.nth)
            /\ TE!GivenUpTo(m, it.nth - 1)
            /\ m = v9.active => it = v9.sending
            /\ \A a \in v6 : a.to # m
        BY <1>1, <2>1, <3>2 DEF TE!WritesAreNext
      <4>2. m \in 1..Len(v7)
        BY <1>1, <2>1, <3>2 DEF TE!AttemptsAreMade
      <4>3. it.nth \in 1..Len(v11'[m])
        <5>1. m \in 1..MaxAttempts
          BY <1>3, <4>2
        <5>2. Len(v11[m]) <= Len(v11'[m]) /\ Len(v11[m]) \in Nat /\ Len(v11'[m]) \in Nat
          BY <1>3, <5>1
        <5> QED
          BY <4>1, <5>2
      <4>4. m = n => v9'.sending = v9.sending
        BY <2>1, <3>2 DEF NoWrite
      <4> QED
        BY <3>1, <4>1, <4>2, <4>3, <4>4
    <3>3. CASE /\ NoWrite(n) /\ SendsNext(n, item)
               /\ v4'[i] = [kind |-> "write", to |-> n, item |-> item]
      <4>1. m = n /\ it = item
        BY <2>1, <3>3
      <4>2. /\ m \in 1..Len(v7) /\ it.nth \in 1..Len(v11'[m])
            /\ it = TE!Item(m, it.nth) /\ TE!GivenUpTo(m, it.nth - 1)
        BY <3>3, <4>1 DEF SendsNext
      <4>3. \A a \in v6' : a.to # m
        BY <3>3, <4>1 DEF NoWrite
      <4> QED
        BY <1>4, <3>1, <4>1, <4>2, <4>3
    <3> QED
      BY <1>5, <3>2, <3>3
  <2>2. \A i, j \in 1..Len(v4') :
          v4'[i].kind = "write" /\ v4'[j].kind = "write" /\ v4'[j].to = v4'[i].to
            => j = i
    <3> SUFFICES ASSUME NEW i \in 1..Len(v4'), NEW j \in 1..Len(v4'),
                        v4'[i].kind = "write", v4'[j].kind = "write",
                        v4'[j].to = v4'[i].to
                 PROVE  j = i
      OBVIOUS
    <3>1. CASE i \in 1..Len(v4) /\ v4'[i] = v4[i] /\ j \in 1..Len(v4) /\ v4'[j] = v4[j]
      BY <1>1, <3>1 DEF TE!WritesAreNext
    <3>2. CASE i = Len(v4) + 1 /\ NoWrite(n) /\ v4'[i].to = n
      <4>1. ~(j \in 1..Len(v4) /\ v4'[j] = v4[j])
        BY <3>2 DEF NoWrite
      <4> QED
        BY <1>5, <3>2, <4>1
    <3>3. CASE j = Len(v4) + 1 /\ NoWrite(n) /\ v4'[j].to = n
      <4>1. ~(i \in 1..Len(v4) /\ v4'[i] = v4[i])
        BY <3>3 DEF NoWrite
      <4> QED
        BY <1>5, <3>3, <4>1
    <3> QED
      BY <1>5, <3>1, <3>2, <3>3
  <2>3. ASSUME NEW i \in 1..Len(v4'), v4'[i].kind = "write",
               NEW m, m = v4'[i].to, NEW it, it = v4'[i].item
        PROVE  /\ it.nth \in 1..Len(v11'[m]) /\ it = TE!Item(m, it.nth)'
               /\ TE!GivenUpTo(m, it.nth - 1)'
               /\ m = v9'.active => it = v9'.sending
               /\ \A a \in v6' : a.to # m
               /\ \A j \in 1..Len(v4') :
                    v4'[j].kind = "write" /\ v4'[j].to = m => j = i
    BY <2>1, <2>2, <2>3
  <2> QED
    BY <2>3, Zenon DEF TE!WritesAreNext
<1>13. TE!AnswersAreTrue'
  <2>1. \A a \in v6' : a.to = v9'.active =>
          v9'.active = v9.active /\ v9'.sending = v9.sending
    BY DEF NoWrite
  <2>2. \A m \in 1..MaxAttempts : v11[m] # << >> => v11'[m] # << >>
    <3> SUFFICES ASSUME NEW m \in 1..MaxAttempts, v11[m] # << >>
                 PROVE  v11'[m] # << >>
      OBVIOUS
    <3>1. v11[m] \in Seq(TE!Items) /\ v11'[m] \in Seq(TE!Items)
      BY <1>1, Typed, TypedLater
    <3>2. Len(v11[m]) # 0
      BY <3>1, EmptySeq
    <3>3. Len(v11'[m]) # 0
      BY <1>3, <3>2
    <3> QED
      BY <3>1, <3>3, EmptySeq
  <2> QED
    BY <1>2, <1>11, <2>1, <2>2, AnswersStay
<1>14. TE!HoldersAreKnown'
  <2> SUFFICES ASSUME NEW r \in TerminalSessions, v2[r] # 0
               PROVE  \/ v2[r] = n
                      \/ \E i \in 1..Len(v4') :
                           v4'[i].kind = "detach" /\ v4'[i].to = v2[r]
                      \/ \E i \in 1..Len(v5) :
                           v5[i].kind = "attached" /\ v5[i].to = v2[r]
    BY DEF TE!HoldersAreKnown
  <2> QED
    BY <1>1, <1>6 DEF TE!HoldersAreKnown
<1> QED
  BY <1>7, <1>8, <1>9, <1>10, <1>12, <1>13, <1>14 DEF TE!IInv

LEMMA WriteAdded ==
  ASSUME TE!TypeOK, NEW n \in 1..Len(v7), NEW item \in TE!Items,
         v4' = v4 \o <<[kind |-> "write", to |-> n, item |-> item]>>
  PROVE  /\ v4' \in Seq(TE!Messages) /\ Len(v4') = Len(v4) + 1
         /\ \A i \in 1..Len(v4) : v4'[i] = v4[i]
         /\ v4'[Len(v4) + 1] = [kind |-> "write", to |-> n, item |-> item]
<1>1. PICK m : m = [kind |-> "write", to |-> n, item |-> item]
  OBVIOUS
<1>2. m \in TE!Messages
  BY <1>1, Typed DEF TE!Messages
<1>3. PICK q : q = <<m>>
  OBVIOUS
<1>4. q \in Seq(TE!Messages) /\ Len(q) = 1 /\ q[1] = m
  BY <1>2, <1>3
<1>5. v4 \in Seq(TE!Messages) /\ v4' = v4 \o q
  BY <1>1, <1>3 DEF TE!TypeOK
<1>6. /\ v4' \in Seq(TE!Messages) /\ Len(v4) \in Nat /\ Len(v4') = Len(v4) + 1
      /\ \A i \in 1..Len(v4) : v4'[i] = v4[i]
      /\ \A i \in 1..1 : v4'[Len(v4) + i] = q[i]
  BY <1>4, <1>5, Joined
<1> QED
  BY <1>1, <1>4, <1>6

LEMMA QueueIsOf ==
  ASSUME TE!IInv, NEW n, n = v9.active, n # 0
  PROVE  QueueOf(v9, n, Len(v11[n]))
BY DEF TE!IInv, TE!QueueIsTaken, QueueOf

LEMMA QueueLater ==
  ASSUME UNCHANGED <<v3, v7>>, NEW n, v9'.active = n, NEW d, v9' = d,
         NEW len, len = Len(v11'[n]), QueueOf(d, n, len)
  PROVE  TE!QueueIsTaken'
<1>1. PICK sent : sent = len - Len(d.queue)
  OBVIOUS
<1>2. /\ d.sending # None => d.sending.nth \in 1..len /\ d.sending = TE!Item(n, d.sending.nth)
      /\ ~d.unavailable =>
           /\ sent >= 0
           /\ \A i \in 1..Len(d.queue) : d.queue[i] = TE!Item(n, sent + i)
           /\ IF d.sending = None THEN TE!GivenUpTo(n, sent) ELSE d.sending.nth = sent
  BY <1>1 DEF QueueOf
<1>3. TE!GivenUpTo(n, sent)' <=> TE!GivenUpTo(n, sent)
  BY DEF TE!GivenUpTo
<1>4. \A p : TE!Item(n, p)' = TE!Item(n, p)
  BY DEF TE!Item
<1>5. /\ Len(v11'[v9'.active]) - Len(v9'.queue) = sent
      /\ v9'.active = n /\ v9'.queue = d.queue /\ v9'.sending = d.sending
      /\ v9'.unavailable = d.unavailable
  BY <1>1
<1> QED
  BY <1>2, <1>3, <1>4, <1>5 DEF TE!QueueIsTaken, TE!Item

LEMMA WriteAnsweredKeeps ==
  ASSUME TE!IInv, TE!WriteAnswered
  PROVE  TE!IInv'
<1>1. /\ TE!TypeOK /\ TE!AttemptsAreMade /\ TE!TakenInOrder /\ TE!WritesAreNext /\ TE!AnswersAreTrue
      /\ TE!QueueIsTaken
  BY DEF TE!IInv
<1>2. PICK a \in v6 :
        /\ v6' = v6 \ {a}
        /\ v9' = TE!Answered(a)
        /\ v4' = v4 \o TE!Sends(v9, v9')
        /\ v8' = IF a.to = v9.active /\ ~a.ok THEN TE!Rendered(TE!Shown(v8, v9, v9'))
                 ELSE TE!Shown(v8, v9, v9')
        /\ UNCHANGED <<TE!mainVars, v5, v7, v10, v11, v12>>
  BY DEF TE!WriteAnswered
<1>3. UNCHANGED <<v1, v2, v3, v5, v7, v11>> /\ v6' \subseteq v6
  BY <1>2 DEF TE!mainVars
<1>4. PICK n : n = v9.active
  OBVIOUS
<1>5. a.to \in 1..Len(v7) /\ a.to \in 1..MaxAttempts /\ v9 \in TE!Controllers
      /\ v4 \in Seq(TE!Messages) /\ Len(v4) \in Nat
      /\ \A m \in 1..MaxAttempts : Len(v11[m]) \in Nat
  BY <1>1, <1>2, Typed DEF TE!AttemptsAreMade, TE!TypeOK
<1>6. a.to = n => NoWrite(n) /\ v9.sending # None /\ n # 0
        /\ (a.ok => TE!GivenUpTo(n, v9.sending.nth)) /\ QueueOf(v9, n, Len(v11[n]))
  <2> SUFFICES ASSUME a.to = n
               PROVE  NoWrite(n) /\ v9.sending # None /\ n # 0
                      /\ (a.ok => TE!GivenUpTo(n, v9.sending.nth)) /\ QueueOf(v9, n, Len(v11[n]))
    OBVIOUS
  <2>1. \A i \in 1..Len(v4) : v4[i].kind = "write" => v4[i].to # n
    BY <1>1, <1>2 DEF TE!WritesAreNext
  <2>2. \A b \in v6' : b.to # n
    BY <1>1, <1>2 DEF TE!AnswersAreTrue
  <2>3. n # 0
    BY <1>5
  <2> QED
    BY <1>1, <1>2, <1>4, <2>1, <2>2, <2>3, QueueIsOf DEF TE!AnswersAreTrue, NoWrite
<1>7. /\ v9' \in TE!Controllers /\ v9'.attempt = v9.attempt /\ v9'.active = n
      /\ v9'.active = 0 => v9'.queue = << >> /\ v9'.sending = None
      /\ v9'.sending = v9.sending \/ NoWrite(n)
      /\ v4' \in Seq(TE!Messages) /\ \A i \in 1..Len(v4) : v4'[i] = v4[i]
      /\ v4' = v4 \/ (NoWrite(n) /\ SendsNext(n, v9'.sending))
      /\ TE!QueueIsTaken'
  <2>1. CASE a.to # n
    <3>1. v9' = v9
      BY <1>2, <1>4, <2>1 DEF TE!Answered
    <3>2. v4' = v4
      BY <1>2, <1>5, <3>1, ConcatEmptySeq DEF TE!Sends
    <3>3. TE!QueueIsTaken'
      BY <1>1, <1>3, <3>1 DEF TE!QueueIsTaken, TE!GivenUpTo, TE!Item
    <3> QED
      BY <1>1, <1>4, <1>5, <3>1, <3>2, <3>3 DEF TE!AttemptsAreMade
  <2>2. CASE a.to = n /\ a.ok
    <3>1. PICK c : c = [v9 EXCEPT !.sending = None]
      OBVIOUS
    <3>2. /\ c \in TE!Controllers /\ c.attempt = v9.attempt /\ c.active = n
          /\ c.queue = v9.queue /\ c.sending = None /\ c.unavailable = v9.unavailable
      BY <1>4, <1>5, <3>1 DEF TE!Controllers
    <3>3. PICK d : d = TE!Drained(c)
      OBVIOUS
    <3>4. v9' = d
      BY <1>2, <1>4, <2>2, <3>1, <3>3 DEF TE!Answered
    <3>5. PICK len \in Nat : len = Len(v11[n])
      BY <1>5, <2>2
    <3>6. QueueOf(v9, n, len) /\ v9.sending # None /\ TE!GivenUpTo(n, v9.sending.nth) /\ n # 0
          /\ NoWrite(n)
      BY <1>6, <2>2, <3>5
    <3>7. QueueOf(c, n, len)
      <4>1. PICK sent : sent = len - Len(c.queue)
        OBVIOUS
      <4>2. ~c.unavailable =>
              /\ sent >= 0 /\ \A i \in 1..Len(c.queue) : c.queue[i] = TE!Item(n, sent + i)
              /\ TE!GivenUpTo(n, sent)
        BY <3>2, <3>6, <4>1 DEF QueueOf
      <4> QED
        BY <3>2, <4>1, <4>2 DEF QueueOf
    <3>8. /\ QueueOf(d, n, len)
          /\ d # c =>
               LET item == d.sending
               IN  /\ item \in TE!Items /\ item.nth \in 1..len /\ item = TE!Item(n, item.nth)
                   /\ TE!GivenUpTo(n, item.nth - 1)
      BY <3>2, <3>3, <3>5, <3>7, DrainedNext, TerminalsWellFormed
    <3>9. /\ d \in TE!Controllers /\ d.attempt = v9.attempt /\ d.active = n
          /\ d = c \/ (/\ c.queue # << >> /\ ~c.unavailable /\ d.queue = Tail(c.queue)
                       /\ d.sending = Head(c.queue) /\ d.sending \in TE!Items)
      BY <3>2, <3>3, DrainedIs
    <3>10. TE!QueueIsTaken'
      <4>1. v9'.active = n /\ len = Len(v11'[n]) /\ v3' = v3 /\ v7' = v7
        BY <1>3, <3>4, <3>5, <3>9
      <4> QED
        BY <3>4, <3>8, <4>1, QueueLater
    <3>11. CASE d = c
      <4>1. v4' = v4
        BY <1>2, <1>5, <3>2, <3>4, <3>11, ConcatEmptySeq DEF TE!Sends
      <4> QED
        BY <1>5, <3>2, <3>4, <3>6, <3>9, <3>10, <3>11, <4>1
    <3>12. CASE d # c
      <4>1. d.sending # None
        BY <3>9, <3>12, TerminalsWellFormed DEF TE!WellFormed
      <4>2. d.sending # v9.sending
        <5>1. c.queue \in Seq(TE!Items) /\ c.queue # << >>
          BY <3>2, <3>9, <3>12 DEF TE!Controllers
        <5>2. Head(c.queue) = c.queue[1] /\ Len(c.queue) \in Nat /\ Len(c.queue) >= 1
          BY <5>1, FirstTaken
        <5>3. PICK sent : sent = len - Len(c.queue)
          OBVIOUS
        <5>4. /\ \A i \in 1..Len(c.queue) : c.queue[i] = TE!Item(n, sent + i)
              /\ v9.sending.nth = sent
          BY <3>2, <3>6, <3>9, <3>12, <5>3 DEF QueueOf
        <5>5. d.sending = TE!Item(n, sent + 1)
          BY <3>9, <3>12, <5>2, <5>4
        <5>6. d.sending.nth = sent + 1 /\ sent \in Int
          BY <3>5, <5>2, <5>3, <5>5 DEF TE!Item
        <5> QED
          BY <5>4, <5>6
      <4>3. PICK item \in TE!Items : item = d.sending
        BY <3>9, <3>12
      <4>4. v4' = v4 \o <<[kind |-> "write", to |-> n, item |-> item]>>
        BY <1>2, <3>4, <3>9, <4>1, <4>2, <4>3 DEF TE!Sends
      <4>5. n \in 1..Len(v7)
        BY <1>5, <2>2
      <4>6. /\ v4' \in Seq(TE!Messages) /\ Len(v4') = Len(v4) + 1
            /\ \A i \in 1..Len(v4) : v4'[i] = v4[i]
            /\ v4'[Len(v4) + 1] = [kind |-> "write", to |-> n, item |-> item]
        BY <1>1, <4>4, <4>5, WriteAdded
      <4>7. SendsNext(n, v9'.sending)
        <5>1. /\ item.nth \in 1..Len(v11'[n]) /\ item = TE!Item(n, item.nth)
              /\ TE!GivenUpTo(n, item.nth - 1)
          BY <1>3, <3>5, <3>8, <3>12, <4>3
        <5>2. SendsNext(n, item)
          BY <4>5, <4>6, <5>1 DEF SendsNext
        <5> QED
          BY <3>4, <4>3, <5>2
      <4> QED
        BY <3>4, <3>6, <3>9, <3>10, <4>6, <4>7
    <3> QED
      BY <3>11, <3>12
  <2>3. CASE a.to = n /\ ~a.ok
    <3>1. PICK q : q = << >> /\ q \in Seq(TE!Items)
      BY EmptySeq
    <3>2. PICK c : c = [v9 EXCEPT !.queue = q, !.unavailable = TRUE, !.state = "failed"]
      OBVIOUS
    <3>3. c = TE!FailInput(v9)
      BY <3>1, <3>2 DEF TE!FailInput
    <3>4. c \in TE!Controllers /\ c.attempt = v9.attempt /\ c.active = n /\ c.unavailable
      BY <1>4, <1>5, <3>1, <3>2 DEF TE!Controllers, TE!States
    <3>5. PICK d : d = [c EXCEPT !.sending = None]
      OBVIOUS
    <3>6. /\ d \in TE!Controllers /\ d.attempt = v9.attempt /\ d.active = n /\ d.unavailable
          /\ d.sending = None
      BY <3>4, <3>5 DEF TE!Controllers
    <3>7. v9' = d
      BY <1>2, <1>4, <2>3, <3>3, <3>5 DEF TE!Answered
    <3>8. v4' = v4
      BY <1>2, <1>5, <3>6, <3>7, ConcatEmptySeq DEF TE!Sends
    <3>9. TE!QueueIsTaken'
      BY <3>6, <3>7 DEF TE!QueueIsTaken
    <3> QED
      BY <1>5, <1>6, <2>3, <3>6, <3>7, <3>8, <3>9
  <2> QED
    BY <2>1, <2>2, <2>3
<1>8. v8' \in TE!Panes /\ v8'.session = v8.session
  <2>1. v8 \in TE!Panes
    BY <1>1 DEF TE!TypeOK
  <2>2. TE!Shown(v8, v9, v9') \in TE!Panes /\ TE!Shown(v8, v9, v9').session = v8.session
    BY <1>5, <1>7, <2>1, PaneTyped
  <2>3. PICK p : p = TE!Shown(v8, v9, v9')
    OBVIOUS
  <2>4. TE!Rendered(p) \in TE!Panes /\ TE!Rendered(p).session = p.session
    BY <1>5, <2>2, <2>3, PaneTyped
  <2> QED
    BY <1>2, <2>2, <2>3, <2>4
<1>9. TE!TypeOK'
  BY <1>1, <1>3, <1>7, <1>8 DEF TE!TypeOK
<1>10. TE!TakenInOrder'
  BY <1>3, TakenStays DEF AttemptsGrow
<1>11. /\ \A m \in 1..MaxAttempts : m # n => v11'[m] = v11[m]
       /\ \A m \in 1..MaxAttempts : Len(v11[m]) <= Len(v11'[m])
  BY <1>3, <1>5
<1> QED
  BY <1>3, <1>4, <1>7, <1>8, <1>9, <1>10, <1>11, SendSteps

LEMMA HeldLen ==
  ASSUME TE!WellFormed, NEW c \in TE!Controllers
  PROVE  /\ Len(TE!Held(c)) = Len(c.queue) + (IF c.sending = None THEN 0 ELSE 1)
         /\ Len(c.queue) \in Nat /\ c.queue \in Seq(TE!Items)
<1>1. c.queue \in Seq(TE!Items) /\ c.sending \in TE!Items \cup {None}
  BY DEF TE!Controllers
<1>2. CASE c.sending = None
  BY <1>1, <1>2, ConcatEmptySeq, LenProperties DEF TE!Held
<1>3. CASE c.sending # None
  <2>1. PICK q : q = <<c.sending>>
    OBVIOUS
  <2>2. q \in Seq(TE!Items) /\ Len(q) = 1
    BY <1>1, <1>3, <2>1
  <2>3. TE!Held(c) = c.queue \o q
    BY <1>3, <2>1 DEF TE!Held
  <2>4. Len(c.queue \o q) = Len(c.queue) + Len(q) /\ Len(c.queue) \in Nat
    BY <1>1, <2>2, Joined
  <2> QED
    BY <1>1, <1>3, <2>2, <2>3, <2>4
<1> QED
  BY <1>2, <1>3

\* What the queue takes: the item is behind what it had, and is told to taken.
LEMMA TakesItem ==
  ASSUME TE!WellFormed, NEW c \in TE!Controllers, NEW e \in TE!Controllers, NEW item \in TE!Items,
         e.queue = Append(c.queue, item), e.sending = c.sending,
         NEW d, d = TE!Drained(e)
  PROVE  /\ Len(e.queue) = Len(c.queue) + 1
         /\ ~(Len(TE!Held(d)) <= Len(TE!Held(c)))
         /\ TE!Last(IF d.queue = << >> THEN <<d.sending>> ELSE d.queue) = item
<1>1. /\ Len(TE!Held(c)) = Len(c.queue) + (IF c.sending = None THEN 0 ELSE 1)
      /\ Len(c.queue) \in Nat /\ c.queue \in Seq(TE!Items)
      /\ d \in TE!Controllers
      /\ Len(TE!Held(d)) = Len(d.queue) + (IF d.sending = None THEN 0 ELSE 1)
      /\ Len(e.queue) \in Nat /\ e.queue \in Seq(TE!Items)
  BY DrainedIs, HeldLen
<1>2. PICK q, r : q = c.queue /\ r = e.queue
  OBVIOUS
<1>3. /\ Len(r) = Len(q) + 1 /\ r[Len(q) + 1] = item
  BY <1>1, <1>2, Added
<1>a. PICK lc, ld : lc = Len(TE!Held(c)) /\ ld = Len(TE!Held(d))
  OBVIOUS
<1>b. /\ (c.sending = None => lc = Len(q)) /\ (c.sending # None => lc = Len(q) + 1)
      /\ (d.sending = None => ld = Len(d.queue)) /\ (d.sending # None => ld = Len(d.queue) + 1)
      /\ Len(q) \in Nat
  <2>1. PICK x, y : x = Len(c.queue) /\ y = Len(d.queue)
    OBVIOUS
  <2>2. lc = x + (IF c.sending = None THEN 0 ELSE 1) /\ ld = y + (IF d.sending = None THEN 0 ELSE 1)
    BY <1>1, <1>a, <2>1, Zenon
  <2>3. x = Len(q) /\ x \in Nat /\ y \in Nat
    BY <1>1, <1>2, <2>1, LenProperties DEF TE!Controllers
  <2>4. (c.sending = None => lc = x) /\ (c.sending # None => lc = x + 1)
    BY <2>2, <2>3
  <2>5. (d.sending = None => ld = y) /\ (d.sending # None => ld = y + 1)
    BY <2>2, <2>3
  <2> QED
    BY <2>1, <2>3, <2>4, <2>5, Zenon
<1>c. PICK last : last = TE!Last(IF d.queue = << >> THEN <<d.sending>> ELSE d.queue)
  OBVIOUS
<1>d. Len(e.queue) = Len(c.queue) + 1
  BY <1>2, <1>3
<1>4. ASSUME d = e
      PROVE  ~(ld <= lc) /\ last = item
  <2>1. d.queue = r /\ r # << >>
    BY <1>1, <1>2, <1>3, <1>4, EmptySeq
  <2>2. TE!Last(r) = item
    BY <1>3 DEF TE!Last
  <2>3. last = item
    BY <1>c, <2>1, <2>2
  <2>4. d.sending = c.sending /\ Len(d.queue) = Len(q) + 1
    BY <1>2, <1>3, <1>4
  <2> QED
    BY <1>b, <2>3, <2>4
<1>5. ASSUME d # e
      PROVE  ~(ld <= lc) /\ last = item
  <2>1. /\ c.sending = None /\ r # << >> /\ d.queue = Tail(r) /\ d.sending = Head(r)
        /\ Head(r) \in TE!Items /\ d.sending # None
    BY <1>2, <1>5, DrainedIs, ZenonT(60) DEF TE!WellFormed
  <2>2. PICK t, h : t = Tail(r) /\ h = Head(r)
    OBVIOUS
  <2>3. h = r[1] /\ t \in Seq(TE!Items) /\ Len(t) = Len(q) /\ \A i \in 1..Len(t) : t[i] = r[i + 1]
    BY <1>1, <1>2, <1>3, <2>1, <2>2, FirstTaken
  <2>a. ~(ld <= lc)
    BY <1>b, <2>1, <2>2, <2>3
  <2>4. CASE t = << >>
    <3>1. Len(q) = 0
      BY <2>3, <2>4, EmptySeq
    <3>2. h = item
      BY <1>3, <2>3, <3>1
    <3>3. TE!Last(<<h>>) = h
      BY DEF TE!Last
    <3> QED
      BY <1>c, <2>1, <2>2, <2>4, <2>a, <3>2, <3>3
  <2>5. CASE t # << >>
    <3>1. Len(t) # 0
      BY <2>3, <2>5, EmptySeq
    <3>2. Len(t) \in 1..Len(t)
      BY <1>1, <1>2, <2>3, <3>1
    <3>3. TE!Last(t) = item
      BY <1>3, <2>3, <3>2 DEF TE!Last
    <3> QED
      BY <1>c, <2>1, <2>2, <2>5, <2>a, <3>3
  <2> QED
    BY <2>4, <2>5
<1>6. ~(ld <= lc) /\ last = item
  BY <1>4, <1>5
<1>7. ~(Len(TE!Held(d)) <= Len(TE!Held(c)))
  BY <1>6, <1>a
<1>8. TE!Last(IF d.queue = << >> THEN <<d.sending>> ELSE d.queue) = item
  BY <1>6, <1>c
<1> QED
  BY <1>7, <1>8, <1>d

\* The queue takes an item.
LEMMA FitsKeeps ==
  ASSUME TE!IInv, NEW p \in TE!Panes, p.session = v8.session,
         NEW c \in TE!Controllers, c.attempt = v9.attempt, c.active = v9.active,
         c.queue = v9.queue, c.sending = v9.sending, c.unavailable = v9.unavailable,
         NEW n, n = v9.active, n # 0,
         NEW item, item = [meant |-> v7[n], by |-> n, nth |-> Len(v11[n]) + 1],
         TE!Input(TE!Drained([c EXCEPT !.queue = Append(@, item)]), p)
  PROVE  TE!IInv'
<1>1. /\ TE!TypeOK /\ TE!AttemptsAreMade /\ TE!TakenInOrder /\ TE!WritesAreNext /\ TE!AnswersAreTrue
  BY DEF TE!IInv
<1>2. /\ n \in 1..Len(v7) /\ n \in 1..MaxAttempts /\ v9 \in TE!Controllers
      /\ v7[n] \in TerminalSessions /\ v11[n] \in Seq(TE!Items) /\ n \in Nat
      /\ \A m \in 1..MaxAttempts : Len(v11[m]) \in Nat
      /\ v4 \in Seq(TE!Messages) /\ Len(v4) \in Nat
      /\ v11 \in [1..MaxAttempts -> Seq(TE!Items)]
  <2>1. n \in Nat /\ n <= Len(v7) /\ Len(v7) \in Nat /\ 1..Len(v7) \subseteq 1..MaxAttempts
    BY <1>1, Typed DEF TE!AttemptsAreMade
  <2>2. n \in 1..Len(v7) /\ n \in 1..MaxAttempts
    BY <2>1
  <2>3. /\ v9 \in TE!Controllers /\ v4 \in Seq(TE!Messages)
        /\ v11 \in [1..MaxAttempts -> Seq(TE!Items)]
    BY <1>1 DEF TE!TypeOK
  <2> QED
    BY <1>1, <2>1, <2>2, <2>3, Typed
<1>3. PICK len \in Nat : len = Len(v11[n])
  BY <1>2
<1>4. /\ item \in TE!Items /\ item # None /\ item = TE!Item(n, len + 1) /\ item.nth = len + 1
  BY <1>2, <1>3, TerminalsWellFormed DEF TE!Items, TE!Item, TE!WellFormed
<1>5. c.queue \in Seq(TE!Items) /\ Len(c.queue) \in Nat
  BY LenProperties DEF TE!Controllers
<1>6. PICK q : q = Append(c.queue, item)
  OBVIOUS
<1>7. /\ q \in Seq(TE!Items) /\ Len(q) = Len(c.queue) + 1
      /\ \A i \in 1..Len(c.queue) : q[i] = c.queue[i]
      /\ q[Len(c.queue) + 1] = item
  BY <1>4, <1>5, <1>6, Added
<1>8. PICK e : e = [c EXCEPT !.queue = q]
  OBVIOUS
<1>9. /\ e \in TE!Controllers /\ e.attempt = v9.attempt /\ e.active = n /\ e.queue = q
      /\ e.sending = v9.sending /\ e.unavailable = v9.unavailable
  BY <1>7, <1>8 DEF TE!Controllers
<1>10. PICK d : d = TE!Drained(e)
  OBVIOUS
<1>11. TE!Input(d, p)
  BY <1>6, <1>8, <1>10
<1>12. /\ d \in TE!Controllers /\ d.attempt = v9.attempt /\ d.active = n
       /\ d = e \/ (e.sending = None /\ d.sending \in TE!Items)
  BY <1>9, <1>10, DrainedIs
<1>13. /\ ~(Len(TE!Held(d)) <= Len(TE!Held(c)))
       /\ TE!Last(IF d.queue = << >> THEN <<d.sending>> ELSE d.queue) = item
  BY <1>4, <1>6, <1>9, <1>10, TakesItem, TerminalsWellFormed
<1>14. TE!Held(c) = TE!Held(v9)
  BY DEF TE!Held
<1>15. /\ v9' = d /\ v4' = v4 \o TE!Sends(v9, d) /\ v8' = TE!Shown(p, v9, d)
       /\ v11' = [v11 EXCEPT ![n] = Append(@, item)]
       /\ UNCHANGED <<v1, v2, v3, v5, v6, v7>>
  BY <1>11, <1>13, <1>14 DEF TE!Input, TE!mainVars
<1>16. PICK t : t = Append(v11[n], item)
  OBVIOUS
<1>17. /\ t \in Seq(TE!Items) /\ Len(t) = len + 1 /\ t[len + 1] = item
       /\ \A i \in 1..len : t[i] = v11[n][i]
  BY <1>2, <1>3, <1>4, <1>16, Added
<1>18. /\ v11' = [v11 EXCEPT ![n] = t] /\ v11'[n] = t
       /\ v11' \in [1..MaxAttempts -> Seq(TE!Items)]
       /\ \A m \in 1..MaxAttempts : m # n => v11'[m] = v11[m]
  BY <1>2, <1>15, <1>16, <1>17
<1>19. QueueOf(v9, n, len)
  BY <1>3, QueueIsOf
<1>20. QueueOf(e, n, len + 1)
  <2>1. PICK sent : sent = len - Len(c.queue)
    OBVIOUS
  <2>2. (len + 1) - Len(e.queue) = sent
    BY <1>5, <1>7, <1>9, <2>1
  <2>3. /\ v9.sending # None =>
             v9.sending.nth \in 1..len /\ v9.sending = TE!Item(n, v9.sending.nth)
        /\ ~v9.unavailable =>
             /\ sent >= 0
             /\ \A i \in 1..Len(c.queue) : c.queue[i] = TE!Item(n, sent + i)
             /\ IF v9.sending = None THEN TE!GivenUpTo(n, sent) ELSE v9.sending.nth = sent
    BY <1>19, <2>1 DEF QueueOf
  <2>4. ~v9.unavailable => \A i \in 1..Len(q) : q[i] = TE!Item(n, sent + i)
    <3> SUFFICES ASSUME ~v9.unavailable, NEW i \in 1..Len(q)
                 PROVE  q[i] = TE!Item(n, sent + i)
      OBVIOUS
    <3>1. CASE i \in 1..Len(c.queue)
      BY <1>7, <2>3, <3>1
    <3>2. CASE i = Len(c.queue) + 1
      <4>1. sent + i = len + 1
        BY <1>5, <2>1, <3>2
      <4> QED
        BY <1>4, <1>7, <3>2, <4>1
    <3> QED
      BY <1>5, <1>7, <3>1, <3>2
  <2>5. v9.sending # None => v9.sending.nth \in 1..(len + 1)
    BY <2>3
  <2>6. /\ e.sending # None =>
             e.sending.nth \in 1..(len + 1) /\ e.sending = TE!Item(n, e.sending.nth)
        /\ ~e.unavailable =>
             /\ sent >= 0
             /\ \A i \in 1..Len(e.queue) : e.queue[i] = TE!Item(n, sent + i)
             /\ IF e.sending = None THEN TE!GivenUpTo(n, sent) ELSE e.sending.nth = sent
    BY <1>9, <2>3, <2>4, <2>5
  <2> QED
    BY <2>2, <2>6 DEF QueueOf
<1>21. /\ QueueOf(d, n, len + 1)
       /\ d # e =>
            /\ d.sending \in TE!Items /\ d.sending.nth \in 1..(len + 1)
            /\ d.sending = TE!Item(n, d.sending.nth) /\ TE!GivenUpTo(n, d.sending.nth - 1)
  <2>1. len + 1 \in Nat
    OBVIOUS
  <2> QED
    BY <1>9, <1>10, <1>20, <2>1, DrainedNext, TerminalsWellFormed
<1>22. TE!QueueIsTaken'
  <2>1. /\ v9'.active = n /\ v9' = d /\ len + 1 = Len(v11'[n])
        /\ v3' = v3 /\ v7' = v7
    BY <1>12, <1>15, <1>17, <1>18
  <2> QED
    BY <1>21, <2>1, QueueLater
<1>23. /\ v9'.sending = v9.sending \/ NoWrite(n)
       /\ v4' \in Seq(TE!Messages) /\ \A i \in 1..Len(v4) : v4'[i] = v4[i]
       /\ v4' = v4 \/ (NoWrite(n) /\ SendsNext(n, v9'.sending))
  <2>1. CASE d = e
    <3>1. v9'.sending = v9.sending /\ v4' = v4
      BY <1>2, <1>9, <1>15, <2>1, ConcatEmptySeq DEF TE!Sends
    <3> QED
      BY <1>2, <3>1
  <2>2. CASE d # e
    <3>1. v9.sending = None /\ d.sending # None
      BY <1>9, <1>12, <2>2, TerminalsWellFormed DEF TE!WellFormed
    <3>2. NoWrite(n)
      <4>1. \A i \in 1..Len(v4) : v4[i].kind = "write" => v4[i].to # n
        <5>1. \A i \in 1..Len(v4) : v4[i].kind = "write" => v4[i].item # None
          BY <1>1, Typed, TerminalsWellFormed DEF TE!WellFormed
        <5> QED
          BY <1>1, <3>1, <5>1 DEF TE!WritesAreNext
      <4>2. \A a \in v6 : a.to # n
        BY <1>1, <3>1 DEF TE!AnswersAreTrue
      <4> QED
        BY <1>15, <4>1, <4>2 DEF NoWrite
    <3>3. PICK it \in TE!Items : it = d.sending
      BY <1>21, <2>2
    <3>4. v4' = v4 \o <<[kind |-> "write", to |-> n, item |-> it]>>
      BY <1>12, <1>15, <3>1, <3>3 DEF TE!Sends
    <3>5. /\ v4' \in Seq(TE!Messages) /\ Len(v4') = Len(v4) + 1
          /\ \A i \in 1..Len(v4) : v4'[i] = v4[i]
          /\ v4'[Len(v4) + 1] = [kind |-> "write", to |-> n, item |-> it]
      BY <1>1, <1>2, <3>4, WriteAdded
    <3>6. SendsNext(n, it)
      BY <1>2, <1>17, <1>18, <1>21, <2>2, <3>3, <3>5 DEF SendsNext
    <3> QED
      BY <1>15, <3>2, <3>3, <3>5, <3>6
  <2> QED
    BY <2>1, <2>2
<1>24. v8' \in TE!Panes /\ v8'.session = v8.session
  BY <1>2, <1>12, <1>15, PaneTyped
<1>25. TE!TypeOK'
  BY <1>1, <1>12, <1>15, <1>18, <1>23, <1>24 DEF TE!TypeOK
<1>26. TE!TakenInOrder'
  <2> SUFFICES ASSUME NEW m \in 1..MaxAttempts, NEW i \in 1..Len(v11'[m])
               PROVE  m <= Len(v7) /\ v11'[m][i] = TE!Item(m, i)
    BY <1>15 DEF TE!TakenInOrder, TE!Item
  <2>1. CASE m # n
    BY <1>1, <1>18, <2>1 DEF TE!TakenInOrder
  <2>2. CASE m = n /\ i \in 1..len
    BY <1>1, <1>2, <1>3, <1>17, <1>18, <2>2, ZenonT(60) DEF TE!TakenInOrder
  <2>3. CASE m = n /\ i = len + 1
    BY <1>2, <1>4, <1>17, <1>18, <2>3
  <2> QED
    BY <1>17, <1>18, <2>1, <2>2, <2>3
<1>27. \A m \in 1..MaxAttempts : Len(v11[m]) <= Len(v11'[m])
  BY <1>2, <1>3, <1>17, <1>18
<1>28. /\ v9'.attempt = v9.attempt /\ v9'.active = n
       /\ v9'.active = 0 => v9'.queue = << >> /\ v9'.sending = None
       /\ v6' \subseteq v6
  BY <1>12, <1>15
<1> QED
  BY <1>15, <1>18, <1>22, <1>23, <1>24, <1>25, <1>26, <1>27, <1>28, SendSteps

LEMMA InputKeeps ==
  ASSUME TE!IInv, NEW p \in TE!Panes, p.session = v8.session,
         NEW c \in TE!Controllers, c.attempt = v9.attempt, c.active = v9.active,
         c.queue = v9.queue, c.sending = v9.sending, c.unavailable = v9.unavailable,
         NEW s, v9.active # 0 => s = v7[v9.active],
         NEW d \in TE!Enqueues(c, s), TE!Input(d, p)
  PROVE  TE!IInv'
<1>1. TE!TypeOK /\ TE!AttemptsAreMade /\ TE!TakenInOrder
  BY DEF TE!IInv
<1>2. /\ v9 \in TE!Controllers /\ v4 \in Seq(TE!Messages) /\ Len(v4) \in Nat
      /\ \A m \in 1..MaxAttempts : Len(v11[m]) \in Nat
  BY <1>1, Typed DEF TE!TypeOK
<1>3. ASSUME Len(TE!Held(d)) <= Len(TE!Held(v9)), d.sending = v9.sending, d \in TE!Controllers
      PROVE  /\ v9' = d /\ v4' = v4 /\ v8' \in TE!Panes /\ v8'.session = v8.session
             /\ UNCHANGED <<v1, v2, v3, v5, v6, v7, v11>>
  <2>1. /\ v9' = d /\ v4' = v4 \o TE!Sends(v9, d) /\ v8' = TE!Shown(p, v9, d)
        /\ UNCHANGED <<v1, v2, v3, v5, v6, v7, v11>>
    BY <1>3 DEF TE!Input, TE!mainVars
  <2>2. v4' = v4
    BY <1>2, <1>3, <2>1, ConcatEmptySeq DEF TE!Sends
  <2>3. v8' \in TE!Panes /\ v8'.session = v8.session
    BY <1>2, <1>3, <2>1, PaneTyped
  <2> QED
    BY <2>1, <2>2, <2>3
<1>4. CASE d = c
  <2>1. TE!Held(d) = TE!Held(v9)
    BY <1>4 DEF TE!Held
  <2>2. Len(TE!Held(v9)) \in Nat
    BY <1>2, HeldLen, TerminalsWellFormed
  <2>3. SameQueue /\ UNCHANGED <<v1, v2, v3, v4, v5, v6, v7, v11>>
        /\ v8' \in TE!Panes /\ v8'.session = v8.session
    BY <1>3, <1>4, <2>1, <2>2 DEF SameQueue
  <2> QED
    BY <2>3, PaneSteps
<1>5. CASE TE!Accepts(c) /\ c.sending # None /\ d = TE!FailInput(c)
  <2>1. PICK q : q = << >> /\ q \in Seq(TE!Items) /\ Len(q) = 0
    BY EmptySeq
  <2>2. d = [c EXCEPT !.queue = q, !.unavailable = TRUE, !.state = "failed"]
    BY <1>5, <2>1 DEF TE!FailInput
  <2>3. /\ d \in TE!Controllers /\ d.attempt = c.attempt /\ d.active = c.active /\ d.unavailable
        /\ d.sending = c.sending /\ d.queue = q
    BY <2>1, <2>2 DEF TE!Controllers, TE!States
  <2>4. Len(TE!Held(d)) = Len(d.queue) + 1 /\ Len(TE!Held(v9)) = Len(v9.queue) + 1
        /\ Len(v9.queue) \in Nat
    BY <1>2, <1>5, <2>3, HeldLen, TerminalsWellFormed
  <2>5. Len(TE!Held(d)) <= Len(TE!Held(v9))
    BY <2>1, <2>3, <2>4
  <2>6. /\ v9' = d /\ v4' = v4 /\ v8' \in TE!Panes /\ v8'.session = v8.session
        /\ UNCHANGED <<v1, v2, v3, v5, v6, v7, v11>>
    BY <1>3, <2>3, <2>5
  <2>7. TE!QueueIsTaken'
    <3>1. v9' \in TE!Controllers /\ v9'.active = v9.active /\ v9'.sending = v9.sending
          /\ v9'.unavailable
      BY <2>3, <2>6
    <3> QED
      BY <2>6, <3>1, QueueStays
  <2>8. TE!TypeOK'
    BY <1>1, <2>3, <2>6 DEF TE!TypeOK
  <2>9. TE!TakenInOrder'
    BY <2>6, TakenStays DEF AttemptsGrow
  <2>10. PICK n : n = v9.active
    OBVIOUS
  <2>11. /\ n # 0 /\ v9'.attempt = v9.attempt /\ v9'.active = n /\ v9'.sending = v9.sending
         /\ v6' \subseteq v6
         /\ \A m \in 1..MaxAttempts : m # n => v11'[m] = v11[m]
         /\ \A m \in 1..MaxAttempts : Len(v11[m]) <= Len(v11'[m])
         /\ \A i \in 1..Len(v4) : v4'[i] = v4[i]
         /\ v9'.active = 0 => v9'.queue = << >> /\ v9'.sending = None
    BY <1>2, <1>5, <2>3, <2>6, <2>10 DEF TE!Accepts
  <2> QED
    BY <2>6, <2>7, <2>8, <2>9, <2>10, <2>11, SendSteps
<1>6. CASE TE!Accepts(c) /\ d = TE!Drained([c EXCEPT !.queue = Append(@,
              [meant |-> s, by |-> c.active, nth |-> Len(v11[c.active]) + 1])])
  <2>1. PICK n, item : /\ n = v9.active
                       /\ item = [meant |-> v7[n], by |-> n, nth |-> Len(v11[n]) + 1]
    OBVIOUS
  <2>2. n # 0 /\ item = [meant |-> s, by |-> c.active, nth |-> Len(v11[c.active]) + 1]
    BY <1>6, <2>1 DEF TE!Accepts
  <2>3. TE!Input(TE!Drained([c EXCEPT !.queue = Append(@, item)]), p)
    BY <1>6, <2>2
  <2> QED
    BY <2>1, <2>2, <2>3, FitsKeeps
<1> QED
  BY <1>4, <1>5, <1>6 DEF TE!Enqueues

\* What the pane shows is the Session of its controller's attempt.
LEMMA Meant ==
  ASSUME TE!IInv
  PROVE  /\ v8 \in TE!Panes /\ v9 \in TE!Controllers
         /\ v9.active # 0 => v8.session = v7[v9.active]
BY DEF TE!IInv, TE!TypeOK, TE!AttemptsAreMade

LEMMA TypingKeeps ==
  ASSUME TE!IInv, TE!Type \/ TE!Enter \/ TE!Interrupt \/ TE!MenuSignal
  PROVE  TE!IInv'
<1>1. /\ v8 \in TE!Panes /\ v9 \in TE!Controllers
      /\ v9.active # 0 => v8.session = v7[v9.active]
  BY Meant
<1>2. ASSUME NEW line \in {"empty", "command", "other"}
      PROVE  LET c == [v9 EXCEPT !.line = line]
             IN  /\ c \in TE!Controllers /\ c.attempt = v9.attempt /\ c.active = v9.active
                 /\ c.queue = v9.queue /\ c.sending = v9.sending
                 /\ c.unavailable = v9.unavailable
  BY <1>1 DEF TE!Controllers
<1>3. \A line, chunk : TE!Grown(line, chunk) \in {"empty", "command", "other"}
  BY DEF TE!Grown
<1>4. CASE TE!Type
  <2>a. PICK chunk \in {"command", "text"} :
          \E d \in TE!Enqueues([v9 EXCEPT !.line = TE!Grown(@, chunk)], v8.session) :
            TE!Input(d, v8)
    BY <1>4 DEF TE!Type
  <2>1. PICK d \in TE!Enqueues([v9 EXCEPT !.line = TE!Grown(@, chunk)], v8.session) :
          TE!Input(d, v8)
    BY <2>a
  <2>2. PICK line \in {"empty", "command", "other"} : line = TE!Grown(v9.line, chunk)
    BY <1>3
  <2>3. PICK c : c = [v9 EXCEPT !.line = line]
    OBVIOUS
  <2>4. d \in TE!Enqueues(c, v8.session)
    BY <2>1, <2>2, <2>3
  <2>5. /\ c \in TE!Controllers /\ c.attempt = v9.attempt /\ c.active = v9.active
        /\ c.queue = v9.queue /\ c.sending = v9.sending /\ c.unavailable = v9.unavailable
    BY <1>2, <2>3
  <2> QED
    BY <1>1, <2>1, <2>4, <2>5, InputKeeps
<1>5. CASE TE!Enter
  <2>1. PICK c : c = [v9 EXCEPT !.line = "empty"]
    OBVIOUS
  <2>2. /\ c \in TE!Controllers /\ c.attempt = v9.attempt /\ c.active = v9.active
        /\ c.queue = v9.queue /\ c.sending = v9.sending /\ c.unavailable = v9.unavailable
    BY <1>2, <2>1
  <2>3. \/ /\ v9' = c /\ v8' = [v8 EXCEPT !.due = TRUE]
           /\ UNCHANGED <<TE!mainVars, v4, v5, v6, v7, v11, v12>>
        \/ \E d \in TE!Enqueues(c, v8.session) : TE!Input(d, v8)
    BY <1>5, <2>1 DEF TE!Enter
  <2>4. CASE /\ v9' = c /\ v8' = [v8 EXCEPT !.due = TRUE]
             /\ UNCHANGED <<TE!mainVars, v4, v5, v6, v7, v11, v12>>
    <3>1. v8' \in TE!Panes /\ v8'.session = v8.session
      BY <1>1, <2>4 DEF TE!Panes
    <3>2. SameQueue /\ UNCHANGED <<v1, v2, v3, v4, v5, v6, v7, v11>>
      BY <2>2, <2>4 DEF SameQueue, TE!mainVars
    <3> QED
      BY <3>1, <3>2, PaneSteps
  <2>5. ASSUME NEW d \in TE!Enqueues(c, v8.session), TE!Input(d, v8)
        PROVE  TE!IInv'
    BY <1>1, <2>2, <2>5, InputKeeps
  <2> QED
    BY <2>3, <2>4, <2>5
<1>6. CASE TE!Interrupt \/ TE!MenuSignal
  <2>1. (\E d \in TE!Enqueues(v9, v8.session) : TE!Input(d, v8)) \/ TE!Refused(v8)
    BY <1>6 DEF TE!Interrupt, TE!MenuSignal
  <2>2. ASSUME NEW d \in TE!Enqueues(v9, v8.session), TE!Input(d, v8)
        PROVE  TE!IInv'
    BY <1>1, <2>2, InputKeeps
  <2> QED
    BY <1>1, <2>1, <2>2, RefusedKeeps
<1> QED
  BY <1>4, <1>5, <1>6

LEMMA PastesKeeps ==
  ASSUME TE!IInv, NEW p \in TE!Panes, p.session = v8.session, NEW s, TE!Pastes(p, s)
  PROVE  TE!IInv'
<1>1. v8 \in TE!Panes /\ v9 \in TE!Controllers
  BY Meant
<1>2. PICK c : c = [v9 EXCEPT !.line = "empty"]
  OBVIOUS
<1>3. /\ c \in TE!Controllers /\ c.attempt = v9.attempt /\ c.active = v9.active
      /\ c.queue = v9.queue /\ c.sending = v9.sending /\ c.unavailable = v9.unavailable
  BY <1>1, <1>2 DEF TE!Controllers
<1>4. PICK q : q = TE!Rendered(p)
  OBVIOUS
<1>5. q \in TE!Panes /\ q.session = v8.session
  BY <1>1, <1>4, PaneTyped
<1>6. \/ TE!Refused(p)
      \/ v7[v9.active] = s /\ \E d \in TE!Enqueues(c, s) : TE!Input(d, q)
  BY <1>2, <1>4 DEF TE!Pastes
<1>7. ASSUME v7[v9.active] = s, NEW d \in TE!Enqueues(c, s), TE!Input(d, q)
      PROVE  TE!IInv'
  BY <1>3, <1>5, <1>7, InputKeeps
<1> QED
  BY <1>6, <1>7, RefusedKeeps

LEMMA PastingKeeps ==
  ASSUME TE!IInv, TE!ClipboardAnswers \/ TE!ConfirmPaste
  PROVE  TE!IInv'
<1>1. v8 \in TE!Panes /\ v9 \in TE!Controllers
  BY Meant
<1>2. CASE TE!ClipboardAnswers
  <2>1. PICK done : done = [v8 EXCEPT !.clipboard = None]
    OBVIOUS
  <2>2. PICK read : read = v8.clipboard
    OBVIOUS
  <2>3. done \in TE!Panes /\ done.session = v8.session
    BY <1>1, <2>1 DEF TE!Panes
  <2>4. \/ /\ v8' = done
           /\ UNCHANGED <<TE!mainVars, v4, v5, v6, v7, v9, v11, v12>>
        \/ read.session # None /\ TE!Pastes([done EXCEPT !.paste = None], read.session)
        \/ /\ read.session # None /\ read.session = v8.session
           /\ TE!Refused([done EXCEPT !.paste = read.session])
        \/ TE!Refused([done EXCEPT !.paste = None])
    BY <1>2, <2>1, <2>2 DEF TE!ClipboardAnswers
  <2>5. PICK none : none = [done EXCEPT !.paste = None]
    OBVIOUS
  <2>6. none \in TE!Panes /\ none.session = v8.session
    BY <2>3, <2>5 DEF TE!Panes
  <2>7. CASE /\ v8' = done
             /\ UNCHANGED <<TE!mainVars, v4, v5, v6, v7, v9, v11, v12>>
    <3>1. SameQueue /\ UNCHANGED <<v1, v2, v3, v4, v5, v6, v7, v11>>
      BY <1>1, <2>7 DEF SameQueue, TE!mainVars
    <3> QED
      BY <2>3, <2>7, <3>1, PaneSteps
  <2>8. CASE TE!Pastes(none, read.session)
    BY <2>6, <2>8, PastesKeeps
  <2>9. CASE /\ read.session = v8.session
             /\ TE!Refused([done EXCEPT !.paste = read.session])
    <3>1. PICK p : p = [done EXCEPT !.paste = read.session]
      OBVIOUS
    <3>2. p \in TE!Panes /\ p.session = v8.session
      BY <2>3, <2>9, <3>1 DEF TE!Panes
    <3> QED
      BY <2>9, <3>1, <3>2, RefusedKeeps
  <2>10. CASE TE!Refused(none)
    BY <2>6, <2>10, RefusedKeeps
  <2> QED
    BY <2>4, <2>5, <2>7, <2>8, <2>9, <2>10
<1>3. CASE TE!ConfirmPaste
  <2>1. PICK done : done = [v8 EXCEPT !.paste = None]
    OBVIOUS
  <2>2. done \in TE!Panes /\ done.session = v8.session
    BY <1>1, <2>1 DEF TE!Panes
  <2>3. TE!Pastes(done, v8.paste) \/ TE!Refused(done)
    BY <1>3, <2>1 DEF TE!ConfirmPaste
  <2> QED
    BY <2>2, <2>3, PastesKeeps, RefusedKeeps
<1> QED
  BY <1>2, <1>3

LEMMA SetSessionKeeps ==
  ASSUME TE!IInv, NEW s \in TerminalSessions \cup {None}, TE!SetSession(s)
  PROVE  TE!IInv'
<1>1. /\ TE!TypeOK /\ TE!AttemptsAreMade /\ TE!TakenInOrder /\ TE!AttachesAreNew /\ TE!AttachedOnce
      /\ TE!WritesAreNext /\ TE!AnswersAreTrue /\ TE!HoldersAreKnown
  BY DEF TE!IInv
<1>2. /\ UNCHANGED <<v1, v2, v3, v5, v6, v11>>
      /\ s # None => Len(v7) < MaxAttempts
      /\ v7' = IF s = None THEN v7 ELSE Append(v7, s)
      /\ v9' = [TE!NewController EXCEPT !.attempt = IF s = None THEN 0 ELSE Len(v7'),
                                        !.state = IF s = None THEN "empty" ELSE "attaching"]
      /\ v8' = [TE!Shown(TE!Rendered(v8), v9, v9') EXCEPT !.session = s, !.paste = None]
      /\ v4' = v4 \o TE!Detaches(v9)
               \o IF s = None THEN << >> ELSE <<[kind |-> "attach", to |-> Len(v7')]>>
  BY DEF TE!SetSession, TE!mainVars
<1>3. /\ Len(v7) \in Nat /\ Len(v4) \in Nat /\ v7 \in Seq(TerminalSessions)
      /\ v8 \in TE!Panes /\ v9 \in TE!Controllers /\ Len(v7) <= MaxAttempts
      /\ MaxAttempts \in Nat
  BY <1>1, Typed DEF TE!TypeOK
<1>4. PICK new : new = IF s = None THEN 0 ELSE Len(v7) + 1
  OBVIOUS
<1>5. /\ v7' \in Seq(TerminalSessions) /\ Len(v7') \in Nat /\ Len(v7) <= Len(v7')
      /\ Len(v7') <= MaxAttempts
      /\ s # None => Len(v7') = new /\ v7'[new] = s /\ new = Len(v7) + 1
      /\ \A m \in 1..Len(v7) : v7'[m] = v7[m]
      /\ new \in Nat
  <2>1. CASE s = None
    BY <1>2, <1>3, <1>4, <2>1
  <2>2. CASE s # None
    <3>1. s \in TerminalSessions /\ v7' = Append(v7, s)
      BY <1>2, <2>2
    <3> QED
      BY <1>2, <1>3, <1>4, <2>2, <3>1, Added
  <2> QED
    BY <2>1, <2>2
<1>6. AttemptsGrow
  <2>1. \A m \in 1..Len(v7) : m \in 1..Len(v7')
    BY <1>3, <1>5
  <2> QED
    BY <1>5, <2>1 DEF AttemptsGrow
<1>7. /\ v9' \in TE!Controllers /\ v9'.attempt = new /\ v9'.active = 0
      /\ v9'.queue = << >> /\ v9'.sending = None
  <2>1. PICK x, c : /\ x = IF s = None THEN "empty" ELSE "attaching"
                    /\ c = TE!NewController
    OBVIOUS
  <2>2. x \in TE!States
    BY <2>1 DEF TE!States
  <2>3. v9' = [c EXCEPT !.attempt = new, !.state = x]
    BY <1>2, <1>4, <1>5, <2>1
  <2>4. c \in TE!Controllers /\ c.active = 0 /\ c.queue = << >> /\ c.sending = None
    BY <2>1, NewTyped
  <2> QED
    BY <1>5, <2>2, <2>3, <2>4 DEF TE!Controllers
<1>8. v8' \in TE!Panes /\ v8'.session = s
  <2>1. PICK p : p = TE!Rendered(v8)
    OBVIOUS
  <2>2. p \in TE!Panes
    BY <1>3, <2>1, PaneTyped
  <2>3. PICK q : q = TE!Shown(p, v9, v9')
    OBVIOUS
  <2>4. q \in TE!Panes
    BY <1>3, <1>7, <2>2, <2>3, PaneTyped
  <2>5. v8' = [q EXCEPT !.session = s, !.paste = None]
    BY <1>2, <2>1, <2>3
  <2> QED
    BY <2>4, <2>5 DEF TE!Panes
<1>9. /\ v4' \in Seq(TE!Messages) /\ Len(v4) <= Len(v4')
      /\ \A i \in 1..Len(v4) : v4'[i] = v4[i]
      /\ \A i \in 1..Len(v4') : i \in 1..Len(v4)
           \/ (v4'[i].kind = "detach" /\ v4'[i].to \in 1..Len(v7))
           \/ (s # None /\ i = Len(v4') /\ v4'[i] = [kind |-> "attach", to |-> new])
      /\ v9.active # 0 =>
           \E i \in 1..Len(v4') : v4'[i].kind = "detach" /\ v4'[i].to = v9.active
  <2>1. PICK w : w = v4 \o TE!Detaches(v9)
    OBVIOUS
  <2>2. /\ w \in Seq(TE!Messages) /\ Len(v4) <= Len(w)
        /\ \A i \in 1..Len(v4) : w[i] = v4[i]
        /\ \A i \in 1..Len(w) : i <= Len(v4) \/
             (w[i].kind = "detach" /\ w[i].to \in 1..Len(v7))
        /\ v9.active # 0 =>
             \E i \in 1..Len(w) : w[i].kind = "detach" /\ w[i].to = v9.active
    BY <1>1, <2>1, PutAway
  <2>3. Len(w) \in Nat
    BY <2>2, LenProperties
  <2>4. \A i \in 1..Len(w) : i <= Len(v4) => i \in 1..Len(v4)
    BY <1>3, <2>3
  <2>5. CASE s = None
    <3>1. v4' = w
      BY <1>2, <2>1, <2>2, <2>5, ConcatEmptySeq
    <3> QED
      BY <2>2, <2>4, <3>1
  <2>6. CASE s # None
    <3>1. PICK m : m = [kind |-> "attach", to |-> new]
      OBVIOUS
    <3>2. m \in TE!Messages /\ m.kind = "attach" /\ m.to = new
      BY <1>5, <3>1 DEF TE!Messages
    <3>3. PICK q : q = <<m>>
      OBVIOUS
    <3>4. q \in Seq(TE!Messages) /\ Len(q) = 1 /\ q[1] = m
      BY <3>2, <3>3
    <3>5. v4' = w \o q
      BY <1>2, <1>5, <2>1, <2>6, <3>1, <3>3
    <3>6. /\ v4' \in Seq(TE!Messages) /\ Len(v4') = Len(w) + 1
          /\ \A i \in 1..Len(w) : v4'[i] = w[i]
          /\ v4'[Len(w) + 1] = q[1]
      <4>1. w \in Seq(TE!Messages)
        BY <2>2
      <4>2. /\ w \o q \in Seq(TE!Messages) /\ Len(w \o q) = Len(w) + Len(q)
            /\ \A i \in 1..Len(w) : (w \o q)[i] = w[i]
            /\ \A i \in 1..Len(q) : (w \o q)[Len(w) + i] = q[i]
        <5>1. q \in Seq(TE!Messages)
          BY <3>4
        <5> QED
          BY <4>1, <5>1, ConcatProperties
      <4>3. 1 \in 1..Len(q)
        BY <3>4
      <4>4. (w \o q)[Len(w) + 1] = q[1]
        BY <4>2, <4>3
      <4> QED
        BY <3>4, <3>5, <4>2, <4>4
    <3>7. v4'[Len(w) + 1] = m
      BY <3>4, <3>6
    <3>8. /\ \A i \in 1..Len(w) : i \in 1..Len(v4')
          /\ \A i \in 1..Len(v4') : i \in 1..Len(w) \/ i = Len(v4')
          /\ \A i \in 1..Len(v4) : i \in 1..Len(w)
          /\ Len(v4) <= Len(v4')
      BY <1>3, <2>2, <2>3, <3>6
    <3>9. \A i \in 1..Len(v4') : i \in 1..Len(v4)
           \/ (v4'[i].kind = "detach" /\ v4'[i].to \in 1..Len(v7))
           \/ (i = Len(v4') /\ v4'[i] = m)
      BY <2>2, <2>4, <3>6, <3>7, <3>8
    <3>10. v9.active # 0 =>
             \E i \in 1..Len(v4') : v4'[i].kind = "detach" /\ v4'[i].to = v9.active
      BY <2>2, <3>6, <3>8
    <3>11. \A i \in 1..Len(v4) : v4'[i] = v4[i]
      BY <2>2, <3>6, <3>8
    <3> QED
      BY <2>6, <3>1, <3>6, <3>8, <3>9, <3>10, <3>11
  <2> QED
    BY <2>5, <2>6
<1>10. \A i \in 1..Len(v4) : i \in 1..Len(v4') /\ i + 0 = i
  BY <1>3, <1>9, LenProperties
<1>11. TE!TypeOK'
  BY <1>1, <1>2, <1>5, <1>7, <1>8, <1>9 DEF TE!TypeOK
<1>12. \A i \in 1..Len(v7) : i \in 1..Len(v7')
  BY <1>6 DEF AttemptsGrow
<1>13. TE!AttemptsAreMade'
  <2>1. \A i \in 1..Len(v4') : v4'[i].to \in 1..Len(v7')
    <3> TAKE i \in 1..Len(v4')
    <3>1. CASE i \in 1..Len(v4)
      BY <1>1, <1>9, <1>12, <3>1 DEF TE!AttemptsAreMade
    <3>2. CASE v4'[i].to \in 1..Len(v7)
      BY <1>12, <3>2
    <3>3. CASE s # None /\ v4'[i] = [kind |-> "attach", to |-> new]
      BY <1>3, <1>5, <3>3
    <3> QED
      BY <1>9, <3>1, <3>2, <3>3
  <2>2. /\ \A i \in 1..Len(v5) : v5[i].to \in 1..Len(v7')
        /\ \A a \in v6 : a.to \in 1..Len(v7')
    <3>1. /\ \A i \in 1..Len(v5) : v5[i].to \in 1..Len(v7)
          /\ \A a \in v6 : a.to \in 1..Len(v7)
      BY <1>1 DEF TE!AttemptsAreMade
    <3> QED
      BY <1>12, <3>1
  <2>3. \A r \in TerminalSessions : v2[r] # 0 =>
          v2[r] <= Len(v7') /\ v7'[v2[r]] = r
    <3> SUFFICES ASSUME NEW r \in TerminalSessions, v2[r] # 0
                 PROVE  v2[r] <= Len(v7') /\ v7'[v2[r]] = r
      OBVIOUS
    <3>1. v2[r] \in 1..Len(v7) /\ v7[v2[r]] = r
      BY <1>1, Typed DEF TE!AttemptsAreMade
    <3> QED
      BY <1>3, <1>5, <3>1
  <2>4. v9'.attempt <= Len(v7') /\ (v9'.attempt # 0 => v7'[v9'.attempt] = s)
    BY <1>4, <1>5, <1>7
  <2> QED
    BY <1>2, <1>7, <1>8, <2>1, <2>2, <2>3, <2>4 DEF TE!AttemptsAreMade
<1>14. TE!TakenInOrder'
  BY <1>2, <1>6, TakenStays
<1>15. \A m \in 1..MaxAttempts : Len(v11[m]) <= Len(v11'[m])
  BY <1>1, <1>2, Typed
<1>16. TE!LogIsTaken' /\ TE!NothingIsSkipped'
  <2>1. \A r \in TerminalSessions : v2'[r] = v2[r]
    BY <1>2
  <2> QED
    BY <1>2, <1>6, <1>11, <1>14, <1>15, <2>1, LogStays
<1>17. TE!AttachesAreNew'
  <2> SUFFICES ASSUME NEW i \in 1..Len(v4'), v4'[i].kind = "attach"
               PROVE  /\ \A r \in TerminalSessions : v2[r] < v4'[i].to
                      /\ \A j \in 1..Len(v5) : v5[j].to < v4'[i].to
                      /\ 0 < v4'[i].to
                      /\ \A m \in 1..MaxAttempts : v4'[i].to <= m => v11[m] = << >>
                      /\ \A j \in 1..Len(v4') :
                           i < j /\ v4'[j].kind = "attach" => v4'[i].to < v4'[j].to
    BY <1>2, <1>7, SMTT(30) DEF TE!AttachesAreNew
  <2>1. CASE i \in 1..Len(v4)
    <3>1. PICK n : n = v4[i].to
      OBVIOUS
    <3>2. /\ v4'[i] = v4[i] /\ n \in 1..Len(v7)
          /\ \A r \in TerminalSessions : v2[r] < n
          /\ \A j \in 1..Len(v5) : v5[j].to < n
          /\ \A m \in 1..MaxAttempts : n <= m => v11[m] = << >>
          /\ \A j \in 1..Len(v4) : i < j /\ v4[j].kind = "attach" => n < v4[j].to
      BY <1>1, <1>9, <2>1, <3>1 DEF TE!AttachesAreNew, TE!AttemptsAreMade
    <3>3. \A j \in 1..Len(v4') : i < j /\ v4'[j].kind = "attach" => n < v4'[j].to
      <4> TAKE j \in 1..Len(v4')
      <4>1. CASE j \in 1..Len(v4)
        BY <1>9, <3>2, <4>1
      <4>2. CASE s # None /\ v4'[j] = [kind |-> "attach", to |-> new]
        <5>1. n < new
          BY <1>3, <1>5, <3>2, <4>2
        <5> QED
          BY <4>2, <5>1
      <4> QED
        BY <1>9, <4>1, <4>2
    <3>4. 0 < n
      BY <3>2
    <3> QED
      BY <3>1, <3>2, <3>3, <3>4
  <2>2. CASE s # None /\ i = Len(v4') /\ v4'[i] = [kind |-> "attach", to |-> new]
    <3>1. new = Len(v7) + 1 /\ v4'[i].to = new
      BY <1>5, <2>2
    <3>2. \A r \in TerminalSessions : v2[r] < new
      BY <1>1, <1>3, <3>1, Typed, SMTT(30) DEF TE!AttemptsAreMade
    <3>3. \A j \in 1..Len(v5) : v5[j].to < new
      BY <1>1, <1>3, <3>1 DEF TE!AttemptsAreMade
    <3>4. \A m \in 1..MaxAttempts : new <= m => v11[m] = << >>
      <4> SUFFICES ASSUME NEW m \in 1..MaxAttempts, new <= m, v11[m] # << >>
                   PROVE  FALSE
        OBVIOUS
      <4>1. v11[m] \in Seq(TE!Items) /\ Len(v11[m]) \in Nat
        BY <1>1, Typed
      <4>2. 1 \in 1..Len(v11[m])
        BY <4>1, EmptySeq
      <4>3. m <= Len(v7)
        BY <1>1, <4>2 DEF TE!TakenInOrder
      <4> QED
        BY <1>3, <3>1, <4>3
    <3>5. \A j \in 1..Len(v4') : ~(i < j)
      BY <1>11, <2>2, LenProperties DEF TE!TypeOK
    <3>6. 0 < new
      BY <1>3, <3>1
    <3> QED
      BY <3>1, <3>2, <3>3, <3>4, <3>5, <3>6
  <2> QED
    BY <1>9, <2>1, <2>2
<1>18. TE!AttachedOnce'
  <2>1. \A i \in 1..Len(v5) : v5[i].to # 0
    BY <1>1 DEF TE!AttemptsAreMade
  <2> QED
    BY <1>1, <1>2, <1>7, <2>1 DEF TE!AttachedOnce
<1>19. \A m \in 1..Len(v7), p \in Nat : TE!GivenUpTo(m, p) => TE!GivenUpTo(m, p)'
  BY <1>2, <1>6, GivenStays
<1>20. TE!WritesAreNext'
  <2>1. \A i \in 1..Len(v4') : v4'[i].kind = "write" =>
          /\ i + 0 \in 1..Len(v4) /\ v4'[i] = v4[i + 0]
          /\ \A a \in v6' : a.to # v4'[i].to
          /\ v4'[i].to = v9'.active =>
               v4'[i].to = v9.active /\ v9'.sending = v9.sending
    <3> SUFFICES ASSUME NEW i \in 1..Len(v4'), v4'[i].kind = "write"
                 PROVE  /\ i + 0 \in 1..Len(v4) /\ v4'[i] = v4[i + 0]
                        /\ \A a \in v6 : a.to # v4'[i].to
                        /\ v4'[i].to # 0
      BY <1>2, <1>7
    <3>1. i \in 1..Len(v4) /\ v4'[i] = v4[i] /\ i + 0 = i
      BY <1>9, <1>10
    <3> QED
      BY <1>1, <3>1 DEF TE!WritesAreNext, TE!AttemptsAreMade
  <2>2. 0 \in Nat
    OBVIOUS
  <2> QED
    BY <1>6, <1>11, <1>15, <1>19, <2>1, <2>2, WritesStay
<1>21. TE!AnswersAreTrue'
  <2>1. /\ \A a \in v6' : a.to # v9'.active
        /\ v6' \subseteq v6 /\ v11' = v11
    BY <1>1, <1>2, <1>7 DEF TE!AttemptsAreMade
  <2> QED
    BY <1>6, <1>19, <2>1, AnswersStay
<1>22. TE!QueueIsTaken'
  BY <1>7 DEF TE!QueueIsTaken
<1>23. TE!HoldersAreKnown'
  <2> SUFFICES ASSUME NEW r \in TerminalSessions, v2[r] # 0
               PROVE  \/ \E i \in 1..Len(v4') :
                           v4'[i].kind = "detach" /\ v4'[i].to = v2[r]
                      \/ \E i \in 1..Len(v5) :
                           v5[i].kind = "attached" /\ v5[i].to = v2[r]
    BY <1>2 DEF TE!HoldersAreKnown
  <2> QED
    BY <1>1, <1>9, <1>10 DEF TE!HoldersAreKnown
<1> QED
  BY <1>11, <1>13, <1>14, <1>16, <1>17, <1>18, <1>20, <1>21, <1>22, <1>23 DEF TE!IInv

LEMMA TerminalsInit ==
  ASSUME TE!Init
  PROVE  TE!IInv
<1> USE TerminalsWellFormed DEF TE!Init, TE!WellFormed
<1>1. << >> \in Seq(TE!Items) /\ << >> \in Seq(TE!Messages) /\ << >> \in Seq(TE!Answers)
      /\ << >> \in Seq(TerminalSessions) /\ Len(<< >>) = 0 /\ 1..0 = {}
  BY EmptySeq
<1>2. /\ v7 = << >> /\ v4 = << >> /\ v5 = << >> /\ v6 = {}
      /\ \A s \in TerminalSessions : v2[s] = 0 /\ v3[s] = << >>
      /\ \A n \in 1..MaxAttempts : v11[n] = << >>
      /\ v9 = TE!NewController
  OBVIOUS
<1>3. v9 \in TE!Controllers /\ v9.attempt = 0 /\ v9.active = 0 /\ v9.queue = << >>
      /\ v9.sending = None
  BY <1>2, NewTyped
<1>4. TE!TypeOK
  <2>1. v8 \in TE!Panes
    BY DEF TE!Panes, TE!States
  <2>2. /\ v1 \in [TerminalSessions -> {"starting", "running", "failed", "gone"}]
        /\ v2 \in [TerminalSessions -> Nat] /\ v6 \subseteq [to : Nat, ok : BOOLEAN]
    OBVIOUS
  <2>3. PICK q : q = << >>
    OBVIOUS
  <2>4. q \in Seq(TE!Items)
    BY <1>1, <2>3
  <2>5. v3 = [s \in TerminalSessions |-> q] /\ v11 = [n \in 1..MaxAttempts |-> q]
    BY <2>3
  <2>6. v3 \in [TerminalSessions -> Seq(TE!Items)] /\ v11 \in [1..MaxAttempts -> Seq(TE!Items)]
    BY <2>4, <2>5
  <2>7. Len(v7) <= MaxAttempts
    BY <1>1, <1>2
  <2> QED
    BY <1>1, <1>2, <1>3, <2>1, <2>2, <2>6, <2>7 DEF TE!TypeOK
<1>5. TE!AttemptsAreMade
  BY <1>1, <1>2, <1>3 DEF TE!AttemptsAreMade
<1>6. TE!TakenInOrder
  BY <1>1, <1>2 DEF TE!TakenInOrder
<1>7. TE!LogIsTaken
  BY <1>1, <1>2 DEF TE!LogIsTaken
<1>8. TE!NothingIsSkipped
  BY <1>1, <1>2 DEF TE!NothingIsSkipped
<1>9. TE!AttachesAreNew /\ TE!AttachedOnce /\ TE!WritesAreNext
  BY <1>1, <1>2 DEF TE!AttachesAreNew, TE!AttachedOnce, TE!WritesAreNext
<1>10. TE!AnswersAreTrue
  BY <1>2 DEF TE!AnswersAreTrue
<1>11. TE!QueueIsTaken
  BY <1>3 DEF TE!QueueIsTaken
<1>12. TE!HoldersAreKnown
  BY <1>2 DEF TE!HoldersAreKnown
<1> QED
  BY <1>4, <1>5, <1>6, <1>7, <1>8, <1>9, <1>10, <1>11, <1>12 DEF TE!IInv

LEMMA TerminalsUnchanged ==
  ASSUME TE!IInv, UNCHANGED TE!terminalVars
  PROVE  TE!IInv'
<1>1. UNCHANGED <<v1, v2, v3, v4, v5, v6, v7, v11, v9, v8>>
  BY DEF TE!terminalVars, TE!mainVars, TE!windowVars
<1>2. SameQueue /\ v8' \in TE!Panes /\ v8'.session = v8.session
  BY <1>1 DEF TE!IInv, TE!TypeOK, SameQueue
<1> QED
  BY <1>1, <1>2, PaneSteps

LEMMA TerminalsStep ==
  ASSUME TE!IInv, [TE!Next]_(TE!terminalVars)
  PROVE  TE!IInv'
<1>1. CASE TE!Next
  BY <1>1, RerenderKeeps, FocusKeeps, TypingKeeps, PastingKeeps, SetSessionKeeps,
     MainAttachesKeeps, MainWritesKeeps, MainDetachesKeeps, ReportsKeep, ReceiveKeeps,
     WriteAnsweredKeeps DEF TE!Next
<1>2. CASE UNCHANGED TE!terminalVars
  BY <1>2, TerminalsUnchanged
<1> QED
  BY <1>1, <1>2

\* What the invariant says of the input and of the attachments.
LEMMA TerminalsMeans ==
  ASSUME TE!IInv
  PROVE  TE!TerminalsSafe
<1>1. TE!TypeOK /\ TE!LogIsTaken /\ TE!NothingIsSkipped /\ TE!HoldersAreKnown
  BY DEF TE!IInv
<1>2. TE!InputReachesItsSession
  <2>1. ASSUME NEW s \in TerminalSessions, NEW i \in 1..Len(v3[s])
        PROVE  v3[s][i].meant = s
    <3>1. PICK n, p : n = v3[s][i].by /\ p = v3[s][i].nth
      OBVIOUS
    <3>2. v7[n] = s /\ v3[s][i] = TE!Item(n, p)
      BY <1>1, <3>1, ZenonT(60) DEF TE!LogIsTaken
    <3> QED
      BY <3>2 DEF TE!Item
  <2>2. \A s \in TerminalSessions : \A i, j \in 1..Len(v3[s]) :
          i < j => v3[s][i].by <= v3[s][j].by
    BY <1>1 DEF TE!LogIsTaken
  <2> QED
    BY <2>1, <2>2 DEF TE!InputReachesItsSession
<1>3. TE!NoStrayAttachment
  <2> SUFFICES ASSUME v4 = << >>, v5 = << >>, NEW s \in TerminalSessions, v2[s] # 0
               PROVE  v2[s] = v9.active
    BY DEF TE!NoStrayAttachment
  <2>1. 1..Len(v4) = {} /\ 1..Len(v5) = {}
    BY EmptySeq
  <2> QED
    BY <1>1, <2>1 DEF TE!HoldersAreKnown
<1> QED
  BY <1>1, <1>2, <1>3 DEF TE!TerminalsSafe

\* For any number of Sessions and of attachments: what the user types or pastes
\* reaches the Session that the pane showed, in the order in which it was typed, a
\* process is given one unbroken piece of what its attachment's queue took, and no
\* attachment is left behind that the pane does not know of (TerminalController,
\* useTerminal, the coordinator's attachments).
THEOREM TerminalsAlwaysSafe == PanesSpec => []TerminalsSafe
<1> DEFINE Inv == part = "terminals" => TE!IInv
<1>1. PanesInit => Inv
  BY TerminalsInit DEF PanesInit
<1>2. Inv /\ [PanesNext]_desktopVars => Inv'
  BY PanesPartStays, TerminalsPart, TerminalsStep
<1>3. Inv => TerminalsSafe
  BY TerminalsMeans DEF TerminalsSafe
<1> QED
  BY <1>1, <1>2, <1>3, PTL DEF PanesSpec

=============================================================================
