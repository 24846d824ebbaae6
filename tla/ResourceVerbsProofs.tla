------------------------- MODULE ResourceVerbsProofs -------------------------
(***************************************************************************)
(* Theorems about NodeOps and ResourceVerbs, for all nodes, pods,          *)
(* workloads, counts and numbers of handlers at once.  A drain's result    *)
(* accounts for each pod once, as Ledger has it, and names every pod that  *)
(* stays.  The drains of ResourceVerbs are NodeOps', each reply follows    *)
(* what was done, and a dry run touches nothing.                           *)
(***************************************************************************)
EXTENDS ResourceVerbs, TLAPS

-----------------------------------------------------------------------------
(* The drains: types. *)

LEMMA NoDrainIsTyped == NoDrain \in Drain
  BY DEF NoDrain, Drain, Phases

\* What a list answers are items, of the pods that are there.
LEMMA FoundAreItems ==
  ASSUME NodeTypeOK, NEW n
  PROVE  Found(n) \subseteq Item
<1> SUFFICES ASSUME NEW p \in Pods, pods[p].at = n
             PROVE  [pod |-> p, uid |-> pods[p].uid, skip |-> drainSkipReason(p)] \in Item
  BY DEF Found
<1>1. pods[p].uid \in 0..MaxUid
  BY DEF NodeTypeOK, Pod
<1>2. drainSkipReason(p) \in BOOLEAN
  BY Zenon DEF drainSkipReason
<1>3. QED  BY <1>1, <1>2, Zenon DEF Item

\* Settling one item leaves a drain a drain, in any of the three columns.
LEMMA SettledIsTyped ==
  ASSUME NodeTypeOK, NEW w \in Workers, NEW item \in drain[w].todo,
         NEW column \in {"evicted", "skipped", "failed"}
  PROVE  Settled(w, item, column) \in [Workers -> Drain]
<1>1. drain[w] \in Drain /\ item \in Item
  BY DEF NodeTypeOK, Drain
<1>2. [drain[w] EXCEPT !.todo = @ \ {item}, ![column] = @ \cup {item}] \in Drain
  <2>1. CASE column = "evicted"  BY <1>1, <2>1 DEF Drain
  <2>2. CASE column = "skipped"  BY <1>1, <2>2 DEF Drain
  <2>3. CASE column = "failed"  BY <1>1, <2>3 DEF Drain
  <2>4. QED  BY <2>1, <2>2, <2>3
<1>3. Settled(w, item, column) =
        [drain EXCEPT ![w] = [drain[w] EXCEPT !.todo = @ \ {item}, ![column] = @ \cup {item}]]
  BY <1>1 DEF Settled, NodeTypeOK, Drain
<1>4. QED  BY <1>2, <1>3 DEF NodeTypeOK

\* A patch, whoever sends it, leaves cordoned and uncordoned functions to BOOLEAN.
LEMMA PatchIsTyped ==
  ASSUME NodeTypeOK, NEW n, NEW schedulable \in BOOLEAN, Patch(n, schedulable)
  PROVE  cordoned' \in [Nodes -> BOOLEAN] /\ uncordoned' \in [Workers -> BOOLEAN]
<1>1. (~schedulable) \in BOOLEAN
  BY Zenon
<1>2. cordoned' \in [Nodes -> BOOLEAN]
  BY <1>1, Zenon DEF Patch, NodeTypeOK
<1>3. \A w \in Workers : (uncordoned[w] \/ (schedulable /\ drain[w].node = n)) \in BOOLEAN
  BY Zenon
<1>4. uncordoned' \in [Workers -> BOOLEAN]
  BY <1>3, Zenon DEF Patch
<1>5. QED  BY <1>2, <1>4

\* Going on to another phase leaves a drain a drain.
LEMMA AdvancedIsTyped ==
  ASSUME NodeTypeOK, NEW w \in Workers, NEW phase \in Phases
  PROVE  [drain EXCEPT ![w].at = phase] \in [Workers -> Drain]
<1>1. [drain[w] EXCEPT !.at = phase] \in Drain
  BY DEF NodeTypeOK, Drain
<1>2. QED  BY <1>1 DEF NodeTypeOK

\* The cluster's own steps leave pods pods.
LEMMA PodsAreTyped ==
  ASSUME NodeTypeOK, PodsChange
  PROVE  pods' \in [Pods -> Pod]
<1> USE NodeAssumption
<1> PICK p \in Pods : Ends(p) \/ IsDeleted(p) \/ Vanishes(p) \/ \E n \in Nodes : ComesBack(p, n)
  BY DEF PodsChange
<1>0. pods[p] \in Pod
  BY DEF NodeTypeOK
<1>1. CASE Ends(p)
  BY <1>0, <1>1 DEF Ends, NodeTypeOK, Pod
<1>2. CASE IsDeleted(p)
  BY <1>0, <1>2 DEF IsDeleted, Delete, NodeTypeOK, Pod
<1>3. CASE Vanishes(p)
  BY <1>0, <1>3 DEF Vanishes, NodeTypeOK, Pod
<1>4. ASSUME NEW n \in Nodes, ComesBack(p, n)  PROVE  pods' \in [Pods -> Pod]
  <2>1. pods[p].uid + 1 \in 0..MaxUid
    BY <1>0, <1>4 DEF ComesBack, Pod
  <2>2. [pods[p] EXCEPT !.at = n, !.uid = pods[p].uid + 1] \in Pod
    BY <1>0, <2>1 DEF Pod
  <2>3. pods' = [pods EXCEPT ![p] = [pods[p] EXCEPT !.at = n, !.uid = pods[p].uid + 1]]
    BY <1>0, <1>4 DEF ComesBack, NodeTypeOK, Pod
  <2>4. QED  BY <2>2, <2>3 DEF NodeTypeOK
<1>5. QED  BY <1>1, <1>2, <1>3, <1>4

\* The variables keep their types: each action changes at most two of them.
LEMMA TypeStep ==
  ASSUME NodeTypeOK, [NodeNext]_nodeVars
  PROVE  NodeTypeOK'
<1> USE NodeAssumption
<1>1. ASSUME NEW w \in Workers, NEW n \in Nodes, Begin(w, n)  PROVE  NodeTypeOK'
  BY <1>1, NoDrainIsTyped DEF Begin, NodeTypeOK, NoDrain, Drain, Phases
<1>2. ASSUME NEW w \in Workers, Cordon(w)  PROVE  NodeTypeOK'
  <2>1. drain' \in [Workers -> Drain] /\ UNCHANGED <<dryRun, pods>>
    BY <1>2, AdvancedIsTyped DEF Cordon, Phases
  <2>2. Patch(drain[w].node, FALSE) \/ UNCHANGED <<cordoned, uncordoned>>
    BY <1>2 DEF Cordon, SetNodeSchedulable
  <2>3. QED  BY <2>1, <2>2, PatchIsTyped, Zenon DEF NodeTypeOK
<1>3. ASSUME NEW w \in Workers, CordonFails(w)  PROVE  NodeTypeOK'
  <2>1. drain' \in [Workers -> Drain] /\ UNCHANGED <<dryRun, pods>>
    BY <1>3, AdvancedIsTyped DEF CordonFails, Phases
  <2>2. Patch(drain[w].node, FALSE) \/ UNCHANGED <<cordoned, uncordoned>>
    BY <1>3 DEF CordonFails, SetNodeSchedulableFails
  <2>3. QED  BY <2>1, <2>2, PatchIsTyped, Zenon DEF NodeTypeOK
<1>4. ASSUME NEW w \in Workers, List(w)  PROVE  NodeTypeOK'
  <2>1. [drain[w] EXCEPT !.at = "evict", !.todo = Found(drain[w].node)] \in Drain
    BY FoundAreItems DEF NodeTypeOK, Drain, Phases
  <2>2. drain' \in [Workers -> Drain]
    BY <1>4, <2>1 DEF List, NodeTypeOK
  <2>3. QED  BY <1>4, <2>2 DEF List, NodeTypeOK
<1>5. ASSUME NEW w \in Workers, ListFails(w)  PROVE  NodeTypeOK'
  BY <1>5, AdvancedIsTyped DEF ListFails, NodeTypeOK, Phases
<1>6. ASSUME NEW w \in Workers, EvictNext(w)  PROVE  NodeTypeOK'
  <2> PICK item \in drain[w].todo :
        Skip(w, item) \/ WouldEvict(w, item) \/ Evict(w, item) \/ EvictGone(w, item) \/ EvictFails(w, item)
    BY <1>6 DEF EvictNext
  <2>1. item.pod \in Pods
    BY DEF NodeTypeOK, Drain, Item
  <2>2. drain' \in [Workers -> Drain]
    BY SettledIsTyped DEF Skip, WouldEvict, Evict, EvictGone, EvictFails
  <2>3. pods' \in [Pods -> Pod]
    BY <2>1 DEF Skip, WouldEvict, Evict, EvictGone, EvictFails, Delete, NodeTypeOK, Pod
  <2>4. UNCHANGED <<dryRun, cordoned, uncordoned>>
    BY DEF Skip, WouldEvict, Evict, EvictGone, EvictFails
  <2>5. QED  BY <2>2, <2>3, <2>4 DEF NodeTypeOK
<1>7. ASSUME NEW w \in Workers, Return(w)  PROVE  NodeTypeOK'
  BY <1>7 DEF Return, NodeTypeOK, Drain, Phases
<1>8. ASSUME PodsChange  PROVE  NodeTypeOK'
  BY <1>8, PodsAreTyped DEF PodsChange, NodeTypeOK
<1>9. ASSUME OthersPatch  PROVE  NodeTypeOK'
  <2>1. UNCHANGED <<dryRun, pods, drain>>
    BY <1>9 DEF OthersPatch
  <2>2. \E n \in Nodes, schedulable \in BOOLEAN : Patch(n, schedulable)
    BY <1>9 DEF OthersPatch
  <2>3. QED  BY <2>1, <2>2, PatchIsTyped, Zenon DEF NodeTypeOK
<1>10. ASSUME Crash  PROVE  NodeTypeOK'
  BY <1>10, NoDrainIsTyped DEF Crash, NodeTypeOK
<1>11. ASSUME UNCHANGED nodeVars  PROVE  NodeTypeOK'
  BY <1>11 DEF nodeVars, NodeTypeOK
<1>12. ASSUME NEW w \in Workers, Forget(w)  PROVE  NodeTypeOK'
  BY <1>12, NoDrainIsTyped DEF Forget, NodeTypeOK
<1>13. QED
  BY <1>1, <1>2, <1>3, <1>4, <1>5, <1>6, <1>7, <1>8, <1>9, <1>10, <1>11, <1>12
  DEF NodeNext, Elsewhere, DrainStep

\* Type correctness of NodeOps, for all values of its constants.
THEOREM NodeTypeCorrect == NodeSpec => []NodeTypeOK
<1>1. NodeInit => NodeTypeOK
  BY NoDrainIsTyped, NodeAssumption DEF NodeInit, NodeTypeOK, Pod
<1>2. QED  BY <1>1, TypeStep, PTL DEF NodeSpec

-----------------------------------------------------------------------------
(* Drains keep the promise of Ledger. *)

\* A change of one drain is a change of its entry only.
LEMMA OneEntry ==
  ASSUME NodeTypeOK, NEW w \in Workers, NEW d, drain' = [drain EXCEPT ![w] = d]
  PROVE  Books' = [Books EXCEPT ![w] = Book(d)]
<1>1. \A v \in Workers : Books'[v] = IF v = w THEN Book(d) ELSE Books[v]
  BY DEF NodeTypeOK, Books, Book
<1>2. Books' = [v \in Workers |-> IF v = w THEN Book(d) ELSE Books[v]]
  <2>1. Books' = [v \in Workers |-> Books'[v]]
    BY DEF Books
  <2>2. QED  BY <1>1, <2>1
<1>3. QED  BY <1>2 DEF Books

\* A drain that settles one item does in Ledger what Settle says.
LEMMA SettledSettles ==
  ASSUME NodeTypeOK, NEW w \in Workers, NEW item \in drain[w].todo,
         NEW column \in {"evicted", "skipped", "failed"}, drain' = Settled(w, item, column)
  PROVE  Promise!Settle(w, item, column)
<1> DEFINE d == [drain[w] EXCEPT !.todo = @ \ {item}, ![column] = @ \cup {item}]
<1>1. drain[w] \in Drain
  BY DEF NodeTypeOK
<1>2. drain' = [drain EXCEPT ![w] = d]
  BY <1>1 DEF Settled, NodeTypeOK, Drain
<1>3. Book(d) = [Book(drain[w]) EXCEPT !.todo = @ \ {item}, ![column] = @ \cup {item}]
  <2>1. /\ d.todo = drain[w].todo \ {item}
        /\ \A c \in {"evicted", "skipped", "failed"} :
             d[c] = IF c = column THEN drain[w][c] \cup {item} ELSE drain[w][c]
    BY <1>1 DEF Drain
  <2>2. /\ d.evicted = IF column = "evicted" THEN drain[w].evicted \cup {item} ELSE drain[w].evicted
        /\ d.skipped = IF column = "skipped" THEN drain[w].skipped \cup {item} ELSE drain[w].skipped
        /\ d.failed = IF column = "failed" THEN drain[w].failed \cup {item} ELSE drain[w].failed
    BY <2>1
  <2> HIDE DEF d
  <2> DEFINE Page == [todo : SUBSET Item, evicted : SUBSET Item,
                      skipped : SUBSET Item, failed : SUBSET Item]
             r == [Book(drain[w]) EXCEPT !.todo = @ \ {item}, ![column] = @ \cup {item}]
  <2>3. item \in Item
    BY <1>1 DEF Drain
  <2>4. Book(drain[w]) \in Page /\ Book(d) \in Page
    BY <1>1, <2>1, <2>2, <2>3 DEF Book, Drain
  <2>5. r \in Page
    <3>1. CASE column = "evicted"  BY <2>3, <2>4, <3>1
    <3>2. CASE column = "skipped"  BY <2>3, <2>4, <3>2
    <3>3. CASE column = "failed"  BY <2>3, <2>4, <3>3
    <3>4. QED  BY <3>1, <3>2, <3>3
  <2>6. /\ r.todo = drain[w].todo \ {item}
        /\ \A c \in {"evicted", "skipped", "failed"} :
             r[c] = IF c = column THEN drain[w][c] \cup {item} ELSE drain[w][c]
    <3>1. /\ r.todo = Book(drain[w]).todo \ {item}
          /\ \A c \in {"evicted", "skipped", "failed"} :
               r[c] = IF c = column THEN Book(drain[w])[c] \cup {item} ELSE Book(drain[w])[c]
      BY <2>4
    <3>2. /\ Book(drain[w]).todo = drain[w].todo /\ Book(drain[w]).evicted = drain[w].evicted
          /\ Book(drain[w]).skipped = drain[w].skipped /\ Book(drain[w]).failed = drain[w].failed
      BY DEF Book
    <3>3. \A c \in {"evicted", "skipped", "failed"} : Book(drain[w])[c] = drain[w][c]
      BY <3>2
    <3> HIDE DEF r
    <3>4. QED  BY <3>1, <3>2, <3>3
  <2> HIDE DEF r
  <2>7. /\ Book(d).todo = r.todo /\ Book(d).evicted = r.evicted
        /\ Book(d).skipped = r.skipped /\ Book(d).failed = r.failed
    <3>1. /\ Book(d).todo = d.todo /\ Book(d).evicted = d.evicted
          /\ Book(d).skipped = d.skipped /\ Book(d).failed = d.failed
      BY DEF Book
    <3>2. d.todo = r.todo /\ \A c \in {"evicted", "skipped", "failed"} : d[c] = r[c]
      BY <2>1, <2>6, Zenon
    <3>3. d.evicted = r.evicted /\ d.skipped = r.skipped /\ d.failed = r.failed
      BY <3>2
    <3> HIDE DEF r
    <3>4. QED  BY <3>1, <3>2, <3>3
  <2>8. Book(d) = r
    BY <2>4, <2>5, <2>7
  <2>9. QED  BY <2>8 DEF r
<1>4. Books' = [Books EXCEPT ![w] = Book(d)]
  BY <1>2, OneEntry
<1>5. Books[w] = Book(drain[w]) /\ Books \in [Workers -> {Books[v] : v \in Workers}]
  BY DEF Books
<1>6. Books' = [Books EXCEPT ![w].todo = @ \ {item}, ![w][column] = @ \cup {item}]
  BY <1>3, <1>4, <1>5
<1>7. item \in Books[w].todo
  BY <1>5 DEF Book
<1>8. QED
  BY <1>6, <1>7 DEF Promise!Settle, Books, Book

\* A drain that only goes on to another phase does not touch its entry.
LEMMA AdvancedStutters ==
  ASSUME NodeTypeOK, NEW w \in Workers, NEW phase \in Phases,
         drain' = [drain EXCEPT ![w].at = phase]
  PROVE  Books' = Books
<1>1. drain' = [drain EXCEPT ![w] = [drain[w] EXCEPT !.at = phase]]
  BY DEF NodeTypeOK
<1> DEFINE d == [drain[w] EXCEPT !.at = phase]
<1>2. Book(d) = Book(drain[w])
  <2>1. /\ d.todo = drain[w].todo /\ d.evicted = drain[w].evicted
        /\ d.skipped = drain[w].skipped /\ d.failed = drain[w].failed
    BY DEF NodeTypeOK, Drain
  <2>2. QED  BY <2>1, Zenon DEF Book
<1> HIDE DEF d
<1>3. Books' = [Books EXCEPT ![w] = Book(d)]
  BY <1>1, OneEntry DEF d
<1>4. QED  BY <1>2, <1>3 DEF Books

\* Until its list has answered, a drain has settled nothing: without this, the
\* answer could be put beside results of an earlier drain, which Open forbids.
Fresh ==
  \A w \in Workers : drain[w].at \in {"cordon", "list"} => Book(drain[w]) = Promise!Blank

\* Fresh is inductive: Begin establishes it, and the drain leaves it by its list.
LEMMA FreshStep ==
  ASSUME NodeTypeOK, Fresh, [NodeNext]_nodeVars
  PROVE  Fresh'
<1> USE NodeAssumption
<1>1. ASSUME NEW w \in Workers, NEW d, drain' = [drain EXCEPT ![w] = d],
             d.at \in {"cordon", "list"} => Book(d) = Promise!Blank
      PROVE  Fresh'
  <2> SUFFICES ASSUME NEW v \in Workers, drain'[v].at \in {"cordon", "list"}
               PROVE  Book(drain'[v]) = Promise!Blank
    BY DEF Fresh, Promise!Blank, Book
  <2>1. drain'[v] = IF v = w THEN d ELSE drain[v]
    BY <1>1 DEF NodeTypeOK
  <2>2. QED  BY <1>1, <2>1, Zenon DEF Fresh
<1>2. ASSUME NEW w \in Workers, NEW n \in Nodes, Begin(w, n)  PROVE  Fresh'
  <2>1. Book([NoDrain EXCEPT !.at = "cordon", !.node = n]) = Promise!Blank
    BY DEF Book, NoDrain, Promise!Blank
  <2>2. QED  BY <1>1, <1>2, <2>1 DEF Begin
<1>3. ASSUME NEW w \in Workers, NEW phase \in Phases, drain' = [drain EXCEPT ![w].at = phase],
             phase = "list" => drain[w].at = "cordon", phase # "cordon"
      PROVE  Fresh'
  <2> DEFINE d == [drain[w] EXCEPT !.at = phase]
  <2>1. drain' = [drain EXCEPT ![w] = d]
    BY <1>3 DEF NodeTypeOK
  <2>2. d.at = phase /\ Book(d) = Book(drain[w])
    BY DEF NodeTypeOK, Drain, Book
  <2> HIDE DEF d
  <2>3. d.at \in {"cordon", "list"} => Book(d) = Promise!Blank
    BY <1>3, <2>2 DEF Fresh
  <2>4. QED  BY <1>1, <2>1, <2>3
<1>4. ASSUME NEW w \in Workers, List(w)  PROVE  Fresh'
  <2>1. [drain[w] EXCEPT !.at = "evict", !.todo = Found(drain[w].node)].at = "evict"
    BY DEF NodeTypeOK, Drain
  <2>2. drain' = [drain EXCEPT ![w] = [drain[w] EXCEPT !.at = "evict", !.todo = Found(drain[w].node)]]
    BY <1>4 DEF List, NodeTypeOK
  <2>3. QED  BY <1>1, <2>1, <2>2
<1>5. ASSUME NEW w \in Workers, EvictNext(w)  PROVE  Fresh'
  <2> PICK item \in drain[w].todo, column \in {"evicted", "skipped", "failed"} :
        drain[w].at = "evict" /\ drain' = Settled(w, item, column)
    BY <1>5 DEF EvictNext, Skip, WouldEvict, Evict, EvictGone, EvictFails
  <2> DEFINE d == [drain[w] EXCEPT !.todo = @ \ {item}, ![column] = @ \cup {item}]
  <2>1. drain' = [drain EXCEPT ![w] = d]
    BY DEF Settled, NodeTypeOK, Drain
  <2>2. d.at = "evict"
    BY DEF NodeTypeOK, Drain
  <2>3. QED  BY <1>1, <2>1, <2>2
<1>6. ASSUME Crash  PROVE  Fresh'
  BY <1>6 DEF Crash, NoDrain, Fresh
<1>7. ASSUME UNCHANGED drain  PROVE  Fresh'
  BY <1>7 DEF Fresh, Book, Promise!Blank
<1>8. ASSUME NEW w \in Workers, Cordon(w) \/ CordonFails(w) \/ ListFails(w) \/ Return(w)
      PROVE  Fresh'
  BY <1>3, <1>8 DEF Cordon, CordonFails, ListFails, Return, Phases
<1>9. ASSUME NEW w \in Workers, Forget(w)  PROVE  Fresh'
  BY <1>1, <1>9 DEF Forget, NoDrain
<1>10. QED
  BY <1>2, <1>4, <1>5, <1>6, <1>7, <1>8, <1>9
  DEF NodeNext, Elsewhere, DrainStep, PodsChange, OthersPatch, nodeVars

\* Every step is a step of Ledger or leaves the ledger as it is.
LEMMA LedgerStep ==
  ASSUME NodeTypeOK, Fresh, [NodeNext]_nodeVars
  PROVE  Promise!Next \/ UNCHANGED Books
<1> USE NodeAssumption
<1>1. ASSUME NEW w \in Workers, NEW n \in Nodes, Begin(w, n)  PROVE  Promise!Next
  <2> DEFINE d == [NoDrain EXCEPT !.at = "cordon", !.node = n]
  <2>1. Book(d) = Promise!Blank
    BY DEF Book, NoDrain, Promise!Blank
  <2>2. Books' = [Books EXCEPT ![w] = Promise!Blank]
    BY <1>1, <2>1, OneEntry DEF Begin
  <2>3. Promise!Close(w)
    BY <2>2 DEF Promise!Close, Books, Book
  <2>4. QED  BY <2>3 DEF Promise!Next
<1>2. ASSUME NEW w \in Workers, Cordon(w)  PROVE  UNCHANGED Books
  BY <1>2, AdvancedStutters DEF Cordon, Phases
<1>3. ASSUME NEW w \in Workers, CordonFails(w)  PROVE  UNCHANGED Books
  BY <1>3, AdvancedStutters DEF CordonFails, Phases
<1>4. ASSUME NEW w \in Workers, ListFails(w)  PROVE  UNCHANGED Books
  BY <1>4, AdvancedStutters DEF ListFails, Phases
<1>5. ASSUME NEW w \in Workers, Return(w)  PROVE  UNCHANGED Books
  BY <1>5, AdvancedStutters DEF Return, Phases
<1>6. ASSUME NEW w \in Workers, EvictNext(w)  PROVE  Promise!Next
  <2> PICK item \in drain[w].todo :
        Skip(w, item) \/ WouldEvict(w, item) \/ Evict(w, item) \/ EvictGone(w, item) \/ EvictFails(w, item)
    BY <1>6 DEF EvictNext
  <2>1. PICK column \in {"evicted", "skipped", "failed"} : drain' = Settled(w, item, column)
    BY DEF Skip, WouldEvict, Evict, EvictGone, EvictFails
  <2>2. Promise!Settle(w, item, column)
    BY <2>1, SettledSettles
  <2>3. item \in Item
    BY DEF NodeTypeOK, Drain
  <2>4. QED  BY <2>2, <2>3 DEF Promise!Next, Promise!Columns
<1>7. ASSUME Crash  PROVE  Promise!Next
  <2>1. Promise!CloseAll
    BY <1>7 DEF Crash, Promise!CloseAll, Promise!Blank, NoDrain, Books, Book
  <2>2. QED  BY <2>1 DEF Promise!Next
<1>8. ASSUME UNCHANGED drain  PROVE  UNCHANGED Books
  BY <1>8 DEF Books
<1>9. ASSUME NEW w \in Workers, List(w)  PROVE  Promise!Next
  <2> DEFINE found == Found(drain[w].node)
             d == [drain[w] EXCEPT !.at = "evict", !.todo = found]
  <2>1. found \subseteq Item
    BY FoundAreItems
  <2> HIDE DEF found
  <2>2. Book(drain[w]) = Promise!Blank
    BY <1>9 DEF List, Fresh
  <2>3. Book(d) = [Promise!Blank EXCEPT !.todo = found]
    <3>1. drain[w].evicted = {} /\ drain[w].skipped = {} /\ drain[w].failed = {}
      BY <2>2 DEF Book, Promise!Blank
    <3>2. d.todo = found /\ d.evicted = {} /\ d.skipped = {} /\ d.failed = {}
      BY <3>1 DEF NodeTypeOK, Drain
    <3> HIDE DEF d
    <3>3. Book(d) = [todo |-> found, evicted |-> {}, skipped |-> {}, failed |-> {}]
      BY <3>2, Zenon DEF Book
    <3>4. [Promise!Blank EXCEPT !.todo = found] =
            [todo |-> found, evicted |-> {}, skipped |-> {}, failed |-> {}]
      BY DEF Promise!Blank
    <3>5. QED  BY <3>3, <3>4, Zenon
  <2>4. drain' = [drain EXCEPT ![w] = d]
    BY <1>9 DEF List, NodeTypeOK, found
  <2>5. Books' = [Books EXCEPT ![w] = [Promise!Blank EXCEPT !.todo = found]]
    BY <2>3, <2>4, OneEntry
  <2>6. Books'[w].todo = found
    BY <2>5 DEF Books, Promise!Blank
  <2>7. Promise!Open(w, found)
    BY <2>1, <2>5 DEF Promise!Open, Books, Book
  <2>8. Promise!Open(w, Books'[w].todo)
    BY <2>6, <2>7, Zenon
  <2>9. QED  BY <2>8 DEF Promise!Next
<1>10. ASSUME NEW w \in Workers, Forget(w)  PROVE  Promise!Next
  <2>1. Book(NoDrain) = Promise!Blank
    BY DEF Book, NoDrain, Promise!Blank
  <2>2. Books' = [Books EXCEPT ![w] = Promise!Blank]
    BY <1>10, <2>1, OneEntry DEF Forget
  <2>3. QED  BY <2>2 DEF Promise!Next, Promise!Close
<1>11. QED
  BY <1>1, <1>2, <1>3, <1>4, <1>5, <1>6, <1>7, <1>8, <1>9, <1>10
  DEF NodeNext, Elsewhere, DrainStep, PodsChange, OthersPatch, nodeVars

\* A pod that a drain's list answers is accounted for once: NodeOps implements Ledger.
THEOREM DrainAccountsOnce == NodeSpec => AccountedOnce
<1>1. NodeInit => NodeTypeOK /\ Fresh /\ Promise!Init
  <2> SUFFICES ASSUME NodeInit  PROVE  NodeTypeOK /\ Fresh /\ Promise!Init
    OBVIOUS
  <2>1. NodeTypeOK
    BY NoDrainIsTyped, NodeAssumption DEF NodeInit, NodeTypeOK, Pod
  <2>2. Fresh
    BY DEF NodeInit, Fresh, NoDrain
  <2>3. Promise!Init
    BY DEF NodeInit, NoDrain, Promise!Init, Promise!Blank, Books, Book
  <2>4. QED  BY <2>1, <2>2, <2>3
<1>2. NodeTypeOK /\ Fresh /\ [NodeNext]_nodeVars => NodeTypeOK' /\ Fresh'
  BY TypeStep, FreshStep
<1>3. NodeTypeOK /\ Fresh /\ [NodeNext]_nodeVars => [Promise!Next]_Books
  BY LedgerStep
<1>4. QED  BY <1>1, <1>2, <1>3, PTL DEF NodeSpec, AccountedOnce, Promise!Spec

-----------------------------------------------------------------------------
(* No pod that stays is left out of a drain's result. *)

HasItsNode(w) == drain[w].at # "idle" => drain[w].node \in Nodes

\* A drain returns only when nothing is left of its list.
DoneIsAll(w) == drain[w].at = "done" => drain[w].todo = {}

\* From its patch on the node of a drain is closed, unless somebody opened it again; from
\* its list on, each pod still to go is in what it has to do or among what it failed at.
Covered(w) ==
  drain[w].at \in {"list", "evict", "done"} /\ ~dryRun /\ ~uncordoned[w] =>
    /\ cordoned[drain[w].node]
    /\ drain[w].at # "list" =>
         \A p \in Pods : Stays(p, drain[w].node) =>
           \/ p \in Named(drain[w].failed)
           \/ \E item \in drain[w].todo : item.pod = p /\ ~item.skip

DrainInv == \A w \in Workers : HasItsNode(w) /\ DoneIsAll(w) /\ Covered(w)

\* A pod that is bound to a closed node is there already: only a kept one comes.
LEMMA NobodyComes ==
  ASSUME NodeTypeOK, [NodeNext]_nodeVars, NEW n \in Nodes, cordoned[n], NEW p \in Pods, Stays(p, n)'
  PROVE  Stays(p, n)
<1>1. pods[p] \in Pod
  BY DEF NodeTypeOK
<1>2. CASE PodsChange
  <2> PICK q \in Pods : Ends(q) \/ IsDeleted(q) \/ Vanishes(q) \/ \E m \in Nodes : ComesBack(q, m)
    BY <1>2 DEF PodsChange
  <2>1. CASE Ends(q)
    BY <1>1, <2>1 DEF Ends, Stays, NodeTypeOK, Pod
  <2>2. CASE IsDeleted(q)
    BY <1>1, <2>2 DEF IsDeleted, Delete, Stays, NodeTypeOK, Pod
  <2>3. CASE Vanishes(q)
    BY <1>1, <2>3, NodeAssumption DEF Vanishes, Stays, NodeTypeOK, Pod
  <2>4. ASSUME NEW m \in Nodes, ComesBack(q, m)  PROVE  Stays(p, n)
    BY <1>1, <2>4 DEF ComesBack, Stays, NodeTypeOK, Pod
  <2>5. QED  BY <2>1, <2>2, <2>3, <2>4
<1>3. ASSUME NEW w \in Workers, EvictNext(w)  PROVE  Stays(p, n)
  <2>1. UNCHANGED pods \/ \E q : Delete(q)
    BY <1>3 DEF EvictNext, Skip, WouldEvict, Evict, EvictGone, EvictFails
  <2>2. QED  BY <1>1, <2>1 DEF Delete, Stays, NodeTypeOK, Pod
<1>4. CASE UNCHANGED pods
  BY <1>4 DEF Stays
<1>5. QED
  BY <1>2, <1>3, <1>4
  DEF NodeNext, Elsewhere, OthersPatch, Crash, DrainStep, Forget, Begin, Cordon, CordonFails, List,
      ListFails, Return, nodeVars

\* Whoever opens a node tells the drains of it.
LEMMA OpeningIsTold ==
  ASSUME NodeTypeOK, [NodeNext]_nodeVars, NEW w \in Workers, HasItsNode(w),
         drain'[w] = drain[w], drain[w].at # "idle", ~uncordoned'[w]
  PROVE  /\ ~uncordoned[w]
         /\ cordoned[drain[w].node] => cordoned'[drain[w].node]
<1>1. ASSUME NEW m, NEW schedulable \in BOOLEAN, Patch(m, schedulable)
      PROVE  /\ ~uncordoned[w]
             /\ cordoned[drain[w].node] => cordoned'[drain[w].node]
  <2>1. ~uncordoned[w] /\ ~(schedulable /\ drain[w].node = m)
    BY <1>1, Zenon DEF Patch
  <2>2. drain[w].node \in Nodes
    BY DEF HasItsNode
  <2>3. cordoned'[drain[w].node] = IF drain[w].node = m THEN ~schedulable ELSE cordoned[drain[w].node]
    BY <1>1, <2>2, Zenon DEF Patch, NodeTypeOK
  <2>4. QED  BY <2>1, <2>3, Zenon
<1>2. CASE UNCHANGED <<cordoned, uncordoned>>
  BY <1>2
<1>3. ASSUME NEW v \in Workers, Cordon(v) \/ CordonFails(v)
      PROVE  Patch(drain[v].node, FALSE) \/ UNCHANGED <<cordoned, uncordoned>>
  BY <1>3 DEF Cordon, CordonFails, SetNodeSchedulable, SetNodeSchedulableFails
<1>4. ASSUME NEW v \in Workers, Forget(v) \/ \E n \in Nodes : Begin(v, n)
      PROVE  UNCHANGED cordoned /\ (uncordoned[w] => uncordoned'[w])
  <2>1. drain'[v].at \in {"idle", "cordon"} /\ drain[v].at \in {"idle", "done", "error"}
    <3>1. NoDrain.at = "idle" /\ \A n : [NoDrain EXCEPT !.at = "cordon", !.node = n].at = "cordon"
      BY DEF NoDrain
    <3>2. drain[v].at \in {"idle", "done", "error"}
      BY <1>4 DEF Forget, Begin
    <3>3. \E d : drain' = [drain EXCEPT ![v] = d] /\ d.at \in {"idle", "cordon"}
      BY <1>4, <3>1 DEF Forget, Begin
    <3>4. QED  BY <3>2, <3>3 DEF NodeTypeOK
  <2>2. v # w
    BY <2>1
  <2>3. UNCHANGED cordoned /\ uncordoned' = [uncordoned EXCEPT ![v] = FALSE]
    BY <1>4 DEF Forget, Begin
  <2>4. QED  BY <2>2, <2>3, Zenon DEF NodeTypeOK
<1>5. ~Crash
  BY DEF Crash, NoDrain
<1>6. QED
  BY <1>1, <1>2, <1>3, <1>4, <1>5
  DEF NodeNext, Elsewhere, PodsChange, OthersPatch, DrainStep, List, ListFails, EvictNext, Skip,
      WouldEvict, Evict, EvictGone, EvictFails, Return, nodeVars

\* So a drain that does not move keeps what it covers.
LEMMA CoveredStays ==
  ASSUME NodeTypeOK, [NodeNext]_nodeVars, NEW w \in Workers, HasItsNode(w), Covered(w),
         drain'[w] = drain[w]
  PROVE  Covered(w)'
<1> SUFFICES ASSUME drain[w].at \in {"list", "evict", "done"}, ~dryRun', ~uncordoned'[w]
             PROVE  /\ cordoned'[drain[w].node]
                    /\ drain[w].at # "list" =>
                         \A p \in Pods : Stays(p, drain[w].node)' =>
                           \/ p \in Named(drain[w].failed)
                           \/ \E item \in drain[w].todo : item.pod = p /\ ~item.skip
  BY DEF Covered, Stays, Named
<1>1. dryRun' = dryRun
  BY DEF NodeNext, Elsewhere, PodsChange, OthersPatch, Crash, DrainStep, Forget, Begin, Cordon, CordonFails,
         List, ListFails, EvictNext, Skip, WouldEvict, Evict, EvictGone, EvictFails, Return, nodeVars
<1>2. ~uncordoned[w] /\ (cordoned[drain[w].node] => cordoned'[drain[w].node])
  BY OpeningIsTold
<1>3. cordoned[drain[w].node] /\ cordoned'[drain[w].node]
  BY <1>1, <1>2, Zenon DEF Covered
<1>4. ASSUME NEW p \in Pods, Stays(p, drain[w].node)'  PROVE  Stays(p, drain[w].node)
  <2> DEFINE n == drain[w].node
  <2>1. n \in Nodes /\ cordoned[n]
    BY <1>3 DEF HasItsNode
  <2>2. pods'[p].at = n /\ pods'[p].is = "running" /\ p \notin Kept
    BY <1>4 DEF Stays
  <2> HIDE DEF n
  <2>3. QED  BY <2>1, <2>2, NobodyComes DEF Stays, n
<1>5. QED  BY <1>1, <1>2, <1>3, <1>4 DEF Covered

\* What is left to do goes down one by one: a pod that is dropped from it is either not
\* to be evicted, gone, leaving, or among the failed.
LEMMA SettlingCovers ==
  ASSUME NodeTypeOK, [NodeNext]_nodeVars, NEW w \in Workers, HasItsNode(w), Covered(w), EvictNext(w)
  PROVE  HasItsNode(w)' /\ DoneIsAll(w)' /\ Covered(w)'
<1> PICK item \in drain[w].todo :
      Skip(w, item) \/ WouldEvict(w, item) \/ Evict(w, item) \/ EvictGone(w, item) \/ EvictFails(w, item)
  BY DEF EvictNext
<1>1. drain[w] \in Drain /\ drain[w].at = "evict" /\ item \in Item
  BY DEF EvictNext, NodeTypeOK, Drain
<1>2. UNCHANGED <<dryRun, cordoned, uncordoned>>
  BY DEF Skip, WouldEvict, Evict, EvictGone, EvictFails
<1>3. ASSUME NEW column \in {"evicted", "skipped", "failed"}, drain' = Settled(w, item, column)
      PROVE  /\ drain'[w].at = "evict" /\ drain'[w].node = drain[w].node
             /\ drain'[w].todo = drain[w].todo \ {item}
             /\ drain[w].failed \subseteq drain'[w].failed
             /\ column = "failed" => item \in drain'[w].failed
  <2>1. drain' = [drain EXCEPT ![w] =
                    [drain[w] EXCEPT !.todo = @ \ {item}, ![column] = @ \cup {item}]]
    BY <1>1, <1>3 DEF Settled, NodeTypeOK, Drain
  <2>2. CASE column = "failed"
    BY <1>1, <2>1, <2>2 DEF NodeTypeOK, Drain
  <2>3. CASE column # "failed"
    BY <1>1, <2>1, <2>3 DEF NodeTypeOK, Drain
  <2>4. QED  BY <2>2, <2>3
<1>4. /\ drain'[w].at = "evict" /\ drain'[w].node = drain[w].node
      /\ drain'[w].todo = drain[w].todo \ {item}
      /\ drain[w].failed \subseteq drain'[w].failed
      /\ EvictFails(w, item) => item \in drain'[w].failed
  BY <1>3 DEF Skip, WouldEvict, Evict, EvictGone, EvictFails
<1>5. HasItsNode(w)' /\ DoneIsAll(w)'
  BY <1>1, <1>4 DEF HasItsNode, DoneIsAll
<1>6. Covered(w)'
  <2> DEFINE n == drain[w].node
  <2> SUFFICES ASSUME ~dryRun, ~uncordoned[w]
               PROVE  /\ cordoned[n]
                      /\ \A p \in Pods : Stays(p, n)' =>
                           \/ p \in Named(drain'[w].failed)
                           \/ \E it \in drain'[w].todo : it.pod = p /\ ~it.skip
    BY <1>2, <1>4 DEF Covered, Stays, Named
  <2>1. n \in Nodes /\ cordoned[n]
    BY <1>1, Zenon DEF HasItsNode, Covered
  <2> SUFFICES ASSUME NEW p \in Pods, Stays(p, n)'
               PROVE  \/ p \in Named(drain'[w].failed)
                      \/ \E it \in drain'[w].todo : it.pod = p /\ ~it.skip
    BY <2>1
  <2>2. Stays(p, n)
    <3>1. pods'[p].at = n /\ pods'[p].is = "running" /\ p \notin Kept
      BY <1>4 DEF Stays
    <3> HIDE DEF n
    <3>2. QED  BY <2>1, <3>1, NobodyComes DEF Stays
  <2>3. \/ p \in Named(drain[w].failed)
        \/ \E it \in drain[w].todo : it.pod = p /\ ~it.skip
    BY <1>1, <2>2 DEF Covered
  <2>4. CASE p \in Named(drain[w].failed)
    BY <1>4, <2>4 DEF Named
  <2>5. CASE \E it \in drain[w].todo \ {item} : it.pod = p /\ ~it.skip
    BY <1>4, <2>5
  <2>6. CASE item.pod = p /\ ~item.skip
    <3>1. pods[p] \in Pod /\ pods'[p].is # "leaving" /\ There(p)
      BY <2>1, <2>2, NodeAssumption DEF Stays, There, NodeTypeOK
    <3>2. ~Skip(w, item) /\ ~WouldEvict(w, item) /\ ~EvictGone(w, item)
      BY <2>6, <3>1 DEF Skip, WouldEvict, EvictGone
    <3>3. ~Evict(w, item)
      BY <2>6, <3>1 DEF Evict, Delete, NodeTypeOK, Pod
    <3>4. item \in drain'[w].failed
      BY <1>4, <3>2, <3>3
    <3>5. QED  BY <2>6, <3>4 DEF Named
  <2>7. QED  BY <2>3, <2>4, <2>5, <2>6
<1>7. QED  BY <1>5, <1>6

\* A drain that takes up another phase: closed by its patch, covering by its list.
LEMMA DrainInvStep ==
  ASSUME NodeTypeOK, DrainInv, [NodeNext]_nodeVars
  PROVE  DrainInv'
<1> SUFFICES ASSUME NEW w \in Workers
             PROVE  HasItsNode(w)' /\ DoneIsAll(w)' /\ Covered(w)'
  BY DEF DrainInv
<1>0. HasItsNode(w) /\ DoneIsAll(w) /\ Covered(w) /\ drain[w] \in Drain
  BY DEF DrainInv, NodeTypeOK
<1>1. ASSUME drain'[w] = drain[w]  PROVE  HasItsNode(w)' /\ DoneIsAll(w)' /\ Covered(w)'
  <2>1. HasItsNode(w)' /\ DoneIsAll(w)'
    BY <1>0, <1>1 DEF HasItsNode, DoneIsAll
  <2>2. QED  BY <1>0, <1>1, <2>1, CoveredStays
<1>2. ASSUME NEW v \in Workers, v # w, NEW d, drain' = [drain EXCEPT ![v] = d]
      PROVE  drain'[w] = drain[w]
  BY <1>2 DEF NodeTypeOK
<1>3. ASSUME NEW phase \in Phases, drain' = [drain EXCEPT ![w].at = phase]
      PROVE  /\ drain'[w].at = phase /\ drain'[w].node = drain[w].node
             /\ drain'[w].todo = drain[w].todo /\ drain'[w].failed = drain[w].failed
  BY <1>0, <1>3 DEF NodeTypeOK, Drain
<1>4. CASE Cordon(w)
  <2>1. /\ drain[w].at = "cordon" /\ drain'[w].at = "list" /\ drain'[w].node = drain[w].node
        /\ drain'[w].todo = drain[w].todo
    BY <1>3, <1>4 DEF Cordon, Phases
  <2>2. drain[w].node \in Nodes
    BY <1>0, <2>1 DEF HasItsNode
  <2>3. ~dryRun => cordoned'[drain[w].node]
    <3>1. SUFFICES ASSUME ~dryRun  PROVE  cordoned'[drain[w].node]
      OBVIOUS
    <3>2. cordoned' = [cordoned EXCEPT ![drain[w].node] = ~FALSE]
      BY <1>4, <3>1 DEF Cordon, SetNodeSchedulable, Patch
    <3>3. QED  BY <2>2, <3>2, Zenon DEF NodeTypeOK
  <2>4. dryRun' = dryRun
    BY <1>4 DEF Cordon
  <2>5. QED  BY <2>1, <2>2, <2>3, <2>4 DEF HasItsNode, DoneIsAll, Covered
<1>5. CASE CordonFails(w) \/ ListFails(w)
  <2>1. drain'[w].at = "error" /\ drain[w].at # "idle" /\ drain'[w].node = drain[w].node
    BY <1>3, <1>5 DEF CordonFails, ListFails, Phases
  <2>2. QED  BY <1>0, <2>1 DEF HasItsNode, DoneIsAll, Covered
<1>6. CASE List(w)
  <2>1. /\ drain[w].at = "list" /\ drain'[w].at = "evict" /\ drain'[w].node = drain[w].node
        /\ drain'[w].todo = Found(drain[w].node)
        /\ UNCHANGED <<dryRun, cordoned, pods, uncordoned>>
    <3>1. drain' = [drain EXCEPT ![w] =
                      [drain[w] EXCEPT !.at = "evict", !.todo = Found(drain[w].node)]]
      BY <1>6 DEF List, NodeTypeOK
    <3>2. QED  BY <1>0, <1>6, <3>1 DEF List, NodeTypeOK, Drain
  <2>2. ASSUME NEW p \in Pods, Stays(p, drain[w].node)
        PROVE  \E item \in Found(drain[w].node) : item.pod = p /\ ~item.skip
    <3> DEFINE item == [pod |-> p, uid |-> pods[p].uid, skip |-> drainSkipReason(p)]
    <3>1. item \in Found(drain[w].node)
      BY <2>2 DEF Found, Stays
    <3>2. ~drainSkipReason(p)
      BY <2>2 DEF Stays, drainSkipReason
    <3>3. item.pod = p /\ item.skip = drainSkipReason(p)
      OBVIOUS
    <3> HIDE DEF item
    <3>4. QED  BY <3>1, <3>2, <3>3, Zenon
  <2>3. HasItsNode(w)' /\ DoneIsAll(w)'
    BY <1>0, <2>1 DEF HasItsNode, DoneIsAll
  <2>4. Covered(w)'
    BY <1>0, <2>1, <2>2 DEF Covered, Stays, Named
  <2>5. QED  BY <2>3, <2>4
<1>7. CASE EvictNext(w)
  BY <1>0, <1>7, SettlingCovers
<1>8. CASE Return(w)
  <2>1. /\ drain[w].at = "evict" /\ drain'[w].at = "done" /\ drain'[w].node = drain[w].node
        /\ drain'[w].todo = drain[w].todo /\ drain'[w].failed = drain[w].failed
        /\ drain[w].todo = {}
        /\ UNCHANGED <<dryRun, cordoned, pods, uncordoned>>
    BY <1>3, <1>8 DEF Return, Phases
  <2>2. QED  BY <1>0, <2>1 DEF HasItsNode, DoneIsAll, Covered, Stays
<1>9. ASSUME NEW n \in Nodes, Begin(w, n)  PROVE  HasItsNode(w)' /\ DoneIsAll(w)' /\ Covered(w)'
  <2>1. drain'[w] = [NoDrain EXCEPT !.at = "cordon", !.node = n]
    BY <1>9 DEF Begin, NodeTypeOK
  <2>2. drain'[w].at = "cordon" /\ drain'[w].node = n
    BY <2>1 DEF NoDrain
  <2>3. QED  BY <2>2 DEF HasItsNode, DoneIsAll, Covered
<1>10. CASE Forget(w) \/ Crash
  <2>1. drain'[w].at = "idle"
    BY <1>10 DEF Forget, Crash, NodeTypeOK, NoDrain
  <2>2. QED  BY <2>1 DEF HasItsNode, DoneIsAll, Covered
<1>11. ASSUME NEW v \in Workers, v # w, DrainStep(v) \/ Forget(v) \/ \E n \in Nodes : Begin(v, n)
       PROVE  drain'[w] = drain[w]
  <2>1. \E d : drain' = [drain EXCEPT ![v] = d]
    <3>1. ASSUME NEW phase, drain' = [drain EXCEPT ![v].at = phase]
          PROVE  \E d : drain' = [drain EXCEPT ![v] = d]
      BY <3>1
    <3>2. ASSUME EvictNext(v)  PROVE  \E d : drain' = [drain EXCEPT ![v] = d]
      BY <3>2 DEF EvictNext, Skip, WouldEvict, Evict, EvictGone, EvictFails, Settled
    <3>3. ASSUME List(v)  PROVE  \E d : drain' = [drain EXCEPT ![v] = d]
      BY <3>3 DEF List
    <3>4. QED
      BY <1>11, <3>1, <3>2, <3>3 DEF DrainStep, Cordon, CordonFails, ListFails, Return, Forget, Begin
  <2>2. QED  BY <1>2, <1>11, <2>1
<1>12. CASE Elsewhere \/ UNCHANGED nodeVars
  BY <1>1, <1>12 DEF Elsewhere, PodsChange, OthersPatch, nodeVars
<1>13. QED
  BY <1>1, <1>4, <1>5, <1>6, <1>7, <1>8, <1>9, <1>10, <1>11, <1>12 DEF NodeNext, DrainStep

\* A drain that has returned names, as failed, each pod that still runs on its node and was
\* to leave, unless somebody opened the node meanwhile: whatever pods ended, vanished or
\* came back, and whatever else was cordoned, drained or refused at the same time.
THEOREM DrainNamesWhatStays == NodeSpec => []NothingSlipsBy
<1>1. NodeInit => NodeTypeOK /\ DrainInv
  <2> SUFFICES ASSUME NodeInit  PROVE  NodeTypeOK /\ DrainInv
    OBVIOUS
  <2>1. NodeTypeOK
    BY NoDrainIsTyped, NodeAssumption DEF NodeInit, NodeTypeOK, Pod
  <2>2. DrainInv
    BY DEF NodeInit, NoDrain, DrainInv, HasItsNode, DoneIsAll, Covered
  <2>3. QED  BY <2>1, <2>2
<1>2. NodeTypeOK /\ DrainInv /\ [NodeNext]_nodeVars => NodeTypeOK' /\ DrainInv'
  BY TypeStep, DrainInvStep
<1>3. NodeTypeOK /\ DrainInv => NothingSlipsBy
  <2> SUFFICES ASSUME DrainInv, NEW w \in Workers, drain[w].at = "done", ~dryRun, ~uncordoned[w],
                      NEW p \in Pods, Stays(p, drain[w].node)
               PROVE  p \in Named(drain[w].failed)
    BY DEF NothingSlipsBy
  <2>1. QED  BY DEF DrainInv, DoneIsAll, Covered
<1>4. QED  BY <1>1, <1>2, <1>3, PTL DEF NodeSpec

-----------------------------------------------------------------------------
(* The verbs: types, and where a verb is on its way. *)

\* What a verb acts on and asks for fits its kind; it has taken effect when it is to read
\* again, and not before; what it waits for is what its kind and the dry run let it reach.
OnItsWay(v) ==
  /\ v.kind \in NodeKinds => v.on \in Nodes
  /\ v.kind \in WorkloadKinds => v.on \in Workloads
  /\ v.kind # "scale" => v.ask = None
  /\ v.at \notin {"idle", "replied"} => v.reply = None /\ v.kind # None
  /\ v.at \in {"idle", "act", "update", "drain"} => v.hits = 0
  /\ v.at = "idle" => v.reply = None
  /\ v.at = "read" => v.hits = 1 /\ ~dryRun
  /\ v.at = "update" => v.kind = "scale" /\ ~dryRun
  /\ v.at = "act" => v.kind # "drain"
  /\ v.at = "drain" => v.kind = "drain"

\* A verb that is to read again, and whose object nobody has written, finds what it did.
KnowsIfFresh(v) ==
  v.at = "read" /\ v.kind \in {"scale", "delete"} /\ v.fresh => replicas[v.on] = v.ask

\* ReportsWhatItDid of one verb.
Reports(v) ==
  /\ v.reply \in {"detail", "list", "done"} => v.hits = 1 /\ ~dryRun
  /\ v.reply \in {"notice", "dryrun"} => v.hits = 0
  /\ v.hits <= 1
  /\ v.kind \in {"scale", "delete"} /\ v.reply \in {"detail", "list"} /\ v.fresh => v.shown = v.ask

Right(v) == v \in Verb /\ OnItsWay(v) /\ KnowsIfFresh(v) /\ Reports(v)

VerbInv ==
  /\ dryRun \in BOOLEAN
  /\ replicas \in [Workloads -> Counts \cup {None}]
  /\ verb \in [Workers -> Verb]
  /\ \A w \in Workers : Right(verb[w])

\* What a verb is when its object was written by somebody else.
Stale(v, o) == [v EXCEPT !.fresh = @ /\ v.on # o]

LEMMA StaleTells ==
  ASSUME NEW v \in Verb, NEW o
  PROVE  /\ Stale(v, o) \in Verb
         /\ \A f \in {"kind", "on", "typed", "ask", "hits", "at", "reply", "shown"} :
              Stale(v, o)[f] = v[f]
         /\ Stale(v, o).fresh => v.fresh /\ v.on # o
<1> DEFINE b == v.fresh /\ v.on # o
<1>1. b \in BOOLEAN
  BY Zenon
<1> HIDE DEF b
<1>2. Stale(v, o) = [v EXCEPT !.fresh = b]
  BY DEF Stale, b
<1>3. /\ Stale(v, o) \in Verb /\ Stale(v, o).fresh = b
      /\ \A f \in {"kind", "on", "typed", "ask", "hits", "at", "reply", "shown"} :
           Stale(v, o)[f] = v[f]
  BY <1>1, <1>2 DEF Verb
<1>4. QED  BY <1>3 DEF b

\* A verb that does not move stays right, whatever is written to the workloads, if it is
\* told of what is written to its own.
LEMMA ToldStaysRight ==
  ASSUME VerbInv, NEW w \in Workers, NEW o,
         dryRun' = dryRun,
         \A x \in Workloads : x # o => replicas'[x] = replicas[x],
         verb'[w] = Stale(verb[w], o) \/ (replicas' = replicas /\ verb'[w] = verb[w])
  PROVE  Right(verb[w])'
<1>1. Right(verb[w]) /\ verb[w] \in Verb
  BY DEF VerbInv
<1>2. CASE replicas' = replicas /\ verb'[w] = verb[w]
  BY <1>1, <1>2 DEF Right, OnItsWay, KnowsIfFresh, Reports
<1>3. CASE verb'[w] = Stale(verb[w], o)
  <2> DEFINE v == verb[w]
             u == verb'[w]
  <2>1. /\ u \in Verb /\ u.kind = v.kind /\ u.on = v.on /\ u.ask = v.ask /\ u.hits = v.hits
        /\ u.at = v.at /\ u.reply = v.reply /\ u.shown = v.shown
        /\ u.fresh => v.fresh /\ v.on # o
    BY <1>1, <1>3, StaleTells
  <2>2. OnItsWay(verb[w])' /\ Reports(verb[w])'
    BY <1>1, <2>1 DEF Right, OnItsWay, Reports
  <2>3. KnowsIfFresh(verb[w])'
    BY <1>1, <2>1 DEF Right, OnItsWay, KnowsIfFresh, WorkloadKinds
  <2>4. QED  BY <2>1, <2>2, <2>3 DEF Right
<1>4. QED  BY <1>2, <1>3

\* What has taken effect: the others are told, and the verb knows, whether it got nil or an
\* error that came after.
LEMMA TookTells ==
  ASSUME VerbInv, NEW w \in Workers, Took(w), verb[w].hits = 0
  PROVE  /\ \A u \in Workers \ {w} : verb'[u] = Stale(verb[u], verb[w].on)
         /\ verb' = [u \in Workers |-> verb'[u]]
         /\ verb'[w] \in Verb
         /\ verb'[w].kind = verb[w].kind /\ verb'[w].on = verb[w].on /\ verb'[w].ask = verb[w].ask
         /\ verb'[w].fresh /\ verb'[w].hits = 1
         /\ \/ verb'[w].at = "read" /\ verb'[w].reply = verb[w].reply /\ ~dryRun
            \/ verb'[w].at = "replied" /\ verb'[w].reply = "error"
            \/ verb'[w].at = "replied" /\ verb'[w].reply = "done" /\ ~dryRun
            \/ verb'[w].at = "replied" /\ verb'[w].reply = "dryrun" /\ dryRun
<1> DEFINE v == verb[w]
<1>0. v \in Verb /\ v.hits = 0
  BY DEF VerbInv
<1>1. ASSUME NEW next, verb' = WrittenBy(w, v.on, next)
      PROVE  /\ \A u \in Workers \ {w} : verb'[u] = Stale(verb[u], v.on)
             /\ verb' = [u \in Workers |-> verb'[u]]
             /\ verb'[w] = [next EXCEPT !.fresh = TRUE, !.hits = next.hits + 1]
  BY <1>1 DEF WrittenBy, Written, Stale
<1>2. ASSUME NEW next \in {Returned(v), Replied(v, "error")}
      PROVE  /\ next \in Verb
             /\ next.kind = v.kind /\ next.on = v.on /\ next.ask = v.ask /\ next.hits = 0
             /\ \/ next.at = "read" /\ next.reply = v.reply /\ ~dryRun
                \/ next.at = "replied" /\ next.reply = "error"
                \/ next.at = "replied" /\ next.reply = "done" /\ ~dryRun
                \/ next.at = "replied" /\ next.reply = "dryrun" /\ dryRun
  <2>1. CASE next = Replied(v, "error")
    BY <1>0, <2>1 DEF Replied, Verb, Replies
  <2>2. CASE next = Returned(v) /\ dryRun
    BY <1>0, <2>2 DEF Returned, Replied, Verb, Replies
  <2>3. CASE next = Returned(v) /\ ~dryRun /\ v.typed
    BY <1>0, <2>3 DEF Returned, Replied, Verb, Replies
  <2>4. CASE next = Returned(v) /\ ~dryRun /\ ~v.typed
    BY <1>0, <2>4 DEF Returned, Verb
  <2>5. QED  BY <1>2, <2>1, <2>2, <2>3, <2>4
<1>3. PICK next \in {Returned(v), Replied(v, "error")} : verb' = WrittenBy(w, v.on, next)
  BY DEF Took
<1>4. verb'[w] = [next EXCEPT !.fresh = TRUE, !.hits = 1]
  <2>1. verb'[w] = [next EXCEPT !.fresh = TRUE, !.hits = next.hits + 1]
    BY <1>1, <1>3
  <2>2. next.hits + 1 = 1
    BY <1>2
  <2>3. QED  BY <2>1, <2>2
<1>5. /\ verb'[w] \in Verb
      /\ verb'[w].kind = next.kind /\ verb'[w].on = next.on /\ verb'[w].ask = next.ask
      /\ verb'[w].at = next.at /\ verb'[w].reply = next.reply
      /\ verb'[w].fresh /\ verb'[w].hits = 1
  <2>1. next \in Verb
    BY <1>2
  <2>2. 1 \in 0..2 /\ TRUE \in BOOLEAN
    OBVIOUS
  <2>3. verb'[w] \in Verb
    BY <1>4, <2>1, <2>2 DEF Verb
  <2>4. /\ verb'[w].kind = next.kind /\ verb'[w].on = next.on /\ verb'[w].ask = next.ask
        /\ verb'[w].at = next.at /\ verb'[w].reply = next.reply
    BY <1>4, <2>1 DEF Verb
  <2>5. verb'[w].fresh /\ verb'[w].hits = 1
    BY <1>4, <2>1 DEF Verb
  <2>6. QED  BY <2>3, <2>4, <2>5
<1>6. QED  BY <1>1, <1>2, <1>3, <1>5

\* After an effect all verbs are right: the one that had it if it found its object, or made
\* it, as it was asked.
LEMMA EffectIsRight ==
  ASSUME VerbInv, NEW w \in Workers, Took(w), verb[w].at \in {"act", "update"},
         ~dryRun, dryRun' = dryRun,
         \A x \in Workloads : x # verb[w].on => replicas'[x] = replicas[x],
         verb[w].kind \in {"scale", "delete"} => replicas'[verb[w].on] = verb[w].ask
  PROVE  verb' \in [Workers -> Verb] /\ \A u \in Workers : Right(verb[u])'
<1> DEFINE v == verb[w]
           u == verb'[w]
<1>1. v \in Verb /\ v.hits = 0 /\ v.reply = None /\ v.kind # None /\ OnItsWay(v)
  BY DEF VerbInv, Right, OnItsWay
<1>2. ASSUME NEW x \in Workers \ {w}  PROVE  Right(verb[x])'
  <2>1. verb'[x] = Stale(verb[x], v.on)
    BY <1>1, TookTells
  <2>2. QED  BY <2>1, ToldStaysRight
<1>3. Right(verb[w])'
  <2>1. /\ u \in Verb /\ u.kind = v.kind /\ u.on = v.on /\ u.ask = v.ask
        /\ u.fresh /\ u.hits = 1
        /\ \/ u.at = "read" /\ u.reply = None
           \/ u.at = "replied" /\ u.reply \in {"error", "done"}
    BY <1>1, TookTells
  <2>2. OnItsWay(verb[w])'
    BY <1>1, <2>1 DEF OnItsWay
  <2>3. KnowsIfFresh(verb[w])' /\ Reports(verb[w])'
    BY <1>1, <2>1, NoneAssumption DEF KnowsIfFresh, Reports, Replies
  <2>4. QED  BY <2>1, <2>2, <2>3 DEF Right
<1>4. QED  BY <1>1, <1>2, <1>3, TookTells DEF Right

\* Where one verb moves and nothing is written, that verb is all there is to look at.
LEMMA OneMoves ==
  ASSUME VerbInv, UNCHANGED <<dryRun, replicas>>, NEW w \in Workers,
         NEW v, verb' = [verb EXCEPT ![w] = v], Right(v)
  PROVE  VerbInv'
<1>1. v \in Verb
  BY DEF Right
<1>2. verb' \in [Workers -> Verb]
  BY <1>1 DEF VerbInv
<1>3. \A u \in Workers : verb'[u] = IF u = w THEN v ELSE verb[u]
  BY DEF VerbInv
<1>4. ASSUME NEW u \in Workers  PROVE  Right(verb[u])'
  <2>1. Right(verb'[u])
    BY <1>3 DEF VerbInv
  <2>2. QED  BY <2>1 DEF Right, OnItsWay, KnowsIfFresh, Reports
<1>5. QED  BY <1>2, <1>4 DEF VerbInv

LEMMA RepliedIsRight ==
  ASSUME NEW v, Right(v), v.at # "idle",
         NEW r \in {"notice", "dryrun", "error", "report"}, r \in {"notice", "dryrun"} => v.hits = 0
  PROVE  Right(Replied(v, r))
<1> DEFINE u == Replied(v, r)
<1>1. v \in Verb
  BY DEF Right
<1>2. u \in Verb /\ u.at = "replied" /\ u.reply = r
  BY <1>1 DEF Replied, Verb, Replies
<1>3. /\ u.kind = v.kind /\ u.on = v.on /\ u.ask = v.ask /\ u.hits = v.hits
      /\ u.fresh = v.fresh /\ u.shown = v.shown
  BY <1>1 DEF Replied, Verb
<1> HIDE DEF u
<1>4. OnItsWay(u) /\ KnowsIfFresh(u)
  BY <1>2, <1>3 DEF Right, OnItsWay, KnowsIfFresh
<1>5. Reports(u)
  BY <1>2, <1>3 DEF Right, Reports
<1>6. QED  BY <1>2, <1>4, <1>5 DEF Right, u

\* A reply that shows nothing of the cluster.
LEMMA ReplyKeeps ==
  ASSUME VerbInv, NEW w \in Workers, verb[w].at # "idle",
         NEW r \in {"notice", "dryrun", "error", "report"},
         r \in {"notice", "dryrun"} => verb[w].hits = 0, Reply(w, r)
  PROVE  VerbInv'
<1>1. Right(verb[w])
  BY DEF VerbInv
<1>2. Right(Replied(verb[w], r))
  BY <1>1, RepliedIsRight
<1>3. verb' = [verb EXCEPT ![w] = Replied(verb[w], r)] /\ UNCHANGED <<dryRun, replicas>>
  BY DEF Reply, nodeVars
<1>4. QED  BY <1>2, <1>3, OneMoves

LEMMA NoVerbIsRight == Right(NoVerb)
<1>1. NoVerb \in Verb
  BY DEF NoVerb, Verb
<1>2. OnItsWay(NoVerb) /\ KnowsIfFresh(NoVerb) /\ Reports(NoVerb)
  BY NoneAssumption DEF NoVerb, OnItsWay, KnowsIfFresh, Reports, Replies
<1>3. QED  BY <1>1, <1>2 DEF Right

LEMMA TapKeeps ==
  ASSUME VerbInv, NEW w \in Workers, TapSome(w)
  PROVE  VerbInv'
<1>1. PICK kind \in NodeKinds \cup WorkloadKinds, o \in Nodes \cup Workloads, typed \in BOOLEAN,
           ask \in Counts \cup {None} :
        /\ kind \in NodeKinds => o \in Nodes
        /\ kind \in WorkloadKinds => o \in Workloads
        /\ Tap(w, kind, o, typed, ask)
  <2>1. NodeKinds \cap WorkloadKinds = {}
    BY DEF NodeKinds, WorkloadKinds
  <2>2. QED  BY <2>1, Zenon DEF TapSome
<1> DEFINE at == IF kind = "drain" THEN "drain" ELSE "act"
           v == [NoVerb EXCEPT !.kind = kind, !.on = o, !.typed = typed, !.ask = ask, !.at = at]
<1>2. verb' = [verb EXCEPT ![w] = v] /\ (kind # "scale" => ask = None)
  BY <1>1 DEF Tap
<1>3. UNCHANGED <<dryRun, replicas>>
  BY <1>1 DEF Tap, Begin, Forget
<1>4. at \in {"drain", "act"} /\ (at = "drain" <=> kind = "drain")
  OBVIOUS
<1> HIDE DEF at
<1>5. NoVerb \in Verb
  BY NoVerbIsRight DEF Right
<1>6. v \in Verb
  BY <1>1, <1>4, <1>5 DEF Verb
<1>7. /\ v.kind = kind /\ v.on = o /\ v.ask = ask /\ v.hits = 0
      /\ v.at = at /\ v.reply = None
  BY <1>5 DEF Verb, NoVerb
<1> HIDE DEF v
<1>8. OnItsWay(v)
  BY <1>1, <1>2, <1>7, <1>4, NoneAssumption DEF OnItsWay
<1>9. KnowsIfFresh(v) /\ Reports(v)
  BY <1>7, <1>4, NoneAssumption DEF KnowsIfFresh, Reports, Replies
<1>10. QED  BY <1>2, <1>3, <1>6, <1>8, <1>9, OneMoves DEF Right

LEMMA GetScaleKeeps ==
  ASSUME VerbInv, NEW w \in Workers, GetScale(w)
  PROVE  VerbInv'
<1> DEFINE v == verb[w]
           u == [v EXCEPT !.at = "update", !.fresh = TRUE]
<1>1. /\ v \in Verb /\ OnItsWay(v) /\ v.at = "act" /\ v.kind = "scale" /\ ~dryRun
      /\ verb' = [verb EXCEPT ![w] = u] /\ UNCHANGED <<dryRun, replicas>>
  BY DEF GetScale, Acting, VerbInv, Right, nodeVars
<1>2. u \in Verb
  BY <1>1 DEF Verb
<1>3. /\ u.kind = v.kind /\ u.on = v.on /\ u.ask = v.ask /\ u.hits = v.hits
      /\ u.at = "update" /\ u.reply = v.reply
  BY <1>1 DEF Verb
<1> HIDE DEF u
<1>4. OnItsWay(u)
  BY <1>1, <1>3 DEF OnItsWay
<1>5. KnowsIfFresh(u) /\ Reports(u)
  BY <1>1, <1>3, NoneAssumption DEF OnItsWay, KnowsIfFresh, Reports, Replies
<1>6. QED  BY <1>1, <1>2, <1>4, <1>5, OneMoves DEF Right

\* What is read again and shown.
LEMMA ReReadKeeps ==
  ASSUME VerbInv, NEW w \in Workers, ReRead(w)
  PROVE  VerbInv'
<1> DEFINE v == verb[w]
           r == IF v.kind = "delete" THEN "list" ELSE "detail"
           n == IF v.on \in Workloads THEN replicas[v.on] ELSE None
           u == [v EXCEPT !.at = "replied", !.reply = r, !.shown = n]
<1>1. /\ v \in Verb /\ OnItsWay(v) /\ KnowsIfFresh(v) /\ v.at = "read"
      /\ UNCHANGED <<dryRun, replicas>>
  BY DEF ReRead, VerbInv, Right, nodeVars
<1>2. n \in Counts \cup {None} /\ r \in {"list", "detail"}
  BY DEF VerbInv
<1>3. verb' = [verb EXCEPT ![w] = u]
  BY <1>1 DEF ReRead, Replied, VerbInv, Verb
<1> HIDE DEF r, n
<1>4. u \in Verb
  BY <1>1, <1>2 DEF Verb, Replies
<1>5. /\ u.kind = v.kind /\ u.on = v.on /\ u.ask = v.ask /\ u.hits = v.hits /\ u.fresh = v.fresh
      /\ u.at = "replied" /\ u.reply = r /\ u.shown = n
  BY <1>1 DEF Verb
<1> HIDE DEF u
<1>6. OnItsWay(u) /\ KnowsIfFresh(u)
  BY <1>1, <1>5 DEF OnItsWay, KnowsIfFresh
<1>7. Reports(u)
  <2>1. u.hits = 1 /\ ~dryRun /\ u.reply \notin {"notice", "dryrun"}
    BY <1>1, <1>2, <1>5 DEF OnItsWay
  <2>2. v.kind \in {"scale", "delete"} /\ v.fresh => n = v.ask
    BY <1>1 DEF KnowsIfFresh, OnItsWay, WorkloadKinds, n
  <2>3. QED  BY <1>5, <2>1, <2>2 DEF Reports
<1>8. QED  BY <1>1, <1>3, <1>4, <1>6, <1>7, OneMoves DEF Right

\* The verbs that write: the object is as was asked, and whoever knew of it is told.
LEMMA EffectKeeps ==
  ASSUME VerbInv, NEW w \in Workers,
         \/ setNodeSchedulable(w) \/ RestartDeployment(w) \/ DeleteResource(w) \/ UpdateScale(w)
  PROVE  VerbInv'
<1> DEFINE v == verb[w]
<1>1. v \in Verb /\ OnItsWay(v) /\ replicas \in [Workloads -> Counts \cup {None}]
  BY DEF VerbInv, Right
<1>2. ASSUME ~dryRun, dryRun' = dryRun, Took(w), v.at \in {"act", "update"},
             replicas' \in [Workloads -> Counts \cup {None}],
             \A x \in Workloads : x # v.on => replicas'[x] = replicas[x],
             v.kind \in {"scale", "delete"} => replicas'[v.on] = v.ask
      PROVE  VerbInv'
  BY <1>2, EffectIsRight DEF VerbInv
<1>3. CASE setNodeSchedulable(w) \/ RestartDeployment(w)
  BY <1>2, <1>3 DEF setNodeSchedulable, RestartDeployment, Acting, VerbInv, nodeVars
<1>4. CASE DeleteResource(w)
  <2>1. /\ v.kind = "delete" /\ v.on \in Workloads /\ v.ask = None /\ v.at = "act" /\ ~dryRun
        /\ replicas' = [replicas EXCEPT ![v.on] = None] /\ Took(w) /\ dryRun' = dryRun
    BY <1>1, <1>4 DEF DeleteResource, Acting, OnItsWay, WorkloadKinds, nodeVars
  <2>2. QED  BY <1>1, <1>2, <2>1
<1>5. CASE UpdateScale(w)
  <2>1. /\ v.kind = "scale" /\ v.on \in Workloads /\ v.ask \in Counts \cup {None}
        /\ v.at = "update" /\ ~dryRun
        /\ replicas' = [replicas EXCEPT ![v.on] = v.ask] /\ Took(w) /\ dryRun' = dryRun
    BY <1>1, <1>5 DEF UpdateScale, OnItsWay, WorkloadKinds, nodeVars, Verb
  <2>2. QED  BY <1>1, <1>2, <2>1
<1>6. QED  BY <1>3, <1>4, <1>5

LEMMA OthersKeep ==
  ASSUME VerbInv, OthersWrite
  PROVE  VerbInv'
<1>1. PICK o \in Workloads, n \in Counts \cup {None} :
        replicas' = [replicas EXCEPT ![o] = n] /\ verb' = Written(o) /\ dryRun' = dryRun
  BY DEF OthersWrite, nodeVars
<1>2. /\ replicas' \in [Workloads -> Counts \cup {None}]
      /\ \A x \in Workloads : x # o => replicas'[x] = replicas[x]
  BY <1>1 DEF VerbInv
<1>3. verb' = [w \in Workers |-> Stale(verb[w], o)]
  BY <1>1 DEF Written, Stale
<1>4. ASSUME NEW w \in Workers  PROVE  Right(verb[w])'
  BY <1>1, <1>2, <1>3, ToldStaysRight
<1>5. verb' \in [Workers -> Verb]
  BY <1>3, StaleTells DEF VerbInv
<1>6. QED  BY <1>1, <1>2, <1>4, <1>5 DEF VerbInv

\* What leaves the verbs and the workloads alone.
LEMMA RestKeeps ==
  ASSUME VerbInv, UNCHANGED <<dryRun, replicas, verb>>
  PROVE  VerbInv'
BY DEF VerbInv, Right, OnItsWay, KnowsIfFresh, Reports

LEMMA NodesKeepDryRun ==
  ASSUME [NodeNext]_nodeVars
  PROVE  dryRun' = dryRun
BY DEF NodeNext, Elsewhere, PodsChange, OthersPatch, Crash, DrainStep, Forget, Begin, Cordon, CordonFails,
       List, ListFails, EvictNext, Skip, WouldEvict, Evict, EvictGone, EvictFails, Return, nodeVars

LEMMA VerbInvStep ==
  ASSUME VerbInv, [Next]_vars
  PROVE  VerbInv'
<1>1. \A w \in Workers : OnItsWay(verb[w]) /\ verb[w] \in Verb /\ Right(verb[w])
  BY DEF VerbInv, Right
<1>2. ASSUME NEW w \in Workers, Refuse(w)  PROVE  VerbInv'
  BY <1>1, <1>2, ReplyKeeps DEF Refuse, OnItsWay
<1>3. ASSUME NEW w \in Workers, CallFails(w)  PROVE  VerbInv'
  BY <1>3, ReplyKeeps DEF CallFails, Acting
<1>4. ASSUME NEW w \in Workers, DrainReports(w)  PROVE  VerbInv'
  BY <1>4, ReplyKeeps DEF DrainReports
<1>5. ASSUME NEW w \in Workers, DryRun(w)  PROVE  VerbInv'
  <2>1. Reply(w, "dryrun") /\ verb[w].at = "act"
    BY <1>5 DEF DryRun, Returned, Reply
  <2>2. QED  BY <1>1, <2>1, ReplyKeeps DEF OnItsWay
<1>6. ASSUME NEW w \in Workers, DrainStep(w), UNCHANGED <<replicas, verb>>  PROVE  VerbInv'
  BY <1>6, NodesKeepDryRun, RestKeeps DEF NodeNext
<1>7. ASSUME PodsChange \/ OthersPatch, UNCHANGED <<replicas, verb>>  PROVE  VerbInv'
  BY <1>7, NodesKeepDryRun, RestKeeps DEF NodeNext, Elsewhere
<1>8. CASE Dies
  <2>1. verb' = [w \in Workers |-> NoVerb] /\ UNCHANGED <<dryRun, replicas>>
    BY <1>8 DEF Dies, Crash
  <2>2. Right(NoVerb)
    BY NoVerbIsRight
  <2>3. ASSUME NEW w \in Workers  PROVE  Right(verb[w])'
    BY <2>1, <2>2 DEF Right, OnItsWay, KnowsIfFresh, Reports
  <2>4. QED  BY <2>1, <2>2, <2>3 DEF VerbInv, Right
<1>9. CASE UNCHANGED vars
  BY <1>9, RestKeeps DEF vars, nodeVars
<1>10. QED
  BY <1>2, <1>3, <1>4, <1>5, <1>6, <1>7, <1>8, <1>9,
     TapKeeps, GetScaleKeeps, ReReadKeeps, EffectKeeps, OthersKeep
  DEF Next, Outside, VerbStep

LEMMA VerbInvHolds == Spec => []VerbInv
<1>1. Init => VerbInv
  <2> SUFFICES ASSUME Init  PROVE  VerbInv
    OBVIOUS
  <2>1. /\ dryRun \in BOOLEAN /\ replicas \in [Workloads -> Counts]
        /\ verb = [w \in Workers |-> NoVerb]
    BY DEF Init, NodeInit
  <2>2. QED  BY <2>1, NoVerbIsRight DEF VerbInv, Right
<1>2. VerbInv /\ [Next]_vars => VerbInv'
  BY VerbInvStep
<1>3. QED  BY <1>1, <1>2, PTL DEF Spec

-----------------------------------------------------------------------------
(* The drains. *)

\* Every step of the verbs is a step of NodeOps on the nodes and the pods, or none: a tap
\* begins or forgets a drain, and to the drains a cordon or uncordon is somebody's patch.
LEMMA NodeStep ==
  ASSUME VerbInv, [Next]_vars
  PROVE  [NodeNext]_nodeVars
<1>1. ASSUME NEW w \in Workers, TapSome(w)  PROVE  NodeNext
  <2>1. PICK kind, o, typed, ask :
          /\ kind \in NodeKinds \cup WorkloadKinds /\ (kind \in NodeKinds => o \in Nodes)
          /\ Tap(w, kind, o, typed, ask)
    <3>1. NodeKinds \cap WorkloadKinds = {}
      BY DEF NodeKinds, WorkloadKinds
    <3>2. QED  BY <1>1, <3>1, Zenon DEF TapSome
  <2>2. CASE kind = "drain"
    <3>1. o \in Nodes /\ Begin(w, o)
      BY <2>1, <2>2 DEF NodeKinds, Tap
    <3>2. QED  BY <3>1 DEF NodeNext
  <2>3. CASE kind # "drain"
    <3>1. Forget(w)
      BY <2>1, <2>3 DEF Tap
    <3>2. QED  BY <3>1 DEF NodeNext
  <2>4. QED  BY <2>2, <2>3
<1>2. ASSUME NEW w \in Workers, setNodeSchedulable(w)  PROVE  NodeNext
  <2>1. verb[w].on \in Nodes
    BY <1>2 DEF setNodeSchedulable, Acting, VerbInv, Right, OnItsWay, NodeKinds
  <2>2. Patch(verb[w].on, verb[w].kind = "uncordon") /\ UNCHANGED <<dryRun, pods, drain>>
    BY <1>2 DEF setNodeSchedulable, Acting, SetNodeSchedulable
  <2>3. (verb[w].kind = "uncordon") \in BOOLEAN
    BY Zenon
  <2>4. OthersPatch
    BY <2>1, <2>2, <2>3, Zenon DEF OthersPatch
  <2>5. QED  BY <2>4 DEF NodeNext, Elsewhere
<1>3. ASSUME NEW w \in Workers, VerbStep(w)  PROVE  [NodeNext]_nodeVars
  BY <1>2, <1>3
  DEF VerbStep, Refuse, Reply, DryRun, CallFails, RestartDeployment, DeleteResource, GetScale, UpdateScale,
      DrainReports, ReRead, NodeNext
<1>4. ASSUME Outside \/ Dies  PROVE  [NodeNext]_nodeVars
  BY <1>4 DEF Outside, OthersWrite, Dies, NodeNext, Elsewhere
<1>5. ASSUME UNCHANGED vars  PROVE  UNCHANGED nodeVars
  BY <1>5 DEF vars
<1>6. QED  BY <1>1, <1>3, <1>4, <1>5 DEF Next

\* The drains of the verbs are NodeOps': what is proved of them holds among cordons,
\* uncordons and the verbs of workloads, too.
THEOREM VerbsKeepTheDrains == Spec => NodeSpec
<1>1. Init => NodeInit
  BY DEF Init
<1>2. VerbInv /\ [Next]_vars => [NodeNext]_nodeVars
  BY NodeStep
<1>3. QED  BY <1>1, <1>2, VerbInvHolds, PTL DEF Spec, NodeSpec

\* Each pod a drain's list answers is accounted for once, whatever else is done.
THEOREM VerbsAccountOnce == Spec => AccountedOnce
  BY VerbsKeepTheDrains, DrainAccountsOnce, PTL

\* A drain's report names each pod that stays.
THEOREM VerbsNameWhatStays == Spec => []NothingSlipsBy
  BY VerbsKeepTheDrains, DrainNamesWhatStays, PTL

-----------------------------------------------------------------------------
(* The verbs. *)

\* Every variable keeps its type; that a verb takes effect at most once is part of it.
THEOREM VerbsTypeCorrect == Spec => []TypeOK
<1>1. NodeTypeOK /\ VerbInv => TypeOK
  BY DEF VerbInv, TypeOK
<1>2. QED  BY <1>1, VerbInvHolds, VerbsKeepTheDrains, NodeTypeCorrect, PTL

\* A pane or an answer that speaks of a change follows exactly one effect, a notice none,
\* and what is shown is what was done unless somebody wrote the object in between.
THEOREM RepliesFollowEffects == Spec => []ReportsWhatItDid
<1>1. VerbInv => ReportsWhatItDid
  BY DEF VerbInv, Right, Reports, ReportsWhatItDid
<1>2. QED  BY <1>1, VerbInvHolds, PTL

\* In a dry run only the rest of the world changes a node, a pod or a workload.
THEOREM DryRunIsDry == Spec => DryRunTouchesNothing
<1>1. VerbInv /\ [Next]_vars => [dryRun => UNCHANGED <<cluster, replicas>> \/ Outside]_vars
  <2> SUFFICES ASSUME VerbInv, Next, dryRun  PROVE  UNCHANGED <<cluster, replicas>> \/ Outside
    OBVIOUS
  <2>1. ASSUME NEW w \in Workers, TapSome(w)  PROVE  UNCHANGED <<cluster, replicas>>
    BY <2>1 DEF TapSome, Tap, Begin, Forget, cluster
  <2>2. ASSUME NEW w \in Workers, DrainStep(w), UNCHANGED replicas
        PROVE  UNCHANGED <<cluster, replicas>>
    BY <2>2
    DEF DrainStep, Cordon, SetNodeSchedulable, CordonFails, SetNodeSchedulableFails, List, ListFails,
        EvictNext, Skip, WouldEvict, Evict, EvictGone, EvictFails, Return, cluster
  <2>3. ASSUME NEW w \in Workers, VerbStep(w)  PROVE  UNCHANGED <<cluster, replicas>>
    <3>1. ~UpdateScale(w)
      BY DEF UpdateScale, VerbInv, Right, OnItsWay
    <3>2. QED
      BY <2>2, <2>3, <3>1
      DEF VerbStep, Refuse, Reply, DryRun, CallFails, setNodeSchedulable, RestartDeployment,
          DeleteResource, GetScale, Acting, DrainReports, ReRead, nodeVars, cluster
  <2>4. CASE Dies
    BY <2>4 DEF Dies, Crash, cluster
  <2>5. QED  BY <2>1, <2>3, <2>4 DEF Next
<1>2. QED  BY <1>1, VerbInvHolds, PTL DEF Spec, DryRunTouchesNothing
=============================================================================
