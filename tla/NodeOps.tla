------------------------------- MODULE NodeOps -------------------------------
(***************************************************************************)
(* Cordon, uncordon and drain, src/internal/k8s/nodeops.go, against a      *)
(* cluster that goes on living: pods end, are deleted, come back under     *)
(* their name, and others cordon and uncordon.                             *)
(*                                                                         *)
(* DrainNode is a patch, a list and one eviction after another, each a     *)
(* call that may fail, with what it was told before.  A pod is known by    *)
(* its namespace and name; uid tells its instances apart, which the code   *)
(* never looks at.  The API server is external: a pod is bound to a node   *)
(* only while that is schedulable, unless it is a DaemonSet's or a mirror  *)
(* pod, and a call that fails may have taken effect before.                *)
(***************************************************************************)
EXTENDS Naturals

CONSTANTS
  Nodes,
  Pods,      \* namespace and name
  Kept,      \* those of a DaemonSet, and the mirror pods
  Workers,   \* handlers at work at the same time
  MaxUid,    \* bound: how often a pod comes back
  None

ASSUME NodeAssumption == Kept \subseteq Pods /\ None \notin Nodes /\ MaxUid \in Nat

VARIABLES
  dryRun,      \* Client.dryRun, fixed when the client is made
  cordoned,    \* spec.unschedulable of each node
  pods,        \* where each pod is, its instance and how it is
  drain,       \* the DrainNode call of each worker, and its DrainResult
  uncordoned   \* history: the node was uncordoned since the worker cordoned it

cluster == <<cordoned, pods>>
nodeVars == <<dryRun, cordoned, pods, drain, uncordoned>>

\* over: Succeeded or Failed; leaving: the deletion timestamp is set, whatever the phase.
Pod == [at : Nodes \cup {None}, uid : 0..MaxUid, is : {"running", "over", "leaving"}]

\* One entry of the list: the instance that was found, and drainSkipReason of it.
Item == [pod : Pods, uid : 0..MaxUid, skip : BOOLEAN]

Phases == {"idle", "cordon", "list", "evict", "done", "error"}

Drain == [at : Phases, node : Nodes \cup {None}, todo : SUBSET Item,
          evicted : SUBSET Item, skipped : SUBSET Item, failed : SUBSET Item]

NoDrain == [at |-> "idle", node |-> None, todo |-> {},
            evicted |-> {}, skipped |-> {}, failed |-> {}]

NodeTypeOK ==
  /\ dryRun \in BOOLEAN
  /\ cordoned \in [Nodes -> BOOLEAN]
  /\ pods \in [Pods -> Pod]
  /\ drain \in [Workers -> Drain]
  /\ uncordoned \in [Workers -> BOOLEAN]

NodeInit ==
  /\ dryRun \in BOOLEAN
  /\ cordoned = [n \in Nodes |-> FALSE]
  /\ pods \in [Pods -> [at : Nodes, uid : {0}, is : {"running"}]]
  /\ drain = [w \in Workers |-> NoDrain]
  /\ uncordoned = [w \in Workers |-> FALSE]

-----------------------------------------------------------------------------
(* Cordon and uncordon. *)

\* The patch took effect, for whoever sent it.
Patch(n, schedulable) ==
  /\ cordoned' = [cordoned EXCEPT ![n] = ~schedulable]
  /\ uncordoned' = [w \in Workers |-> uncordoned[w] \/ (schedulable /\ drain[w].node = n)]

\* Mutant: the dry run is not looked at.
SetNodeSchedulableAlways(n, schedulable) == Patch(n, schedulable)

\* SetNodeSchedulable returned nil.
SetNodeSchedulable(n, schedulable) ==
  IF dryRun THEN UNCHANGED <<cordoned, uncordoned>> ELSE Patch(n, schedulable)

\* It returned an error, before or after the server had done it.
SetNodeSchedulableFails(n, schedulable) ==
  /\ ~dryRun
  /\ Patch(n, schedulable) \/ UNCHANGED <<cordoned, uncordoned>>

-----------------------------------------------------------------------------
(* DrainNode. *)

There(p) == pods[p].at # None

Begin(w, n) ==
  /\ drain[w].at \in {"idle", "done", "error"}
  /\ drain' = [drain EXCEPT ![w] = [NoDrain EXCEPT !.at = "cordon", !.node = n]]
  /\ uncordoned' = [uncordoned EXCEPT ![w] = FALSE]
  /\ UNCHANGED <<dryRun, cordoned, pods>>

\* The worker takes up something else: nothing keeps the result of its last drain.
Forget(w) ==
  /\ drain[w].at \in {"idle", "done", "error"}
  /\ drain' = [drain EXCEPT ![w] = NoDrain]
  /\ uncordoned' = [uncordoned EXCEPT ![w] = FALSE]
  /\ UNCHANGED <<dryRun, cordoned, pods>>

Cordon(w) ==
  /\ drain[w].at = "cordon"
  /\ SetNodeSchedulable(drain[w].node, FALSE)
  /\ drain' = [drain EXCEPT ![w].at = "list"]
  /\ UNCHANGED <<dryRun, pods>>

CordonFails(w) ==
  /\ drain[w].at = "cordon"
  /\ SetNodeSchedulableFails(drain[w].node, FALSE)
  /\ drain' = [drain EXCEPT ![w].at = "error"]
  /\ UNCHANGED <<dryRun, pods>>

drainSkipReason(p) == pods[p].is \in {"over", "leaving"} \/ p \in Kept

\* What the list answers, the pods whose spec.nodeName is the node's.
Found(n) == {[pod |-> p, uid |-> pods[p].uid, skip |-> drainSkipReason(p)] :
               p \in {q \in Pods : pods[q].at = n}}

\* Mutant: the answer of the list is cut at a page.
ListOnePage(w) ==
  /\ drain[w].at = "list"
  /\ \E item \in Found(drain[w].node) :
       drain' = [drain EXCEPT ![w].at = "evict", ![w].todo = {item}]
  /\ UNCHANGED <<dryRun, cordoned, pods, uncordoned>>

List(w) ==
  /\ drain[w].at = "list"
  /\ drain' = [drain EXCEPT ![w].at = "evict", ![w].todo = Found(drain[w].node)]
  /\ UNCHANGED <<dryRun, cordoned, pods, uncordoned>>

\* The node stays cordoned.
ListFails(w) ==
  /\ drain[w].at = "list"
  /\ drain' = [drain EXCEPT ![w].at = "error"]
  /\ UNCHANGED <<dryRun, cordoned, pods, uncordoned>>

\* Mutant: a pod settled stays in the list, to be tried again.
SettledAgain(w, item, column) == [drain EXCEPT ![w][column] = @ \cup {item}]

Settled(w, item, column) == [drain EXCEPT ![w].todo = @ \ {item}, ![w][column] = @ \cup {item}]

Skip(w, item) ==
  /\ item.skip
  /\ drain' = Settled(w, item, "skipped")
  /\ UNCHANGED <<dryRun, cordoned, pods, uncordoned>>

\* The server set the deletion timestamp of the pod of that name.
Delete(p) == pods' = [pods EXCEPT ![p].is = "leaving"]

WouldEvict(w, item) ==
  /\ dryRun /\ ~item.skip
  /\ drain' = Settled(w, item, "evicted")
  /\ UNCHANGED <<dryRun, cordoned, pods, uncordoned>>

Evict(w, item) ==
  /\ ~dryRun /\ ~item.skip
  /\ There(item.pod)
  /\ Delete(item.pod)
  /\ drain' = Settled(w, item, "evicted")
  /\ UNCHANGED <<dryRun, cordoned, uncordoned>>

\* Already gone; that is the outcome we wanted.
EvictGone(w, item) ==
  /\ ~dryRun /\ ~item.skip
  /\ ~There(item.pod)
  /\ drain' = Settled(w, item, "evicted")
  /\ UNCHANGED <<dryRun, cordoned, pods, uncordoned>>

\* Mutant: any error is taken for a pod that is gone.
EvictFailsGone(w, item) ==
  /\ ~dryRun /\ ~item.skip
  /\ drain' = Settled(w, item, "evicted")
  /\ UNCHANGED <<dryRun, cordoned, pods, uncordoned>>

\* A disruption budget, the network, a timeout after the server had agreed.
EvictFails(w, item) ==
  /\ ~dryRun /\ ~item.skip
  /\ UNCHANGED pods \/ (There(item.pod) /\ Delete(item.pod))
  /\ drain' = Settled(w, item, "failed")
  /\ UNCHANGED <<dryRun, cordoned, uncordoned>>

EvictNext(w) ==
  /\ drain[w].at = "evict"
  /\ \E item \in drain[w].todo :
       Skip(w, item) \/ WouldEvict(w, item) \/ Evict(w, item) \/ EvictGone(w, item) \/ EvictFails(w, item)

\* Mutant: a drain waits until what it evicted is gone, as kubectl does.
ReturnWhenGone(w) ==
  /\ drain[w].at = "evict" /\ drain[w].todo = {}
  /\ \A item \in drain[w].evicted : ~There(item.pod)
  /\ drain' = [drain EXCEPT ![w].at = "done"]
  /\ UNCHANGED <<dryRun, cordoned, pods, uncordoned>>

Return(w) ==
  /\ drain[w].at = "evict" /\ drain[w].todo = {}
  /\ drain' = [drain EXCEPT ![w].at = "done"]
  /\ UNCHANGED <<dryRun, cordoned, pods, uncordoned>>

DrainStep(w) ==
  Cordon(w) \/ CordonFails(w) \/ List(w) \/ ListFails(w) \/ EvictNext(w) \/ Return(w)

\* The bot's process dies and starts again: its calls are forgotten, what they did is not.
Crash ==
  /\ drain' = [w \in Workers |-> NoDrain]
  /\ uncordoned' = [w \in Workers |-> FALSE]
  /\ UNCHANGED <<dryRun, cordoned, pods>>

-----------------------------------------------------------------------------
(* The rest of the cluster. *)

Ends(p) ==
  /\ There(p) /\ pods[p].is = "running"
  /\ pods' = [pods EXCEPT ![p].is = "over"]

IsDeleted(p) == There(p) /\ pods[p].is # "leaving" /\ Delete(p)

Vanishes(p) ==
  /\ There(p) /\ pods[p].is = "leaving"
  /\ pods' = [pods EXCEPT ![p].at = None, ![p].is = "running"]

\* A new instance under the old name, as a StatefulSet makes.
ComesBack(p, n) ==
  /\ ~There(p) /\ pods[p].uid < MaxUid
  /\ p \in Kept \/ ~cordoned[n]
  /\ pods' = [pods EXCEPT ![p].at = n, ![p].uid = @ + 1]

PodsChange ==
  /\ \E p \in Pods : Ends(p) \/ IsDeleted(p) \/ Vanishes(p) \/ \E n \in Nodes : ComesBack(p, n)
  /\ UNCHANGED <<dryRun, cordoned, drain, uncordoned>>

OthersPatch ==
  /\ \E n \in Nodes, schedulable \in BOOLEAN : Patch(n, schedulable)
  /\ UNCHANGED <<dryRun, pods, drain>>

Elsewhere == PodsChange \/ OthersPatch

-----------------------------------------------------------------------------
NodeNext ==
  \/ Elsewhere \/ Crash
  \/ \E w \in Workers : DrainStep(w) \/ Forget(w) \/ \E n \in Nodes : Begin(w, n)

NodeSpec == NodeInit /\ [][NodeNext]_nodeVars

-----------------------------------------------------------------------------
(* Properties. *)

\* What Ledger sees of a drain, and of all of them.
Book(d) == [todo |-> d.todo, evicted |-> d.evicted, skipped |-> d.skipped, failed |-> d.failed]

Books == [w \in Workers |-> Book(drain[w])]

\* A pod listed is in exactly one of what is still to do and the three lists of
\* the result, from the list to the report: the promise of Ledger.
Promise == INSTANCE Ledger WITH Items <- Item, ledger <- Books
AccountedOnce == Promise!Spec

\* A pod that must leave for the node to be empty.
Stays(p, n) == pods[p].at = n /\ pods[p].is = "running" /\ p \notin Kept

Named(items) == {item.pod : item \in items}

\* When a drain has returned, every pod still running on the node that is none of
\* the kept ones is named as failed, unless the node was uncordoned meanwhile.
NothingSlipsBy ==
  \A w \in Workers :
    drain[w].at = "done" /\ ~dryRun /\ ~uncordoned[w] =>
      \A p \in Pods : Stays(p, drain[w].node) => p \in Named(drain[w].failed)
=============================================================================
