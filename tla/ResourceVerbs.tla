---------------------------- MODULE ResourceVerbs ----------------------------
(***************************************************************************)
(* The verbs that change the cluster, from the tap or the typed command to *)
(* the reply: cordon, uncordon and drain of a node, scale, restart and     *)
(* delete of a workload (src/internal/bot/detail.go and bot.go,            *)
(* handlers/operations.go, k8s/client.go).                                 *)
(*                                                                         *)
(* Each verb acts, and then shows what a fresh read finds rather than what *)
(* it asked for.  Between the two, other handlers and the rest of the      *)
(* cluster act on the same object.  A dry run stops each verb inside the   *)
(* client, whose caller cannot tell from the nil it gets; it must ask.     *)
(* Drain is NodeOps'; who may confirm what is Navigation's.                *)
(***************************************************************************)
EXTENDS NodeOps

CONSTANTS
  Workloads,     \* the deployments and replica sets
  Deployments,
  Counts         \* the replica counts that are asked for

ASSUME VerbAssumption ==
  /\ Deployments \subseteq Workloads /\ Workloads \cap Nodes = {}
  /\ None \notin Workloads \cup Counts

VARIABLES
  replicas,   \* spec.replicas of each workload, None of one that does not exist
  verb        \* what each worker is doing

vars == <<nodeVars, replicas, verb>>

NodeKinds == {"cordon", "uncordon", "drain"}
WorkloadKinds == {"scale", "restart", "delete"}
Replies == {"notice", "dryrun", "error", "detail", "list", "report", "done"}

ASSUME NoneAssumption == None \notin NodeKinds \cup WorkloadKinds \cup Replies

\* fresh: nobody has written the object since the verb last read or wrote it; before
\* UpdateScale it is what the resourceVersion of GetScale is for.
\* hits: history, how often the verb took effect.
Verb == [kind : NodeKinds \cup WorkloadKinds \cup {None}, on : Nodes \cup Workloads \cup {None},
         typed : BOOLEAN, ask : Counts \cup {None}, fresh : BOOLEAN, hits : 0..2,
         at : {"idle", "act", "update", "drain", "read", "replied"},
         reply : Replies \cup {None}, shown : Counts \cup {None}]

NoVerb == [kind |-> None, on |-> None, typed |-> FALSE, ask |-> None, fresh |-> FALSE,
           hits |-> 0, at |-> "idle", reply |-> None, shown |-> None]

TypeOK ==
  /\ NodeTypeOK
  /\ replicas \in [Workloads -> Counts \cup {None}]
  /\ verb \in [Workers -> Verb]

Init ==
  /\ NodeInit
  /\ replicas \in [Workloads -> Counts]
  /\ verb = [w \in Workers |-> NoVerb]

-----------------------------------------------------------------------------
(* What happens to the objects. *)

Exists(o) == o \in Nodes \cup {x \in Workloads : replicas[x] # None}

\* Somebody has written o: no worker's knowledge of it is fresh.
Written(o) == [w \in Workers |-> [verb[w] EXCEPT !.fresh = @ /\ verb[w].on # o]]

\* Worker w has, and goes on as next says.
WrittenBy(w, o, next) == [Written(o) EXCEPT ![w] = [next EXCEPT !.fresh = TRUE, !.hits = @ + 1]]

\* Another client, an autoscaler, or the controller of a replica set's owner.
OthersWrite ==
  /\ \E o \in Workloads, n \in Counts \cup {None} :
       /\ n # replicas[o]
       /\ replicas' = [replicas EXCEPT ![o] = n]
       /\ verb' = Written(o)
  /\ UNCHANGED nodeVars

-----------------------------------------------------------------------------
(* The way of a verb. *)

Replied(v, r) == [v EXCEPT !.at = "replied", !.reply = r]

Reply(w, r) ==
  /\ verb' = [verb EXCEPT ![w] = Replied(@, r)]
  /\ UNCHANGED <<nodeVars, replicas>>

\* A button is tapped, or /scale or /restart is typed.
Tap(w, kind, o, typed, ask) ==
  /\ verb[w].at \in {"idle", "replied"}
  /\ typed => kind \in {"scale", "restart"}
  /\ kind # "scale" => ask = None
  /\ verb' = [verb EXCEPT ![w] = [NoVerb EXCEPT
                !.kind = kind, !.on = o, !.typed = typed, !.ask = ask,
                !.at = IF kind = "drain" THEN "drain" ELSE "act"]]
  /\ IF kind = "drain" THEN Begin(w, o) ELSE Forget(w)
  /\ UNCHANGED replicas

\* A count that is none, or a kind that cannot be scaled or restarted that way.
Refused(v) ==
  \/ v.kind = "scale" /\ v.ask = None
  \/ v.kind = "restart" /\ v.on \notin Deployments
  \/ v.typed /\ v.on \notin Deployments

Refuse(w) == verb[w].at = "act" /\ Refused(verb[w]) /\ Reply(w, "notice")

\* Mutant: the caller takes the nil of a dry run for a deed.
ReturnedBlind(v) == IF v.typed THEN Replied(v, "done") ELSE [v EXCEPT !.at = "read"]

\* The client's call has returned nil.
Returned(v) ==
  IF dryRun THEN Replied(v, "dryrun")
  ELSE IF v.typed THEN Replied(v, "done")
  ELSE [v EXCEPT !.at = "read"]

\* A dry run: the client has logged and returned nil, or the command has not asked it.
DryRun(w) ==
  /\ dryRun
  /\ verb[w].at = "act" /\ ~Refused(verb[w])
  /\ verb' = [verb EXCEPT ![w] = Returned(@)]
  /\ UNCHANGED <<nodeVars, replicas>>

Acting(w, kinds) == ~dryRun /\ verb[w].at = "act" /\ verb[w].kind \in kinds /\ ~Refused(verb[w])

CallFails(w) ==
  /\ Acting(w, {"cordon", "uncordon", "scale", "restart", "delete"}) \/ verb[w].at \in {"update", "read"}
  /\ Reply(w, "error")

\* Mutant: a call that timed out is sent again.
TookAgain(w) == \E next \in {Returned(verb[w]), verb[w]} : verb' = WrittenBy(w, verb[w].on, next)

\* The effect, and what the verb knows of it: nil, or an error that came after.
Took(w) ==
  \/ verb' = WrittenBy(w, verb[w].on, Returned(verb[w]))
  \/ verb' = WrittenBy(w, verb[w].on, Replied(verb[w], "error"))

setNodeSchedulable(w) ==
  /\ Acting(w, {"cordon", "uncordon"})
  /\ SetNodeSchedulable(verb[w].on, verb[w].kind = "uncordon")
  /\ Took(w)
  /\ UNCHANGED <<dryRun, pods, drain, replicas>>

RestartDeployment(w) ==
  /\ Acting(w, {"restart"}) /\ Exists(verb[w].on)
  /\ Took(w)
  /\ UNCHANGED <<nodeVars, replicas>>

DeleteResource(w) ==
  /\ Acting(w, {"delete"}) /\ Exists(verb[w].on)
  /\ replicas' = [replicas EXCEPT ![verb[w].on] = None]
  /\ Took(w)
  /\ UNCHANGED nodeVars

GetScale(w) ==
  /\ Acting(w, {"scale"}) /\ Exists(verb[w].on)
  /\ verb' = [verb EXCEPT ![w] = [@ EXCEPT !.at = "update", !.fresh = TRUE]]
  /\ UNCHANGED <<nodeVars, replicas>>

\* With the resourceVersion GetScale saw: a conflict when somebody wrote since.
UpdateScale(w) ==
  /\ verb[w].at = "update" /\ verb[w].fresh
  /\ replicas' = [replicas EXCEPT ![verb[w].on] = verb[w].ask]
  /\ Took(w)
  /\ UNCHANGED nodeVars

DrainReports(w) ==
  /\ verb[w].at = "drain"
  /\ \/ drain[w].at = "done" /\ Reply(w, "report")
     \/ drain[w].at = "error" /\ Reply(w, "error")

\* Mutant: the pane is drawn from a cache that may be behind.
ReReadCached(w) ==
  /\ verb[w].at = "read"
  /\ \E n \in Counts : verb' = [verb EXCEPT ![w] = [Replied(@, "detail") EXCEPT !.shown = n]]
  /\ UNCHANGED <<nodeVars, replicas>>

\* showResourceDetail; of a delete, listResources.
ReRead(w) ==
  /\ verb[w].at = "read"
  /\ verb[w].kind = "delete" \/ Exists(verb[w].on)
  /\ verb' = [verb EXCEPT ![w] =
                [Replied(@, IF @.kind = "delete" THEN "list" ELSE "detail") EXCEPT
                   !.shown = IF verb[w].on \in Workloads THEN replicas[verb[w].on] ELSE None]]
  /\ UNCHANGED <<nodeVars, replicas>>

VerbStep(w) ==
  \/ Refuse(w) \/ DryRun(w) \/ CallFails(w) \/ setNodeSchedulable(w) \/ RestartDeployment(w)
  \/ DeleteResource(w) \/ GetScale(w) \/ UpdateScale(w) \/ DrainReports(w) \/ ReRead(w)
  \/ DrainStep(w) /\ UNCHANGED <<replicas, verb>>

-----------------------------------------------------------------------------
TapSome(w) ==
  \/ \E kind \in NodeKinds, n \in Nodes : Tap(w, kind, n, FALSE, None)
  \/ \E kind \in WorkloadKinds, o \in Workloads, typed \in BOOLEAN, ask \in Counts \cup {None} :
       Tap(w, kind, o, typed, ask)

Outside ==
  \/ PodsChange /\ UNCHANGED <<replicas, verb>>
  \/ OthersPatch /\ UNCHANGED <<replicas, verb>>
  \/ OthersWrite

Dies ==
  /\ Crash
  /\ verb' = [w \in Workers |-> NoVerb]
  /\ UNCHANGED replicas

Next == Outside \/ Dies \/ \E w \in Workers : TapSome(w) \/ VerbStep(w)

\* A handler's goroutine goes on, and each of its calls ends: with its answer, or with
\* the timeout of the REST client.
Spec == Init /\ [][Next]_vars /\ \A w \in Workers : WF_vars(VerbStep(w))

-----------------------------------------------------------------------------
(* Properties. *)

\* A pane or an answer that speaks of a change follows exactly one effect, a notice and
\* a dry run's reply none, an error at most one, whatever call failed and when; and what
\* is shown after a scale or a delete is what it did, unless somebody wrote the object in
\* between: the read comes after the write.  (None is asked for, and shown, of an object
\* that is to be deleted.)
ReportsWhatItDid ==
  \A w \in Workers :
    LET v == verb[w] IN
      /\ v.reply \in {"detail", "list", "done"} => v.hits = 1 /\ ~dryRun
      /\ v.reply \in {"notice", "dryrun"} => v.hits = 0
      /\ v.hits <= 1
      /\ v.kind \in {"scale", "delete"} /\ v.reply \in {"detail", "list"} /\ v.fresh => v.shown = v.ask

\* With dry run enabled no step of the bot changes the cluster, by any verb.
DryRunTouchesNothing ==
  [][dryRun => UNCHANGED <<cluster, replicas>> \/ Outside]_vars

\* Every verb that was asked for is answered, unless the process dies: none waits for
\* another, and a drain has an end whatever is refused.
EveryVerbReplies ==
  \A w \in Workers :
    verb[w].at \notin {"idle", "replied"} ~> verb[w].at \in {"idle", "replied"}

\* docs/CONFIGURATION.md, "The chat replies say so explicitly": under a dry run no reply
\* reads as if something had been done.
DryRunSaysSo ==
  \A w \in Workers : dryRun => verb[w].reply \in {None, "dryrun", "notice", "error"}
=============================================================================
