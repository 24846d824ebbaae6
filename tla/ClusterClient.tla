---------------------------- MODULE ClusterClient ----------------------------
(***************************************************************************)
(* The one Kubernetes client of the bot, src/internal/k8s/client.go, its   *)
(* context switches and the operations that go through it.                 *)
(*                                                                         *)
(* All users share one Client.  A switch builds everything for the new     *)
(* context first and then assigns four plain fields with no lock, while    *)
(* other updates' goroutines read them call by call; without               *)
(* synchronisation the assignments may be seen in any order.  A user under *)
(* impersonation gets a throw-away copy made from restConfig each time a   *)
(* handler asks for a client.                                              *)
(*                                                                         *)
(* A client, a clientset or a rest.Config is the context it was built for. *)
(***************************************************************************)
EXTENDS Naturals, Sequences, FiniteSets

CONSTANTS
  Contexts,       \* the contexts of the kubeconfig
  Broken,         \* those no client can be built for
  Absent,         \* a name that is not in the kubeconfig
  Initial,        \* the context NewClient was given
  Users,
  Impersonated,   \* the users GetImpersonationForUser maps
  Workers,        \* goroutines handling updates at the same time
  Operations,     \* the field each call of an operation reads, in order
  Resolve,        \* where an operation asks for the client again
  None

Fields == {"restConfig", "clientset", "dynamicClient", "currentContext"}

ASSUME ClientAssumption ==
  /\ Broken \subseteq Contexts /\ Initial \in Contexts \ Broken
  /\ Absent \notin Contexts /\ None \notin Contexts \cup {Absent} \cup Users
  /\ Impersonated \subseteq Users
  /\ Resolve \notin Fields /\ Operations \subseteq Seq(Fields \cup {Resolve})

VARIABLES
  client,       \* the fields of the shared client
  currentCtx,   \* session.CurrentCtx of each user
  job,          \* what each worker is doing
  lone,         \* history: the last switch to begin assigning met no other
  last          \* history: whose that switch was

vars == <<client, currentCtx, job, lone, last>>

Idle == [kind |-> "idle"]
SwitchJob == [kind : {"build", "assign"}, user : Users, to : Contexts, left : SUBSET Fields]
\* via: the context of the throw-away copy, or None for the shared client;
\* hit: the contexts the calls have used since the client was asked for;
\* calm: history, whether the client was whole then and nothing was assigned since.
OpJob == [kind : {"op"}, user : Users, via : Contexts \cup {None},
          calls : Seq(Fields \cup {Resolve}), hit : SUBSET Contexts, calm : BOOLEAN]

Switching == {w \in Workers : job[w].kind = "assign"}

Whole == \A x, y \in Fields : client[x] = client[y]

\* NewClient builds every field for one context.
Init ==
  /\ client = [x \in Fields |-> Initial]
  /\ currentCtx = [u \in Users |-> None]
  /\ job = [w \in Workers |-> Idle]
  /\ lone = TRUE
  /\ last = None

-----------------------------------------------------------------------------
(* Which client a handler gets. *)

\* K8sClientForUser: the copy, or the shared client for a user without a
\* mapping and when the copy cannot be built.
ClientFor(u) == {None} \cup IF u \in Impersonated THEN {client["restConfig"]} ELSE {}

\* The context a call that reads field x goes to.
\* Mutant: the copy keeps the shared client's own clients.
ReachesShared(via, x) == IF via = None \/ x # "restConfig" THEN client[x] ELSE via

Reaches(via, x) == IF via = None THEN client[x] ELSE via

-----------------------------------------------------------------------------
(* Switching contexts. *)

\* Mutant: the name is not looked up in the kubeconfig.
SwitchContextUnknown(w, u, to) ==
  /\ job[w].kind = "idle"
  /\ job' = [job EXCEPT ![w] = [kind |-> "build", user |-> u, to |-> to, left |-> {}]]
  /\ UNCHANGED <<client, currentCtx, lone, last>>

\* A tap in the picker switches the shared client whoever taps, and so does
\* /use-context for a user without impersonation.  An unknown name goes no further.
SwitchContext(w, u, to) ==
  /\ job[w].kind = "idle"
  /\ to \in Contexts
  /\ job' = [job EXCEPT ![w] = [kind |-> "build", user |-> u, to |-> to, left |-> {}]]
  /\ UNCHANGED <<client, currentCtx, lone, last>>

\* Mutant: the dynamic client is left as it was.
RebuiltNoDynamic == Fields \ {"dynamicClient"}
Rebuilt == Fields

\* Every client for the new context has been built, in locals.
Build(w) ==
  /\ job[w].kind = "build" /\ job[w].to \notin Broken
  /\ job' = [job EXCEPT ![w].kind = "assign", ![w].left = Rebuilt]
  /\ lone' = (Switching = {})
  /\ last' = job[w].user
  /\ UNCHANGED <<client, currentCtx>>

\* Mutant: the configuration is put in place before the clients are built from it.
BuildFailsLate(w) ==
  /\ job[w].kind = "build" /\ job[w].to \in Broken
  /\ job' = [job EXCEPT ![w] = Idle]
  /\ client' = [client EXCEPT !["restConfig"] = job[w].to]
  /\ UNCHANGED <<currentCtx, lone, last>>

\* One of them cannot be built: the caller returns without touching the session.
BuildFails(w) ==
  /\ job[w].kind = "build" /\ job[w].to \in Broken
  /\ job' = [job EXCEPT ![w] = Idle]
  /\ UNCHANGED <<client, currentCtx, lone, last>>

\* One of the four assignments, which operations on the shared client may see.
Assign(w) ==
  /\ w \in Switching
  /\ \E x \in job[w].left :
       /\ client' = [client EXCEPT ![x] = job[w].to]
       /\ job' = [v \in Workers |->
            IF v = w THEN [job[w] EXCEPT !.left = @ \ {x}]
            ELSE IF job[v].kind = "op" /\ job[v].via = None THEN [job[v] EXCEPT !.calm = FALSE]
            ELSE job[v]]
  /\ UNCHANGED <<currentCtx, lone, last>>

\* SwitchContext has returned: the session records the context, and the picker
\* or the answer to /use-context reports it.
Report(w) ==
  /\ w \in Switching /\ job[w].left = {}
  /\ currentCtx' = [currentCtx EXCEPT ![job[w].user] = job[w].to]
  /\ job' = [job EXCEPT ![w] = Idle]
  /\ UNCHANGED <<client, lone, last>>

\* /use-context under impersonation switches the copy it was given, which is
\* dropped, and reports the context all the same.
UseContextOnCopy(w, u, to) ==
  /\ job[w].kind = "idle"
  /\ u \in Impersonated /\ to \in Contexts \ Broken
  /\ currentCtx' = [currentCtx EXCEPT ![u] = to]
  /\ UNCHANGED <<client, job, lone, last>>

-----------------------------------------------------------------------------
(* Operations of several calls: a drain, a scale, an exec, a delete. *)

BeginOperation(w, u, calls) ==
  /\ job[w].kind = "idle"
  /\ \E via \in ClientFor(u) :
       job' = [job EXCEPT ![w] =
         [kind |-> "op", user |-> u, via |-> via, calls |-> calls, hit |-> {},
          calm |-> via # None \/ Whole]]
  /\ UNCHANGED <<client, currentCtx, lone, last>>

\* The next call, which may fail and end the operation, or be the last.
Call(w) ==
  /\ job[w].kind = "op"
  /\ LET j == job[w] IN
       /\ j.calls # << >> /\ Head(j.calls) # Resolve
       /\ job' = [job EXCEPT ![w].calls = Tail(@),
                             ![w].hit = @ \cup {Reaches(j.via, Head(j.calls))}]
  /\ UNCHANGED <<client, currentCtx, lone, last>>

\* A handler that reads back what it changed asks for a client again.
AskAgain(w) ==
  /\ job[w].kind = "op"
  /\ LET j == job[w] IN
       /\ j.calls # << >> /\ Head(j.calls) = Resolve
       /\ \E via \in ClientFor(j.user) :
            job' = [job EXCEPT ![w].calls = Tail(@), ![w].via = via, ![w].hit = {},
                                ![w].calm = via # None \/ Whole]
  /\ UNCHANGED <<client, currentCtx, lone, last>>

EndOperation(w) ==
  /\ job[w].kind = "op"
  /\ job[w].hit # {} \/ job[w].calls = << >>
  /\ job' = [job EXCEPT ![w] = Idle]
  /\ UNCHANGED <<client, currentCtx, lone, last>>

Next ==
  \/ \E w \in Workers, u \in Users, to \in Contexts \cup {Absent} :
       SwitchContext(w, u, to) \/ UseContextOnCopy(w, u, to)
  \/ \E w \in Workers, u \in Users, calls \in Operations : BeginOperation(w, u, calls)
  \/ \E w \in Workers : Build(w) \/ BuildFails(w) \/ Assign(w) \/ Report(w)
                        \/ Call(w) \/ AskAgain(w) \/ EndOperation(w)

Spec == Init /\ [][Next]_vars

-----------------------------------------------------------------------------
(* Properties. *)

\* The type invariant.
TypeOK ==
  /\ client \in [Fields -> Contexts]
  /\ currentCtx \in [Users -> Contexts \cup {None}]
  /\ job \in [Workers -> {Idle} \cup SwitchJob \cup OpJob]
  /\ lone \in BOOLEAN /\ last \in Users \cup {None}

\* No field ever names a context that a client cannot be built for: a switch
\* that fails leaves the client usable, also with another half-way through.
NeverBroken == \A x \in Fields : client[x] \notin Broken

\* A switch that no other switch overlaps leaves every field on one context,
\* and its user's session on that context too, whatever happened before it:
\* the interleaved assignments of earlier switches are all written over.
LoneSwitchIsWhole ==
  lone /\ Switching = {} =>
    /\ Whole
    /\ last # None /\ last \notin Impersonated => currentCtx[last] = client["clientset"]

\* Between two requests for a client an operation keeps to one cluster: under
\* impersonation through any switches, half-way ones included; on the shared
\* client if no switch assigned a field since, nor left the client split before.
OneClusterPerOperation ==
  \A w \in Workers :
    job[w].kind = "op" /\ job[w].calm => Cardinality(job[w].hit) <= 1
=============================================================================
