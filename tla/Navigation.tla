---------------------------- MODULE Navigation ----------------------------
(***************************************************************************)
(* One user's pane and the handlers of its buttons: handleCallbackQuery    *)
(* and the dispatchers of src/internal/bot/bot.go, detail.go and pane.go.  *)
(* Every tap is handled in a goroutine of its own, which reads and writes  *)
(* the user's session, calls the cluster and edits the pane, and the       *)
(* session is shared with the user's other panes and commands.             *)
(*                                                                         *)
(* Of MenuState only ResourceType is kept: nothing reads the rest.  A call *)
(* to the cluster may fail, and a list may lack any object, which may have *)
(* been deleted by then.                                                   *)
(***************************************************************************)
EXTENDS Menus, FiniteSets

CONSTANTS
  Jobs,       \* goroutines handling taps
  Objects,    \* what clusters may hold, a sequence of [kind, ns, name] in list order
  Shapes,     \* what details a kind's objects may have: see kindActionRows
  Namespaces, \* a sequence of names
  Contexts,   \* the contexts of the kubeconfig
  Browsed,    \* the types that are browsed
  PageSize,   \* MenuPageSize, and the picker's perPage, 9 in the code
  Lost        \* no claim (history)

\* Only the name of a context may have a colon in a cluster.  An object is in a namespace
\* unless its kind is not.
ASSUME NavigationAssumption ==
  /\ PageSize \in Nat \ {0}
  /\ \A n \in ToSet(Namespaces) : OnePiece(n) /\ n # NoName
  /\ \A o \in ToSet(Objects) :
       /\ o.kind \in DOMAIN Aliases
       /\ OnePiece(o.ns) /\ OnePiece(o.name) /\ o.name # NoName
       /\ o.ns = NoName <=> o.kind \in {"namespaces", "nodes", "persistentvolumes"}
       /\ o.kind = "namespaces" => o.name \in ToSet(Namespaces)
  /\ \A k \in DOMAIN Aliases :
       Shapes[k] # {} /\ \A d \in Shapes[k] : \A n \in d.node : OnePiece(n) /\ n # NoName
  /\ \A t \in Browsed : Known(t)
  /\ \A c \in Contexts : c \in Seq(STRING) /\ c # <<>>

VARIABLES
  pane,       \* the screen the user sees
  ns,         \* session.CurrentNS
  menuType,   \* session.MenuState.ResourceType, "" if there is none
  jobs        \* jobs[j]: a tap being handled

vars == <<pane, ns, menuType, jobs>>

Idle == [pc |-> "idle"]

\* Screens.
Section(s) == [view |-> s]
Notice(section) == [view |-> "notice", section |-> section]
Unavailable(section) == [view |-> "unavailable", section |-> section]
Unknown(kind, n, name) == [view |-> "unknown", kind |-> kind, ns |-> n, name |-> name]
Verb(view, kind, n, name) == [view |-> view, kind |-> kind, ns |-> n, name |-> name]
Result(kind, n, name) == Verb("result", kind, n, name)
Unimplemented(kind, n, name) == Verb("unimplemented", kind, n, name)
Sent == [view |-> "sent"]

\* What is found of the sequence s is the set of its places there.
Pages(found) == (Cardinality(found) + PageSize - 1) \div PageSize
OnPage(found, s, page) ==
  {s[i] : i \in {k \in found : page = Cardinality({f \in found : f < k}) \div PageSize}}

List(type, n, found, page) ==
  [view |-> "list", type |-> type, ns |-> n, items |-> OnPage(found, Objects, page),
   page |-> page, pages |-> Pages(found)]

\* for is history: the type of the list the picker was opened for, or Lost once the
\* session was changed from elsewhere.
Picker(page, back, for) == [view |-> "picker", page |-> page, back |-> back, for |-> for]

Keyboard(s) ==
  CASE s.view = "main" -> GetMainMenuInlineKeyboard
    [] s.view = "types" -> GetResourceTypeInlineKeyboard
    [] s.view = "help" -> GetHelpInlineKeyboard
    [] s.view = "monitor" -> GetMonitorInlineKeyboard
    [] s.view = "ops" -> GetOperationsInlineKeyboard
    [] s.view = "settings" -> GetSettingsInlineKeyboard
    [] s.view = "contexts" -> GetContextsInlineKeyboard(Contexts)
    [] s.view \in {"notice", "unavailable"} -> GetSectionResultKeyboard(s.section)
    [] s.view = "list" -> GetResourceListInlineKeyboard(s.type, s.items, s.page, s.pages, s.ns)
    [] s.view = "picker" ->
         GetNamespaceInlineKeyboard(OnPage(DOMAIN Namespaces, Namespaces, s.page), s.page,
                                    Pages(DOMAIN Namespaces), s.back)
    [] s.view = "detail" -> GetResourceActionInlineKeyboard(s.kind, s.ns, s.name, s.details)
    [] s.view \in {"result", "unknown", "unimplemented"} -> GetVerbResultKeyboard(s.kind, s.ns, s.name)
    [] s.view = "delete" -> GetConfirmDeleteKeyboard(s.kind, s.ns, s.name)
    [] s.view = "drain" -> ConfirmDrainKeyboard(s.name)
    [] s.view = "scale" -> GetScaleKeyboard(s.kind, s.ns, s.name)
    [] s.view = "logs" -> GetLogOptionsKeyboard(s.ns, s.name, s.container)
    [] s.view = "follow" -> StopKeyboard(s.ns, s.name, s.container)

-----------------------------------------------------------------------------
(* What a handler may show, and the type it leaves in the menu state.  The *)
(* handler that shows nothing has no outcome.                              *)

Shows(s) == {[shows |-> s, sets |-> menuType]}
Leaves(screens, type) == {[shows |-> s, sets |-> type] : s \in screens}

\* The answers to a list call: any of the objects asked for.
Found(asked) == SUBSET {i \in DOMAIN Objects : Objects[i] \in asked}

\* A page number; without one, the first page.
Atoi(s) == IF s = "" THEN 0
           ELSE CHOOSE i \in 0..(Len(Objects) + Len(Namespaces)) : ToString(i) = s

\* listResources, with the namespace read from the session if it had to be.
listResources(type, n, page) ==
  LET scope == IF IsClusterScoped(type) THEN NoName ELSE n
      found == Found({o \in ToSet(Objects) : o.kind = ResourceMap[type] /\ scope \in {NoName, o.ns}})
  IN IF ~Known(type) THEN Shows(Unknown(type, NoName, NoName))
     ELSE Shows(Section("types"))
            \cup Leaves({IF f = {} THEN Section("types") ELSE List(type, scope, f, page) :
                           f \in found}, type)

showResourceDetail(type, n, name) ==
  LET kind == CanonicalResource(type)
      scope == IF IsClusterScoped(kind) THEN NoName ELSE n
  IN IF ~Known(kind) THEN Shows(Unknown(kind, n, name))
     ELSE Shows(Result(kind, scope, name))
            \cup Leaves({[view |-> "detail", kind |-> kind, ns |-> scope, name |-> name,
                          details |-> d] : d \in Shapes[kind]}, kind)

\* The pods of a workload, or of a node, as a list.  Its buttons are those of a list of
\* pods of n, so they page through that.
showPodResults(a, n, found) ==
  Shows(Result(CanonicalResource(a.ResourceType), a.Namespace, a.Name))
    \cup Leaves({List("pods", n, f, 0) : f \in found \ {{}}}, "pods")

Owned(a) == Found({o \in ToSet(Objects) : o.kind = "pods" /\ o.ns = a.Namespace})
Hosted == Found({o \in ToSet(Objects) : o.kind = "pods"})

\* The delete and the list after it are answered in one step.
confirmDelete(a) ==
  IF ~Known(a.ResourceType) THEN Shows(Unknown(a.ResourceType, a.Namespace, a.Name))
  ELSE Shows(Result(ResourceMap[a.ResourceType], a.Namespace, a.Name))
         \cup listResources(a.ResourceType, IF a.Namespace = NoName THEN ns ELSE a.Namespace, 0)

\* The output of a verb, or its error, with the way back to its object.
Kind(a) == CanonicalResource(a.ResourceType)
verbPane(a) == Shows(Result(Kind(a), a.Namespace, a.Name))

\* Verbs that only read and show: of an object and what it selects, of usage,
\* rollouts, manifests and namespaces, of logs; and those that tell which command to type.
Inspects == {"describe", "decoded", "help", "labels", "events", "selector", "endpoints"}
Reads == {"top", "history", "edit", "nsresources"}
PodLogs == {"logs", "logsprevious", "logsfollowstop"}
showUsage == {"exec", "portforward", "scalecustom"}

setNodeSchedulable(a) == verbPane(a) \cup showResourceDetail("nodes", NoName, a.Name)

restartWorkload(a) ==
  verbPane(a) \cup (IF Kind(a) = "deployments"
                   THEN showResourceDetail(Kind(a), a.Namespace, a.Name) ELSE {})

Scalable(a) == Kind(a) \in {"deployments", "replicasets"}
Asks(view, a) == Shows(Verb(view, Kind(a), a.Namespace, a.Name))

showScaleOptions(a) == verbPane(a) \cup (IF Scalable(a) THEN Asks("scale", a) ELSE {})

applyScale(a) ==
  verbPane(a) \cup (IF Scalable(a) /\ a.Extra # ""
                   THEN showResourceDetail(Kind(a), a.Namespace, a.Name) ELSE {})

confirmDrain(a) == verbPane(a) \cup Asks("drain", a)
drainNode(a) == verbPane(a)

Logs(view, a, c) == Shows([view |-> view, ns |-> a.Namespace, name |-> a.Name, container |-> c])

\* The first container of the pod, if it could be read.
showLogOptions(a) ==
  Logs("logs", a, "")
    \cup UNION {Logs("logs", a, c) : c \in UNION {d.containers : d \in Shapes["pods"]}}

showFollowLogs(a) ==
  IF NoName \in {a.Namespace, a.Name} THEN {} ELSE verbPane(a) \cup Logs("follow", a, a.Container)

showFullLog(a) == verbPane(a) \cup Shows(Sent)

\* The verbs of detailVerbs and the older ones of the function itself.
dispatchResourceAction(a) ==
  CASE a.Action \in Inspects \cup Reads \cup PodLogs \cup showUsage -> verbPane(a)
    [] a.Action \in {"pods", "rspods"} -> showPodResults(a, a.Namespace, Owned(a))
    [] a.Action = "nodepods" -> showPodResults(a, NoName, Hosted)
    [] a.Action \in {"cordon", "uncordon"} -> setNodeSchedulable(a)
    [] a.Action = "drain" -> confirmDrain(a)
    [] a.Action = "confirmdrain" -> drainNode(a)
    [] a.Action \in {"scale", "rsscale"} -> showScaleOptions(a)
    [] a.Action = "scaleset" -> applyScale(a)
    [] a.Action = "logsopts" -> showLogOptions(a)
    [] a.Action = "logsfollow" -> showFollowLogs(a)
    [] a.Action = "logsfull" -> showFullLog(a)
    [] a.Action = "delete" -> IF a.ResourceType = "" \/ a.Name = NoName THEN {} ELSE Asks("delete", a)
    [] a.Action = "confirmdelete" -> confirmDelete(a)
    [] a.Action = "restart" -> restartWorkload(a)
    [] OTHER -> Shows(Unimplemented(Kind(a), a.Namespace, a.Name))

showNamespacePicker(page, for) == Shows(Notice("settings")) \cup Shows(Picker(page, menuType, for))

\* What "menu:resource:..." lists: the second field, or the verb itself.
ListType(a) == IF a.ResourceType # "" THEN a.ResourceType ELSE a.Action

\* Mutant: types are not verbs.
IsListVerb(a) == a.Type = "resource" /\ a.Action \in {"refresh", "list", "page", "filter"}

IsList(a) ==
  a.Type = "resource" /\ (a.Action \in {"refresh", "list", "page", "filter"} \/ Known(a.Action))

\* Mutant: a page or a refresh is of the namespace the session is in.
SessionNamespace(a) ==
  CASE a.Type = "ns" /\ a.Action = "set" /\ menuType # "" ->
         [NoFields EXCEPT !.Type = "resource", !.Action = "list", !.ResourceType = menuType,
                          !.Namespace = IF a.Name # NoName THEN a.Name ELSE ns]
    [] IsList(a) -> [a EXCEPT !.Namespace = ns]
    [] OTHER -> a

\* What a handler reads of the session before it calls the cluster.
ReadSession(a) ==
  CASE a.Type = "ns" /\ a.Action = "set" /\ menuType # "" ->
         [NoFields EXCEPT !.Type = "resource", !.Action = "list", !.ResourceType = menuType,
                          !.Namespace = IF a.Name # NoName THEN a.Name ELSE ns]
    [] IsList(a) /\ a.Namespace = NoName -> [a EXCEPT !.Namespace = ns]
    [] OTHER -> a

showContextPicker ==
  Shows(IF Contexts = {} THEN Notice("settings") ELSE Section("contexts"))

switchContext(name) ==
  Shows(Notice("settings")) \cup (IF name \in Contexts THEN showContextPicker ELSE {})

Home(a) == IF a.Action = "home" THEN Shows(Section(a.Type)) ELSE {}

dispatchMonitorCallback(a) ==
  Home(a) \cup IF a.Action \in {"top", "events", "watch"} THEN Shows(Notice("monitor")) ELSE {}

dispatchOpsCallback(a) ==
  Home(a) \cup IF a.Action \in {"restart", "scale", "delete", "edit"} THEN Shows(Notice("ops")) ELSE {}

\* Mutant: the namespace has lost its case.
SettingsDefault(a, for) ==
  CASE a.Action = "home" -> Home(a)
    [] a.Action = "context" -> showContextPicker
    [] OTHER -> Shows(Unavailable("settings"))

dispatchSettingsCallback(a, for) ==
  CASE a.Action = "home" -> Home(a)
    [] a.Action = "context" -> showContextPicker
    [] a.Action = "namespace" -> showNamespacePicker(0, for)
    [] OTHER -> Shows(Unavailable("settings"))

dispatchResourceCallback(a) ==
  CASE a.Action = "types" -> Shows(Section("types"))
    [] a.Action = "view" /\ "" # a.ResourceType /\ NoName # a.Name ->
         showResourceDetail(a.ResourceType, a.Namespace, a.Name)
    [] IsList(a) -> listResources(ListType(a), a.Namespace, Atoi(a.Extra))
    [] OTHER -> {}

\* "set" comes here when there is no list to go back to: see ReadSession.
dispatchNamespaceCallback(a, for) ==
  IF a.Action = "set" THEN Shows(Section("types"))
  ELSE showNamespacePicker(IF a.Action = "page" THEN Atoi(Head(a.Name)) ELSE 0, for)

\* for is what a picker is opened for.
dispatchCallback(a, for) ==
  CASE a.Type \in {"main", "help"} -> Shows(Section(a.Type))
    [] a.Type = "resource" -> dispatchResourceCallback(a)
    [] a.Type = "monitor" -> dispatchMonitorCallback(a)
    [] a.Type = "ops" -> dispatchOpsCallback(a)
    [] a.Type = "settings" -> dispatchSettingsCallback(a, for)
    [] a.Type = "ns" -> dispatchNamespaceCallback(a, for)
    [] a.Type = "ctx" /\ a.Action = "refresh" -> showContextPicker
    [] a.Type = "ctx" /\ a.Action = "switch" -> switchContext(a.Name)
    [] a.Type = "action" -> dispatchResourceAction(a)
    [] OTHER -> {}

-----------------------------------------------------------------------------
(* Steps. *)

\* History: what a tap on the pane is for.  A list of a namespace, or of a kind
\* without, is to stay what it is; what a picker was opened for, and a list of all
\* namespaces, only while nothing else changes the session.
Claim(a) ==
  LET claim(type, n, firm) == [type |-> type, ns |-> n, firm |-> firm]
  IN CASE a.Type = "ns" /\ a.Action = "pick" -> claim(Head(a.Name), NoName, FALSE)
       [] a.Type = "ns" /\ a.Action = "set" /\ pane.view = "picker" ->
            IF pane.for = Lost THEN Lost ELSE claim(pane.for, a.Name, FALSE)
       [] pane.view = "list" /\ a.Action \in {"page", "refresh"} ->
            LET firm == pane.ns # NoName \/ IsClusterScoped(pane.type)
            IN IF firm \/ ns = NoName THEN claim(pane.type, pane.ns, firm) ELSE Lost
       [] OTHER -> Lost

\* What a picker is for that a handler with this claim opens.
OpenedFor(a, claim) ==
  IF a.Action # "pick" THEN menuType ELSE IF claim = Lost THEN Lost ELSE claim.type

ForgetsFor(s) == IF s.view = "picker" THEN [s EXCEPT !.for = Lost] ELSE s

Forgets(w) ==
  LET claim == IF w.claim = Lost \/ w.claim.firm THEN w.claim ELSE Lost
  IN IF w.pc = "editing"
     THEN [w EXCEPT !.claim = claim, !.screen = ForgetsFor(w.screen)]
     ELSE [w EXCEPT !.claim = claim]

SessionChanges == <<ns, menuType>>' # <<ns, menuType>>

\* A handler goes on as w; the others and the pane lose their claims when the session changes.
Witness(mine, w) ==
  /\ pane' = IF SessionChanges THEN ForgetsFor(pane) ELSE pane
  /\ jobs' = [j \in Jobs |->
       IF j \in mine THEN w
       ELSE IF SessionChanges /\ jobs[j] # Idle THEN Forgets(jobs[j]) ELSE jobs[j]]

\* What a handler writes to the session before it reads it or calls the cluster.
WrittenType(a) ==
  IF a.Type = "main" \/ (a.Type = "resource" /\ a.Action = "types") THEN ""
  ELSE IF a.Type = "ns" /\ a.Action = "pick" THEN Head(a.Name)
  ELSE menuType

\* Mutant: whatever stands behind "ns" is taken for the namespace chosen.
WrittenAny(a) == [type |-> WrittenType(a), ns |-> IF a.Type = "ns" THEN a.Name ELSE ns]

Written(a) ==
  [type |-> WrittenType(a), ns |-> IF a.Type = "ns" /\ a.Action = "set" THEN a.Name ELSE ns]

\* A tap, and its handler up to the first time it gives way: in "ns set" after the
\* namespace is written, otherwise at the call.
Tap(j, b) ==
  /\ jobs[j] = Idle
  /\ b.means.Type = "resource" /\ Known(b.means.Action) => b.means.Action \in Browsed
  /\ LET a == ParseCallbackData(b.data)
         sets == a.Type = "ns" /\ a.Action = "set"
     IN /\ menuType' = Written(a).type /\ ns' = Written(a).ns
        /\ Witness({j}, [pc |-> IF sets THEN "reading" ELSE "calling",
                         act |-> IF sets THEN a ELSE ReadSession(a), claim |-> Claim(a)])

\* "ns set" goes on: the type it returns to, and the namespace if all were chosen.
Read(j) ==
  /\ jobs[j].pc = "reading"
  /\ jobs' = [jobs EXCEPT ![j].pc = "calling", ![j].act = ReadSession(jobs[j].act)]
  /\ UNCHANGED <<pane, ns, menuType>>

\* The cluster has answered, and the menu state is set.
Answer(j) ==
  /\ jobs[j].pc = "calling"
  /\ \E o \in dispatchCallback(jobs[j].act, OpenedFor(jobs[j].act, jobs[j].claim)) :
       /\ menuType' = o.sets
       /\ ns' = ns
       /\ Witness({j}, [pc |-> "editing", act |-> NoFields, claim |-> jobs[j].claim,
                         screen |-> o.shows])

\* A handler with nothing to do, such as that of the page counter.
Ignore(j) ==
  /\ jobs[j].pc = "calling" /\ dispatchCallback(jobs[j].act, Lost) = {}
  /\ jobs' = [jobs EXCEPT ![j] = Idle]
  /\ UNCHANGED <<pane, ns, menuType>>

\* The edit arrives; "Full log" sends a message instead.
Edit(j) ==
  /\ jobs[j].pc = "editing"
  /\ pane' = IF jobs[j].screen = Sent THEN pane ELSE jobs[j].screen
  /\ jobs' = [jobs EXCEPT ![j] = Idle]
  /\ UNCHANGED <<ns, menuType>>

\* Telegram refuses the edit, which is logged.
EditFails(j) ==
  /\ jobs[j].pc = "editing"
  /\ jobs' = [jobs EXCEPT ![j] = Idle]
  /\ UNCHANGED <<pane, ns, menuType>>

\* Another pane of the user, or a command, switches the namespace, opens a list or
\* a detail, or goes to a menu.
Elsewhere ==
  /\ \/ ns' \in ToSet(Namespaces) \cup {NoName} /\ menuType' = menuType
     \/ menuType' \in Browsed \cup {""} /\ ns' = ns
  /\ SessionChanges
  /\ Witness({}, Idle)

-----------------------------------------------------------------------------

\* The menus a command opens, in a session that may have been used before.
Init ==
  /\ pane \in {Section(s) : s \in {"main", "types", "monitor", "ops", "settings"}}
  /\ ns \in ToSet(Namespaces) \cup {NoName}
  /\ menuType = ""
  /\ jobs = [j \in Jobs |-> Idle]

Next ==
  \/ \E j \in Jobs : \/ \E b \in Keyboard(pane) : Tap(j, b)
                     \/ Read(j) \/ Answer(j) \/ Ignore(j) \/ Edit(j) \/ EditFails(j)
  \/ Elsewhere

Spec == Init /\ [][Next]_vars

-----------------------------------------------------------------------------
(* Properties. *)

\* The outcomes of a button tapped now.
Outcomes(b) == dispatchCallback(ReadSession(ParseCallbackData(b.data)), Lost)

\* The type invariant.
TypeOK ==
  /\ pane.view \in {"main", "types", "help", "monitor", "ops", "settings", "contexts", "notice",
                    "unavailable", "unknown", "unimplemented", "list", "picker", "detail",
                    "result", "delete", "drain", "scale", "logs", "follow"}
  /\ ns \in ToSet(Namespaces) \cup {NoName}
  /\ menuType \in {""} \cup DOMAIN ResourceMap
  /\ \A j \in Jobs : jobs[j] # Idle =>
       /\ jobs[j].pc \in {"reading", "calling", "editing"}
       /\ DOMAIN jobs[j].act = DOMAIN NoFields
       /\ jobs[j].act.Type \in {""} \cup DOMAIN callbackFields
       /\ OnePiece(jobs[j].act.Namespace) /\ OnePiece(jobs[j].act.Name)

\* What is read of the name of a context: tailJoinTypes has no "ctx", although the comment
\* above it names contexts, and the name is cut at its first colon.
AsRead(means) ==
  IF means.Type = "ctx" /\ means.Action = "switch" THEN [means EXCEPT !.Name = <<Head(@)>>] ELSE means

\* The fields the dispatcher reads from a button are those the button was drawn for, on
\* every screen the user can come to: no field that is left out and no value in another's
\* slot moves the ones behind it.  Only of a context's name the first piece alone is read.
ButtonsMeanIt == \A b \in Keyboard(pane) : ParseCallbackData(b.data) = AsRead(b.means)

\* "A rendered button should always do something": no button but the page counter falls
\* through a dispatcher in silence or comes to the answer that says so.  Those that are
\* answered and yet do nothing are these and no others: two settings without an
\* implementation, and what leads to a PV or PVC, whose names CanonicalResource makes ones
\* that the map of kinds does not know.
Unopened == {"persistentvolumes", "persistentvolumeclaims"}
Unserved == {"theme", "notifications"}
EveryButtonAnswers ==
  \A b \in Keyboard(pane) : b.means.Type # "noop" =>
    LET outcomes == Outcomes(b) IN
    /\ outcomes # {}
    /\ \A o \in outcomes :
         /\ o.shows.view # "unimplemented"
         /\ o.shows.view = "unavailable" => b.means.Type = "settings" /\ b.means.Action \in Unserved
         /\ o.shows.view = "unknown" => o.shows.kind \in Unopened

\* "A view with no way out is a dead end": whatever the cluster answers, if it does,
\* three taps lead from any screen to the main menu, none of which changes the
\* cluster.
Changing == {"confirmdelete", "confirmdrain", "scaleset", "restart", "cordon", "uncordon"}
OneTap(s) == \E b \in Keyboard(s) : ParseCallbackData(b.data).Type = "main"
Leads(s, Good(_)) ==
  \E b \in Keyboard(s) :
    /\ b.means.Action \notin Changing
    /\ LET outcomes == Outcomes(b) IN
       outcomes # {} /\ \A o \in outcomes : o.shows # Sent /\ Good(o.shows)
TwoTaps(s) == OneTap(s) \/ Leads(s, OneTap)
WayHome == TwoTaps(pane) \/ Leads(pane, TwoTaps)

\* Paging and refreshing stay with the list: of its type and, if it is of one
\* namespace, of that whatever the session is switched to meanwhile.  Choosing a
\* namespace returns to the type the picker was opened for, and a list of all
\* namespaces stays one, unless something else changed the session since.
LandsWhereAsked ==
  \A j \in Jobs : jobs[j] # Idle =>
    (jobs[j].pc = "editing" /\ jobs[j].claim # Lost /\ jobs[j].screen.view = "list" =>
       LET want == jobs[j].claim  got == jobs[j].screen
       IN got.type = want.type /\ got.ns = IF IsClusterScoped(want.type) THEN NoName ELSE want.ns)
=============================================================================
