------------------------------- MODULE Menus -------------------------------
(***************************************************************************)
(* What the buttons carry: the keyboards of src/internal/menus/menus.go,   *)
(* the callback data they build, and ParseCallbackData, which takes it     *)
(* apart again.                                                            *)
(*                                                                         *)
(* Callback data is the sequence of its colon-separated pieces.  A         *)
(* namespace or a name is a sequence of pieces too, of more than one when  *)
(* it contains colons; NoName is the empty string.  A keyboard is the set  *)
(* of its buttons: `data' is what the code puts on one, and `means' the    *)
(* fields the handler it is for should read.  Labels are left out.         *)
(***************************************************************************)
EXTENDS Naturals, SequencesExt

NoName == <<"">>

\* A name without a colon.
OnePiece(n) == n = <<n[1]>>

(* internal/types/types.go *)

Aliases ==
  [ pods        |-> {"pod", "pods", "po"},
    deployments |-> {"deployment", "deployments", "deploy"},
    services    |-> {"service", "services", "svc"},
    replicasets |-> {"replicaset", "replicasets", "rs"},
    namespaces  |-> {"namespace", "namespaces", "ns"},
    nodes       |-> {"node", "nodes", "no"},
    configmaps  |-> {"configmap", "configmaps", "cm"},
    secrets     |-> {"secret", "secrets"},
    ingresses   |-> {"ingress", "ingresses", "ing"},
    events      |-> {"event", "events", "ev"},
    persistentvolumes      |-> {"pv", "pvs", "persistentvolume"},
    persistentvolumeclaims |-> {"pvc", "pvcs", "persistentvolumeclaim"} ]

ResourceMap == [alias \in UNION {Aliases[k] : k \in DOMAIN Aliases} |->
                  CHOOSE k \in DOMAIN Aliases : alias \in Aliases[k]]

Known(type) == type \in DOMAIN ResourceMap

CanonicalResource(type) == IF Known(type) THEN ResourceMap[type] ELSE type

IsClusterScoped(type) ==
  Known(type) /\ ResourceMap[type] \in {"namespaces", "nodes", "persistentvolumes"}

-----------------------------------------------------------------------------
(* ParseCallbackData. *)

NoFields == [Type |-> "", Action |-> "", ResourceType |-> "", Namespace |-> NoName,
             Name |-> NoName, Container |-> "", Extra |-> ""]

callbackFields ==
  [ resource |-> <<"Action", "ResourceType", "Namespace", "Name", "Extra">>,
    action   |-> <<"Action", "ResourceType", "Namespace", "Name", "Container", "Extra">>,
    ctx      |-> <<"Action", "Name">>,
    monitor  |-> <<"Action", "ResourceType">>,
    ops      |-> <<"Action">>,
    settings |-> <<"Action", "Name">>,
    ns       |-> <<"Action", "Name">>,
    main     |-> <<>>,
    noop     |-> <<>>,
    help     |-> <<"Action">> ]

tailJoinTypes == {"settings", "ns"}

\* Mutant: the replica count stays where a container name would be.
valueInNoSlot == {}

valueInContainerSlot == {"scaleset"}

Layout(type) == IF type \in DOMAIN callbackFields THEN callbackFields[type] ELSE <<>>

\* The field a piece goes to: what a page carries is no name.
Slot(type, pieces, i) ==
  IF type = "resource" /\ pieces[1] = "page" /\ Layout(type)[i] = "Name" THEN "Extra"
  ELSE Layout(type)[i]

\* What goes there: of some types, the last field takes all that is left.
Piece(type, pieces, i) ==
  IF i = Len(Layout(type)) /\ type \in tailJoinTypes THEN SubSeq(pieces, i, Len(pieces))
  ELSE <<pieces[i]>>

\* The pieces that go to a field, of which the last one stays.
Givers(type, pieces, f) ==
  {i \in DOMAIN Layout(type) \cap DOMAIN pieces : Slot(type, pieces, i) = f}

Field(type, pieces, f) ==
  LET givers == Givers(type, pieces, f)
      value == Piece(type, pieces, CHOOSE i \in givers : \A k \in givers : k <= i)
  IN IF f = "Type" THEN type
     ELSE IF givers = {} THEN NoFields[f]
     ELSE IF f \in {"Namespace", "Name"} THEN value ELSE Head(value)

\* Data that is not a menu's does not parse; every button's starts with "menu".
ParseCallbackData(data) ==
  LET action == [f \in DOMAIN NoFields |-> Field(data[2], SubSeq(data, 3, Len(data)), f)]
  IN IF action.Type = "action" /\ action.Action \in valueInContainerSlot
     THEN [action EXCEPT !.Extra = action.Container, !.Container = ""]
     ELSE action

-----------------------------------------------------------------------------
(* Buttons. *)

Bare(type) == [data |-> <<"menu", type>>, means |-> [NoFields EXCEPT !.Type = type]]

Plain(type, verb) ==
  [data |-> <<"menu", type, verb>>,
   means |-> [NoFields EXCEPT !.Type = type, !.Action = verb]]

Named(type, verb, name) ==
  [data |-> <<"menu", type, verb>> \o name,
   means |-> [NoFields EXCEPT !.Type = type, !.Action = verb, !.Name = name]]

Main == Bare("main")
Types == Plain("resource", "types")

View(kind, ns, name) ==
  [data |-> <<"menu", "resource", "view", kind>> \o ns \o name,
   means |-> [NoFields EXCEPT !.Type = "resource", !.Action = "view",
                !.ResourceType = kind, !.Namespace = ns, !.Name = name]]

Lists(verb, type, ns) ==
  [data |-> <<"menu", "resource", verb, type>> \o ns,
   means |-> [NoFields EXCEPT !.Type = "resource", !.Action = verb,
                !.ResourceType = type, !.Namespace = ns]]

ListsPage(type, ns, page) ==
  [data |-> <<"menu", "resource", "page", type>> \o ns \o <<ToString(page)>>,
   means |-> [NoFields EXCEPT !.Type = "resource", !.Action = "page",
                !.ResourceType = type, !.Namespace = ns, !.Extra = ToString(page)]]

actionData(verb, kind, ns, name, args) == <<"menu", "action", verb, kind>> \o ns \o name \o args

Acts(verb, kind, ns, name) ==
  [data |-> actionData(verb, kind, ns, name, <<>>),
   means |-> [NoFields EXCEPT !.Type = "action", !.Action = verb,
                !.ResourceType = kind, !.Namespace = ns, !.Name = name]]

ActsOn(verb, ns, name, container) ==
  [data |-> actionData(verb, "pods", ns, name, <<container>>),
   means |-> [Acts(verb, "pods", ns, name).means EXCEPT !.Container = container]]

Tails(ns, name, container, lines) ==
  [data |-> actionData("logs", "pods", ns, name, <<container, lines>>),
   means |-> [ActsOn("logs", ns, name, container).means EXCEPT !.Extra = lines]]

Scales(kind, ns, name, replicas) ==
  [data |-> actionData("scaleset", kind, ns, name, <<replicas>>),
   means |-> [Acts("scaleset", kind, ns, name).means EXCEPT !.Extra = replicas]]

-----------------------------------------------------------------------------
(* Keyboards. *)

GetMainMenuInlineKeyboard ==
  {Types, Bare("help")} \cup {Plain(s, "home") : s \in {"monitor", "ops", "settings"}}

GetResourceTypeInlineKeyboard ==
  {Main} \cup
  {Plain("resource", t) : t \in {"pods", "deployments", "services", "replicasets",
     "namespaces", "nodes", "configmaps", "secrets", "pvcs", "ingresses", "events", "pvs"}}

GetHelpInlineKeyboard ==
  {Main} \cup {Plain("help", c) : c \in {"resources", "workloads", "networking", "storage",
                                         "monitoring", "operations", "settings", "all"}}

GetMonitorInlineKeyboard ==
  {Main, Plain("monitor", "events"), Plain("monitor", "watch")} \cup
  {[data |-> <<"menu", "monitor", "top", k>>,
    means |-> [Plain("monitor", "top").means EXCEPT !.ResourceType = k]] : k \in {"pods", "nodes"}}

GetOperationsInlineKeyboard ==
  {Main} \cup {Plain("ops", v) : v \in {"restart", "scale", "delete", "edit"}}

GetSettingsInlineKeyboard ==
  {Main} \cup {Plain("settings", v) : v \in {"namespace", "context", "theme", "notifications"}}

GetSectionResultKeyboard(section) ==
  {Main} \cup (IF section = "main" THEN {} ELSE {Plain(section, "home")})

GetContextsInlineKeyboard(contexts) ==
  {Plain("ctx", "refresh"), Main} \cup {Named("ctx", "switch", c) : c \in contexts}

\* Where Prev and Next lead.
Turns(page, pages) == {q \in 0..(page + 1) : q + 1 = page \/ (q = page + 1 /\ q < pages)}

\* items are those of the page.  The row of Prev, an inert counter and Next is
\* there if one of the two is.
GetResourceListInlineKeyboard(type, items, page, pages, ns) ==
  LET turns == {ListsPage(type, ns, p) : p \in Turns(page, pages)}
  IN {View(type, o.ns, o.name) : o \in items}
       \cup turns \cup (IF turns = {} THEN {} ELSE {Bare("noop")})
       \cup {Lists("refresh", type, ns), Named("ns", "pick", <<type>>), Types}

\* namespaces are those of the page; back is the type of the list to go back to.
GetNamespaceInlineKeyboard(namespaces, page, pages, back) ==
  {Named("ns", "set", n) : n \in namespaces \cup {NoName}}
    \cup (IF pages > 1
          THEN {Bare("noop")} \cup {Named("ns", "page", <<ToString(p)>>) : p \in Turns(page, pages)}
          ELSE {})
    \cup {IF back = "" THEN Plain("settings", "home") ELSE Plain("resource", back)}

GetVerbResultKeyboard(kind, ns, name) ==
  LET scope == IF IsClusterScoped(kind) THEN NoName ELSE ns
  IN {Main} \cup (IF kind = "" \/ name = NoName THEN {}
                  ELSE {View(kind, scope, name), Lists("list", kind, scope)})

\* What is shown of a resource depends on its kind and on its details: the
\* containers and node of a pod, whether a node is cordoned.
kindActionRows(kind, ns, name, details) ==
  LET Verbs(vs) == {Acts(v, kind, ns, name) : v \in vs}
  IN CASE kind = "pods" ->
            Verbs({"logsopts", "exec", "portforward"})
              \cup {ActsOn("logs", ns, name, c) :
                      c \in {d \in details.containers : details.containers # {d}}}
              \cup {View("nodes", NoName, n) : n \in details.node}
       [] kind = "deployments" ->
            Verbs({"restart", "scale", "pods", "selector", "history", "edit"})
       [] kind = "replicasets" -> Verbs({"rspods", "rsscale", "selector"})
       [] kind = "services" -> Verbs({"endpoints", "selector", "portforward"})
       [] kind = "secrets" -> Verbs({"decoded"})
       [] kind = "nodes" ->
            Verbs({"top", "nodepods", "drain", IF details.cordoned THEN "uncordon" ELSE "cordon"})
       [] kind = "namespaces" -> Verbs({"nsresources"}) \cup {Named("ns", "set", name)}
       [] OTHER -> {}

GetResourceActionInlineKeyboard(kind, ns, name, details) ==
  {Acts(v, kind, ns, name) : v \in {"describe", "labels", "events", "delete", "help"}}
    \cup kindActionRows(kind, ns, name, details)
    \cup {View(kind, ns, name), Lists("list", kind, ns), Main}

\* Mutant: there is no Cancel.
ConfirmOrNothing(kind, ns, name) == {Acts("confirmdelete", kind, ns, name)}

GetConfirmDeleteKeyboard(kind, ns, name) ==
  {Acts("confirmdelete", kind, ns, name), View(kind, ns, name)}

GetScaleKeyboard(kind, ns, name) ==
  {Scales(kind, ns, name, r) : r \in {"0", "1", "2", "3", "5", "10"}}
    \cup {Acts("scalecustom", kind, ns, name), View(kind, ns, name)}

GetLogOptionsKeyboard(ns, name, container) ==
  {Tails(ns, name, container, n) : n \in {"50", "100", "500"}}
    \cup {ActsOn(v, ns, name, container) : v \in {"logsfollow", "logsprevious", "logsfull"}}
    \cup {View("pods", ns, name)}

\* Built in src/internal/bot/detail.go: the confirmation of a drain and the Stop
\* button of a follow.
ConfirmDrainKeyboard(name) ==
  {Acts("confirmdrain", "nodes", NoName, name), View("nodes", NoName, name)}

StopKeyboard(ns, name, container) ==
  {IF container = "" THEN Acts("logsfollowstop", "pods", ns, name)
                     ELSE ActsOn("logsfollowstop", ns, name, container)}
=============================================================================
