-------------------------- MODULE NavigationProofs --------------------------
(***************************************************************************)
(* Theorems about Menus and Navigation, for any clusters, contexts, page   *)
(* size and number of handlers: a button means what it was drawn for and   *)
(* is answered, there is a way home from every screen, and a list stays    *)
(* what it was opened as.                                                  *)
(***************************************************************************)
EXTENDS Navigation, SequenceTheorems, TLAPS

-----------------------------------------------------------------------------
(* What a screen and a tap may hold. *)

\* The types the bot knows, which are what is listed; of their kinds, those that open; and
\* what a button may name.
ListTypes == DOMAIN ResourceMap

CanonicalNames ==
  {"pods", "deployments", "services", "replicasets", "namespaces", "nodes", "configmaps",
   "secrets", "ingresses", "events"}

ButtonTypes == ListTypes \cup Unopened

Scopes == ToSet(Namespaces) \cup {NoName}

\* An object with a detail, and one of a list.
ObjectOK(kind, n, name) ==
  /\ kind \in CanonicalNames
  /\ OnePiece(n) /\ OnePiece(name) /\ name # NoName
  /\ n = NoName <=> IsClusterScoped(kind)
  /\ kind = "namespaces" => name \in ToSet(Namespaces)

ItemOK(kind, n, name) ==
  \/ ObjectOK(kind, n, name)
  \/ kind \in Unopened /\ OnePiece(n) /\ OnePiece(name) /\ name # NoName

Views == {"main", "types", "help", "monitor", "ops", "settings", "contexts", "notice",
          "unavailable", "unknown", "list", "picker", "detail", "result", "delete", "drain",
          "scale", "logs", "follow"}

ScreenOK(s) ==
  /\ s.view \in Views
  /\ s.view \in {"notice", "unavailable"} => s.section \in {"monitor", "ops", "settings"}
  /\ s.view = "list" =>
       /\ s.type \in ListTypes /\ OnePiece(s.ns) /\ (IsClusterScoped(s.type) => s.ns = NoName)
       /\ \A o \in s.items : ItemOK(CanonicalResource(s.type), o.ns, o.name)
  /\ s.view = "unknown" => s.kind \in Unopened /\ OnePiece(s.ns) /\ OnePiece(s.name)
  /\ s.view = "picker" => s = Picker(s.page, s.back, s.for) /\ s.back \in {""} \cup ListTypes
  /\ s.view \in {"detail", "result", "delete", "drain", "scale"} => ObjectOK(s.kind, s.ns, s.name)
  /\ s.view = "detail" => s.details \in Shapes[s.kind]
  /\ s.view = "drain" => s.kind = "nodes"
  /\ s.view = "scale" => s.kind \in {"deployments", "replicasets"}
  /\ s.view \in {"logs", "follow"} => ObjectOK("pods", s.ns, s.name)

NodeVerbs == {"nodepods", "cordon", "uncordon", "drain", "confirmdrain"}
PodVerbs == {"logs", "logsopts", "logsprevious", "logsfull", "logsfollow", "logsfollowstop"}
OtherVerbs ==
  Inspects \cup {"top", "history", "edit", "nsresources"} \cup showUsage \cup
  {"pods", "rspods", "scale", "rsscale", "scaleset", "delete", "confirmdelete", "restart"}

\* All fields, and no others.
Whole(a) ==
  a = [Type |-> a.Type, Action |-> a.Action, ResourceType |-> a.ResourceType,
       Namespace |-> a.Namespace, Name |-> a.Name, Container |-> a.Container, Extra |-> a.Extra]

\* The fields of a tap that a handler may get.
ActOK(a) ==
  /\ Whole(a)
  /\ a.Type \in DOMAIN callbackFields /\ OnePiece(a.Namespace) /\ OnePiece(a.Name)
  /\ a.Type = "resource" =>
       \/ a.Action = "types"
       \/ /\ a.Action = "view" /\ a.ResourceType \in ButtonTypes
          /\ ItemOK(CanonicalResource(a.ResourceType), a.Namespace, a.Name)
       \/ a.Action \in {"refresh", "list", "page"} /\ a.ResourceType \in ButtonTypes
       \/ Known(a.Action) /\ a.ResourceType = ""
  /\ a.Type = "action" =>
       /\ ObjectOK(a.ResourceType, a.Namespace, a.Name)
       /\ a.Action \in NodeVerbs \cup PodVerbs \cup OtherVerbs
       /\ a.Action \in NodeVerbs => a.ResourceType = "nodes"
       /\ a.Action \in PodVerbs => a.ResourceType = "pods"
       /\ a.Action \in {"pods", "rspods"} => a.ResourceType \in {"deployments", "replicasets"}
       /\ a.Action = "scaleset" => a.Extra # ""
  /\ a.Type = "ctx" => a.Action \in {"refresh", "switch"}
  /\ a.Type = "monitor" => a.Action \in {"home", "top", "events", "watch"}
  /\ a.Type = "ops" => a.Action \in {"home", "restart", "scale", "delete", "edit"}
  /\ a.Type = "settings" => a.Action \in {"home", "context", "namespace"} \cup Unserved
  /\ a.Type = "ns" =>
       \/ a.Action = "set" /\ a.Name \in Scopes
       \/ a.Action = "page"
       \/ a.Action = "pick" /\ a.Name[1] \in ListTypes

\* Of a session with the namespace n and the list type `type'.

\* What a picker was opened for is where it leads back to.
PickerOK(s, type) == s.view = "picker" /\ s.for # Lost => s.for = type

ListOK(s, claim) ==
  s.view = "list" =>
    s.type = claim.type /\ s.ns = IF IsClusterScoped(claim.type) THEN NoName ELSE claim.ns

\* A claim is kept until the list is shown: what "ns set" reads, and what "ns pick" shows, is
\* what has been written; what is listed is what the tap was for.
ClaimOK(w, type, n) ==
  w.claim # Lost =>
    /\ w.pc = "reading" =>
         ~w.claim.firm /\ type = w.claim.type /\ n = w.claim.ns /\ w.act.Name = w.claim.ns
    /\ w.pc = "calling" =>
         /\ IsList(w.act) =>
              /\ ListType(w.act) = w.claim.type
              /\ IsClusterScoped(w.claim.type) \/ w.act.Namespace = w.claim.ns
         /\ ~IsList(w.act) => w.act.Type = "ns"
         /\ w.act.Action = "pick" => ~w.claim.firm /\ type = w.claim.type
    /\ w.pc = "editing" => ListOK(w.screen, w.claim)

Handling(w) ==
  /\ w = [pc |-> w.pc, act |-> w.act, claim |-> w.claim] /\ w.pc \in {"reading", "calling"}
  /\ ActOK(w.act)
  /\ w.pc = "reading" => w.act.Type = "ns" /\ w.act.Action = "set"

Editing(w, type) ==
  /\ w = [pc |-> "editing", act |-> NoFields, claim |-> w.claim, screen |-> w.screen]
  /\ w.screen # Sent => ScreenOK(w.screen) /\ PickerOK(w.screen, type)

JobOK(w, type, n) ==
  w # Idle => (Handling(w) \/ Editing(w, type)) /\ ClaimOK(w, type, n)

NavInv ==
  /\ ns \in Scopes /\ menuType \in {""} \cup ListTypes
  /\ ScreenOK(pane) /\ PickerOK(pane, menuType)
  /\ jobs = [j \in Jobs |-> jobs[j]]
  /\ \A j \in Jobs : JobOK(jobs[j], menuType, ns)

-----------------------------------------------------------------------------
(* Types and kinds. *)

AliasesOf(k) == \A l \in DOMAIN Aliases : k \in Aliases[l] => l = k

LEMMA AliasesAre ==
  /\ DOMAIN Aliases = CanonicalNames \cup {"persistentvolumes", "persistentvolumeclaims"}
  /\ \A k \in CanonicalNames : k \in Aliases[k] /\ AliasesOf(k)
  /\ \A k \in DOMAIN Aliases :
       \A t \in {"", "types", "view", "refresh", "list", "page", "filter", "persistentvolumes",
                  "persistentvolumeclaims"} \cup Changing : t \notin Aliases[k]
<1>1. DOMAIN Aliases = CanonicalNames \cup {"persistentvolumes", "persistentvolumeclaims"}
  BY DEF Aliases, CanonicalNames
<1>2. /\ Aliases["pods"] = {"pod", "pods", "po"}
      /\ Aliases["deployments"] = {"deployment", "deployments", "deploy"}
      /\ Aliases["services"] = {"service", "services", "svc"}
      /\ Aliases["replicasets"] = {"replicaset", "replicasets", "rs"}
      /\ Aliases["namespaces"] = {"namespace", "namespaces", "ns"}
      /\ Aliases["nodes"] = {"node", "nodes", "no"}
      /\ Aliases["configmaps"] = {"configmap", "configmaps", "cm"}
      /\ Aliases["secrets"] = {"secret", "secrets"}
      /\ Aliases["ingresses"] = {"ingress", "ingresses", "ing"}
      /\ Aliases["events"] = {"event", "events", "ev"}
      /\ Aliases["persistentvolumes"] = {"pv", "pvs", "persistentvolume"}
      /\ Aliases["persistentvolumeclaims"] = {"pvc", "pvcs", "persistentvolumeclaim"}
  BY DEF Aliases
<1>3. \A k \in CanonicalNames : k \in Aliases[k]
  BY <1>2 DEF CanonicalNames
<1>4. \A k \in CanonicalNames : AliasesOf(k)
  BY <1>1, <1>2 DEF CanonicalNames, AliasesOf
<1>5. \A k \in DOMAIN Aliases :
        \A t \in {"", "types", "view", "refresh", "list", "page", "filter", "persistentvolumes",
                   "persistentvolumeclaims"} \cup Changing : t \notin Aliases[k]
  <2> DEFINE Others == {"", "types", "view", "refresh", "list", "page", "filter",
                        "persistentvolumes", "persistentvolumeclaims"} \cup Changing
  <2>1. \A t \in Others :
          /\ t \notin Aliases["pods"] /\ t \notin Aliases["deployments"]
          /\ t \notin Aliases["services"] /\ t \notin Aliases["replicasets"]
          /\ t \notin Aliases["namespaces"] /\ t \notin Aliases["nodes"]
          /\ t \notin Aliases["configmaps"] /\ t \notin Aliases["secrets"]
          /\ t \notin Aliases["ingresses"] /\ t \notin Aliases["events"]
          /\ t \notin Aliases["persistentvolumes"] /\ t \notin Aliases["persistentvolumeclaims"]
    BY <1>2 DEF Changing
  <2> HIDE DEF Others
  <2>2. \A k \in DOMAIN Aliases : \A t \in Others : t \notin Aliases[k]
    BY <1>1, <2>1 DEF CanonicalNames
  <2>3. QED  BY <2>2 DEF Others
<1>6. QED  BY <1>1, <1>3, <1>4, <1>5

LEMMA MapFacts ==
  /\ \A t \in DOMAIN ResourceMap : ResourceMap[t] \in DOMAIN Aliases
  /\ \A k \in CanonicalNames : Known(k) /\ ResourceMap[k] = k
  /\ \A t \in {"", "types", "view", "refresh", "list", "page", "filter", "persistentvolumes",
               "persistentvolumeclaims"} \cup Changing : ~Known(t)
<1>1. DOMAIN ResourceMap = UNION {Aliases[k] : k \in DOMAIN Aliases}
  BY DEF ResourceMap
<1>2. \A t \in DOMAIN ResourceMap :
        ResourceMap[t] = CHOOSE k \in DOMAIN Aliases : t \in Aliases[k]
  BY <1>1, Zenon DEF ResourceMap
<1>3. ASSUME NEW t \in DOMAIN ResourceMap
      PROVE  ResourceMap[t] \in DOMAIN Aliases /\ t \in Aliases[ResourceMap[t]]
  <2>1. \E k \in DOMAIN Aliases : t \in Aliases[k]
    BY <1>1
  <2>2. QED  BY <1>2, <2>1, Zenon
<1>4. \A k \in CanonicalNames : Known(k) /\ ResourceMap[k] = k
  <2>1. ASSUME NEW k \in CanonicalNames
        PROVE  Known(k) /\ ResourceMap[k] = k
    <3>1. k \in DOMAIN Aliases /\ k \in Aliases[k] /\ \A l \in DOMAIN Aliases : k \in Aliases[l] => l = k
      BY AliasesAre DEF AliasesOf
    <3>2. k \in DOMAIN ResourceMap
      BY <1>1, <3>1
    <3>3. QED  BY <1>3, <3>1, <3>2 DEF Known
  <2>2. QED  BY <2>1
<1>5. ASSUME NEW t \in {"", "types", "view", "refresh", "list", "page", "filter",
                        "persistentvolumes", "persistentvolumeclaims"} \cup Changing
      PROVE  ~Known(t)
  BY <1>3, AliasesAre DEF Known
<1>6. QED  BY <1>3, <1>4, <1>5

LEMMA KindsAre ==
  /\ \A t \in ListTypes :
       /\ Known(t) /\ CanonicalResource(t) = ResourceMap[t] /\ t # ""
       /\ ResourceMap[t] \in CanonicalNames \cup Unopened
  /\ \A k \in CanonicalNames :
       /\ k \in ListTypes /\ Known(k) /\ ResourceMap[k] = k /\ CanonicalResource(k) = k
       /\ IsClusterScoped(k) <=> k \in {"namespaces", "nodes"}
  /\ \A k \in Unopened :
       ~Known(k) /\ CanonicalResource(k) = k /\ ~IsClusterScoped(k) /\ k # ""
<1>1. \A k \in CanonicalNames : k \in ListTypes /\ Known(k) /\ ResourceMap[k] = k
  BY MapFacts DEF ListTypes, Known
<1>2. ASSUME NEW t \in ListTypes
      PROVE  /\ Known(t) /\ CanonicalResource(t) = ResourceMap[t] /\ t # ""
             /\ ResourceMap[t] \in CanonicalNames \cup Unopened
  <2>1. Known(t)
    BY DEF ListTypes, Known
  <2>2. ResourceMap[t] \in CanonicalNames \cup Unopened
    BY MapFacts, AliasesAre DEF ListTypes, Unopened
  <2>3. t # ""
    BY <2>1, MapFacts
  <2>4. QED  BY <2>1, <2>2, <2>3 DEF CanonicalResource
<1>3. \A k \in CanonicalNames : CanonicalResource(k) = k /\ (IsClusterScoped(k) <=> k \in {"namespaces", "nodes"})
  BY <1>1 DEF CanonicalResource, IsClusterScoped, CanonicalNames
<1>4. \A k \in Unopened : ~Known(k) /\ k # ""
  BY MapFacts DEF Unopened
<1>5. \A k \in Unopened : CanonicalResource(k) = k /\ ~IsClusterScoped(k)
  BY <1>4 DEF CanonicalResource, IsClusterScoped
<1>6. QED  BY <1>1, <1>2, <1>3, <1>4, <1>5

-----------------------------------------------------------------------------
(* ParseCallbackData. *)

LEMMA FieldNames ==
  /\ DOMAIN NoFields = {"Type", "Action", "ResourceType", "Namespace", "Name", "Container", "Extra"}
  /\ NoFields["Action"] = "" /\ NoFields["ResourceType"] = "" /\ NoFields["Namespace"] = NoName
  /\ NoFields["Name"] = NoName /\ NoFields["Container"] = "" /\ NoFields["Extra"] = ""
BY DEF NoFields

Fields(type, A, R, N, M, C, E) ==
  [Type |-> type, Action |-> A, ResourceType |-> R, Namespace |-> N, Name |-> M,
   Container |-> C, Extra |-> E]

\* What data of these pieces is parsed to, in terms of its fields.
Parsed(type, pieces) ==
  LET A == Field(type, pieces, "Action")        R == Field(type, pieces, "ResourceType")
      N == Field(type, pieces, "Namespace")     M == Field(type, pieces, "Name")
      C == Field(type, pieces, "Container")     E == Field(type, pieces, "Extra")
  IN IF type = "action" /\ A \in valueInContainerSlot THEN Fields(type, A, R, N, M, "", C)
     ELSE Fields(type, A, R, N, M, C, E)

MovedSlot(m) == [m EXCEPT !.Extra = m.Container, !.Container = ""]

LEMMA Moved ==
  \A type, A, R, N, M, C, E :
    MovedSlot(Fields(type, A, R, N, M, C, E)) = Fields(type, A, R, N, M, "", C)
<1> TAKE type, A, R, N, M, C, E
<1> DEFINE m == Fields(type, A, R, N, M, C, E)
<1>1. m.Container = C /\ [m EXCEPT !.Extra = C] = Fields(type, A, R, N, M, C, C)
  BY DEF Fields
<1>2. ASSUME NEW e
      PROVE  [Fields(type, A, R, N, M, C, C) EXCEPT !.Container = e] = Fields(type, A, R, N, M, e, C)
  BY DEF Fields
<1>3. [Fields(type, A, R, N, M, C, C) EXCEPT !.Container = ""] = Fields(type, A, R, N, M, "", C)
  BY <1>2
<1> HIDE DEF m
<1>4. MovedSlot(m) = Fields(type, A, R, N, M, "", C)
  BY <1>1, <1>3 DEF MovedSlot
<1>5. QED  BY <1>4 DEF m

LEMMA ParseIs ==
  ASSUME NEW data
  PROVE  ParseCallbackData(data) = Parsed(data[2], SubSeq(data, 3, Len(data)))
<1> DEFINE type == data[2]
           pieces == SubSeq(data, 3, Len(data))
           A == Field(type, pieces, "Action")        R == Field(type, pieces, "ResourceType")
           N == Field(type, pieces, "Namespace")     M == Field(type, pieces, "Name")
           C == Field(type, pieces, "Container")     E == Field(type, pieces, "Extra")
           m == Fields(type, A, R, N, M, C, E)
           action == [f \in DOMAIN NoFields |-> Field(type, pieces, f)]
<1>1. ParseCallbackData(data) = IF action.Type = "action" /\ action.Action \in valueInContainerSlot
        THEN MovedSlot(action) ELSE action
  BY DEF ParseCallbackData, MovedSlot
<1>2. Parsed(type, pieces) =
        IF type = "action" /\ A \in valueInContainerSlot THEN Fields(type, A, R, N, M, "", C) ELSE m
  BY DEF Parsed
<1>3. Field(type, pieces, "Type") = type
  BY DEF Field
<1> HIDE DEF type, pieces
<1>4. action = m
  <2>1. /\ m["Type"] = type /\ m["Action"] = A /\ m["ResourceType"] = R /\ m["Namespace"] = N
        /\ m["Name"] = M /\ m["Container"] = C /\ m["Extra"] = E
    BY DEF Fields
  <2>2. DOMAIN m = DOMAIN NoFields /\ m = [f \in DOMAIN m |-> m[f]]
    BY FieldNames DEF Fields
  <2> HIDE DEF m
  <2>3. \A f \in DOMAIN NoFields : m[f] = Field(type, pieces, f)
    BY <1>3, <2>1, FieldNames
  <2>4. QED  BY <2>2, <2>3
<1> HIDE DEF action, A, R, N, M, C, E
<1>5. m.Type = type /\ m.Action = A
  BY DEF Fields
<1>6. MovedSlot(m) = Fields(type, A, R, N, M, "", C)
  BY Moved
<1> HIDE DEF m
<1>7. ParseCallbackData(data) = Parsed(type, pieces)
  BY <1>1, <1>2, <1>4, <1>5, <1>6
<1>8. QED  BY <1>7 DEF type, pieces

LEMMA BehindType ==
  ASSUME NEW S, NEW p \in Seq(S), NEW data, Len(data) = Len(p) + 2,
         \A i \in 1..Len(p) : data[i + 2] = p[i]
  PROVE  SubSeq(data, 3, Len(data)) = p
<1>1. Len(p) \in Nat /\ \A i \in 1..Len(p) : p[i] \in S
  OBVIOUS
<1>2. \A i \in 3..(Len(p) + 2) : data[i] \in S
  <2>1. \A i \in 3..(Len(p) + 2) : i - 2 \in 1..Len(p) /\ (i - 2) + 2 = i
    BY <1>1
  <2>2. QED  BY <1>1, <2>1
<1>3. /\ SubSeq(data, 3, Len(p) + 2) \in Seq(S)
      /\ Len(SubSeq(data, 3, Len(p) + 2)) = IF 3 <= Len(p) + 2 THEN Len(p) + 2 - 3 + 1 ELSE 0
      /\ \A i \in 1..(Len(p) + 2 - 3 + 1) : SubSeq(data, 3, Len(p) + 2)[i] = data[3 + i - 1]
  <2>1. 3 \in Int /\ Len(p) + 2 \in Int
    BY <1>1
  <2>2. QED  BY <1>2, <2>1, SubSeqProperties
<1>4. Len(SubSeq(data, 3, Len(p) + 2)) = Len(p)
  BY <1>1, <1>3
<1>5. \A i \in 1..Len(p) : SubSeq(data, 3, Len(p) + 2)[i] = p[i]
  <2>1. \A i \in 1..Len(p) : i \in 1..(Len(p) + 2 - 3 + 1) /\ 3 + i - 1 = i + 2
    BY <1>1
  <2>2. QED  BY <1>3, <2>1
<1>6. QED  BY <1>3, <1>4, <1>5, SeqEqual

LEMMA Joined ==
  ASSUME NEW S, NEW s \in Seq(S), NEW t \in Seq(S), NEW r \in Seq(S), Len(r) = Len(s) + Len(t),
         \A i \in 1..Len(s) : s[i] = r[i], \A i \in 1..Len(t) : t[i] = r[Len(s) + i]
  PROVE  s \o t = r
<1>1. Len(s) \in Nat /\ Len(t) \in Nat
  OBVIOUS
<1>2. /\ s \o t \in Seq(S) /\ Len(s \o t) = Len(s) + Len(t)
      /\ \A i \in 1..(Len(s) + Len(t)) :
           (s \o t)[i] = IF i <= Len(s) THEN s[i] ELSE t[i - Len(s)]
  BY ConcatProperties
<1>3. ASSUME NEW i \in 1..(Len(s) + Len(t))
      PROVE  (s \o t)[i] = r[i]
  <2>1. CASE i <= Len(s)
    BY <1>1, <1>2, <2>1
  <2>2. CASE ~(i <= Len(s))
    <3>1. i - Len(s) \in 1..Len(t) /\ Len(s) + (i - Len(s)) = i
      BY <1>1, <2>2
    <3>2. QED  BY <1>2, <2>2, <3>1
  <2>3. QED  BY <2>1, <2>2
<1>4. QED  BY <1>2, <1>3, SeqEqual

LEMMA Join31 ==
  ASSUME NEW a, NEW b, NEW c, NEW d
  PROVE  <<a, b, c>> \o <<d>> = <<a, b, c, d>>
<1> DEFINE s == <<a, b, c>>  t == <<d>>  r == <<a, b, c, d>>  S == {a, b, c, d}
<1>1. s \in Seq(S) /\ t \in Seq(S) /\ r \in Seq(S) /\ Len(s) = 3 /\ Len(t) = 1 /\ Len(r) = 4
  OBVIOUS
<1>2. \A i \in 1..3 : s[i] = r[i]
  OBVIOUS
<1>3. t[1] = r[4]
  OBVIOUS
<1> HIDE DEF s, t, r, S
<1>4. \A i \in 1..1 : i = 1 /\ 3 + i = 4
  OBVIOUS
<1>5. Len(r) = Len(s) + Len(t) /\ (\A i \in 1..Len(s) : s[i] = r[i])
  BY <1>1, <1>2
<1>6. \A i \in 1..Len(t) : t[i] = r[Len(s) + i]
  BY <1>1, <1>3, <1>4
<1>7. s \in Seq(S) /\ t \in Seq(S) /\ r \in Seq(S)
  BY <1>1
<1>8. s \o t = r
  BY ONLY <1>5, <1>6, <1>7, Joined
<1>9. QED  BY <1>8 DEF s, t, r

LEMMA Join41 ==
  ASSUME NEW a, NEW b, NEW c, NEW d, NEW e
  PROVE  <<a, b, c, d>> \o <<e>> = <<a, b, c, d, e>>
<1> DEFINE s == <<a, b, c, d>>  t == <<e>>  r == <<a, b, c, d, e>>  S == {a, b, c, d, e}
<1>1. s \in Seq(S) /\ t \in Seq(S) /\ r \in Seq(S) /\ Len(s) = 4 /\ Len(t) = 1 /\ Len(r) = 5
  OBVIOUS
<1>2. \A i \in 1..4 : s[i] = r[i]
  OBVIOUS
<1>3. t[1] = r[5]
  OBVIOUS
<1> HIDE DEF s, t, r, S
<1>4. \A i \in 1..1 : i = 1 /\ 4 + i = 5
  OBVIOUS
<1>5. Len(r) = Len(s) + Len(t) /\ (\A i \in 1..Len(s) : s[i] = r[i])
  BY <1>1, <1>2
<1>6. \A i \in 1..Len(t) : t[i] = r[Len(s) + i]
  BY <1>1, <1>3, <1>4
<1>7. s \in Seq(S) /\ t \in Seq(S) /\ r \in Seq(S)
  BY <1>1
<1>8. s \o t = r
  BY ONLY <1>5, <1>6, <1>7, Joined
<1>9. QED  BY <1>8 DEF s, t, r

LEMMA Join51 ==
  ASSUME NEW a, NEW b, NEW c, NEW d, NEW e, NEW f
  PROVE  <<a, b, c, d, e>> \o <<f>> = <<a, b, c, d, e, f>>
<1> DEFINE s == <<a, b, c, d, e>>  t == <<f>>  r == <<a, b, c, d, e, f>>  S == {a, b, c, d, e, f}
<1>1. s \in Seq(S) /\ t \in Seq(S) /\ r \in Seq(S) /\ Len(s) = 5 /\ Len(t) = 1 /\ Len(r) = 6
  OBVIOUS
<1>2. \A i \in 1..5 : s[i] = r[i]
  OBVIOUS
<1>3. t[1] = r[6]
  OBVIOUS
<1> HIDE DEF s, t, r, S
<1>4. \A i \in 1..1 : i = 1 /\ 5 + i = 6
  OBVIOUS
<1>5. Len(r) = Len(s) + Len(t) /\ (\A i \in 1..Len(s) : s[i] = r[i])
  BY <1>1, <1>2
<1>6. \A i \in 1..Len(t) : t[i] = r[Len(s) + i]
  BY <1>1, <1>3, <1>4
<1>7. s \in Seq(S) /\ t \in Seq(S) /\ r \in Seq(S)
  BY <1>1
<1>8. s \o t = r
  BY ONLY <1>5, <1>6, <1>7, Joined
<1>9. QED  BY <1>8 DEF s, t, r

LEMMA Join61 ==
  ASSUME NEW a, NEW b, NEW c, NEW d, NEW e, NEW f, NEW g
  PROVE  <<a, b, c, d, e, f>> \o <<g>> = <<a, b, c, d, e, f, g>>
<1> DEFINE s == <<a, b, c, d, e, f>>  t == <<g>>  r == <<a, b, c, d, e, f, g>>  S == {a, b, c, d, e, f, g}
<1>1. s \in Seq(S) /\ t \in Seq(S) /\ r \in Seq(S) /\ Len(s) = 6 /\ Len(t) = 1 /\ Len(r) = 7
  OBVIOUS
<1>2. \A i \in 1..6 : s[i] = r[i]
  OBVIOUS
<1>3. t[1] = r[7]
  OBVIOUS
<1> HIDE DEF s, t, r, S
<1>4. \A i \in 1..1 : i = 1 /\ 6 + i = 7
  OBVIOUS
<1>5. Len(r) = Len(s) + Len(t) /\ (\A i \in 1..Len(s) : s[i] = r[i])
  BY <1>1, <1>2
<1>6. \A i \in 1..Len(t) : t[i] = r[Len(s) + i]
  BY <1>1, <1>3, <1>4
<1>7. s \in Seq(S) /\ t \in Seq(S) /\ r \in Seq(S)
  BY <1>1
<1>8. s \o t = r
  BY ONLY <1>5, <1>6, <1>7, Joined
<1>9. QED  BY <1>8 DEF s, t, r

LEMMA Join62 ==
  ASSUME NEW a, NEW b, NEW c, NEW d, NEW e, NEW f, NEW g, NEW h
  PROVE  <<a, b, c, d, e, f>> \o <<g, h>> = <<a, b, c, d, e, f, g, h>>
<1> DEFINE s == <<a, b, c, d, e, f>>  t == <<g, h>>  r == <<a, b, c, d, e, f, g, h>>  S == {a, b, c, d, e, f, g, h}
<1>1. s \in Seq(S) /\ t \in Seq(S) /\ r \in Seq(S) /\ Len(s) = 6 /\ Len(t) = 2 /\ Len(r) = 8
  OBVIOUS
<1>2. \A i \in 1..6 : s[i] = r[i]
  OBVIOUS
<1>3. t[1] = r[7] /\ t[2] = r[8]
  OBVIOUS
<1> HIDE DEF s, t, r, S
<1>4. \A i \in 1..2 : (i = 1 /\ 6 + i = 7) \/ (i = 2 /\ 6 + i = 8)
  OBVIOUS
<1>5. Len(r) = Len(s) + Len(t) /\ (\A i \in 1..Len(s) : s[i] = r[i])
  BY <1>1, <1>2
<1>6. \A i \in 1..Len(t) : t[i] = r[Len(s) + i]
  BY <1>1, <1>3, <1>4
<1>7. s \in Seq(S) /\ t \in Seq(S) /\ r \in Seq(S)
  BY <1>1
<1>8. s \o t = r
  BY ONLY <1>5, <1>6, <1>7, Joined
<1>9. QED  BY <1>8 DEF s, t, r

\* What comes behind "menu" and the type.
LEMMA Behind ==
  /\ \A a, b, c :
       SubSeq(<<a, b, c>>, 3, Len(<<a, b, c>>)) = <<c>>
  /\ \A a, b, c, d :
       SubSeq(<<a, b, c, d>>, 3, Len(<<a, b, c, d>>)) = <<c, d>>
  /\ \A a, b, c, d, e :
       SubSeq(<<a, b, c, d, e>>, 3, Len(<<a, b, c, d, e>>)) = <<c, d, e>>
  /\ \A a, b, c, d, e, f :
       SubSeq(<<a, b, c, d, e, f>>, 3, Len(<<a, b, c, d, e, f>>)) = <<c, d, e, f>>
  /\ \A a, b, c, d, e, f, g :
       SubSeq(<<a, b, c, d, e, f, g>>, 3, Len(<<a, b, c, d, e, f, g>>)) = <<c, d, e, f, g>>
  /\ \A a, b, c, d, e, f, g, h :
       SubSeq(<<a, b, c, d, e, f, g, h>>, 3, Len(<<a, b, c, d, e, f, g, h>>)) = <<c, d, e, f, g, h>>
<1>1. ASSUME NEW a, NEW b, NEW c
      PROVE  SubSeq(<<a, b, c>>, 3, Len(<<a, b, c>>)) = <<c>>
  <2> DEFINE s == <<a, b, c>>  p == <<c>>
  <2>1. p \in Seq({c}) /\ Len(p) = 1 /\ Len(s) = 3
    OBVIOUS
  <2>2. s[3] = p[1]
    OBVIOUS
  <2> HIDE DEF s, p
  <2>3. \A i \in 1..1 : (i = 1 /\ i + 2 = 3)
    OBVIOUS
  <2>4. \A i \in 1..Len(p) : s[i + 2] = p[i]
    BY <2>1, <2>2, <2>3
  <2>5. SubSeq(s, 3, Len(s)) = p
    BY <2>1, <2>4, BehindType
  <2>6. QED  BY <2>5 DEF s, p
<1>2. ASSUME NEW a, NEW b, NEW c, NEW d
      PROVE  SubSeq(<<a, b, c, d>>, 3, Len(<<a, b, c, d>>)) = <<c, d>>
  <2> DEFINE s == <<a, b, c, d>>  p == <<c, d>>
  <2>1. p \in Seq({c, d}) /\ Len(p) = 2 /\ Len(s) = 4
    OBVIOUS
  <2>2. s[3] = p[1] /\ s[4] = p[2]
    OBVIOUS
  <2> HIDE DEF s, p
  <2>3. \A i \in 1..2 : (i = 1 /\ i + 2 = 3) \/ (i = 2 /\ i + 2 = 4)
    OBVIOUS
  <2>4. \A i \in 1..Len(p) : s[i + 2] = p[i]
    BY <2>1, <2>2, <2>3
  <2>5. SubSeq(s, 3, Len(s)) = p
    BY <2>1, <2>4, BehindType
  <2>6. QED  BY <2>5 DEF s, p
<1>3. ASSUME NEW a, NEW b, NEW c, NEW d, NEW e
      PROVE  SubSeq(<<a, b, c, d, e>>, 3, Len(<<a, b, c, d, e>>)) = <<c, d, e>>
  <2> DEFINE s == <<a, b, c, d, e>>  p == <<c, d, e>>
  <2>1. p \in Seq({c, d, e}) /\ Len(p) = 3 /\ Len(s) = 5
    OBVIOUS
  <2>2. s[3] = p[1] /\ s[4] = p[2] /\ s[5] = p[3]
    OBVIOUS
  <2> HIDE DEF s, p
  <2>3. \A i \in 1..3 : (i = 1 /\ i + 2 = 3) \/ (i = 2 /\ i + 2 = 4) \/ (i = 3 /\ i + 2 = 5)
    OBVIOUS
  <2>4. \A i \in 1..Len(p) : s[i + 2] = p[i]
    BY <2>1, <2>2, <2>3
  <2>5. SubSeq(s, 3, Len(s)) = p
    BY <2>1, <2>4, BehindType
  <2>6. QED  BY <2>5 DEF s, p
<1>4. ASSUME NEW a, NEW b, NEW c, NEW d, NEW e, NEW f
      PROVE  SubSeq(<<a, b, c, d, e, f>>, 3, Len(<<a, b, c, d, e, f>>)) = <<c, d, e, f>>
  <2> DEFINE s == <<a, b, c, d, e, f>>  p == <<c, d, e, f>>
  <2>1. p \in Seq({c, d, e, f}) /\ Len(p) = 4 /\ Len(s) = 6
    OBVIOUS
  <2>2. s[3] = p[1] /\ s[4] = p[2] /\ s[5] = p[3] /\ s[6] = p[4]
    OBVIOUS
  <2> HIDE DEF s, p
  <2>3. \A i \in 1..4 : (i = 1 /\ i + 2 = 3) \/ (i = 2 /\ i + 2 = 4) \/ (i = 3 /\ i + 2 = 5) \/ (i = 4 /\ i + 2 = 6)
    OBVIOUS
  <2>4. \A i \in 1..Len(p) : s[i + 2] = p[i]
    BY <2>1, <2>2, <2>3
  <2>5. SubSeq(s, 3, Len(s)) = p
    BY <2>1, <2>4, BehindType
  <2>6. QED  BY <2>5 DEF s, p
<1>5. ASSUME NEW a, NEW b, NEW c, NEW d, NEW e, NEW f, NEW g
      PROVE  SubSeq(<<a, b, c, d, e, f, g>>, 3, Len(<<a, b, c, d, e, f, g>>)) = <<c, d, e, f, g>>
  <2> DEFINE s == <<a, b, c, d, e, f, g>>  p == <<c, d, e, f, g>>
  <2>1. p \in Seq({c, d, e, f, g}) /\ Len(p) = 5 /\ Len(s) = 7
    OBVIOUS
  <2>2. s[3] = p[1] /\ s[4] = p[2] /\ s[5] = p[3] /\ s[6] = p[4] /\ s[7] = p[5]
    OBVIOUS
  <2> HIDE DEF s, p
  <2>3. \A i \in 1..5 : (i = 1 /\ i + 2 = 3) \/ (i = 2 /\ i + 2 = 4) \/ (i = 3 /\ i + 2 = 5) \/ (i = 4 /\ i + 2 = 6) \/ (i = 5 /\ i + 2 = 7)
    OBVIOUS
  <2>4. \A i \in 1..Len(p) : s[i + 2] = p[i]
    BY <2>1, <2>2, <2>3
  <2>5. SubSeq(s, 3, Len(s)) = p
    BY <2>1, <2>4, BehindType
  <2>6. QED  BY <2>5 DEF s, p
<1>6. ASSUME NEW a, NEW b, NEW c, NEW d, NEW e, NEW f, NEW g, NEW h
      PROVE  SubSeq(<<a, b, c, d, e, f, g, h>>, 3, Len(<<a, b, c, d, e, f, g, h>>)) = <<c, d, e, f, g, h>>
  <2> DEFINE s == <<a, b, c, d, e, f, g, h>>  p == <<c, d, e, f, g, h>>
  <2>1. p \in Seq({c, d, e, f, g, h}) /\ Len(p) = 6 /\ Len(s) = 8
    OBVIOUS
  <2>2. s[3] = p[1] /\ s[4] = p[2] /\ s[5] = p[3] /\ s[6] = p[4] /\ s[7] = p[5] /\ s[8] = p[6]
    OBVIOUS
  <2> HIDE DEF s, p
  <2>3. \A i \in 1..6 : (i = 1 /\ i + 2 = 3) \/ (i = 2 /\ i + 2 = 4) \/ (i = 3 /\ i + 2 = 5) \/ (i = 4 /\ i + 2 = 6) \/ (i = 5 /\ i + 2 = 7) \/ (i = 6 /\ i + 2 = 8)
    OBVIOUS
  <2>4. \A i \in 1..Len(p) : s[i + 2] = p[i]
    BY <2>1, <2>2, <2>3
  <2>5. SubSeq(s, 3, Len(s)) = p
    BY <2>1, <2>4, BehindType
  <2>6. QED  BY <2>5 DEF s, p
<1>7. QED  BY <1>1, <1>2, <1>3, <1>4, <1>5, <1>6


\* A field that no piece goes to, and one that the i-th goes to.
Unset(f) == IF f \in {"Namespace", "Name"} THEN NoName ELSE ""
Put(f, p) == IF f \in {"Namespace", "Name"} THEN <<p>> ELSE p

OtherFields == {"Action", "ResourceType", "Namespace", "Name", "Container", "Extra"}

\* A piece is not joined with others.
Lone(type, pieces, i) == type \notin tailJoinTypes \/ i < Len(Layout(type)) \/ i = Len(pieces)

LEMMA FieldIs ==
  ASSUME NEW type, NEW S, NEW pieces \in Seq(S), NEW f \in OtherFields
  PROVE  /\ Givers(type, pieces, f) = {} => Field(type, pieces, f) = Unset(f)
         /\ \A i \in 1..Len(pieces) :
              Givers(type, pieces, f) = {i} /\ Lone(type, pieces, i)
                => Field(type, pieces, f) = Put(f, pieces[i])
<1>1. f # "Type" /\ NoFields[f] = Unset(f)
  BY FieldNames DEF OtherFields, Unset
<1>2. Givers(type, pieces, f) = {} => Field(type, pieces, f) = Unset(f)
  BY <1>1 DEF Field
<1>3. ASSUME NEW i \in 1..Len(pieces), Givers(type, pieces, f) = {i}, Lone(type, pieces, i)
      PROVE  Field(type, pieces, f) = Put(f, pieces[i])
  <2>1. (CHOOSE j \in {i} : \A k \in {i} : k <= j) = i
    OBVIOUS
  <2>2. Piece(type, pieces, i) = <<pieces[i]>>
    <3>1. CASE i = Len(pieces)
      <4>1. SubSeq(pieces, i, i) = <<pieces[i]>> \o SubSeq(pieces, i + 1, i) /\ i \in Int
        BY SubSeqRecursiveFirst
      <4>2. SubSeq(pieces, i + 1, i) = <<>>
        BY <4>1, SubSeqEmpty
      <4>3. <<pieces[i]>> \o <<>> = <<pieces[i]>>
        OBVIOUS
      <4>4. SubSeq(pieces, i, Len(pieces)) = <<pieces[i]>>
        BY <3>1, <4>1, <4>2, <4>3
      <4>5. QED  BY <4>4 DEF Piece
    <3>2. CASE i # Len(pieces)
      <4>1. i < Len(Layout(type)) => i # Len(Layout(type))
        OBVIOUS
      <4>2. QED  BY <1>3, <3>2, <4>1 DEF Piece, Lone
    <3>3. QED  BY <3>1, <3>2
  <2>3. Head(<<pieces[i]>>) = pieces[i]
    OBVIOUS
  <2>4. QED  BY <1>1, <1>3, <2>1, <2>2, <2>3 DEF Field, Put
<1>4. QED  BY <1>2, <1>3

FieldsFrom(type, pieces) ==
  \A f \in OtherFields :
    /\ Givers(type, pieces, f) = {} => Field(type, pieces, f) = Unset(f)
    /\ \A i \in 1..Len(pieces) :
         Givers(type, pieces, f) = {i} => Field(type, pieces, f) = Put(f, pieces[i])

LEMMA FieldsAre ==
  ASSUME NEW type, NEW S, NEW pieces \in Seq(S), \A i \in 1..Len(pieces) : Lone(type, pieces, i)
  PROVE  FieldsFrom(type, pieces)
<1>1. ASSUME NEW f \in OtherFields
      PROVE  /\ Givers(type, pieces, f) = {} => Field(type, pieces, f) = Unset(f)
             /\ \A i \in 1..Len(pieces) :
                  Givers(type, pieces, f) = {i} => Field(type, pieces, f) = Put(f, pieces[i])
  BY FieldIs
<1>2. QED  BY <1>1 DEF FieldsFrom

LEMMA LayoutsAre ==
  /\ Layout("resource") = <<"Action", "ResourceType", "Namespace", "Name", "Extra">>
  /\ Layout("action") = <<"Action", "ResourceType", "Namespace", "Name", "Container", "Extra">>
  /\ Layout("monitor") = <<"Action", "ResourceType">>
  /\ Layout("ops") = <<"Action">> /\ Layout("help") = <<"Action">>
  /\ \A type \in {"ctx", "settings", "ns"} : Layout(type) = <<"Action", "Name">>
  /\ \A type \in {"main", "noop"} : Layout(type) = <<>>
BY DEF Layout, callbackFields

LEMMA ResourceGivers ==
  ASSUME NEW S, NEW pieces \in Seq(S), Len(pieces) \in 1..4
  PROVE  /\ Givers("resource", pieces, "Action") = {1}
         /\ Givers("resource", pieces, "ResourceType") = IF Len(pieces) < 2 THEN {} ELSE {2}
         /\ Givers("resource", pieces, "Namespace") = IF Len(pieces) < 3 THEN {} ELSE {3}
         /\ Givers("resource", pieces, "Name") =
              IF Len(pieces) < 4 \/ pieces[1] = "page" THEN {} ELSE {4}
         /\ Givers("resource", pieces, "Container") = {}
         /\ Givers("resource", pieces, "Extra") =
              IF Len(pieces) = 4 /\ pieces[1] = "page" THEN {4} ELSE {}
         /\ 1 \in 1..Len(pieces) /\ (~(Len(pieces) < 2) => 2 \in 1..Len(pieces))
         /\ (~(Len(pieces) < 3) => 3 \in 1..Len(pieces))
         /\ (~(Len(pieces) < 4) => 4 \in 1..Len(pieces))
         /\ (Len(pieces) < 4 <=> Len(pieces) # 4)
<1> DEFINE L == Len(pieces)
           layout == <<"Action", "ResourceType", "Namespace", "Name", "Extra">>
<1>1. L \in {1, 2, 3, 4} /\ DOMAIN pieces = 1..L /\ "resource" \notin tailJoinTypes
  BY DEF tailJoinTypes
<1>2. \A f : Givers("resource", pieces, f) =
        {i \in 1..L : (IF pieces[1] = "page" /\ layout[i] = "Name" THEN "Extra" ELSE layout[i]) = f}
  BY <1>1, LayoutsAre DEF Givers, Slot
<1>3. /\ Givers("resource", pieces, "Action") = {1}
      /\ Givers("resource", pieces, "ResourceType") = IF L < 2 THEN {} ELSE {2}
      /\ Givers("resource", pieces, "Namespace") = IF L < 3 THEN {} ELSE {3}
      /\ Givers("resource", pieces, "Name") = IF L < 4 \/ pieces[1] = "page" THEN {} ELSE {4}
      /\ Givers("resource", pieces, "Container") = {}
      /\ Givers("resource", pieces, "Extra") = IF L = 4 /\ pieces[1] = "page" THEN {4} ELSE {}
  <2> DEFINE slot(i) == IF pieces[1] = "page" /\ layout[i] = "Name" THEN "Extra" ELSE layout[i]
  <2>1. /\ slot(1) = "Action" /\ slot(2) = "ResourceType" /\ slot(3) = "Namespace"
        /\ slot(4) = IF pieces[1] = "page" THEN "Extra" ELSE "Name"
    OBVIOUS
  <2> HIDE DEF slot
  <2>2. \A i \in 1..L : i = 1 \/ (i = 2 /\ ~(L < 2)) \/ (i = 3 /\ ~(L < 3)) \/ (i = 4 /\ L = 4)
    BY <1>1
  <2>3. \A f : Givers("resource", pieces, f) = {i \in 1..L : slot(i) = f}
    BY <1>2 DEF slot
  <2>4. 1 \in 1..L /\ (~(L < 2) => 2 \in 1..L) /\ (~(L < 3) => 3 \in 1..L) /\ (L = 4 => 4 \in 1..L)
    BY <1>1
  <2>5. Givers("resource", pieces, "Action") = {1}
    BY <2>1, <2>2, <2>3, <2>4
  <2>6. Givers("resource", pieces, "ResourceType") = IF L < 2 THEN {} ELSE {2}
    BY <2>1, <2>2, <2>3, <2>4
  <2>7. Givers("resource", pieces, "Namespace") = IF L < 3 THEN {} ELSE {3}
    BY <2>1, <2>2, <2>3, <2>4
  <2>8. Givers("resource", pieces, "Name") = IF L < 4 \/ pieces[1] = "page" THEN {} ELSE {4}
    BY <1>1, <2>1, <2>2, <2>3, <2>4
  <2>9. Givers("resource", pieces, "Container") = {}
    BY <2>1, <2>2, <2>3, <2>4
  <2>10. Givers("resource", pieces, "Extra") = IF L = 4 /\ pieces[1] = "page" THEN {4} ELSE {}
    BY <2>1, <2>2, <2>3, <2>4
  <2>11. QED  BY <2>5, <2>6, <2>7, <2>8, <2>9, <2>10
<1>4. /\ 1 \in 1..L /\ (~(L < 2) => 2 \in 1..L) /\ (~(L < 3) => 3 \in 1..L)
      /\ (~(L < 4) => 4 \in 1..L)
  BY <1>1
<1>5. L < 4 <=> L # 4
  <2>1. \A k \in {1, 2, 3, 4} : k < 4 <=> k # 4
    OBVIOUS
  <2> HIDE DEF L
  <2>2. QED  BY <1>1, <2>1, Zenon
<1>6. QED  BY <1>3, <1>4, <1>5

LEMMA ParseResource ==
  ASSUME NEW S, NEW pieces \in Seq(S), Len(pieces) \in 1..4, Len(pieces) < 4 \/ pieces[1] # "page",
         NEW data, data[2] = "resource", SubSeq(data, 3, Len(data)) = pieces,
         NEW R, R = IF Len(pieces) < 2 THEN "" ELSE pieces[2],
         NEW N, N = IF Len(pieces) < 3 THEN NoName ELSE <<pieces[3]>>,
         NEW M, M = IF Len(pieces) < 4 THEN NoName ELSE <<pieces[4]>>
  PROVE  ParseCallbackData(data) = Fields("resource", pieces[1], R, N, M, "", "")
<1>1. FieldsFrom("resource", pieces)
  <2>1. \A i \in 1..Len(pieces) : Lone("resource", pieces, i)
    BY DEF Lone, tailJoinTypes
  <2>2. QED  BY <2>1, FieldsAre
<1>2. /\ Givers("resource", pieces, "Name") = IF Len(pieces) < 4 THEN {} ELSE {4}
      /\ Givers("resource", pieces, "Extra") = {}
  <2>1. CASE Len(pieces) < 4
    <3>1. Len(pieces) # 4
      BY <2>1, ResourceGivers
    <3>2. QED  BY <2>1, <3>1, ResourceGivers
  <2>2. CASE pieces[1] # "page"
    BY <2>2, ResourceGivers
  <2>3. QED  BY <2>1, <2>2
<1>3. /\ Field("resource", pieces, "Action") = pieces[1]
      /\ Field("resource", pieces, "ResourceType") = R
      /\ Field("resource", pieces, "Namespace") = N
      /\ Field("resource", pieces, "Name") = M
      /\ Field("resource", pieces, "Container") = ""
      /\ Field("resource", pieces, "Extra") = ""
  <2>1. Field("resource", pieces, "Action") = pieces[1] /\ Field("resource", pieces, "ResourceType") = R
    BY <1>1, ResourceGivers DEF FieldsFrom, OtherFields, Unset, Put
  <2>2. Field("resource", pieces, "Namespace") = N
    <3>1. /\ Givers("resource", pieces, "Namespace") = IF Len(pieces) < 3 THEN {} ELSE {3}
          /\ 3 \in 1..Len(pieces) \/ Len(pieces) < 3
      BY ResourceGivers
    <3>2. QED  BY <1>1, <3>1 DEF FieldsFrom, OtherFields, Unset, Put
  <2>3. 4 \in 1..Len(pieces) \/ Len(pieces) < 4
    BY ResourceGivers
  <2>4. Field("resource", pieces, "Name") = M
    BY <1>1, <1>2, <2>3 DEF FieldsFrom, OtherFields, Unset, Put
  <2>5. Field("resource", pieces, "Container") = "" /\ Field("resource", pieces, "Extra") = ""
    BY <1>1, <1>2, ResourceGivers DEF FieldsFrom, OtherFields, Unset, Put
  <2>6. QED  BY <2>1, <2>2, <2>4, <2>5
<1>4. ParseCallbackData(data) = Parsed("resource", pieces)
  BY ParseIs
<1>5. QED  BY <1>3, <1>4 DEF Parsed

LEMMA ParsePage ==
  ASSUME NEW S, NEW pieces \in Seq(S), Len(pieces) \in 1..4, Len(pieces) = 4, pieces[1] = "page",
         NEW data, data[2] = "resource", SubSeq(data, 3, Len(data)) = pieces
  PROVE  ParseCallbackData(data) =
           Fields("resource", pieces[1], pieces[2], <<pieces[3]>>, NoName, "", pieces[4])
<1>1. FieldsFrom("resource", pieces)
  <2>1. \A i \in 1..Len(pieces) : Lone("resource", pieces, i)
    BY DEF Lone, tailJoinTypes
  <2>2. QED  BY <2>1, FieldsAre
<1>2. /\ Givers("resource", pieces, "ResourceType") = {2}
      /\ Givers("resource", pieces, "Namespace") = {3}
      /\ Givers("resource", pieces, "Name") = {} /\ Givers("resource", pieces, "Extra") = {4}
      /\ 2 \in 1..Len(pieces) /\ 3 \in 1..Len(pieces) /\ 4 \in 1..Len(pieces)
  BY ResourceGivers
<1>3. /\ Field("resource", pieces, "Action") = pieces[1]
      /\ Field("resource", pieces, "ResourceType") = pieces[2]
      /\ Field("resource", pieces, "Namespace") = <<pieces[3]>>
      /\ Field("resource", pieces, "Name") = NoName
      /\ Field("resource", pieces, "Container") = ""
      /\ Field("resource", pieces, "Extra") = pieces[4]
  BY <1>1, <1>2, ResourceGivers DEF FieldsFrom, OtherFields, Unset, Put
<1>4. ParseCallbackData(data) = Parsed("resource", pieces)
  BY ParseIs
<1>5. QED  BY <1>3, <1>4 DEF Parsed

LEMMA ActionGivers ==
  ASSUME NEW S, NEW pieces \in Seq(S), Len(pieces) \in 4..6
  PROVE  /\ Givers("action", pieces, "Action") = {1}
         /\ Givers("action", pieces, "ResourceType") = {2}
         /\ Givers("action", pieces, "Namespace") = {3}
         /\ Givers("action", pieces, "Name") = {4}
         /\ Givers("action", pieces, "Container") = IF Len(pieces) < 5 THEN {} ELSE {5}
         /\ Givers("action", pieces, "Extra") = IF Len(pieces) < 6 THEN {} ELSE {6}
         /\ 1 \in 1..Len(pieces) /\ 2 \in 1..Len(pieces) /\ 3 \in 1..Len(pieces)
         /\ 4 \in 1..Len(pieces) /\ (~(Len(pieces) < 5) => 5 \in 1..Len(pieces))
         /\ (~(Len(pieces) < 6) => 6 \in 1..Len(pieces))
<1> DEFINE L == Len(pieces)
           layout == <<"Action", "ResourceType", "Namespace", "Name", "Container", "Extra">>
<1>1. L \in {4, 5, 6} /\ DOMAIN pieces = 1..L
  OBVIOUS
<1>2. \A f : Givers("action", pieces, f) = {i \in 1..L : layout[i] = f}
  <2>1. Layout("action") = layout /\ DOMAIN layout = 1..6 /\ 1..6 \cap 1..L = 1..L
    BY <1>1, LayoutsAre
  <2>2. \A i : Slot("action", pieces, i) = layout[i]
    BY <2>1 DEF Slot
  <2>3. QED  BY <1>1, <2>1, <2>2 DEF Givers
<1>3. /\ \A i \in 1..L : i = 1 \/ i = 2 \/ i = 3 \/ i = 4 \/ (i = 5 /\ ~(L < 5)) \/ (i = 6 /\ ~(L < 6))
      /\ 1 \in 1..L /\ 2 \in 1..L /\ 3 \in 1..L /\ 4 \in 1..L
      /\ (~(L < 5) => 5 \in 1..L) /\ (~(L < 6) => 6 \in 1..L)
  BY <1>1
<1>4. /\ layout[1] = "Action" /\ layout[2] = "ResourceType" /\ layout[3] = "Namespace"
      /\ layout[4] = "Name" /\ layout[5] = "Container" /\ layout[6] = "Extra"
  OBVIOUS
<1> HIDE DEF layout
<1>5. Givers("action", pieces, "Action") = {1} /\ Givers("action", pieces, "ResourceType") = {2}
  BY <1>2, <1>3, <1>4
<1>6. Givers("action", pieces, "Namespace") = {3} /\ Givers("action", pieces, "Name") = {4}
  BY <1>2, <1>3, <1>4
<1>7. Givers("action", pieces, "Container") = IF L < 5 THEN {} ELSE {5}
  BY <1>2, <1>3, <1>4
<1>8. Givers("action", pieces, "Extra") = IF L < 6 THEN {} ELSE {6}
  BY <1>2, <1>3, <1>4
<1>9. QED  BY <1>3, <1>5, <1>6, <1>7, <1>8

\* What data of an action is parsed to.
ActionFields(p) ==
  LET C == IF Len(p) < 5 THEN "" ELSE p[5]
      E == IF Len(p) < 6 THEN "" ELSE p[6]
  IN IF p[1] \in valueInContainerSlot
     THEN Fields("action", p[1], p[2], <<p[3]>>, <<p[4]>>, "", C)
     ELSE Fields("action", p[1], p[2], <<p[3]>>, <<p[4]>>, C, E)

LEMMA ParseAction ==
  ASSUME NEW S, NEW pieces \in Seq(S), Len(pieces) \in 4..6,
         NEW data, data[2] = "action", SubSeq(data, 3, Len(data)) = pieces
  PROVE  ParseCallbackData(data) = ActionFields(pieces)
<1> DEFINE C == IF Len(pieces) < 5 THEN "" ELSE pieces[5]
           E == IF Len(pieces) < 6 THEN "" ELSE pieces[6]
<1>1. FieldsFrom("action", pieces)
  <2>1. \A i \in 1..Len(pieces) : Lone("action", pieces, i)
    BY DEF Lone, tailJoinTypes
  <2>2. QED  BY <2>1, FieldsAre
<1>2. /\ 1 \in 1..Len(pieces) /\ 2 \in 1..Len(pieces) /\ 3 \in 1..Len(pieces)
      /\ 4 \in 1..Len(pieces) /\ (~(Len(pieces) < 5) => 5 \in 1..Len(pieces))
      /\ (~(Len(pieces) < 6) => 6 \in 1..Len(pieces))
  BY ActionGivers
<1>3. /\ Field("action", pieces, "Action") = pieces[1]
      /\ Field("action", pieces, "ResourceType") = pieces[2]
      /\ Field("action", pieces, "Namespace") = <<pieces[3]>>
      /\ Field("action", pieces, "Name") = <<pieces[4]>>
      /\ Field("action", pieces, "Container") = C
      /\ Field("action", pieces, "Extra") = E
  <2>1. Givers("action", pieces, "Action") = {1} /\ Givers("action", pieces, "ResourceType") = {2}
    BY ActionGivers
  <2>2. Field("action", pieces, "Action") = pieces[1] /\ Field("action", pieces, "ResourceType") = pieces[2]
    BY <1>1, <1>2, <2>1 DEF FieldsFrom, OtherFields, Put
  <2>3. Givers("action", pieces, "Namespace") = {3} /\ Givers("action", pieces, "Name") = {4}
    BY ActionGivers
  <2>4. Field("action", pieces, "Namespace") = <<pieces[3]>> /\ Field("action", pieces, "Name") = <<pieces[4]>>
    BY <1>1, <1>2, <2>3 DEF FieldsFrom, OtherFields, Put
  <2>5. Givers("action", pieces, "Container") = IF Len(pieces) < 5 THEN {} ELSE {5}
    BY ActionGivers
  <2>6. Field("action", pieces, "Container") = C
    BY <1>1, <1>2, <2>5 DEF FieldsFrom, OtherFields, Unset, Put
  <2>7. Givers("action", pieces, "Extra") = IF Len(pieces) < 6 THEN {} ELSE {6}
    BY ActionGivers
  <2>8. Field("action", pieces, "Extra") = E
    BY <1>1, <1>2, <2>7 DEF FieldsFrom, OtherFields, Unset, Put
  <2>9. QED  BY <2>2, <2>4, <2>6, <2>8
<1> HIDE DEF C, E
<1>4. ParseCallbackData(data) = Parsed("action", pieces)
  BY ParseIs
<1>5. ParseCallbackData(data) =
        IF pieces[1] \in valueInContainerSlot
        THEN Fields("action", pieces[1], pieces[2], <<pieces[3]>>, <<pieces[4]>>, "", C)
        ELSE Fields("action", pieces[1], pieces[2], <<pieces[3]>>, <<pieces[4]>>, C, E)
  BY <1>3, <1>4 DEF Parsed
<1>6. QED  BY <1>5 DEF ActionFields, C, E

LEMMA ResourceData1 ==
  ASSUME NEW c
  PROVE  ParseCallbackData(<<"menu", "resource", c>>) = Fields("resource", c, "", NoName, NoName, "", "")
<1> DEFINE pieces == <<c>>  data == <<"menu", "resource", c>>
<1>1. pieces \in Seq({c}) /\ Len(pieces) = 1 /\ Len(pieces) \in 1..4
  OBVIOUS
<1>2. pieces[1] = c
  OBVIOUS
<1>3. data[2] = "resource" /\ SubSeq(data, 3, Len(data)) = pieces
  BY Behind
<1> HIDE DEF pieces, data
<1>4. "" = IF Len(pieces) < 2 THEN "" ELSE pieces[2]
  BY <1>1, <1>2
<1>5. NoName = IF Len(pieces) < 3 THEN NoName ELSE <<pieces[3]>>
  BY <1>1, <1>2
<1>6. NoName = IF Len(pieces) < 4 THEN NoName ELSE <<pieces[4]>>
  BY <1>1, <1>2
<1>7. Len(pieces) < 4 \/ pieces[1] # "page"
  BY <1>1
<1>8. ParseCallbackData(data) = Fields("resource", pieces[1], "", NoName, NoName, "", "")
  BY <1>1, <1>3, <1>4, <1>5, <1>6, <1>7, ParseResource
<1>9. QED  BY <1>2, <1>8 DEF data

LEMMA ResourceData3 ==
  ASSUME NEW c, NEW d, NEW e
  PROVE  ParseCallbackData(<<"menu", "resource", c, d, e>>) = Fields("resource", c, d, <<e>>, NoName, "", "")
<1> DEFINE pieces == <<c, d, e>>  data == <<"menu", "resource", c, d, e>>
<1>1. pieces \in Seq({c, d, e}) /\ Len(pieces) = 3 /\ Len(pieces) \in 1..4
  OBVIOUS
<1>2. pieces[1] = c /\ pieces[2] = d /\ pieces[3] = e
  OBVIOUS
<1>3. data[2] = "resource" /\ SubSeq(data, 3, Len(data)) = pieces
  BY Behind
<1> HIDE DEF pieces, data
<1>4. d = IF Len(pieces) < 2 THEN "" ELSE pieces[2]
  BY <1>1, <1>2
<1>5. <<e>> = IF Len(pieces) < 3 THEN NoName ELSE <<pieces[3]>>
  BY <1>1, <1>2
<1>6. NoName = IF Len(pieces) < 4 THEN NoName ELSE <<pieces[4]>>
  BY <1>1, <1>2
<1>7. Len(pieces) < 4 \/ pieces[1] # "page"
  BY <1>1
<1>8. ParseCallbackData(data) = Fields("resource", pieces[1], d, <<e>>, NoName, "", "")
  BY <1>1, <1>3, <1>4, <1>5, <1>6, <1>7, ParseResource
<1>9. QED  BY <1>2, <1>8 DEF data

LEMMA ResourceData4 ==
  ASSUME NEW c, NEW d, NEW e, NEW f, c # "page"
  PROVE  ParseCallbackData(<<"menu", "resource", c, d, e, f>>) = Fields("resource", c, d, <<e>>, <<f>>, "", "")
<1> DEFINE pieces == <<c, d, e, f>>  data == <<"menu", "resource", c, d, e, f>>
<1>1. pieces \in Seq({c, d, e, f}) /\ Len(pieces) = 4 /\ Len(pieces) \in 1..4
  OBVIOUS
<1>2. pieces[1] = c /\ pieces[2] = d /\ pieces[3] = e /\ pieces[4] = f
  OBVIOUS
<1>3. data[2] = "resource" /\ SubSeq(data, 3, Len(data)) = pieces
  BY Behind
<1> HIDE DEF pieces, data
<1>4. d = IF Len(pieces) < 2 THEN "" ELSE pieces[2]
  BY <1>1, <1>2
<1>5. <<e>> = IF Len(pieces) < 3 THEN NoName ELSE <<pieces[3]>>
  BY <1>1, <1>2
<1>6. <<f>> = IF Len(pieces) < 4 THEN NoName ELSE <<pieces[4]>>
  BY <1>1, <1>2
<1>7. Len(pieces) < 4 \/ pieces[1] # "page"
  BY <1>1, <1>2
<1>8. ParseCallbackData(data) = Fields("resource", pieces[1], d, <<e>>, <<f>>, "", "")
  BY <1>1, <1>3, <1>4, <1>5, <1>6, <1>7, ParseResource
<1>9. QED  BY <1>2, <1>8 DEF data

LEMMA PageData ==
  ASSUME NEW d, NEW e, NEW f
  PROVE  ParseCallbackData(<<"menu", "resource", "page", d, e, f>>) =
     Fields("resource", "page", d, <<e>>, NoName, "", f)
<1> DEFINE pieces == <<"page", d, e, f>>  data == <<"menu", "resource", "page", d, e, f>>
<1>1. pieces \in Seq({"page", d, e, f}) /\ Len(pieces) = 4 /\ Len(pieces) \in 1..4
  OBVIOUS
<1>2. pieces[1] = "page" /\ pieces[2] = d /\ pieces[3] = e /\ pieces[4] = f
  OBVIOUS
<1>3. data[2] = "resource" /\ SubSeq(data, 3, Len(data)) = pieces
  BY Behind
<1> HIDE DEF pieces, data
<1>4. ParseCallbackData(data) =
        Fields("resource", pieces[1], pieces[2], <<pieces[3]>>, NoName, "", pieces[4])
  BY <1>1, <1>2, <1>3, ParsePage
<1>5. QED  BY <1>2, <1>4 DEF data

LEMMA ActionData4 ==
  ASSUME NEW c, NEW d, NEW e, NEW f
  PROVE  ParseCallbackData(<<"menu", "action", c, d, e, f>>) =
     IF c \in valueInContainerSlot THEN Fields("action", c, d, <<e>>, <<f>>, "", "")
     ELSE Fields("action", c, d, <<e>>, <<f>>, "", "")
<1> DEFINE pieces == <<c, d, e, f>>  data == <<"menu", "action", c, d, e, f>>
<1>1. pieces \in Seq({c, d, e, f}) /\ Len(pieces) = 4 /\ Len(pieces) \in 4..6
  OBVIOUS
<1>2. pieces[1] = c /\ pieces[2] = d /\ pieces[3] = e /\ pieces[4] = f
  OBVIOUS
<1>3. data[2] = "action" /\ SubSeq(data, 3, Len(data)) = pieces
  BY Behind
<1> HIDE DEF pieces, data
<1>4. ParseCallbackData(data) = ActionFields(pieces)
  BY <1>1, <1>3, ParseAction
<1>5. ActionFields(pieces) =
       IF c \in valueInContainerSlot THEN Fields("action", c, d, <<e>>, <<f>>, "", "")
       ELSE Fields("action", c, d, <<e>>, <<f>>, "", "")
  BY <1>1, <1>2 DEF ActionFields
<1>6. QED  BY <1>4, <1>5 DEF data

LEMMA ActionData5 ==
  ASSUME NEW c, NEW d, NEW e, NEW f, NEW g
  PROVE  ParseCallbackData(<<"menu", "action", c, d, e, f, g>>) =
     IF c \in valueInContainerSlot THEN Fields("action", c, d, <<e>>, <<f>>, "", g)
     ELSE Fields("action", c, d, <<e>>, <<f>>, g, "")
<1> DEFINE pieces == <<c, d, e, f, g>>  data == <<"menu", "action", c, d, e, f, g>>
<1>1. pieces \in Seq({c, d, e, f, g}) /\ Len(pieces) = 5 /\ Len(pieces) \in 4..6
  OBVIOUS
<1>2. pieces[1] = c /\ pieces[2] = d /\ pieces[3] = e /\ pieces[4] = f /\ pieces[5] = g
  OBVIOUS
<1>3. data[2] = "action" /\ SubSeq(data, 3, Len(data)) = pieces
  BY Behind
<1> HIDE DEF pieces, data
<1>4. ParseCallbackData(data) = ActionFields(pieces)
  BY <1>1, <1>3, ParseAction
<1>5. ActionFields(pieces) =
       IF c \in valueInContainerSlot THEN Fields("action", c, d, <<e>>, <<f>>, "", g)
       ELSE Fields("action", c, d, <<e>>, <<f>>, g, "")
  BY <1>1, <1>2 DEF ActionFields
<1>6. QED  BY <1>4, <1>5 DEF data

LEMMA ActionData6 ==
  ASSUME NEW c, NEW d, NEW e, NEW f, NEW g, NEW h
  PROVE  ParseCallbackData(<<"menu", "action", c, d, e, f, g, h>>) =
     IF c \in valueInContainerSlot THEN Fields("action", c, d, <<e>>, <<f>>, "", g)
     ELSE Fields("action", c, d, <<e>>, <<f>>, g, h)
<1> DEFINE pieces == <<c, d, e, f, g, h>>  data == <<"menu", "action", c, d, e, f, g, h>>
<1>1. pieces \in Seq({c, d, e, f, g, h}) /\ Len(pieces) = 6 /\ Len(pieces) \in 4..6
  OBVIOUS
<1>2. pieces[1] = c /\ pieces[2] = d /\ pieces[3] = e /\ pieces[4] = f /\ pieces[5] = g /\ pieces[6] = h
  OBVIOUS
<1>3. data[2] = "action" /\ SubSeq(data, 3, Len(data)) = pieces
  BY Behind
<1> HIDE DEF pieces, data
<1>4. ParseCallbackData(data) = ActionFields(pieces)
  BY <1>1, <1>3, ParseAction
<1>5. ActionFields(pieces) =
       IF c \in valueInContainerSlot THEN Fields("action", c, d, <<e>>, <<f>>, "", g)
       ELSE Fields("action", c, d, <<e>>, <<f>>, g, h)
  BY <1>1, <1>2 DEF ActionFields
<1>6. QED  BY <1>4, <1>5 DEF data


\* The types whose data is short.
LEMMA ParseBare ==
  ASSUME NEW type \in {"main", "noop", "help"},
         NEW data, data[2] = type, SubSeq(data, 3, Len(data)) = <<>>
  PROVE  ParseCallbackData(data) = Fields(type, "", "", NoName, NoName, "", "")
<1>1. \A f : Givers(type, <<>>, f) = {}
  BY DEF Givers
<1>2. FieldsFrom(type, <<>>)
  <2>1. <<>> \in Seq({}) /\ \A i \in 1..Len(<<>>) : Lone(type, <<>>, i)
    OBVIOUS
  <2>2. QED  BY <2>1, FieldsAre
<1>3. /\ Field(type, <<>>, "Action") = "" /\ Field(type, <<>>, "ResourceType") = ""
      /\ Field(type, <<>>, "Namespace") = NoName /\ Field(type, <<>>, "Name") = NoName
      /\ Field(type, <<>>, "Container") = "" /\ Field(type, <<>>, "Extra") = ""
  BY <1>1, <1>2 DEF FieldsFrom, OtherFields, Unset
<1>4. type # "action"
  OBVIOUS
<1>5. ParseCallbackData(data) = Parsed(type, <<>>)
  BY ParseIs
<1>6. QED  BY <1>3, <1>4, <1>5 DEF Parsed

LEMMA ParsePlain ==
  ASSUME NEW type \in {"monitor", "ctx", "ops", "help", "settings"}, NEW verb,
         NEW data, data[2] = type, SubSeq(data, 3, Len(data)) = <<verb>>
  PROVE  ParseCallbackData(data) = Fields(type, verb, "", NoName, NoName, "", "")
<1>1. /\ DOMAIN Layout(type) \cap 1..1 = {1} /\ Layout(type)[1] = "Action"
      /\ Len(Layout(type)) \in {1, 2} /\ (type \in tailJoinTypes => Len(Layout(type)) = 2)
  BY LayoutsAre DEF tailJoinTypes
<1>2. DOMAIN <<verb>> = 1..1 /\ Len(<<verb>>) = 1 /\ <<verb>>[1] = verb /\ <<verb>> \in Seq({verb})
  OBVIOUS
<1> DEFINE pieces == <<verb>>
<1>3. /\ Givers(type, pieces, "Action") = {1} /\ Givers(type, pieces, "ResourceType") = {}
      /\ Givers(type, pieces, "Namespace") = {} /\ Givers(type, pieces, "Name") = {}
      /\ Givers(type, pieces, "Container") = {} /\ Givers(type, pieces, "Extra") = {}
  <2>1. \A f : Givers(type, <<verb>>, f) = IF f = "Action" THEN {1} ELSE {}
    BY <1>1, <1>2 DEF Givers, Slot
  <2>2. QED  BY <2>1
<1>4. \A i \in 1..Len(pieces) : Lone(type, pieces, i)
  BY <1>2 DEF Lone
<1>5. /\ 1 \in 1..Len(pieces) /\ pieces[1] = verb /\ pieces \in Seq({verb})
      /\ SubSeq(data, 3, Len(data)) = pieces
  BY <1>2
<1> HIDE DEF pieces
<1>51. FieldsFrom(type, pieces)
  BY <1>4, <1>5, FieldsAre
<1>6. /\ Field(type, pieces, "Action") = verb /\ Field(type, pieces, "ResourceType") = ""
      /\ Field(type, pieces, "Namespace") = NoName /\ Field(type, pieces, "Name") = NoName
      /\ Field(type, pieces, "Container") = "" /\ Field(type, pieces, "Extra") = ""
  BY <1>3, <1>5, <1>51 DEF FieldsFrom, OtherFields, Unset, Put
<1>7. type # "action" /\ SubSeq(data, 3, Len(data)) = pieces
  BY <1>5
<1>8. ParseCallbackData(data) = Parsed(type, pieces)
  BY <1>7, ParseIs
<1>9. QED  BY <1>6, <1>7, <1>8 DEF Parsed

\* Data of this type has these pieces behind it.
Carries(data, type, pieces) == data[2] = type /\ SubSeq(data, 3, Len(data)) = pieces

LEMMA ParseNamed ==
  ASSUME NEW type \in {"ctx", "ns"}, NEW verb, NEW name,
         NEW data, Carries(data, type, <<verb, name>>)
  PROVE  ParseCallbackData(data) = Fields(type, verb, "", NoName, <<name>>, "", "")
<1>1. Layout(type) = <<"Action", "Name">> /\ Len(Layout(type)) = 2
  BY LayoutsAre
<1> DEFINE pieces == <<verb, name>>
<1>2. /\ DOMAIN pieces = 1..2 /\ Len(pieces) = 2 /\ pieces[1] = verb /\ pieces[2] = name
      /\ pieces \in Seq({verb, name})
  OBVIOUS
<1>3. \A i \in 1..2 : i = 1 \/ i = 2
  OBVIOUS
<1>4. \A f : Givers(type, pieces, f) = {i \in 1..2 : <<"Action", "Name">>[i] = f}
  BY <1>1, <1>2 DEF Givers, Slot
<1> HIDE DEF pieces
<1>5. /\ Givers(type, pieces, "Action") = {1} /\ Givers(type, pieces, "ResourceType") = {}
      /\ Givers(type, pieces, "Namespace") = {} /\ Givers(type, pieces, "Name") = {2}
      /\ Givers(type, pieces, "Container") = {} /\ Givers(type, pieces, "Extra") = {}
      /\ 1 \in 1..Len(pieces) /\ 2 \in 1..Len(pieces)
  BY <1>2, <1>3, <1>4
<1>6. \A i \in 1..Len(pieces) : Lone(type, pieces, i)
  BY <1>1, <1>2, <1>3 DEF Lone
<1>7. FieldsFrom(type, pieces)
  BY <1>2, <1>6, FieldsAre
<1>8. /\ Field(type, pieces, "Action") = verb /\ Field(type, pieces, "ResourceType") = ""
      /\ Field(type, pieces, "Namespace") = NoName /\ Field(type, pieces, "Name") = <<name>>
      /\ Field(type, pieces, "Container") = "" /\ Field(type, pieces, "Extra") = ""
  BY <1>2, <1>5, <1>7 DEF FieldsFrom, OtherFields, Unset, Put
<1>9. type # "action" /\ data[2] = type /\ SubSeq(data, 3, Len(data)) = pieces
  BY DEF pieces, Carries
<1>10. ParseCallbackData(data) = Parsed(type, pieces)
  BY <1>9, ParseIs
<1>11. QED  BY <1>8, <1>9, <1>10 DEF Parsed

\* Of the name of a context only the first piece is read.
LEMMA ParseSwitch ==
  ASSUME NEW S, NEW pieces \in Seq(S), Len(pieces) >= 2, NEW data, Carries(data, "ctx", pieces)
  PROVE  ParseCallbackData(data) = Fields("ctx", pieces[1], "", NoName, <<pieces[2]>>, "", "")
<1>1. Layout("ctx") = <<"Action", "Name">> /\ "ctx" \notin tailJoinTypes
  BY LayoutsAre DEF tailJoinTypes
<1>2. 1 \in 1..Len(pieces) /\ 2 \in 1..Len(pieces) /\ DOMAIN pieces = 1..Len(pieces)
  OBVIOUS
<1>3. \A f : Givers("ctx", pieces, f) = {i \in 1..2 : <<"Action", "Name">>[i] = f}
  <2>1. DOMAIN <<"Action", "Name">> \cap DOMAIN pieces = 1..2
    BY <1>2
  <2>2. QED  BY <1>1, <2>1 DEF Givers, Slot
<1>4. \A i \in 1..2 : i = 1 \/ i = 2
  OBVIOUS
<1>5. /\ Givers("ctx", pieces, "Action") = {1} /\ Givers("ctx", pieces, "ResourceType") = {}
      /\ Givers("ctx", pieces, "Namespace") = {} /\ Givers("ctx", pieces, "Name") = {2}
      /\ Givers("ctx", pieces, "Container") = {} /\ Givers("ctx", pieces, "Extra") = {}
  BY <1>3, <1>4
<1>6. FieldsFrom("ctx", pieces)
  <2>1. \A i \in 1..Len(pieces) : Lone("ctx", pieces, i)
    BY <1>1 DEF Lone
  <2>2. QED  BY <2>1, FieldsAre
<1>7. /\ Field("ctx", pieces, "Action") = pieces[1] /\ Field("ctx", pieces, "ResourceType") = ""
      /\ Field("ctx", pieces, "Namespace") = NoName /\ Field("ctx", pieces, "Name") = <<pieces[2]>>
      /\ Field("ctx", pieces, "Container") = "" /\ Field("ctx", pieces, "Extra") = ""
  BY <1>2, <1>5, <1>6 DEF FieldsFrom, OtherFields, Unset, Put
<1>8. ParseCallbackData(data) = Parsed("ctx", pieces)
  BY ParseIs DEF Carries
<1>9. QED  BY <1>7, <1>8 DEF Parsed

LEMMA ParseTop ==
  ASSUME NEW verb, NEW kind, NEW data, data[2] = "monitor", SubSeq(data, 3, Len(data)) = <<verb, kind>>
  PROVE  ParseCallbackData(data) = Fields("monitor", verb, kind, NoName, NoName, "", "")
<1>1. /\ Layout("monitor") = <<"Action", "ResourceType">> /\ "monitor" \notin tailJoinTypes
  BY LayoutsAre DEF tailJoinTypes
<1> DEFINE pieces == <<verb, kind>>
<1>2. /\ DOMAIN pieces = 1..2 /\ Len(pieces) = 2 /\ pieces[1] = verb /\ pieces[2] = kind
      /\ pieces \in Seq({verb, kind})
  OBVIOUS
<1>3. \A i \in 1..2 : i = 1 \/ i = 2
  OBVIOUS
<1>4. \A f : Givers("monitor", pieces, f) = {i \in 1..2 : <<"Action", "ResourceType">>[i] = f}
  BY <1>1, <1>2 DEF Givers, Slot
<1> HIDE DEF pieces
<1>5. /\ Givers("monitor", pieces, "Action") = {1} /\ Givers("monitor", pieces, "ResourceType") = {2}
      /\ Givers("monitor", pieces, "Namespace") = {} /\ Givers("monitor", pieces, "Name") = {}
      /\ Givers("monitor", pieces, "Container") = {} /\ Givers("monitor", pieces, "Extra") = {}
      /\ 1 \in 1..Len(pieces) /\ 2 \in 1..Len(pieces)
  BY <1>2, <1>3, <1>4
<1>6. \A i \in 1..Len(pieces) : Lone("monitor", pieces, i)
  BY <1>1 DEF Lone
<1>7. FieldsFrom("monitor", pieces)
  BY <1>2, <1>6, FieldsAre
<1>8. /\ Field("monitor", pieces, "Action") = verb /\ Field("monitor", pieces, "ResourceType") = kind
      /\ Field("monitor", pieces, "Namespace") = NoName /\ Field("monitor", pieces, "Name") = NoName
      /\ Field("monitor", pieces, "Container") = "" /\ Field("monitor", pieces, "Extra") = ""
  BY <1>2, <1>5, <1>7 DEF FieldsFrom, OtherFields, Unset, Put
<1>9. SubSeq(data, 3, Len(data)) = pieces
  BY DEF pieces
<1>10. ParseCallbackData(data) = Parsed("monitor", pieces)
  BY <1>9, ParseIs
<1>11. QED  BY <1>8, <1>10 DEF Parsed

-----------------------------------------------------------------------------
(* The buttons. *)

\* What is read is all that a button was drawn for.
Means(b) == ParseCallbackData(b.data) = b.means

\* The only piece of a name.
LEMMA OnePieces == \A n : OnePiece(n) => \E x : n = <<x>>
BY DEF OnePiece

LEMMA BareMeans ==
  ASSUME NEW type \in {"main", "noop", "help"}
  PROVE  Means(Bare(type)) /\ Bare(type).means = Fields(type, "", "", NoName, NoName, "", "")
<1>1. Bare(type).means = Fields(type, "", "", NoName, NoName, "", "")
  BY DEF Bare, NoFields, Fields
<1>2. Bare(type).data = <<"menu", type>>
  BY DEF Bare
<1> DEFINE data == <<"menu", type>>
<1>3. data[2] = type /\ SubSeq(data, 3, Len(data)) = <<>>
  BY Behind
<1> HIDE DEF data
<1>4. ParseCallbackData(data) = Fields(type, "", "", NoName, NoName, "", "")
  BY <1>3, ParseBare
<1>5. QED  BY <1>1, <1>2, <1>4 DEF Means, data

LEMMA PlainMeans ==
  ASSUME NEW type \in {"resource", "monitor", "ctx", "ops", "help", "settings"}, NEW verb
  PROVE  Means(Plain(type, verb)) /\ Plain(type, verb).means = Fields(type, verb, "", NoName, NoName, "", "")
<1>1. Plain(type, verb).means = Fields(type, verb, "", NoName, NoName, "", "")
  BY DEF Plain, NoFields, Fields
<1> DEFINE data == <<"menu", type, verb>>
<1>2. Plain(type, verb).data = data
  BY DEF Plain
<1>3. data[2] = type /\ SubSeq(data, 3, Len(data)) = <<verb>>
  BY Behind
<1>4. CASE type = "resource"
  BY <1>1, <1>2, <1>4, ResourceData1 DEF Means
<1>5. CASE type # "resource"
  <2>1. type \in {"monitor", "ctx", "ops", "help", "settings"}
    BY <1>5
  <2> HIDE DEF data
  <2>2. ParseCallbackData(data) = Fields(type, verb, "", NoName, NoName, "", "")
    BY <1>3, <2>1, ParsePlain
  <2>3. QED  BY <1>1, <1>2, <2>2 DEF Means
<1>6. QED  BY <1>4, <1>5

LEMMA NamedMeans ==
  ASSUME NEW type \in {"ctx", "ns"}, NEW verb, NEW name, OnePiece(name)
  PROVE  /\ Means(Named(type, verb, name))
         /\ Named(type, verb, name).means = Fields(type, verb, "", NoName, name, "", "")
<1>1. Named(type, verb, name).means = Fields(type, verb, "", NoName, name, "", "")
  BY DEF Named, NoFields, Fields
<1>2. PICK x : name = <<x>>
  BY OnePieces
<1> DEFINE data == <<"menu", type, verb, x>>
<1>3. Named(type, verb, name).data = data
  <2>1. Named(type, verb, name).data = <<"menu", type, verb>> \o <<x>>
    BY <1>2 DEF Named
  <2>2. QED  BY <2>1, Join31
<1>4. Carries(data, type, <<verb, x>>)
  <2>1. data[2] = type /\ SubSeq(data, 3, Len(data)) = <<verb, x>>
    BY Behind
  <2>2. QED  BY <2>1 DEF Carries
<1> HIDE DEF data
<1>5. ParseCallbackData(data) = Fields(type, verb, "", NoName, <<x>>, "", "")
  BY <1>4, ParseNamed
<1>6. QED  BY <1>1, <1>2, <1>3, <1>5 DEF Means

Top(kind) ==
  [data |-> <<"menu", "monitor", "top", kind>>,
   means |-> [Plain("monitor", "top").means EXCEPT !.ResourceType = kind]]

LEMMA TopMeans ==
  ASSUME NEW kind
  PROVE  Means(Top(kind)) /\ Top(kind).means = Fields("monitor", "top", kind, NoName, NoName, "", "")
<1>1. Top(kind).means = Fields("monitor", "top", kind, NoName, NoName, "", "")
  BY DEF Top, Plain, NoFields, Fields
<1> DEFINE data == <<"menu", "monitor", "top", kind>>
<1>2. Top(kind).data = data
  BY DEF Top
<1>3. data[2] = "monitor" /\ SubSeq(data, 3, Len(data)) = <<"top", kind>>
  BY Behind
<1> HIDE DEF data
<1>4. ParseCallbackData(data) = Fields("monitor", "top", kind, NoName, NoName, "", "")
  BY <1>3, ParseTop
<1>5. QED  BY <1>1, <1>2, <1>4 DEF Means

LEMMA ViewMeans ==
  ASSUME NEW kind, NEW n, NEW name, OnePiece(n), OnePiece(name)
  PROVE  /\ Means(View(kind, n, name))
         /\ View(kind, n, name).means = Fields("resource", "view", kind, n, name, "", "")
<1>1. View(kind, n, name).means = Fields("resource", "view", kind, n, name, "", "")
  BY DEF View, NoFields, Fields
<1>2. PICK x : n = <<x>>
  BY OnePieces
<1>3. PICK y : name = <<y>>
  BY OnePieces
<1>4. View(kind, n, name).data = <<"menu", "resource", "view", kind, x, y>>
  <2>1. View(kind, n, name).data = <<"menu", "resource", "view", kind>> \o <<x>> \o <<y>>
    BY <1>2, <1>3 DEF View
  <2>2. <<"menu", "resource", "view", kind>> \o <<x>> = <<"menu", "resource", "view", kind, x>>
    BY Join41
  <2>3. <<"menu", "resource", "view", kind, x>> \o <<y>> = <<"menu", "resource", "view", kind, x, y>>
    BY Join51
  <2>4. QED  BY <2>1, <2>2, <2>3, Zenon
<1>5. ParseCallbackData(<<"menu", "resource", "view", kind, x, y>>)
        = Fields("resource", "view", kind, <<x>>, <<y>>, "", "")
  BY ResourceData4
<1>6. QED  BY <1>1, <1>2, <1>3, <1>4, <1>5, Zenon DEF Means

LEMMA ListsMeans ==
  ASSUME NEW verb, NEW type, NEW n, OnePiece(n)
  PROVE  /\ Means(Lists(verb, type, n))
         /\ Lists(verb, type, n).means = Fields("resource", verb, type, n, NoName, "", "")
<1>1. Lists(verb, type, n).means = Fields("resource", verb, type, n, NoName, "", "")
  BY DEF Lists, NoFields, Fields
<1>2. PICK x : n = <<x>>
  BY OnePieces
<1>3. Lists(verb, type, n).data = <<"menu", "resource", verb, type, x>>
  <2>1. Lists(verb, type, n).data = <<"menu", "resource", verb, type>> \o <<x>>
    BY <1>2 DEF Lists
  <2>2. QED  BY <2>1, Join41
<1>4. ParseCallbackData(<<"menu", "resource", verb, type, x>>)
        = Fields("resource", verb, type, <<x>>, NoName, "", "")
  BY ResourceData3
<1>5. QED  BY <1>1, <1>2, <1>3, <1>4, Zenon DEF Means

LEMMA ListsPageMeans ==
  ASSUME NEW type, NEW n, NEW page, OnePiece(n)
  PROVE  /\ Means(ListsPage(type, n, page))
         /\ ListsPage(type, n, page).means
              = Fields("resource", "page", type, n, NoName, "", ToString(page))
<1>1. ListsPage(type, n, page).means = Fields("resource", "page", type, n, NoName, "", ToString(page))
  BY DEF ListsPage, NoFields, Fields
<1>2. PICK x : n = <<x>>
  BY OnePieces
<1> DEFINE y == ToString(page)
<1>3. ListsPage(type, n, page).data = <<"menu", "resource", "page", type>> \o <<x>> \o <<y>>
  BY <1>2 DEF ListsPage
<1> HIDE DEF y
<1>4. ListsPage(type, n, page).data = <<"menu", "resource", "page", type, x, y>>
  <2>2. <<"menu", "resource", "page", type>> \o <<x>> = <<"menu", "resource", "page", type, x>>
    BY Join41
  <2>3. <<"menu", "resource", "page", type, x>> \o <<y>> = <<"menu", "resource", "page", type, x, y>>
    BY Join51
  <2>4. QED  BY <1>3, <2>2, <2>3, Zenon
<1>5. ParseCallbackData(<<"menu", "resource", "page", type, x, y>>)
        = Fields("resource", "page", type, <<x>>, NoName, "", y)
  BY PageData
<1>6. QED  BY <1>1, <1>2, <1>4, <1>5, Zenon DEF Means, y

LEMMA ActionJoins ==
  ASSUME NEW verb, NEW kind, NEW args, NEW x, NEW y
  PROVE  actionData(verb, kind, <<x>>, <<y>>, args) = <<"menu", "action", verb, kind, x, y>> \o args
<1>1. <<"menu", "action", verb, kind>> \o <<x>> = <<"menu", "action", verb, kind, x>>
  BY Join41
<1>2. <<"menu", "action", verb, kind, x>> \o <<y>> = <<"menu", "action", verb, kind, x, y>>
  BY Join51
<1>3. QED  BY <1>1, <1>2, Zenon DEF actionData

LEMMA NoMore ==
  ASSUME NEW verb, NEW kind, NEW x, NEW y
  PROVE  <<"menu", "action", verb, kind, x, y>> \o <<>> = <<"menu", "action", verb, kind, x, y>>
<1> DEFINE start == <<"menu", "action", verb, kind, x, y>>
<1>1. start \in Seq({"menu", "action", verb, kind, x, y})
  OBVIOUS
<1> HIDE DEF start
<1>2. start \o <<>> = start
  BY <1>1, ConcatEmptySeq
<1>3. QED  BY <1>2 DEF start

LEMMA ActsMeans ==
  ASSUME NEW verb, verb \notin valueInContainerSlot, NEW kind, NEW n, NEW name, OnePiece(n), OnePiece(name)
  PROVE  /\ Means(Acts(verb, kind, n, name))
         /\ Acts(verb, kind, n, name).means = Fields("action", verb, kind, n, name, "", "")
<1>1. Acts(verb, kind, n, name).means = Fields("action", verb, kind, n, name, "", "")
  BY DEF Acts, NoFields, Fields
<1>2. PICK x : n = <<x>>
  BY OnePieces
<1>3. PICK y : name = <<y>>
  BY OnePieces
<1>4. Acts(verb, kind, n, name).data = <<"menu", "action", verb, kind, x, y>>
  <2>1. Acts(verb, kind, n, name).data = actionData(verb, kind, <<x>>, <<y>>, <<>>)
    BY <1>2, <1>3 DEF Acts
  <2>2. actionData(verb, kind, <<x>>, <<y>>, <<>>) = <<"menu", "action", verb, kind, x, y>> \o <<>>
    BY ActionJoins
  <2>3. QED  BY <2>1, <2>2, NoMore
<1>5. ParseCallbackData(<<"menu", "action", verb, kind, x, y>>)
        = Fields("action", verb, kind, <<x>>, <<y>>, "", "")
  BY ActionData4
<1>6. QED  BY <1>1, <1>2, <1>3, <1>4, <1>5, Zenon DEF Means

LEMMA ActsOnMeans ==
  ASSUME NEW verb, verb \notin valueInContainerSlot, NEW n, NEW name, NEW c,
         OnePiece(n), OnePiece(name)
  PROVE  /\ Means(ActsOn(verb, n, name, c))
         /\ ActsOn(verb, n, name, c).means = Fields("action", verb, "pods", n, name, c, "")
<1>1. ActsOn(verb, n, name, c).means = Fields("action", verb, "pods", n, name, c, "")
  BY DEF ActsOn, Acts, NoFields, Fields
<1>2. PICK x : n = <<x>>
  BY OnePieces
<1>3. PICK y : name = <<y>>
  BY OnePieces
<1>4. ActsOn(verb, n, name, c).data = <<"menu", "action", verb, "pods", x, y, c>>
  <2>1. ActsOn(verb, n, name, c).data = actionData(verb, "pods", <<x>>, <<y>>, <<c>>)
    BY <1>2, <1>3 DEF ActsOn
  <2>2. actionData(verb, "pods", <<x>>, <<y>>, <<c>>) = <<"menu", "action", verb, "pods", x, y>> \o <<c>>
    BY ActionJoins
  <2>3. QED  BY <2>1, <2>2, Join61
<1>5. ParseCallbackData(<<"menu", "action", verb, "pods", x, y, c>>)
        = Fields("action", verb, "pods", <<x>>, <<y>>, c, "")
  BY ActionData5
<1>6. QED  BY <1>1, <1>2, <1>3, <1>4, <1>5, Zenon DEF Means

LEMMA TailsMeans ==
  ASSUME NEW n, NEW name, NEW c, NEW lines, OnePiece(n), OnePiece(name)
  PROVE  /\ Means(Tails(n, name, c, lines))
         /\ Tails(n, name, c, lines).means = Fields("action", "logs", "pods", n, name, c, lines)
<1>1. Tails(n, name, c, lines).means = Fields("action", "logs", "pods", n, name, c, lines)
  BY DEF Tails, ActsOn, Acts, NoFields, Fields
<1>2. PICK x : n = <<x>>
  BY OnePieces
<1>3. PICK y : name = <<y>>
  BY OnePieces
<1>4. Tails(n, name, c, lines).data = <<"menu", "action", "logs", "pods", x, y, c, lines>>
  <2>1. Tails(n, name, c, lines).data = actionData("logs", "pods", <<x>>, <<y>>, <<c, lines>>)
    BY <1>2, <1>3 DEF Tails
  <2>2. actionData("logs", "pods", <<x>>, <<y>>, <<c, lines>>) = <<"menu", "action", "logs", "pods", x, y>> \o <<c, lines>>
    BY ActionJoins
  <2>3. QED  BY <2>1, <2>2, Join62
<1>5. ParseCallbackData(<<"menu", "action", "logs", "pods", x, y, c, lines>>)
        = Fields("action", "logs", "pods", <<x>>, <<y>>, c, lines)
  BY ActionData6 DEF valueInContainerSlot
<1>6. QED  BY <1>1, <1>2, <1>3, <1>4, <1>5, Zenon DEF Means

LEMMA ScalesMeans ==
  ASSUME NEW kind, NEW n, NEW name, NEW replicas, OnePiece(n), OnePiece(name)
  PROVE  /\ Means(Scales(kind, n, name, replicas))
         /\ Scales(kind, n, name, replicas).means
              = Fields("action", "scaleset", kind, n, name, "", replicas)
<1>1. Scales(kind, n, name, replicas).means
        = Fields("action", "scaleset", kind, n, name, "", replicas)
  BY DEF Scales, Acts, NoFields, Fields
<1>2. PICK x : n = <<x>>
  BY OnePieces
<1>3. PICK y : name = <<y>>
  BY OnePieces
<1>4. Scales(kind, n, name, replicas).data = <<"menu", "action", "scaleset", kind, x, y, replicas>>
  <2>1. Scales(kind, n, name, replicas).data = actionData("scaleset", kind, <<x>>, <<y>>, <<replicas>>)
    BY <1>2, <1>3 DEF Scales
  <2>2. actionData("scaleset", kind, <<x>>, <<y>>, <<replicas>>) = <<"menu", "action", "scaleset", kind, x, y>> \o <<replicas>>
    BY ActionJoins
  <2>3. QED  BY <2>1, <2>2, Join61
<1>5. ParseCallbackData(<<"menu", "action", "scaleset", kind, x, y, replicas>>)
        = Fields("action", "scaleset", kind, <<x>>, <<y>>, "", replicas)
  BY ActionData5 DEF valueInContainerSlot
<1>6. QED  BY <1>1, <1>2, <1>3, <1>4, <1>5, Zenon DEF Means

-----------------------------------------------------------------------------
(* The screens' keyboards. *)

Good(b) ==
  Whole(b.means) /\ ParseCallbackData(b.data) = AsRead(b.means) /\ ActOK(AsRead(b.means))

\* The name of a context apart, what is read is what was meant.
LEMMA AsReadIs ==
  ASSUME NEW m, Whole(m)
  PROVE  /\ AsRead(m).Type = m.Type /\ AsRead(m).Action = m.Action
         /\ m.Type # "ctx" => AsRead(m) = m
<1>1. [m EXCEPT !.Name = <<Head(m.Name)>>].Type = m.Type
  BY DEF Whole
<1>2. [m EXCEPT !.Name = <<Head(m.Name)>>].Action = m.Action
  BY DEF Whole
<1>3. QED  BY <1>1, <1>2 DEF AsRead

LEMMA GoodIf ==
  ASSUME NEW b, Means(b), ActOK(b.means), b.means.Type # "ctx" \/ b.means.Action # "switch"
  PROVE  Good(b)
<1>1. Whole(b.means)
  BY DEF ActOK
<1>2. AsRead(b.means) = b.means
  BY DEF AsRead
<1>3. QED  BY <1>1, <1>2 DEF Good, Means

LEMMA Types10 ==
  DOMAIN callbackFields =
    {"resource", "action", "ctx", "monitor", "ops", "settings", "ns", "main", "noop", "help"}
BY DEF callbackFields

LEMMA NoNameIs == OnePiece(NoName)
BY DEF OnePiece, NoName

LEMMA GoodBare == \A type \in {"main", "noop", "help"} : Good(Bare(type))
<1>1. ASSUME NEW type \in {"main", "noop", "help"}
      PROVE  Good(Bare(type))
  <2>1. Means(Bare(type)) /\ Bare(type).means = Fields(type, "", "", NoName, NoName, "", "")
    BY BareMeans
  <2> DEFINE a == Bare(type).means
  <2>a. a = Fields(type, "", "", NoName, NoName, "", "")
    BY <2>1
  <2> HIDE DEF a
  <2>2. /\ a.Type = type /\ a.Namespace = NoName /\ a.Name = NoName /\ Whole(a)
    BY <2>a DEF Fields, Whole
  <2>3. ActOK(a)
    BY <2>2, Types10, NoNameIs DEF ActOK
  <2>4. QED  BY <2>1, <2>2, <2>3, GoodIf DEF a
<1>2. QED  BY <1>1

\* The sections and the verbs of their menus.
SectionVerbs(type) ==
  CASE type = "monitor" -> {"home", "top", "events", "watch"}
    [] type = "ops" -> {"home", "restart", "scale", "delete", "edit"}
    [] type = "ctx" -> {"refresh"}
    [] type = "settings" -> {"home", "namespace", "context", "theme", "notifications"}
    [] type = "help" -> {"resources", "workloads", "networking", "storage",
                         "monitoring", "operations", "settings", "all"}

LEMMA GoodSection ==
  \A type \in {"monitor", "ops", "ctx", "settings", "help"} :
    \A verb \in SectionVerbs(type) : Good(Plain(type, verb))
<1>1. ASSUME NEW type \in {"monitor", "ops", "ctx", "settings", "help"}, NEW verb \in SectionVerbs(type)
      PROVE  Good(Plain(type, verb))
  <2>1. Means(Plain(type, verb)) /\ Plain(type, verb).means = Fields(type, verb, "", NoName, NoName, "", "")
    BY PlainMeans
  <2> DEFINE a == Plain(type, verb).means
  <2>a. a = Fields(type, verb, "", NoName, NoName, "", "")
    BY <2>1
  <2> HIDE DEF a
  <2>2. /\ a.Type = type /\ a.Action = verb /\ a.Namespace = NoName /\ a.Name = NoName /\ Whole(a)
    BY <2>a DEF Fields, Whole
  <2>3. /\ type = "monitor" => verb \in {"home", "top", "events", "watch"}
        /\ type = "ops" => verb \in {"home", "restart", "scale", "delete", "edit"}
        /\ type = "ctx" => verb = "refresh"
        /\ type = "settings" => verb \in {"home", "context", "namespace"} \cup Unserved
    BY DEF SectionVerbs, Unserved
  <2>4. ActOK(a)
    BY <2>2, <2>3, Types10, NoNameIs DEF ActOK
  <2>5. QED  BY <2>1, <2>2, <2>3, <2>4, GoodIf DEF a
<1>2. QED  BY <1>1

LEMMA GoodTop == \A kind : Good(Top(kind))
<1>1. ASSUME NEW kind
      PROVE  Good(Top(kind))
  <2>1. Means(Top(kind)) /\ Top(kind).means = Fields("monitor", "top", kind, NoName, NoName, "", "")
    BY TopMeans
  <2> DEFINE a == Top(kind).means
  <2>a. a = Fields("monitor", "top", kind, NoName, NoName, "", "")
    BY <2>1
  <2> HIDE DEF a
  <2>2. /\ a.Type = "monitor" /\ a.Action = "top" /\ a.Namespace = NoName /\ a.Name = NoName /\ Whole(a)
    BY <2>a DEF Fields, Whole
  <2>3. ActOK(a)
    BY <2>2, Types10, NoNameIs DEF ActOK
  <2>4. QED  BY <2>1, <2>2, <2>3, GoodIf DEF a
<1>2. QED  BY <1>1

LEMMA GoodResource ==
  ASSUME NEW verb, verb = "types" \/ Known(verb)
  PROVE  Good(Plain("resource", verb))
<1>1. /\ Means(Plain("resource", verb))
      /\ Plain("resource", verb).means = Fields("resource", verb, "", NoName, NoName, "", "")
  BY PlainMeans
<1> DEFINE a == Plain("resource", verb).means
<1>a. a = Fields("resource", verb, "", NoName, NoName, "", "")
  BY <1>1
<1> HIDE DEF a
<1>2. /\ a.Type = "resource" /\ a.Action = verb /\ a.ResourceType = ""
      /\ a.Namespace = NoName /\ a.Name = NoName /\ Whole(a)
  BY <1>a DEF Fields, Whole
<1>3. ActOK(a)
  BY <1>2, Types10, NoNameIs DEF ActOK
<1>4. QED  BY <1>1, <1>2, <1>3, GoodIf DEF a

LEMMA GoodNamed ==
  ASSUME NEW verb, NEW name, OnePiece(name),
         \/ verb = "set" /\ name \in Scopes
         \/ verb = "page"
         \/ verb = "pick" /\ name[1] \in ListTypes
  PROVE  Good(Named("ns", verb, name))
<1>1. /\ Means(Named("ns", verb, name))
      /\ Named("ns", verb, name).means = Fields("ns", verb, "", NoName, name, "", "")
  BY NamedMeans
<1> DEFINE a == Named("ns", verb, name).means
<1>a. a = Fields("ns", verb, "", NoName, name, "", "")
  BY <1>1
<1> HIDE DEF a
<1>2. /\ a.Type = "ns" /\ a.Action = verb /\ a.Namespace = NoName /\ a.Name = name /\ Whole(a)
  BY <1>a DEF Fields, Whole
<1>3. ActOK(a)
  BY <1>2, Types10, NoNameIs DEF ActOK
<1>4. QED  BY <1>1, <1>2, <1>3, GoodIf DEF a

LEMMA SmallTuples ==
  ASSUME NEW S, NEW x \in S, NEW y \in S, NEW z \in S
  PROVE  /\ <<x>> \in Seq(S) /\ Len(<<x>>) = 1 /\ <<x>>[1] = x
         /\ <<x, y, z>> \in Seq(S) /\ Len(<<x, y, z>>) = 3
         /\ <<x, y, z>>[2] = y /\ <<x, y, z>>[3] = z
OBVIOUS

\* The button of a context, whose name may have colons.
LEMMA GoodSwitch ==
  ASSUME NEW c \in Seq(STRING), c # <<>>
  PROVE  Good(Named("ctx", "switch", c))
<1> DEFINE b == Named("ctx", "switch", c)
           pieces == <<"switch">> \o c
           x == c[1]
           S == STRING \cup {"menu", "ctx", "switch"}
<1>0. c \in Seq(S) /\ "menu" \in S /\ "ctx" \in S /\ "switch" \in S
  OBVIOUS
<1>1. b.means = Fields("ctx", "switch", "", NoName, c, "", "") /\ b.data = <<"menu", "ctx", "switch">> \o c
  BY DEF Named, NoFields, Fields
<1>2. Len(c) \in Nat \ {0} /\ Head(c) = x
  OBVIOUS
<1>3. /\ pieces \in Seq(S) /\ Len(pieces) = Len(c) + 1
      /\ pieces[1] = "switch" /\ \A i \in 1..Len(c) : pieces[i + 1] = c[i]
  <2> DEFINE t == <<"switch">>
  <2>1. t \in Seq(S) /\ Len(t) = 1 /\ t[1] = "switch"
    BY <1>0, SmallTuples
  <2> HIDE DEF t
  <2>2. /\ t \o c \in Seq(S) /\ Len(t \o c) = Len(t) + Len(c)
        /\ \A i \in 1..(Len(t) + Len(c)) : (t \o c)[i] = IF i <= Len(t) THEN t[i] ELSE c[i - Len(t)]
    BY <1>0, <2>1, ConcatProperties
  <2>3. \A i \in 1..Len(c) : i + 1 \in 1..(1 + Len(c)) /\ ~(i + 1 <= 1) /\ (i + 1) - 1 = i
    BY <1>2
  <2>4. (t \o c)[1] = "switch" /\ \A i \in 1..Len(c) : (t \o c)[i + 1] = c[i]
    BY <1>2, <2>1, <2>2, <2>3
  <2>5. QED  BY <1>2, <2>1, <2>2, <2>4 DEF t
<1>4. /\ Len(b.data) = Len(c) + 3 /\ b.data[2] = "ctx" /\ b.data[3] = "switch"
      /\ \A i \in 1..Len(c) : b.data[i + 3] = c[i]
  <2> DEFINE t == <<"menu", "ctx", "switch">>
  <2>1. t \in Seq(S) /\ Len(t) = 3 /\ t[2] = "ctx" /\ t[3] = "switch"
    BY <1>0, SmallTuples
  <2>2. b.data = t \o c
    BY <1>1
  <2> HIDE DEF t, b
  <2>a. /\ Len(t \o c) = Len(t) + Len(c)
        /\ \A i \in 1..(Len(t) + Len(c)) : (t \o c)[i] = IF i <= Len(t) THEN t[i] ELSE c[i - Len(t)]
    BY <1>0, <2>1, ConcatProperties
  <2>3. /\ Len(b.data) = Len(t) + Len(c)
        /\ \A i \in 1..(Len(t) + Len(c)) : b.data[i] = IF i <= Len(t) THEN t[i] ELSE c[i - Len(t)]
    BY <2>2, <2>a
  <2>4. \A i \in 1..Len(c) : i + 3 \in 1..(3 + Len(c)) /\ ~(i + 3 <= 3) /\ (i + 3) - 3 = i
    BY <1>2
  <2>5. \A i \in 1..Len(c) : b.data[i + 3] = c[i]
    BY <1>2, <2>1, <2>3, <2>4
  <2>6. 2 \in 1..(3 + Len(c)) /\ 3 \in 1..(3 + Len(c)) /\ 2 <= 3
    BY <1>2
  <2>7. QED  BY <1>2, <2>1, <2>3, <2>5, <2>6
<1> HIDE DEF b, pieces, x
<1>5. Carries(b.data, "ctx", pieces)
  <2>1. \A i \in 1..Len(pieces) : b.data[i + 2] = pieces[i]
    <3>1. ASSUME NEW i \in 1..Len(pieces)
          PROVE  b.data[i + 2] = pieces[i]
      <4>1. CASE i = 1
        BY <1>3, <1>4, <4>1
      <4>2. CASE i # 1
        <5>1. i - 1 \in 1..Len(c) /\ (i - 1) + 1 = i /\ (i - 1) + 3 = i + 2
          BY <1>2, <1>3, <4>2
        <5>2. QED  BY <1>3, <1>4, <5>1
      <4>3. QED  BY <4>1, <4>2
    <3>2. QED  BY <3>1
  <2>2. Len(b.data) = Len(pieces) + 2
    BY <1>2, <1>3, <1>4
  <2>3. SubSeq(b.data, 3, Len(b.data)) = pieces
    BY <1>3, <2>1, <2>2, BehindType
  <2>4. QED  BY <1>4, <2>3 DEF Carries
<1>6. pieces[2] = x /\ Len(pieces) >= 2
  <2>1. 1 \in 1..Len(c) /\ 1 + 1 = 2
    BY <1>2
  <2>2. pieces[2] = c[1]
    BY <1>3, <2>1
  <2>3. QED  BY <1>2, <1>3, <2>2 DEF x
<1>7. ParseCallbackData(b.data) = Fields("ctx", "switch", "", NoName, <<x>>, "", "")
  <2>1. ParseCallbackData(b.data) = Fields("ctx", pieces[1], "", NoName, <<pieces[2]>>, "", "")
    BY <1>3, <1>5, <1>6, ParseSwitch
  <2>2. QED  BY <1>3, <1>6, <2>1
<1> DEFINE m == b.means
           a == AsRead(m)
<1>m. m = Fields("ctx", "switch", "", NoName, c, "", "")
  BY <1>1
<1> HIDE DEF m
<1>8. m.Type = "ctx" /\ m.Action = "switch" /\ m.Name = c /\ Whole(m)
  BY <1>m DEF Fields, Whole
<1>9. a = Fields("ctx", "switch", "", NoName, <<x>>, "", "")
  <2>1. a = [m EXCEPT !.Name = <<x>>]
    BY <1>2, <1>8 DEF AsRead
  <2> HIDE DEF a
  <2>2. QED  BY <1>m, <2>1 DEF Fields
<1> HIDE DEF a
<1>10. /\ a.Type = "ctx" /\ a.Action = "switch" /\ a.Namespace = NoName /\ a.Name = <<x>> /\ Whole(a)
  BY <1>9 DEF Fields, Whole
<1>11. OnePiece(<<x>>)
  BY DEF OnePiece
<1>12. ActOK(a)
  BY <1>10, <1>11, Types10, NoNameIs DEF ActOK
<1>13. QED  BY <1>7, <1>8, <1>9, <1>12 DEF Good, a, m, b

LEMMA GoodView ==
  ASSUME NEW type \in ButtonTypes, NEW n, NEW name, ItemOK(CanonicalResource(type), n, name)
  PROVE  Good(View(type, n, name))
<1>1. OnePiece(n) /\ OnePiece(name)
  BY DEF ItemOK, ObjectOK
<1>2. /\ Means(View(type, n, name))
      /\ View(type, n, name).means = Fields("resource", "view", type, n, name, "", "")
  BY <1>1, ViewMeans
<1> DEFINE a == View(type, n, name).means
<1>a. a = Fields("resource", "view", type, n, name, "", "")
  BY <1>2
<1> HIDE DEF a
<1>3. /\ a.Type = "resource" /\ a.Action = "view" /\ a.ResourceType = type
      /\ a.Namespace = n /\ a.Name = name /\ Whole(a)
  BY <1>a DEF Fields, Whole
<1>4. ActOK(a)
  BY <1>1, <1>3, Types10 DEF ActOK
<1>5. QED  BY <1>2, <1>3, <1>4, GoodIf DEF a

LEMMA GoodLists ==
  ASSUME NEW type \in ButtonTypes, NEW n, OnePiece(n)
  PROVE  /\ \A verb \in {"refresh", "list"} : Good(Lists(verb, type, n))
         /\ \A page : Good(ListsPage(type, n, page))
<1>1. ASSUME NEW verb \in {"refresh", "list"}
      PROVE  Good(Lists(verb, type, n))
  <2>1. /\ Means(Lists(verb, type, n))
        /\ Lists(verb, type, n).means = Fields("resource", verb, type, n, NoName, "", "")
    BY ListsMeans
  <2> DEFINE a == Lists(verb, type, n).means
  <2>a. a = Fields("resource", verb, type, n, NoName, "", "")
    BY <2>1
  <2> HIDE DEF a
  <2>2. /\ a.Type = "resource" /\ a.Action = verb /\ a.ResourceType = type
        /\ a.Namespace = n /\ a.Name = NoName /\ Whole(a)
    BY <2>a DEF Fields, Whole
  <2>3. ActOK(a)
    BY <2>2, Types10, NoNameIs DEF ActOK
  <2>4. QED  BY <2>1, <2>2, <2>3, GoodIf DEF a
<1>2. ASSUME NEW page
      PROVE  Good(ListsPage(type, n, page))
  <2>1. /\ Means(ListsPage(type, n, page))
        /\ ListsPage(type, n, page).means
             = Fields("resource", "page", type, n, NoName, "", ToString(page))
    BY ListsPageMeans
  <2> DEFINE a == ListsPage(type, n, page).means
  <2>a. a = Fields("resource", "page", type, n, NoName, "", ToString(page))
    BY <2>1
  <2> HIDE DEF a
  <2>2. /\ a.Type = "resource" /\ a.Action = "page" /\ a.ResourceType = type
        /\ a.Namespace = n /\ a.Name = NoName /\ Whole(a)
    BY <2>a DEF Fields, Whole
  <2>3. ActOK(a)
    BY <2>2, Types10, NoNameIs DEF ActOK
  <2>4. QED  BY <2>1, <2>2, <2>3, GoodIf DEF a
<1>3. QED  BY <1>1, <1>2

Verbs == NodeVerbs \cup PodVerbs \cup OtherVerbs

LEMMA GoodActs ==
  ASSUME NEW kind, NEW n, NEW name, ObjectOK(kind, n, name),
         NEW verb \in Verbs \ {"scaleset"},
         verb \in NodeVerbs => kind = "nodes", verb \in PodVerbs => kind = "pods",
         verb \in {"pods", "rspods"} => kind \in {"deployments", "replicasets"}
  PROVE  Good(Acts(verb, kind, n, name))
<1>1. OnePiece(n) /\ OnePiece(name) /\ verb \notin valueInContainerSlot
  BY DEF ObjectOK, valueInContainerSlot
<1>2. /\ Means(Acts(verb, kind, n, name))
      /\ Acts(verb, kind, n, name).means = Fields("action", verb, kind, n, name, "", "")
  BY <1>1, ActsMeans
<1> DEFINE a == Acts(verb, kind, n, name).means
<1>a. a = Fields("action", verb, kind, n, name, "", "")
  BY <1>2
<1> HIDE DEF a
<1>3. /\ a.Type = "action" /\ a.Action = verb /\ a.ResourceType = kind
      /\ a.Namespace = n /\ a.Name = name /\ Whole(a)
  BY <1>a DEF Fields, Whole
<1>4. ActOK(a)
  BY <1>1, <1>3, Types10 DEF ActOK, Verbs
<1>5. QED  BY <1>2, <1>3, <1>4, GoodIf DEF a

LEMMA GoodActsOn ==
  ASSUME NEW n, NEW name, ObjectOK("pods", n, name), NEW c, NEW verb \in PodVerbs
  PROVE  Good(ActsOn(verb, n, name, c))
<1>1. OnePiece(n) /\ OnePiece(name) /\ verb \notin valueInContainerSlot
  BY DEF ObjectOK, valueInContainerSlot, PodVerbs
<1>2. /\ Means(ActsOn(verb, n, name, c))
      /\ ActsOn(verb, n, name, c).means = Fields("action", verb, "pods", n, name, c, "")
  BY <1>1, ActsOnMeans
<1> DEFINE a == ActsOn(verb, n, name, c).means
<1>a. a = Fields("action", verb, "pods", n, name, c, "")
  BY <1>2
<1> HIDE DEF a
<1>3. /\ a.Type = "action" /\ a.Action = verb /\ a.ResourceType = "pods"
      /\ a.Namespace = n /\ a.Name = name /\ Whole(a)
  BY <1>a DEF Fields, Whole
<1>4. verb \notin NodeVerbs /\ verb \notin {"pods", "rspods"} /\ verb # "scaleset"
  BY DEF PodVerbs, NodeVerbs
<1>5. ActOK(a)
  BY <1>1, <1>3, <1>4, Types10 DEF ActOK
<1>6. QED  BY <1>2, <1>3, <1>5, GoodIf DEF a

LEMMA GoodTails ==
  ASSUME NEW n, NEW name, ObjectOK("pods", n, name), NEW c, NEW lines
  PROVE  Good(Tails(n, name, c, lines))
<1>1. OnePiece(n) /\ OnePiece(name)
  BY DEF ObjectOK
<1>2. /\ Means(Tails(n, name, c, lines))
      /\ Tails(n, name, c, lines).means = Fields("action", "logs", "pods", n, name, c, lines)
  BY <1>1, TailsMeans
<1> DEFINE a == Tails(n, name, c, lines).means
<1>a. a = Fields("action", "logs", "pods", n, name, c, lines)
  BY <1>2
<1> HIDE DEF a
<1>3. /\ a.Type = "action" /\ a.Action = "logs" /\ a.ResourceType = "pods"
      /\ a.Namespace = n /\ a.Name = name /\ Whole(a)
  BY <1>a DEF Fields, Whole
<1>4. "logs" \in PodVerbs /\ "logs" \notin NodeVerbs
  BY DEF PodVerbs, NodeVerbs
<1>5. ActOK(a)
  BY <1>1, <1>3, <1>4, Types10 DEF ActOK
<1>6. QED  BY <1>2, <1>3, <1>5, GoodIf DEF a

LEMMA GoodScales ==
  ASSUME NEW kind, NEW n, NEW name, ObjectOK(kind, n, name), NEW r, r # ""
  PROVE  Good(Scales(kind, n, name, r))
<1>1. OnePiece(n) /\ OnePiece(name)
  BY DEF ObjectOK
<1>2. /\ Means(Scales(kind, n, name, r))
      /\ Scales(kind, n, name, r).means = Fields("action", "scaleset", kind, n, name, "", r)
  BY <1>1, ScalesMeans
<1> DEFINE a == Scales(kind, n, name, r).means
<1>a. a = Fields("action", "scaleset", kind, n, name, "", r)
  BY <1>2
<1> HIDE DEF a
<1>3. /\ a.Type = "action" /\ a.Action = "scaleset" /\ a.ResourceType = kind
      /\ a.Namespace = n /\ a.Name = name /\ a.Extra = r /\ Whole(a)
  BY <1>a DEF Fields, Whole
<1>4. "scaleset" \in OtherVerbs /\ "scaleset" \notin NodeVerbs /\ "scaleset" \notin PodVerbs
  BY DEF PodVerbs, NodeVerbs, OtherVerbs
<1>5. ActOK(a)
  BY <1>1, <1>3, <1>4, Types10 DEF ActOK
<1>6. QED  BY <1>2, <1>3, <1>5, GoodIf DEF a

\* The view of an object, by the canonical name of its type.
LEMMA GoodObject ==
  ASSUME NEW kind, NEW n, NEW name, ObjectOK(kind, n, name)
  PROVE  Good(View(kind, n, name)) /\ Good(Lists("list", kind, n)) /\ kind \in ListTypes
<1>1. kind \in ListTypes /\ kind \in ButtonTypes /\ CanonicalResource(kind) = kind
  BY KindsAre DEF ObjectOK, ButtonTypes
<1>2. OnePiece(n) /\ ItemOK(kind, n, name)
  BY DEF ObjectOK, ItemOK
<1>3. QED  BY <1>1, <1>2, GoodView, GoodLists

GoodOnes(bs) == \A b \in bs : Good(b)

LEMMA GoodMenus ==
  /\ GoodOnes(GetMainMenuInlineKeyboard) /\ GoodOnes(GetResourceTypeInlineKeyboard)
  /\ GoodOnes(GetHelpInlineKeyboard) /\ GoodOnes(GetMonitorInlineKeyboard)
  /\ GoodOnes(GetOperationsInlineKeyboard) /\ GoodOnes(GetSettingsInlineKeyboard)
  /\ \A s \in {"monitor", "ops", "settings"} : GoodOnes(GetSectionResultKeyboard(s))
<1>1. Good(Main) /\ Good(Bare("help")) /\ Good(Types)
  BY GoodBare, GoodResource DEF Main, Types
<1>2. /\ \A v \in {"home", "top", "events", "watch"} : Good(Plain("monitor", v))
      /\ \A v \in {"home", "restart", "scale", "delete", "edit"} : Good(Plain("ops", v))
      /\ \A v \in {"home", "namespace", "context", "theme", "notifications"} : Good(Plain("settings", v))
      /\ \A v \in {"resources", "workloads", "networking", "storage", "monitoring", "operations",
                   "settings", "all"} : Good(Plain("help", v))
  BY GoodSection DEF SectionVerbs
<1>3. GoodOnes(GetMainMenuInlineKeyboard)
  BY <1>1, <1>2 DEF GoodOnes, GetMainMenuInlineKeyboard
<1>4. GoodOnes(GetHelpInlineKeyboard)
  BY <1>1, <1>2 DEF GoodOnes, GetHelpInlineKeyboard
<1>5. GoodOnes(GetMonitorInlineKeyboard)
  BY <1>1, <1>2, GoodTop DEF GoodOnes, GetMonitorInlineKeyboard, Top
<1>6. GoodOnes(GetOperationsInlineKeyboard)
  BY <1>1, <1>2 DEF GoodOnes, GetOperationsInlineKeyboard
<1>7. GoodOnes(GetSettingsInlineKeyboard)
  BY <1>1, <1>2 DEF GoodOnes, GetSettingsInlineKeyboard
<1>8. \A s \in {"monitor", "ops", "settings"} : GoodOnes(GetSectionResultKeyboard(s))
  BY <1>1, <1>2 DEF GoodOnes, GetSectionResultKeyboard
<1>9. GoodOnes(GetResourceTypeInlineKeyboard)
  <2>1. \A t \in CanonicalNames : Good(Plain("resource", t))
    BY KindsAre, GoodResource
  <2>2. Known("pvcs") /\ Known("pvs")
    <3>1. /\ "persistentvolumes" \in DOMAIN Aliases /\ "persistentvolumeclaims" \in DOMAIN Aliases
          /\ "pvs" \in Aliases["persistentvolumes"] /\ "pvcs" \in Aliases["persistentvolumeclaims"]
      BY DEF Aliases
    <3>2. QED  BY <3>1 DEF Known, ResourceMap
  <2>3. Good(Plain("resource", "pvcs")) /\ Good(Plain("resource", "pvs"))
    BY <2>2, GoodResource
  <2>4. QED  BY <1>1, <2>1, <2>3 DEF GoodOnes, GetResourceTypeInlineKeyboard, CanonicalNames
<1>10. QED  BY <1>3, <1>4, <1>5, <1>6, <1>7, <1>8, <1>9

LEMMA GoodContexts == GoodOnes(GetContextsInlineKeyboard(Contexts))
<1>1. Good(Main) /\ Good(Plain("ctx", "refresh"))
  BY GoodBare, GoodSection DEF Main, SectionVerbs
<1>2. ASSUME NEW c \in Contexts
      PROVE  Good(Named("ctx", "switch", c))
  BY NavigationAssumption, GoodSwitch
<1>3. QED  BY <1>1, <1>2 DEF GoodOnes, GetContextsInlineKeyboard

LEMMA GoodList ==
  ASSUME NEW type \in ListTypes, NEW n, OnePiece(n), NEW items,
         \A o \in items : ItemOK(CanonicalResource(type), o.ns, o.name), NEW page, NEW pages
  PROVE  GoodOnes(GetResourceListInlineKeyboard(type, items, page, pages, n))
<1>1. Good(Types) /\ Good(Bare("noop"))
  BY GoodBare, GoodResource DEF Types
<1>2. ASSUME NEW o \in items
      PROVE  Good(View(type, o.ns, o.name))
  BY GoodView DEF ButtonTypes
<1>3. Good(Named("ns", "pick", <<type>>))
  <2>1. OnePiece(<<type>>) /\ <<type>>[1] = type
    BY DEF OnePiece
  <2>2. QED  BY <2>1, GoodNamed
<1>4. (\A p : Good(ListsPage(type, n, p))) /\ Good(Lists("refresh", type, n))
  BY GoodLists DEF ButtonTypes
<1> DEFINE turns == {ListsPage(type, n, p) : p \in Turns(page, pages)}
<1>5. \A b \in turns : Good(b)
  BY <1>4
<1>6. GetResourceListInlineKeyboard(type, items, page, pages, n)
        = {View(type, o.ns, o.name) : o \in items}
            \cup turns \cup (IF turns = {} THEN {} ELSE {Bare("noop")})
            \cup {Lists("refresh", type, n), Named("ns", "pick", <<type>>), Types}
  BY DEF GetResourceListInlineKeyboard
<1> HIDE DEF turns
<1>7. QED  BY <1>1, <1>2, <1>3, <1>4, <1>5, <1>6 DEF GoodOnes

LEMMA GoodPicker ==
  ASSUME NEW names, names \subseteq ToSet(Namespaces), NEW page, NEW pages, NEW back \in {""} \cup ListTypes
  PROVE  GoodOnes(GetNamespaceInlineKeyboard(names, page, pages, back))
<1>1. Good(Bare("noop")) /\ Good(Plain("settings", "home"))
  BY GoodBare, GoodSection DEF SectionVerbs
<1>2. ASSUME NEW n \in names \cup {NoName}
      PROVE  Good(Named("ns", "set", n))
  <2>1. OnePiece(n) /\ n \in Scopes
    BY NavigationAssumption, NoNameIs DEF Scopes
  <2>2. QED  BY <2>1, GoodNamed
<1>3. ASSUME NEW p
      PROVE  Good(Named("ns", "page", <<ToString(p)>>))
  <2>1. OnePiece(<<ToString(p)>>)
    BY DEF OnePiece
  <2>2. QED  BY <2>1, GoodNamed
<1>4. back # "" => Good(Plain("resource", back))
  BY KindsAre, GoodResource
<1> DEFINE turns == {Named("ns", "page", <<ToString(p)>>) : p \in Turns(page, pages)}
           end == IF back = "" THEN Plain("settings", "home") ELSE Plain("resource", back)
<1>5. \A b \in turns : Good(b)
  BY <1>3
<1>6. Good(end)
  BY <1>1, <1>4
<1>7. GetNamespaceInlineKeyboard(names, page, pages, back)
        = {Named("ns", "set", n) : n \in names \cup {NoName}}
            \cup (IF pages > 1 THEN {Bare("noop")} \cup turns ELSE {}) \cup {end}
  BY DEF GetNamespaceInlineKeyboard
<1> HIDE DEF turns, end
<1>8. QED  BY <1>1, <1>2, <1>5, <1>6, <1>7 DEF GoodOnes

LEMMA GoodResult ==
  ASSUME NEW kind, NEW n, NEW name, ObjectOK(kind, n, name)
  PROVE  GoodOnes(GetVerbResultKeyboard(kind, n, name))
<1> DEFINE scope == IF IsClusterScoped(kind) THEN NoName ELSE n
<1>1. scope = n
  BY DEF ObjectOK
<1>2. Good(Main) /\ Good(View(kind, n, name)) /\ Good(Lists("list", kind, n))
  BY GoodBare, GoodObject DEF Main
<1>3. GetVerbResultKeyboard(kind, n, name)
        = {Main} \cup (IF kind = "" \/ name = NoName THEN {}
                       ELSE {View(kind, scope, name), Lists("list", kind, scope)})
  BY DEF GetVerbResultKeyboard
<1> HIDE DEF scope
<1>4. QED  BY <1>1, <1>2, <1>3 DEF GoodOnes

\* The answer that a kind is not known, with the object's name or without.
LEMMA GoodUnknown ==
  ASSUME NEW kind \in Unopened, NEW n, NEW name, OnePiece(n), OnePiece(name)
  PROVE  GoodOnes(GetVerbResultKeyboard(kind, n, name))
<1>1. ~IsClusterScoped(kind) /\ CanonicalResource(kind) = kind /\ kind \in ButtonTypes
  BY KindsAre DEF ButtonTypes
<1>2. Good(Main) /\ Good(Lists("list", kind, n))
  BY <1>1, GoodBare, GoodLists DEF Main
<1>3. name # NoName => Good(View(kind, n, name))
  <2>1. name # NoName => ItemOK(kind, n, name)
    BY DEF ItemOK
  <2>2. QED  BY <1>1, <2>1, GoodView
<1>4. GetVerbResultKeyboard(kind, n, name)
        = {Main} \cup (IF kind = "" \/ name = NoName THEN {}
                       ELSE {View(kind, n, name), Lists("list", kind, n)})
  BY <1>1 DEF GetVerbResultKeyboard
<1>5. QED  BY <1>2, <1>3, <1>4 DEF GoodOnes

LEMMA GoodConfirms ==
  ASSUME NEW kind, NEW n, NEW name, ObjectOK(kind, n, name)
  PROVE  /\ GoodOnes(GetConfirmDeleteKeyboard(kind, n, name))
         /\ kind = "nodes" => GoodOnes(ConfirmDrainKeyboard(name))
         /\ GoodOnes(GetScaleKeyboard(kind, n, name))
<1>1. Good(View(kind, n, name))
  BY GoodObject
<1>2. /\ {"confirmdelete", "scalecustom", "confirmdrain"} \subseteq Verbs \ {"scaleset"}
      /\ \A v \in {"confirmdelete", "scalecustom"} :
           v \notin NodeVerbs /\ v \notin PodVerbs /\ v \notin {"pods", "rspods"}
      /\ "confirmdrain" \notin PodVerbs
  BY DEF Verbs, NodeVerbs, PodVerbs, OtherVerbs, showUsage
<1>3. Good(Acts("confirmdelete", kind, n, name)) /\ Good(Acts("scalecustom", kind, n, name))
  BY <1>2, GoodActs
<1>4. ASSUME kind = "nodes"
      PROVE  Good(Acts("confirmdrain", "nodes", NoName, name)) /\ Good(View("nodes", NoName, name))
  <2>1. n = NoName
    BY <1>4, KindsAre DEF ObjectOK, CanonicalNames
  <2>2. QED  BY <1>1, <1>2, <1>4, <2>1, GoodActs
<1>5. \A r \in {"0", "1", "2", "3", "5", "10"} : Good(Scales(kind, n, name, r))
  BY GoodScales
<1>6. GoodOnes(GetConfirmDeleteKeyboard(kind, n, name))
  BY <1>1, <1>3 DEF GoodOnes, GetConfirmDeleteKeyboard
<1>7. kind = "nodes" => GoodOnes(ConfirmDrainKeyboard(name))
  BY <1>4 DEF GoodOnes, ConfirmDrainKeyboard
<1>8. GoodOnes(GetScaleKeyboard(kind, n, name))
  BY <1>1, <1>3, <1>5 DEF GoodOnes, GetScaleKeyboard
<1>9. QED  BY <1>6, <1>7, <1>8

LEMMA GoodLogs ==
  ASSUME NEW n, NEW name, ObjectOK("pods", n, name), NEW c
  PROVE  GoodOnes(GetLogOptionsKeyboard(n, name, c)) /\ GoodOnes(StopKeyboard(n, name, c))
<1>1. Good(View("pods", n, name))
  BY GoodObject
<1>2. \A lines : Good(Tails(n, name, c, lines))
  BY GoodTails
<1>3. \A v \in PodVerbs : Good(ActsOn(v, n, name, c))
  BY GoodActsOn
<1>4. Good(Acts("logsfollowstop", "pods", n, name))
  <2>1. /\ "logsfollowstop" \in Verbs \ {"scaleset"} /\ "logsfollowstop" \notin NodeVerbs
        /\ "logsfollowstop" \notin {"pods", "rspods"}
    BY DEF Verbs, NodeVerbs, PodVerbs, OtherVerbs
  <2>2. QED  BY <2>1, GoodActs
<1>5. GoodOnes(GetLogOptionsKeyboard(n, name, c))
  BY <1>1, <1>2, <1>3 DEF GoodOnes, GetLogOptionsKeyboard, PodVerbs
<1>6. GoodOnes(StopKeyboard(n, name, c))
  BY <1>3, <1>4 DEF GoodOnes, StopKeyboard, PodVerbs
<1>7. QED  BY <1>5, <1>6

LEMMA GoodRows ==
  ASSUME NEW kind, NEW n, NEW name, ObjectOK(kind, n, name), NEW details \in Shapes[kind]
  PROVE  GoodOnes(kindActionRows(kind, n, name, details))
<1> DEFINE V(vs) == {Acts(v, kind, n, name) : v \in vs}
<1>1. ASSUME NEW vs, \A v \in vs : /\ v \in Verbs \ {"scaleset"}
                                   /\ (v \in NodeVerbs => kind = "nodes")
                                   /\ (v \in PodVerbs => kind = "pods")
                                   /\ (v \in {"pods", "rspods"} => kind \in {"deployments", "replicasets"})
      PROVE  \A b \in V(vs) : Good(b)
  BY <1>1, GoodActs
<1>2. CASE kind = "pods"
  <2>1. kindActionRows(kind, n, name, details) =
          V({"logsopts", "exec", "portforward"})
            \cup {ActsOn("logs", n, name, c) : c \in {d \in details.containers : details.containers # {d}}}
            \cup {View("nodes", NoName, m) : m \in details.node}
    BY <1>2 DEF kindActionRows
  <2>2. \A b \in V({"logsopts", "exec", "portforward"}) : Good(b)
    <3>1. \A v \in {"logsopts", "exec", "portforward"} :
            v \in Verbs \ {"scaleset"} /\ v \notin NodeVerbs /\ v \notin {"pods", "rspods"}
      BY DEF Verbs, NodeVerbs, PodVerbs, OtherVerbs, showUsage
    <3> HIDE DEF V
    <3>2. QED  BY <1>1, <1>2, <3>1
  <2>3. \A c : Good(ActsOn("logs", n, name, c))
    BY <1>2, GoodActsOn DEF PodVerbs
  <2>4. ASSUME NEW m \in details.node
        PROVE  Good(View("nodes", NoName, m))
    <3>1. kind \in DOMAIN Aliases
      BY <1>2, AliasesAre DEF CanonicalNames
    <3>2. OnePiece(m) /\ m # NoName
      BY <3>1, NavigationAssumption
    <3>3. "nodes" \in CanonicalNames
      BY DEF CanonicalNames
    <3>4. ObjectOK("nodes", NoName, m)
      BY <3>2, <3>3, KindsAre, NoNameIs DEF ObjectOK
    <3>5. QED  BY <3>4, GoodObject
  <2> HIDE DEF V
  <2>5. QED  BY <2>1, <2>2, <2>3, <2>4 DEF GoodOnes
<1>3. CASE kind = "deployments"
  <2> DEFINE vs == {"restart", "scale", "pods", "selector", "history", "edit"}
  <2>1. kindActionRows(kind, n, name, details) = V(vs)
    BY <1>3 DEF kindActionRows
  <2>2. \A v \in vs : v \in Verbs \ {"scaleset"} /\ v \notin NodeVerbs /\ v \notin PodVerbs
    BY DEF Verbs, NodeVerbs, PodVerbs, OtherVerbs, Inspects
  <2> HIDE DEF V, vs
  <2>3. QED  BY <1>1, <1>3, <2>1, <2>2 DEF GoodOnes
<1>4. CASE kind = "replicasets"
  <2> DEFINE vs == {"rspods", "rsscale", "selector"}
  <2>1. kindActionRows(kind, n, name, details) = V(vs)
    BY <1>4 DEF kindActionRows
  <2>2. \A v \in vs : v \in Verbs \ {"scaleset"} /\ v \notin NodeVerbs /\ v \notin PodVerbs
    BY DEF Verbs, NodeVerbs, PodVerbs, OtherVerbs, Inspects
  <2> HIDE DEF V, vs
  <2>3. QED  BY <1>1, <1>4, <2>1, <2>2 DEF GoodOnes
<1>5. CASE kind = "services"
  <2> DEFINE vs == {"endpoints", "selector", "portforward"}
  <2>1. kindActionRows(kind, n, name, details) = V(vs)
    BY <1>5 DEF kindActionRows
  <2>2. \A v \in vs : /\ v \in Verbs \ {"scaleset"} /\ v \notin NodeVerbs /\ v \notin PodVerbs
                      /\ v \notin {"pods", "rspods"}
    BY DEF Verbs, NodeVerbs, PodVerbs, OtherVerbs, Inspects, showUsage
  <2> HIDE DEF V, vs
  <2>3. QED  BY <1>1, <2>1, <2>2 DEF GoodOnes
<1>6. CASE kind = "secrets"
  <2> DEFINE vs == {"decoded"}
  <2>1. kindActionRows(kind, n, name, details) = V(vs)
    BY <1>6 DEF kindActionRows
  <2>2. \A v \in vs : /\ v \in Verbs \ {"scaleset"} /\ v \notin NodeVerbs /\ v \notin PodVerbs
                      /\ v \notin {"pods", "rspods"}
    BY DEF Verbs, NodeVerbs, PodVerbs, OtherVerbs, Inspects
  <2> HIDE DEF V, vs
  <2>3. QED  BY <1>1, <2>1, <2>2 DEF GoodOnes
<1>7. CASE kind = "nodes"
  <2> DEFINE vs == {"top", "nodepods", "drain", IF details.cordoned THEN "uncordon" ELSE "cordon"}
  <2>1. kindActionRows(kind, n, name, details) = V(vs)
    BY <1>7 DEF kindActionRows
  <2>2. \A v \in vs : v \in {"top", "nodepods", "drain", "uncordon", "cordon"}
    OBVIOUS
  <2> HIDE DEF V, vs
  <2>3. \A v \in {"top", "nodepods", "drain", "uncordon", "cordon"} :
          v \in Verbs \ {"scaleset"} /\ v \notin PodVerbs /\ v \notin {"pods", "rspods"}
    BY DEF Verbs, NodeVerbs, PodVerbs, OtherVerbs
  <2>4. QED  BY <1>1, <1>7, <2>1, <2>2, <2>3 DEF GoodOnes
<1>8. CASE kind = "namespaces"
  <2>1. kindActionRows(kind, n, name, details) = V({"nsresources"}) \cup {Named("ns", "set", name)}
    BY <1>8 DEF kindActionRows
  <2>2. /\ "nsresources" \in Verbs \ {"scaleset"} /\ "nsresources" \notin NodeVerbs
        /\ "nsresources" \notin PodVerbs /\ "nsresources" \notin {"pods", "rspods"}
    BY DEF Verbs, NodeVerbs, PodVerbs, OtherVerbs
  <2>3. Good(Acts("nsresources", kind, n, name))
    BY <2>2, GoodActs
  <2>4. Good(Named("ns", "set", name))
    <3>1. OnePiece(name) /\ name \in Scopes
      BY <1>8 DEF ObjectOK, Scopes
    <3>2. QED  BY <3>1, GoodNamed
  <2>5. QED  BY <2>1, <2>3, <2>4 DEF GoodOnes
<1>9. CASE kind \notin {"pods", "deployments", "replicasets", "services", "secrets", "nodes", "namespaces"}
  BY <1>9 DEF GoodOnes, kindActionRows
<1>10. QED  BY <1>2, <1>3, <1>4, <1>5, <1>6, <1>7, <1>8, <1>9

LEMMA GoodDetail ==
  ASSUME NEW kind, NEW n, NEW name, ObjectOK(kind, n, name), NEW details \in Shapes[kind]
  PROVE  GoodOnes(GetResourceActionInlineKeyboard(kind, n, name, details))
<1>1. Good(Main) /\ Good(View(kind, n, name)) /\ Good(Lists("list", kind, n))
  BY GoodBare, GoodObject DEF Main
<1>2. ASSUME NEW v \in {"describe", "labels", "events", "delete", "help"}
      PROVE  Good(Acts(v, kind, n, name))
  <2>1. /\ v \in Verbs \ {"scaleset"} /\ v \notin NodeVerbs /\ v \notin PodVerbs
        /\ v \notin {"pods", "rspods"}
    BY DEF Verbs, NodeVerbs, PodVerbs, OtherVerbs, Inspects
  <2>2. QED  BY <2>1, GoodActs
<1>3. \A b \in kindActionRows(kind, n, name, details) : Good(b)
  BY GoodRows DEF GoodOnes
<1>4. QED  BY <1>1, <1>2, <1>3 DEF GoodOnes, GetResourceActionInlineKeyboard

\* The keyboard of a screen, by its view.
LEMMA KeyboardsAre ==
  ASSUME NEW s
  PROVE  /\ s.view = "main" => Keyboard(s) = GetMainMenuInlineKeyboard
         /\ s.view = "types" => Keyboard(s) = GetResourceTypeInlineKeyboard
         /\ s.view = "help" => Keyboard(s) = GetHelpInlineKeyboard
         /\ s.view = "monitor" => Keyboard(s) = GetMonitorInlineKeyboard
         /\ s.view = "ops" => Keyboard(s) = GetOperationsInlineKeyboard
         /\ s.view = "settings" => Keyboard(s) = GetSettingsInlineKeyboard
         /\ s.view = "contexts" => Keyboard(s) = GetContextsInlineKeyboard(Contexts)
         /\ s.view \in {"notice", "unavailable"} =>
              Keyboard(s) = GetSectionResultKeyboard(s.section)
         /\ s.view = "list" =>
              Keyboard(s) = GetResourceListInlineKeyboard(s.type, s.items, s.page, s.pages, s.ns)
         /\ s.view = "picker" =>
              Keyboard(s) =
                GetNamespaceInlineKeyboard(OnPage(DOMAIN Namespaces, Namespaces, s.page), s.page,
                                           Pages(DOMAIN Namespaces), s.back)
         /\ s.view = "detail" =>
              Keyboard(s) = GetResourceActionInlineKeyboard(s.kind, s.ns, s.name, s.details)
         /\ s.view \in {"result", "unknown"} =>
              Keyboard(s) = GetVerbResultKeyboard(s.kind, s.ns, s.name)
         /\ s.view = "delete" => Keyboard(s) = GetConfirmDeleteKeyboard(s.kind, s.ns, s.name)
         /\ s.view = "drain" => Keyboard(s) = ConfirmDrainKeyboard(s.name)
         /\ s.view = "scale" => Keyboard(s) = GetScaleKeyboard(s.kind, s.ns, s.name)
         /\ s.view = "logs" => Keyboard(s) = GetLogOptionsKeyboard(s.ns, s.name, s.container)
         /\ s.view = "follow" => Keyboard(s) = StopKeyboard(s.ns, s.name, s.container)
BY DEF Keyboard

\* What is on a page is in the sequence.
LEMMA OnPageOf ==
  ASSUME NEW found, NEW q, found \subseteq DOMAIN q, NEW page
  PROVE  \A x \in OnPage(found, q, page) : \E i \in found : x = q[i]
BY DEF OnPage

LEMMA GoodKeyboard ==
  ASSUME NEW s, ScreenOK(s)
  PROVE  GoodOnes(Keyboard(s))
<1>1. CASE s.view \in {"main", "types", "help", "monitor", "ops", "settings"}
  BY <1>1, KeyboardsAre, GoodMenus
<1>2. CASE s.view = "contexts"
  BY <1>2, KeyboardsAre, GoodContexts
<1>3. CASE s.view \in {"notice", "unavailable"}
  BY <1>3, KeyboardsAre, GoodMenus DEF ScreenOK
<1>4. CASE s.view = "list"
  <2>1. /\ s.type \in ListTypes /\ OnePiece(s.ns)
        /\ \A o \in s.items : ItemOK(CanonicalResource(s.type), o.ns, o.name)
    BY <1>4 DEF ScreenOK
  <2>2. QED  BY <1>4, <2>1, KeyboardsAre, GoodList
<1>5. CASE s.view = "picker"
  <2> DEFINE names == OnPage(DOMAIN Namespaces, Namespaces, s.page)
  <2>1. names \subseteq ToSet(Namespaces)
    BY OnPageOf DEF ToSet
  <2>2. s.back \in {""} \cup ListTypes
    BY <1>5 DEF ScreenOK
  <2> HIDE DEF names
  <2>3. GoodOnes(GetNamespaceInlineKeyboard(names, s.page, Pages(DOMAIN Namespaces), s.back))
    BY <2>1, <2>2, GoodPicker
  <2>4. QED  BY <1>5, <2>3, KeyboardsAre DEF names
<1>6. CASE s.view = "detail"
  <2>1. ObjectOK(s.kind, s.ns, s.name) /\ s.details \in Shapes[s.kind]
    BY <1>6 DEF ScreenOK
  <2>2. QED  BY <1>6, <2>1, KeyboardsAre, GoodDetail
<1>7. CASE s.view \in {"result", "delete", "drain", "scale"}
  <2>1. ObjectOK(s.kind, s.ns, s.name) /\ (s.view = "drain" => s.kind = "nodes")
    BY <1>7 DEF ScreenOK
  <2>2. QED  BY <1>7, <2>1, KeyboardsAre, GoodResult, GoodConfirms
<1>8. CASE s.view \in {"logs", "follow"}
  <2>1. ObjectOK("pods", s.ns, s.name)
    BY <1>8 DEF ScreenOK
  <2>2. QED  BY <1>8, <2>1, KeyboardsAre, GoodLogs
<1>9. CASE s.view = "unknown"
  <2>1. s.kind \in Unopened /\ OnePiece(s.ns) /\ OnePiece(s.name)
    BY <1>9 DEF ScreenOK
  <2>2. QED  BY <1>9, <2>1, KeyboardsAre, GoodUnknown
<1>10. QED  BY <1>1, <1>2, <1>3, <1>4, <1>5, <1>6, <1>7, <1>8, <1>9 DEF ScreenOK, Views

-----------------------------------------------------------------------------
(* What the handlers show. *)

SessionOK == ns \in Scopes /\ menuType \in {""} \cup ListTypes

LEMMA ScreensOK ==
  /\ \A v \in {"main", "types", "help", "monitor", "ops", "settings", "contexts"} : ScreenOK(Section(v))
  /\ \A v \in {"monitor", "ops", "settings"} : ScreenOK(Notice(v)) /\ ScreenOK(Unavailable(v))
  /\ \A kind \in Unopened : \A n, name :
       OnePiece(n) /\ OnePiece(name) => ScreenOK(Unknown(kind, n, name))
  /\ \A kind, n, name : ObjectOK(kind, n, name) =>
       /\ ScreenOK(Result(kind, n, name)) /\ ScreenOK(Verb("delete", kind, n, name))
       /\ kind = "nodes" => ScreenOK(Verb("drain", kind, n, name))
       /\ kind \in {"deployments", "replicasets"} => ScreenOK(Verb("scale", kind, n, name))
       /\ \A d \in Shapes[kind] :
            ScreenOK([view |-> "detail", kind |-> kind, ns |-> n, name |-> name, details |-> d])
  /\ \A n, name, c : ObjectOK("pods", n, name) =>
       \A v \in {"logs", "follow"} : ScreenOK([view |-> v, ns |-> n, name |-> name, container |-> c])
  /\ \A page, back, for : back \in {""} \cup ListTypes => ScreenOK(Picker(page, back, for))
<1>1. \A v \in {"main", "types", "help", "monitor", "ops", "settings", "contexts"} : ScreenOK(Section(v))
  BY DEF ScreenOK, Section, Views
<1>2. \A v \in {"monitor", "ops", "settings"} : ScreenOK(Notice(v)) /\ ScreenOK(Unavailable(v))
  BY DEF ScreenOK, Notice, Unavailable, Views
<1>0. ASSUME NEW kind \in Unopened, NEW n, NEW name, OnePiece(n), OnePiece(name)
      PROVE  ScreenOK(Unknown(kind, n, name))
  <2> DEFINE s == Unknown(kind, n, name)
  <2>1. s.view = "unknown" /\ s.kind = kind /\ s.ns = n /\ s.name = name
    BY DEF Unknown
  <2> HIDE DEF s
  <2>2. ScreenOK(s)
    BY <1>0, <2>1 DEF ScreenOK, Views
  <2>3. QED  BY <2>2 DEF s
<1>3. ASSUME NEW kind, NEW n, NEW name, ObjectOK(kind, n, name)
      PROVE  /\ ScreenOK(Result(kind, n, name)) /\ ScreenOK(Verb("delete", kind, n, name))
             /\ kind = "nodes" => ScreenOK(Verb("drain", kind, n, name))
             /\ kind \in {"deployments", "replicasets"} => ScreenOK(Verb("scale", kind, n, name))
             /\ \A d \in Shapes[kind] :
                  ScreenOK([view |-> "detail", kind |-> kind, ns |-> n, name |-> name, details |-> d])
  <2>1. ScreenOK(Result(kind, n, name)) /\ ScreenOK(Verb("delete", kind, n, name))
    BY <1>3 DEF ScreenOK, Result, Verb, Views
  <2>2. kind = "nodes" => ScreenOK(Verb("drain", kind, n, name))
    BY <1>3 DEF ScreenOK, Verb, Views
  <2>3. kind \in {"deployments", "replicasets"} => ScreenOK(Verb("scale", kind, n, name))
    BY <1>3 DEF ScreenOK, Verb, Views
  <2>4. ASSUME NEW d \in Shapes[kind]
        PROVE  ScreenOK([view |-> "detail", kind |-> kind, ns |-> n, name |-> name, details |-> d])
    BY <1>3 DEF ScreenOK, Views
  <2>5. QED  BY <2>1, <2>2, <2>3, <2>4
<1>4. ASSUME NEW n, NEW name, NEW c, ObjectOK("pods", n, name), NEW v \in {"logs", "follow"}
      PROVE  ScreenOK([view |-> v, ns |-> n, name |-> name, container |-> c])
  BY <1>4 DEF ScreenOK, Views
<1>5. ASSUME NEW page, NEW back \in {""} \cup ListTypes, NEW for
      PROVE  ScreenOK(Picker(page, back, for))
  BY DEF ScreenOK, Picker, Views
<1>6. QED  BY <1>0, <1>1, <1>2, <1>3, <1>4, <1>5

LEMMA KindOf ==
  ASSUME NEW t \in ListTypes
  PROVE  CanonicalResource(t) = ResourceMap[t] /\ ResourceMap[t] \in CanonicalNames \cup Unopened
BY KindsAre

LEMMA ListIsOK ==
  ASSUME NEW type \in ListTypes, NEW n, OnePiece(n), IsClusterScoped(type) => n = NoName,
         NEW asked, \A o \in asked : o \in ToSet(Objects) /\ o.kind = ResourceMap[type],
         NEW found \in Found(asked), NEW page
  PROVE  ScreenOK(List(type, n, found, page))
<1> DEFINE s == List(type, n, found, page)
<1>1. /\ s.view = "list" /\ s.type = type /\ s.ns = n
      /\ s.items = OnPage(found, Objects, page)
  BY DEF List
<1> HIDE DEF s
<1>2. ASSUME NEW o \in s.items
      PROVE  ItemOK(CanonicalResource(type), o.ns, o.name)
  <2> DEFINE kind == CanonicalResource(type)
  <2>1. found \subseteq DOMAIN Objects /\ \A i \in found : Objects[i] \in asked
    BY DEF Found
  <2>2. o \in asked
    BY <1>1, <2>1, OnPageOf
  <2>a. kind = ResourceMap[type] /\ kind \in CanonicalNames \cup Unopened
    BY KindOf
  <2>3. o \in ToSet(Objects) /\ o.kind = kind /\ kind \in CanonicalNames \cup Unopened
    BY <2>2, <2>a
  <2>4. /\ OnePiece(o.ns) /\ OnePiece(o.name) /\ o.name # NoName
        /\ o.ns = NoName <=> o.kind \in {"namespaces", "nodes", "persistentvolumes"}
        /\ o.kind = "namespaces" => o.name \in ToSet(Namespaces)
    BY <2>3, NavigationAssumption
  <2> HIDE DEF kind
  <2>5. CASE kind \in CanonicalNames
    <3>1. o.ns = NoName <=> IsClusterScoped(kind)
      BY <2>3, <2>4, <2>5, KindsAre DEF CanonicalNames
    <3>2. QED  BY <2>3, <2>4, <2>5, <3>1 DEF ItemOK, ObjectOK, kind
  <2>6. CASE kind \in Unopened
    BY <2>4, <2>6 DEF ItemOK, kind
  <2>7. QED  BY <2>3, <2>5, <2>6
<1>3. ScreenOK(s)
  BY <1>1, <1>2 DEF ScreenOK, Views
<1>4. QED  BY <1>3 DEF s

\* What a handler with these fields may answer; a picker it opens is for `for'.
OutcomeOK(a, for, o) ==
  /\ o.shows = Sent \/ ScreenOK(o.shows)
  /\ o.sets \in {menuType} \cup ListTypes
  /\ o.shows.view = "picker" => o.shows.for = for /\ o.sets = menuType
  /\ o.shows.view = "unavailable" => a.Type = "settings" /\ a.Action \in Unserved
  /\ o.shows.view = "list" =>
       /\ a.Type # "ns"
       /\ IsList(a) => /\ o.shows.type = ListType(a)
                       /\ o.shows.ns = IF IsClusterScoped(ListType(a)) THEN NoName ELSE a.Namespace

AnswersOK(a, for, answers) == answers # {} /\ \A o \in answers : OutcomeOK(a, for, o)

\* Any number of answers.
SomeOK(a, for, answers) == \A o \in answers : OutcomeOK(a, for, o)

LEMMA ShowsOK ==
  ASSUME NEW a, NEW for, NEW s, s.view \notin {"list", "picker", "unavailable"},
         s = Sent \/ ScreenOK(s)
  PROVE  AnswersOK(a, for, Shows(s))
BY DEF AnswersOK, OutcomeOK, Shows

LEMMA LeavesOK ==
  ASSUME NEW a, NEW for, NEW screens, NEW type,
         \A s \in screens : s.view \notin {"list", "picker", "unavailable"} /\ ScreenOK(s), type \in ListTypes
  PROVE  SomeOK(a, for, Leaves(screens, type))
BY DEF SomeOK, OutcomeOK, Leaves

LEMMA ListAnswers ==
  ASSUME NEW a, NEW for, NEW type \in ListTypes, NEW n, OnePiece(n), NEW page, a.Type # "ns",
         IsList(a) => ListType(a) = type /\ a.Namespace = n
  PROVE  AnswersOK(a, for, listResources(type, n, page))
<1> DEFINE scope == IF IsClusterScoped(type) THEN NoName ELSE n
           asked == {o \in ToSet(Objects) : o.kind = ResourceMap[type] /\ scope \in {NoName, o.ns}}
           screens == {IF f = {} THEN Section("types") ELSE List(type, scope, f, page) : f \in Found(asked)}
<1>1. listResources(type, n, page) = Shows(Section("types")) \cup Leaves(screens, type)
  BY KindsAre DEF listResources
<1>2. Section("types").view = "types" /\ ScreenOK(Section("types"))
  BY ScreensOK DEF Section
<1>3. AnswersOK(a, for, Shows(Section("types")))
  BY <1>2, ShowsOK
<1>4. ASSUME NEW o \in Leaves(screens, type)
      PROVE  OutcomeOK(a, for, o)
  <2>1. PICK f \in Found(asked) :
          /\ o.shows = IF f = {} THEN Section("types") ELSE List(type, scope, f, page)
          /\ o.sets = type
    BY DEF Leaves
  <2>2. OnePiece(scope) /\ (IsClusterScoped(type) => scope = NoName)
    BY NoNameIs
  <2>3. CASE f = {}
    <3>1. o.shows = Section("types")
      BY <2>1, <2>3
    <3>2. QED  BY <1>2, <2>1, <3>1 DEF OutcomeOK
  <2>4. CASE f # {}
    <3> DEFINE s == List(type, scope, f, page)
    <3>1. o.shows = s
      BY <2>1, <2>4
    <3>2. s.view = "list" /\ s.type = type /\ s.ns = scope
      BY DEF List
    <3>3. \A x \in asked : x \in ToSet(Objects) /\ x.kind = ResourceMap[type]
      OBVIOUS
    <3> HIDE DEF asked, scope
    <3>4. ScreenOK(s)
      BY <2>2, <3>3, ListIsOK
    <3> HIDE DEF s
    <3>5. IsList(a) => s.ns = IF IsClusterScoped(ListType(a)) THEN NoName ELSE a.Namespace
      BY <3>2 DEF scope
    <3>6. QED  BY <2>1, <3>1, <3>2, <3>4, <3>5 DEF OutcomeOK
  <2>5. QED  BY <2>3, <2>4
<1>5. SomeOK(a, for, Leaves(screens, type))
  BY <1>4 DEF SomeOK
<1> HIDE DEF screens
<1>6. QED  BY <1>1, <1>3, <1>5 DEF AnswersOK, SomeOK

\* A kind that is not known.
LEMMA UnknownAnswers ==
  ASSUME NEW a, NEW for, NEW kind \in Unopened, NEW n, NEW name, OnePiece(n), OnePiece(name)
  PROVE  AnswersOK(a, for, Shows(Unknown(kind, n, name)))
<1>1. Unknown(kind, n, name).view \notin {"list", "picker", "unavailable"}
  BY DEF Unknown
<1>2. QED  BY <1>1, ScreensOK, ShowsOK

LEMMA DetailAnswers ==
  ASSUME NEW a, NEW for, NEW type, NEW n, NEW name, ObjectOK(CanonicalResource(type), n, name)
  PROVE  AnswersOK(a, for, showResourceDetail(type, n, name))
<1> DEFINE kind == CanonicalResource(type)
           screens == {[view |-> "detail", kind |-> kind, ns |-> n, name |-> name, details |-> d] :
                         d \in Shapes[kind]}
<1>1. Known(kind) /\ kind \in ListTypes
  BY KindsAre DEF ObjectOK
<1>2. (IF IsClusterScoped(kind) THEN NoName ELSE n) = n
  BY DEF ObjectOK
<1>3. showResourceDetail(type, n, name) = Shows(Result(kind, n, name)) \cup Leaves(screens, kind)
  BY <1>1, <1>2 DEF showResourceDetail
<1>4. Result(kind, n, name).view = "result" /\ ScreenOK(Result(kind, n, name))
  BY ScreensOK DEF Result, Verb
<1>5. AnswersOK(a, for, Shows(Result(kind, n, name)))
  BY <1>4, ShowsOK
<1>6. ASSUME NEW s \in screens
      PROVE  s.view = "detail" /\ ScreenOK(s)
  <2>1. PICK d \in Shapes[kind] :
          s = [view |-> "detail", kind |-> kind, ns |-> n, name |-> name, details |-> d]
    OBVIOUS
  <2> HIDE DEF kind, screens
  <2>2. s.view = "detail"
    BY <2>1
  <2>3. ScreenOK(s)
    <3>1. ObjectOK(kind, n, name)
      BY DEF kind
    <3>2. QED  BY <2>1, <3>1, ScreensOK
  <2>4. QED  BY <2>2, <2>3
<1> HIDE DEF screens
<1>7. SomeOK(a, for, Leaves(screens, kind))
  BY <1>1, <1>6, LeavesOK
<1>8. QED  BY <1>3, <1>5, <1>7 DEF AnswersOK, SomeOK

LEMMA PodAnswers ==
  ASSUME NEW a, NEW for, a.Type = "action", NEW kind, ObjectOK(kind, a.Namespace, a.Name),
         a.ResourceType = kind, NEW n, OnePiece(n),
         NEW asked, \A o \in asked : o \in ToSet(Objects) /\ o.kind = "pods"
  PROVE  AnswersOK(a, for, showPodResults(a, n, Found(asked)))
<1> DEFINE screens == {List("pods", n, f, 0) : f \in Found(asked) \ {{}}}
           s == Result(kind, a.Namespace, a.Name)
<1>1. CanonicalResource(kind) = kind
  BY KindsAre DEF ObjectOK
<1>2. showPodResults(a, n, Found(asked)) = Shows(s) \cup Leaves(screens, "pods")
  BY <1>1 DEF showPodResults
<1>3. s.view = "result" /\ ScreenOK(s)
  BY ScreensOK DEF Result, Verb
<1>4. AnswersOK(a, for, Shows(s))
  BY <1>3, ShowsOK
<1>5. "pods" \in ListTypes /\ ResourceMap["pods"] = "pods" /\ ~IsClusterScoped("pods")
  BY KindsAre DEF CanonicalNames
<1>6. ASSUME NEW o \in Leaves(screens, "pods")
      PROVE  OutcomeOK(a, for, o)
  <2>1. PICK f \in Found(asked) : o.shows = List("pods", n, f, 0) /\ o.sets = "pods"
    BY DEF Leaves
  <2>2. ScreenOK(List("pods", n, f, 0))
    BY <1>5, ListIsOK
  <2>3. List("pods", n, f, 0).view = "list"
    BY DEF List
  <2>4. ~IsList(a)
    BY DEF IsList
  <2>5. QED  BY <1>5, <2>1, <2>2, <2>3, <2>4 DEF OutcomeOK
<1> HIDE DEF s, screens
<1>7. QED  BY <1>2, <1>4, <1>6 DEF AnswersOK

LEMMA ResourceAnswers ==
  ASSUME NEW a, NEW for, ActOK(a), a.Type = "resource"
  PROVE  AnswersOK(a, for, dispatchResourceCallback(a))
<1>1. OnePiece(a.Namespace) /\ ~Known("types") /\ ~Known("view") /\ ~Known("")
  BY MapFacts DEF ActOK
<1>2. CASE a.Action = "types"
  <2>0. ~IsList(a)
    BY <1>1, <1>2 DEF IsList
  <2>1. dispatchResourceCallback(a) = Shows(Section("types"))
    BY <1>2, <2>0 DEF dispatchResourceCallback
  <2>2. Section("types").view = "types" /\ ScreenOK(Section("types"))
    BY ScreensOK DEF Section
  <2>3. QED  BY <2>1, <2>2, ShowsOK
<1>3. CASE /\ a.Action = "view" /\ a.ResourceType \in ButtonTypes
           /\ ItemOK(CanonicalResource(a.ResourceType), a.Namespace, a.Name)
  <2> DEFINE kind == CanonicalResource(a.ResourceType)
  <2>0. ~IsList(a)
    BY <1>1, <1>3 DEF IsList
  <2>1. a.ResourceType # "" /\ a.Name # NoName
    BY <1>3, KindsAre DEF ItemOK, ObjectOK, ButtonTypes
  <2>2. dispatchResourceCallback(a) = showResourceDetail(a.ResourceType, a.Namespace, a.Name)
    BY <1>3, <2>0, <2>1 DEF dispatchResourceCallback
  <2>3. CASE ObjectOK(kind, a.Namespace, a.Name)
    BY <2>2, <2>3, DetailAnswers
  <2>4. CASE kind \in Unopened /\ OnePiece(a.Namespace) /\ OnePiece(a.Name)
    <3>1. showResourceDetail(a.ResourceType, a.Namespace, a.Name)
            = Shows(Unknown(kind, a.Namespace, a.Name))
      BY <2>4, KindsAre DEF showResourceDetail
    <3> HIDE DEF kind
    <3>2. QED  BY <2>2, <2>4, <3>1, UnknownAnswers
  <2>5. QED  BY <1>3, <2>3, <2>4 DEF ItemOK
<1>4. CASE a.Action \in {"refresh", "list", "page"} /\ a.ResourceType \in ButtonTypes
  <2> DEFINE type == a.ResourceType
  <2>1. type # ""
    BY <1>4, KindsAre DEF ButtonTypes
  <2>2. IsList(a) /\ ListType(a) = type
    BY <1>4, <2>1 DEF IsList, ListType
  <2>3. dispatchResourceCallback(a) = listResources(type, a.Namespace, Atoi(a.Extra))
    BY <1>4, <2>2 DEF dispatchResourceCallback
  <2>4. CASE type \in ListTypes
    BY <1>1, <2>2, <2>3, <2>4, ListAnswers
  <2>5. CASE type \in Unopened
    <3>1. listResources(type, a.Namespace, Atoi(a.Extra)) = Shows(Unknown(type, NoName, NoName))
      BY <2>5, KindsAre DEF listResources
    <3> HIDE DEF type
    <3>2. QED  BY <2>3, <2>5, <3>1, NoNameIs, UnknownAnswers
  <2>6. QED  BY <1>4, <2>4, <2>5 DEF ButtonTypes
<1>5. CASE Known(a.Action) /\ a.ResourceType = ""
  <2>1. a.Action # "types" /\ a.Action # "view"
    BY <1>1, <1>5
  <2>2. IsList(a) /\ ListType(a) = a.Action
    BY <1>5 DEF IsList, ListType
  <2>3. dispatchResourceCallback(a) = listResources(a.Action, a.Namespace, Atoi(a.Extra))
    BY <2>1, <2>2 DEF dispatchResourceCallback
  <2>4. a.Action \in ListTypes
    BY <1>5 DEF Known, ListTypes
  <2>5. QED  BY <1>1, <2>2, <2>3, <2>4, ListAnswers
<1>6. QED  BY <1>2, <1>3, <1>4, <1>5 DEF ActOK

\* The screens that a verb's pane, its questions and its logs are.
LEMMA VerbScreens ==
  ASSUME NEW a, NEW for, ActOK(a), a.Type = "action"
  PROVE  /\ Kind(a) = a.ResourceType /\ AnswersOK(a, for, verbPane(a))
         /\ AnswersOK(a, for, Asks("delete", a))
         /\ a.ResourceType = "nodes" => AnswersOK(a, for, Asks("drain", a))
         /\ Scalable(a) => AnswersOK(a, for, Asks("scale", a))
         /\ a.ResourceType = "pods" =>
              \A c : AnswersOK(a, for, Logs("logs", a, c)) /\ AnswersOK(a, for, Logs("follow", a, c))
<1> DEFINE kind == a.ResourceType
<1>1. ObjectOK(kind, a.Namespace, a.Name) /\ kind \in CanonicalNames
  BY KindsAre DEF ActOK, ObjectOK
<1>2. Kind(a) = kind
  BY <1>1, KindsAre DEF Kind
<1> HIDE DEF kind
<1>3. /\ ScreenOK(Result(kind, a.Namespace, a.Name)) /\ ScreenOK(Verb("delete", kind, a.Namespace, a.Name))
      /\ kind = "nodes" => ScreenOK(Verb("drain", kind, a.Namespace, a.Name))
      /\ kind \in {"deployments", "replicasets"} => ScreenOK(Verb("scale", kind, a.Namespace, a.Name))
  BY <1>1, ScreensOK
<1>4. \A v \in {"delete", "drain", "scale", "result"} :
        Verb(v, kind, a.Namespace, a.Name).view \notin {"list", "picker", "unavailable"}
  BY DEF Verb
<1>5. AnswersOK(a, for, verbPane(a))
  <2>1. verbPane(a) = Shows(Result(kind, a.Namespace, a.Name))
    BY <1>2 DEF verbPane
  <2>2. Result(kind, a.Namespace, a.Name).view \notin {"list", "picker", "unavailable"}
    BY <1>4 DEF Result
  <2>3. QED  BY <1>3, <2>1, <2>2, ShowsOK
<1>6. AnswersOK(a, for, Asks("delete", a))
  BY <1>2, <1>3, <1>4, ShowsOK DEF Asks
<1>7. kind = "nodes" => AnswersOK(a, for, Asks("drain", a))
  BY <1>2, <1>3, <1>4, ShowsOK DEF Asks
<1>8. Scalable(a) => AnswersOK(a, for, Asks("scale", a))
  BY <1>2, <1>3, <1>4, ShowsOK DEF Asks, Scalable
<1>9. ASSUME kind = "pods", NEW c, NEW v \in {"logs", "follow"}
      PROVE  AnswersOK(a, for, Logs(v, a, c))
  <2> DEFINE s == [view |-> v, ns |-> a.Namespace, name |-> a.Name, container |-> c]
  <2>1. Logs(v, a, c) = Shows(s) /\ s.view = v
    BY DEF Logs
  <2>2. ScreenOK(s)
    BY <1>1, <1>9, ScreensOK
  <2> HIDE DEF s
  <2>3. QED  BY <2>1, <2>2, ShowsOK
<1>10. QED  BY <1>2, <1>5, <1>6, <1>7, <1>8, <1>9 DEF kind

LEMMA UnionOK ==
  ASSUME NEW a, NEW for, NEW x, NEW y, AnswersOK(a, for, x), y = {} \/ AnswersOK(a, for, y)
  PROVE  AnswersOK(a, for, x \cup y)
BY DEF AnswersOK

LEMMA DeleteAnswers ==
  ASSUME NEW a, NEW for, ActOK(a), a.Type = "action", SessionOK
  PROVE  AnswersOK(a, for, confirmDelete(a))
<1> DEFINE n == IF a.Namespace = NoName THEN ns ELSE a.Namespace
<1>1. ObjectOK(a.ResourceType, a.Namespace, a.Name) /\ a.ResourceType \in CanonicalNames
  BY KindsAre DEF ActOK, ObjectOK
<1>2. Known(a.ResourceType) /\ ResourceMap[a.ResourceType] = a.ResourceType /\ a.ResourceType \in ListTypes
  BY <1>1, KindsAre
<1>3. confirmDelete(a) = Shows(Result(a.ResourceType, a.Namespace, a.Name))
                           \cup listResources(a.ResourceType, n, 0)
  BY <1>2 DEF confirmDelete
<1>4. OnePiece(n)
  BY NavigationAssumption, NoNameIs DEF SessionOK, Scopes, ActOK
<1> HIDE DEF n
<1>5. ~IsList(a) /\ a.Type # "ns"
  BY DEF IsList
<1>6. AnswersOK(a, for, listResources(a.ResourceType, n, 0))
  BY <1>2, <1>4, <1>5, ListAnswers
<1>7. AnswersOK(a, for, Shows(Result(a.ResourceType, a.Namespace, a.Name)))
  <2>1. verbPane(a) = Shows(Result(a.ResourceType, a.Namespace, a.Name))
    BY VerbScreens DEF verbPane
  <2>2. QED  BY <2>1, VerbScreens
<1>8. QED  BY <1>3, <1>6, <1>7, UnionOK

LEMMA ActionAnswers ==
  ASSUME NEW a, NEW for, ActOK(a), a.Type = "action", SessionOK
  PROVE  AnswersOK(a, for, dispatchResourceAction(a))
<1> DEFINE kind == a.ResourceType
           D == dispatchResourceAction(a)
<1>1. /\ ObjectOK(kind, a.Namespace, a.Name) /\ kind \in CanonicalNames
      /\ a.Action \in NodeVerbs \cup PodVerbs \cup OtherVerbs
      /\ a.Action \in NodeVerbs => kind = "nodes"
      /\ a.Action \in PodVerbs => kind = "pods"
      /\ a.Action \in {"pods", "rspods"} => kind \in {"deployments", "replicasets"}
      /\ a.Action = "scaleset" => a.Extra # ""
  BY KindsAre DEF ActOK, ObjectOK
<1>2. /\ Kind(a) = kind /\ kind \in ListTypes /\ CanonicalResource(kind) = kind
      /\ AnswersOK(a, for, verbPane(a))
  BY <1>1, KindsAre, VerbScreens
<1>3. AnswersOK(a, for, showResourceDetail(kind, a.Namespace, a.Name))
  BY <1>1, <1>2, DetailAnswers
<1>4. kind \in {"nodes", "pods"} => (a.Namespace = NoName <=> kind = "nodes")
  BY <1>1, KindsAre DEF ObjectOK, CanonicalNames
<1>5. OnePiece(a.Namespace) /\ a.Name # NoName /\ kind # ""
  BY <1>1 DEF ObjectOK, CanonicalNames
<1> HIDE DEF kind
<1>6. CASE a.Action \in Inspects \cup Reads \cup PodLogs \cup showUsage
  <2>1. D = verbPane(a)
    BY <1>6 DEF dispatchResourceAction, Inspects, Reads, PodLogs, showUsage
  <2>2. QED  BY <1>2, <2>1
<1>7. CASE a.Action \in {"pods", "rspods"}
  <2>1. D = showPodResults(a, a.Namespace, Owned(a))
    BY <1>7 DEF dispatchResourceAction, Inspects, Reads, PodLogs, showUsage
  <2> DEFINE asked == {o \in ToSet(Objects) : o.kind = "pods" /\ o.ns = a.Namespace}
  <2>2. Owned(a) = Found(asked) /\ \A o \in asked : o \in ToSet(Objects) /\ o.kind = "pods"
    BY DEF Owned
  <2> HIDE DEF asked
  <2>3. QED  BY <1>1, <1>5, <2>1, <2>2, PodAnswers DEF kind
<1>8. CASE a.Action = "nodepods"
  <2>1. D = showPodResults(a, NoName, Hosted)
    BY <1>8 DEF dispatchResourceAction, Inspects, Reads, PodLogs, showUsage
  <2> DEFINE asked == {o \in ToSet(Objects) : o.kind = "pods"}
  <2>2. Hosted = Found(asked) /\ \A o \in asked : o \in ToSet(Objects) /\ o.kind = "pods"
    BY DEF Hosted
  <2> HIDE DEF asked
  <2>3. QED  BY <1>1, <2>1, <2>2, NoNameIs, PodAnswers DEF kind
<1>9. CASE a.Action \in {"cordon", "uncordon"}
  <2>1. D = setNodeSchedulable(a)
    BY <1>9 DEF dispatchResourceAction, Inspects, Reads, PodLogs, showUsage
  <2>2. kind = "nodes" /\ a.Namespace = NoName
    BY <1>1, <1>4, <1>9 DEF NodeVerbs
  <2>3. QED  BY <1>2, <1>3, <2>1, <2>2, UnionOK DEF setNodeSchedulable
<1>10. CASE a.Action = "drain"
  <2>1. D = confirmDrain(a)
    BY <1>10 DEF dispatchResourceAction, Inspects, Reads, PodLogs, showUsage
  <2>2. kind = "nodes"
    BY <1>1, <1>10 DEF NodeVerbs
  <2>3. AnswersOK(a, for, Asks("drain", a))
    BY <2>2, VerbScreens DEF kind
  <2>4. QED  BY <1>2, <2>1, <2>3, UnionOK DEF confirmDrain
<1>11. CASE a.Action = "confirmdrain"
  <2>1. D = drainNode(a)
    BY <1>11 DEF dispatchResourceAction, Inspects, Reads, PodLogs, showUsage
  <2>2. QED  BY <1>2, <2>1 DEF drainNode
<1>12. CASE a.Action \in {"scale", "rsscale"}
  <2>1. D = showScaleOptions(a)
    BY <1>12 DEF dispatchResourceAction, Inspects, Reads, PodLogs, showUsage
  <2> DEFINE more == IF Scalable(a) THEN Asks("scale", a) ELSE {}
  <2>2. more = {} \/ AnswersOK(a, for, more)
    BY VerbScreens
  <2>3. D = verbPane(a) \cup more
    BY <2>1 DEF showScaleOptions
  <2> HIDE DEF more, D
  <2>4. QED  BY <1>2, <2>2, <2>3, UnionOK DEF D
<1>13. CASE a.Action = "scaleset"
  <2>1. D = applyScale(a)
    BY <1>13 DEF dispatchResourceAction, Inspects, Reads, PodLogs, showUsage
  <2> DEFINE more == IF Scalable(a) /\ a.Extra # ""
                     THEN showResourceDetail(kind, a.Namespace, a.Name) ELSE {}
  <2>2. more = {} \/ AnswersOK(a, for, more)
    BY <1>3
  <2>3. D = verbPane(a) \cup more
    BY <1>2, <2>1 DEF applyScale
  <2> HIDE DEF more, D
  <2>4. QED  BY <1>2, <2>2, <2>3, UnionOK DEF D
<1>14. CASE a.Action = "restart"
  <2>1. D = restartWorkload(a)
    BY <1>14 DEF dispatchResourceAction, Inspects, Reads, PodLogs, showUsage
  <2> DEFINE more == IF kind = "deployments" THEN showResourceDetail(kind, a.Namespace, a.Name) ELSE {}
  <2>2. more = {} \/ AnswersOK(a, for, more)
    BY <1>3
  <2>3. D = verbPane(a) \cup more
    BY <1>2, <2>1 DEF restartWorkload
  <2> HIDE DEF more, D
  <2>4. QED  BY <1>2, <2>2, <2>3, UnionOK DEF D
<1>15. CASE a.Action = "logsopts"
  <2>1. D = showLogOptions(a)
    BY <1>15 DEF dispatchResourceAction, Inspects, Reads, PodLogs, showUsage
  <2>2. kind = "pods"
    BY <1>1, <1>15 DEF PodVerbs
  <2>3. \A c : AnswersOK(a, for, Logs("logs", a, c))
    BY <2>2, VerbScreens DEF kind
  <2>4. \A x \in UNION {Logs("logs", a, c) : c \in UNION {d.containers : d \in Shapes["pods"]}} :
          OutcomeOK(a, for, x)
    BY <2>3 DEF AnswersOK
  <2>5. QED  BY <2>1, <2>3, <2>4 DEF showLogOptions, AnswersOK
<1>16. CASE a.Action = "logsfollow"
  <2>1. D = showFollowLogs(a)
    BY <1>16 DEF dispatchResourceAction, Inspects, Reads, PodLogs, showUsage
  <2>2. kind = "pods"
    BY <1>1, <1>16 DEF PodVerbs
  <2>3. NoName \notin {a.Namespace, a.Name}
    BY <1>4, <1>5, <2>2
  <2>4. AnswersOK(a, for, Logs("follow", a, a.Container))
    BY <2>2, VerbScreens DEF kind
  <2>5. QED  BY <1>2, <2>1, <2>3, <2>4, UnionOK DEF showFollowLogs
<1>17. CASE a.Action = "logsfull"
  <2>1. D = showFullLog(a)
    BY <1>17 DEF dispatchResourceAction, Inspects, Reads, PodLogs, showUsage
  <2>2. Sent.view \notin {"list", "picker", "unavailable"}
    BY DEF Sent
  <2>3. AnswersOK(a, for, Shows(Sent))
    BY <2>2, ShowsOK
  <2>4. QED  BY <1>2, <2>1, <2>3, UnionOK DEF showFullLog
<1>18. CASE a.Action = "delete"
  <2>1. D = IF a.ResourceType = "" \/ a.Name = NoName THEN {} ELSE Asks("delete", a)
    BY <1>18 DEF dispatchResourceAction, Inspects, Reads, PodLogs, showUsage
  <2>2. D = Asks("delete", a)
    BY <1>5, <2>1 DEF kind
  <2>3. QED  BY <2>2, VerbScreens
<1>19. CASE a.Action = "confirmdelete"
  <2>1. D = confirmDelete(a)
    BY <1>19 DEF dispatchResourceAction, Inspects, Reads, PodLogs, showUsage
  <2>2. QED  BY <2>1, DeleteAnswers
<1> HIDE DEF D
<1>20. QED
  BY <1>1, <1>6, <1>7, <1>8, <1>9, <1>10, <1>11, <1>12, <1>13, <1>14, <1>15, <1>16, <1>17, <1>18, <1>19
  DEF NodeVerbs, PodVerbs, OtherVerbs, Reads, PodLogs, D

LEMMA SectionAnswers ==
  ASSUME NEW a, NEW for
  PROVE  /\ \A v \in {"main", "types", "help", "monitor", "ops", "settings", "contexts"} :
              AnswersOK(a, for, Shows(Section(v)))
         /\ \A v \in {"monitor", "ops", "settings"} :
              AnswersOK(a, for, Shows(Notice(v)))
         /\ AnswersOK(a, for, showContextPicker)
         /\ a.Type = "settings" /\ a.Action \in Unserved =>
              AnswersOK(a, for, Shows(Unavailable("settings")))
<1>1. ASSUME NEW v \in {"main", "types", "help", "monitor", "ops", "settings", "contexts"}
      PROVE  AnswersOK(a, for, Shows(Section(v)))
  <2>1. Section(v).view \notin {"list", "picker", "unavailable"} /\ ScreenOK(Section(v))
    BY ScreensOK DEF Section
  <2>2. QED  BY <2>1, ShowsOK
<1>2. ASSUME NEW v \in {"monitor", "ops", "settings"}
      PROVE  AnswersOK(a, for, Shows(Notice(v)))
  <2>1. Notice(v).view \notin {"list", "picker", "unavailable"} /\ ScreenOK(Notice(v))
    BY ScreensOK DEF Notice
  <2>2. QED  BY <2>1, ShowsOK
<1>3. AnswersOK(a, for, showContextPicker)
  BY <1>1, <1>2 DEF showContextPicker
<1>4. ASSUME a.Type = "settings", a.Action \in Unserved
      PROVE  AnswersOK(a, for, Shows(Unavailable("settings")))
  <2> DEFINE s == Unavailable("settings")
  <2>1. s.view \notin {"list", "picker"} /\ ScreenOK(s)
    BY ScreensOK DEF Unavailable
  <2> HIDE DEF s
  <2>2. \A o \in Shows(s) : o.shows = s /\ o.sets = menuType
    BY DEF Shows
  <2>3. Shows(s) # {}
    BY DEF Shows
  <2>4. \A o \in Shows(s) : OutcomeOK(a, for, o)
    BY <1>4, <2>1, <2>2 DEF OutcomeOK
  <2>5. QED  BY <2>3, <2>4 DEF AnswersOK, s
<1>5. QED  BY <1>1, <1>2, <1>3, <1>4

LEMMA PickerAnswers ==
  ASSUME NEW a, NEW for, NEW page, SessionOK
  PROVE  AnswersOK(a, for, showNamespacePicker(page, for))
<1> DEFINE s == Picker(page, menuType, for)
<1>1. s.view = "picker" /\ s.for = for
  BY DEF Picker
<1>2. ScreenOK(s)
  BY ScreensOK DEF SessionOK
<1>3. showNamespacePicker(page, for) = Shows(Notice("settings")) \cup Shows(s)
  BY DEF showNamespacePicker
<1> HIDE DEF s
<1>4. AnswersOK(a, for, Shows(s))
  BY <1>1, <1>2 DEF AnswersOK, OutcomeOK, Shows
<1>5. QED  BY <1>3, <1>4, SectionAnswers, UnionOK

LEMMA Answers ==
  ASSUME NEW a, NEW for, ActOK(a), SessionOK
  PROVE  /\ a.Type # "noop" => AnswersOK(a, for, dispatchCallback(a, for))
         /\ a.Type = "noop" => dispatchCallback(a, for) = {}
<1> DEFINE D == dispatchCallback(a, for)
<1>1. CASE a.Type \in {"main", "help"}
  BY <1>1, SectionAnswers DEF dispatchCallback
<1>2. CASE a.Type = "resource"
  <2>1. D = dispatchResourceCallback(a)
    BY <1>2 DEF dispatchCallback
  <2>2. QED  BY <1>2, <2>1, ResourceAnswers
<1>3. CASE a.Type = "action"
  <2>1. D = dispatchResourceAction(a)
    BY <1>3 DEF dispatchCallback
  <2>2. QED  BY <1>3, <2>1, ActionAnswers
<1>4. CASE a.Type = "monitor"
  <2>1. D = dispatchMonitorCallback(a) /\ a.Action \in {"home", "top", "events", "watch"}
    BY <1>4 DEF dispatchCallback, ActOK
  <2>2. D = IF a.Action = "home" THEN Shows(Section("monitor")) ELSE Shows(Notice("monitor"))
    BY <1>4, <2>1 DEF dispatchMonitorCallback, Home
  <2>3. QED  BY <1>4, <2>2, SectionAnswers
<1>5. CASE a.Type = "ops"
  <2>1. D = dispatchOpsCallback(a) /\ a.Action \in {"home", "restart", "scale", "delete", "edit"}
    BY <1>5 DEF dispatchCallback, ActOK
  <2>2. D = IF a.Action = "home" THEN Shows(Section("ops")) ELSE Shows(Notice("ops"))
    BY <1>5, <2>1 DEF dispatchOpsCallback, Home
  <2>3. QED  BY <1>5, <2>2, SectionAnswers
<1>6. CASE a.Type = "settings"
  <2>1. D = dispatchSettingsCallback(a, for)
    BY <1>6 DEF dispatchCallback
  <2>2. CASE a.Action = "home"
    BY <1>6, <2>1, <2>2, SectionAnswers DEF dispatchSettingsCallback, Home
  <2>3. CASE a.Action = "context"
    BY <1>6, <2>1, <2>3, SectionAnswers DEF dispatchSettingsCallback
  <2>4. CASE a.Action = "namespace"
    BY <1>6, <2>1, <2>4, PickerAnswers DEF dispatchSettingsCallback
  <2>5. CASE a.Action \notin {"home", "context", "namespace"}
    BY <1>6, <2>1, <2>5, SectionAnswers DEF dispatchSettingsCallback, ActOK
  <2>6. QED  BY <2>2, <2>3, <2>4, <2>5
<1>7. CASE a.Type = "ns"
  <2>1. D = dispatchNamespaceCallback(a, for)
    BY <1>7 DEF dispatchCallback
  <2>2. CASE a.Action = "set"
    BY <1>7, <2>1, <2>2, SectionAnswers DEF dispatchNamespaceCallback
  <2>3. CASE a.Action # "set"
    <3> DEFINE page == IF a.Action = "page" THEN Atoi(Head(a.Name)) ELSE 0
    <3>1. D = showNamespacePicker(page, for)
      BY <2>1, <2>3 DEF dispatchNamespaceCallback
    <3> HIDE DEF page, D
    <3>2. AnswersOK(a, for, D)
      BY <3>1, PickerAnswers
    <3>3. QED  BY <1>7, <3>2 DEF D
  <2>4. QED  BY <2>2, <2>3
<1>8. CASE a.Type = "ctx"
  <2>1. CASE a.Action = "refresh"
    BY <1>8, <2>1, SectionAnswers DEF dispatchCallback
  <2>2. CASE a.Action = "switch"
    <3>1. D = switchContext(a.Name)
      BY <1>8, <2>2 DEF dispatchCallback
    <3> DEFINE more == IF a.Name \in Contexts THEN showContextPicker ELSE {}
    <3>2. more = {} \/ AnswersOK(a, for, more)
      BY SectionAnswers
    <3>3. D = Shows(Notice("settings")) \cup more
      BY <3>1 DEF switchContext
    <3> HIDE DEF more, D
    <3>4. AnswersOK(a, for, D)
      BY <3>2, <3>3, SectionAnswers, UnionOK
    <3>5. QED  BY <1>8, <3>4 DEF D
  <2>3. QED  BY <1>8, <2>1, <2>2 DEF ActOK
<1>9. CASE a.Type = "noop"
  BY <1>9 DEF dispatchCallback
<1>10. QED
  BY <1>1, <1>2, <1>3, <1>4, <1>5, <1>6, <1>7, <1>8, <1>9, Types10 DEF ActOK

LEMMA ReadIsOK ==
  ASSUME NEW a, ActOK(a), SessionOK
  PROVE  LET r == ReadSession(a)
         IN ActOK(r) /\ (r.Type = "noop" <=> a.Type = "noop")
<1> DEFINE r == ReadSession(a)
<1>1. OnePiece(ns) /\ ns \in Scopes /\ menuType \in {""} \cup ListTypes
  BY NavigationAssumption, NoNameIs DEF SessionOK, Scopes
<1>2. CASE a.Type = "ns" /\ a.Action = "set" /\ menuType # ""
  <2> DEFINE n == IF a.Name # NoName THEN a.Name ELSE ns
  <2>1. r = [NoFields EXCEPT !.Type = "resource", !.Action = "list", !.ResourceType = menuType,
                             !.Namespace = n]
    BY <1>2 DEF ReadSession, IsList
  <2>2. OnePiece(n)
    BY <1>1 DEF ActOK
  <2> HIDE DEF n
  <2>3. r = Fields("resource", "list", menuType, n, NoName, "", "")
    BY <2>1 DEF NoFields, Fields
  <2> HIDE DEF r
  <2>4. /\ r.Type = "resource" /\ r.Action = "list" /\ r.ResourceType = menuType
        /\ r.Namespace = n /\ r.Name = NoName /\ Whole(r)
    BY <2>3 DEF Fields, Whole
  <2>5. ActOK(r)
    BY <1>1, <1>2, <2>2, <2>4, Types10, NoNameIs DEF ActOK, ButtonTypes
  <2>6. QED  BY <1>2, <2>4, <2>5 DEF r
<1>3. CASE IsList(a) /\ a.Namespace = NoName
  <2>1. r = [a EXCEPT !.Namespace = ns]
    BY <1>3 DEF ReadSession, IsList
  <2>2. Whole(a)
    BY DEF ActOK
  <2> HIDE DEF r
  <2>3. /\ r.Type = a.Type /\ r.Action = a.Action /\ r.ResourceType = a.ResourceType
        /\ r.Namespace = ns /\ r.Name = a.Name /\ r.Extra = a.Extra /\ Whole(r)
    BY <2>1, <2>2 DEF Whole
  <2>4. a.Action # "view" /\ a.Type = "resource"
    BY <1>3, MapFacts DEF IsList
  <2>5. ActOK(r)
    BY <1>1, <2>3, <2>4 DEF ActOK
  <2>6. QED  BY <2>3, <2>5 DEF r
<1>4. CASE /\ ~(a.Type = "ns" /\ a.Action = "set" /\ menuType # "")
           /\ ~(IsList(a) /\ a.Namespace = NoName)
  BY <1>4 DEF ReadSession
<1>5. QED  BY <1>2, <1>3, <1>4

LEMMA ButtonAnswers ==
  ASSUME SessionOK, NEW b, Good(b), b.means.Type # "noop"
  PROVE  /\ Outcomes(b) # {}
         /\ \A o \in Outcomes(b) :
              /\ o.shows.view # "unimplemented"
              /\ o.shows.view = "unavailable" =>
                   b.means.Type = "settings" /\ b.means.Action \in Unserved
              /\ o.shows.view = "unknown" => o.shows.kind \in Unopened
<1> DEFINE a == AsRead(b.means)
           r == ReadSession(a)
<1>1. ParseCallbackData(b.data) = a /\ ActOK(a) /\ a.Type # "noop"
      /\ a.Type = b.means.Type /\ (a.Type = "settings" => a = b.means)
  <2>1. a.Type = b.means.Type /\ (b.means.Type # "ctx" => a = b.means)
    BY AsReadIs DEF Good
  <2>2. QED  BY <2>1 DEF Good
<1> HIDE DEF a
<1>2. ActOK(r) /\ r.Type # "noop"
  BY <1>1, ReadIsOK
<1>3. Outcomes(b) = dispatchCallback(r, Lost)
  BY <1>1 DEF Outcomes
<1>4. r.Type = "settings" => r = a
  <2>1. CASE a.Type = "ns" /\ a.Action = "set" /\ menuType # ""
    <3>1. r.Type = "resource"
      BY <2>1 DEF ReadSession, IsList, NoFields
    <3>2. QED  BY <3>1
  <2>2. CASE IsList(a) /\ a.Namespace = NoName
    <3>1. r = [a EXCEPT !.Namespace = ns] /\ a.Type = "resource"
      BY <2>2 DEF ReadSession, IsList
    <3> HIDE DEF r
    <3>2. r.Type = "resource"
      BY <1>1, <3>1 DEF ActOK, Whole
    <3>3. QED  BY <3>2
  <2>3. CASE ~(a.Type = "ns" /\ a.Action = "set" /\ menuType # "") /\ ~(IsList(a) /\ a.Namespace = NoName)
    BY <2>3 DEF ReadSession
  <2>4. QED  BY <2>1, <2>2, <2>3
<1> HIDE DEF r
<1>5. AnswersOK(r, Lost, dispatchCallback(r, Lost))
  BY <1>2, Answers
<1>6. \A s : ScreenOK(s) => s.view # "unimplemented" /\ (s.view = "unknown" => s.kind \in Unopened)
  BY DEF ScreenOK, Views
<1>7. Sent.view \notin {"unimplemented", "unavailable", "unknown"}
  BY DEF Sent
<1>8. \A o \in Outcomes(b) :
        o.shows.view = "unavailable" => b.means.Type = "settings" /\ b.means.Action \in Unserved
  BY <1>1, <1>3, <1>4, <1>5 DEF AnswersOK, OutcomeOK
<1>9. QED  BY <1>3, <1>5, <1>6, <1>7, <1>8 DEF AnswersOK, OutcomeOK

\* From a screen with the main menu's button, one tap leads home.
LEMMA MainLeadsHome ==
  ASSUME NEW s, Main \in Keyboard(s)
  PROVE  OneTap(s)
<1> DEFINE a == ParseCallbackData(Main.data)
<1>1. a = Fields("main", "", "", NoName, NoName, "", "")
  BY BareMeans DEF Main, Means
<1> HIDE DEF a
<1>2. a.Type = "main"
  BY <1>1 DEF Fields
<1>3. QED  BY <1>2 DEF OneTap, a

LEMMA OneTapHome ==
  ASSUME NEW s, ScreenOK(s),
         s.view \in {"types", "help", "monitor", "ops", "settings", "contexts", "notice",
                     "unavailable", "unknown", "result", "detail"}
  PROVE  OneTap(s)
<1>1. Main \in Keyboard(s)
  BY KeyboardsAre
  DEF GetResourceTypeInlineKeyboard, GetHelpInlineKeyboard, GetMonitorInlineKeyboard,
      GetOperationsInlineKeyboard, GetSettingsInlineKeyboard, GetContextsInlineKeyboard,
      GetSectionResultKeyboard, GetVerbResultKeyboard, GetResourceActionInlineKeyboard
<1>2. QED  BY <1>1, MainLeadsHome

\* What a button that says what it does leads to.
LEMMA OutcomesOf ==
  ASSUME NEW b, Means(b), ~IsList(b.means), b.means.Type # "ns"
  PROVE  Outcomes(b) = dispatchCallback(b.means, Lost)
BY DEF Outcomes, Means, ReadSession

LEMMA TypesLeadsHome ==
  ASSUME NEW s, Types \in Keyboard(s)
  PROVE  TwoTaps(s)
<1>1. Means(Types) /\ Types.means = Fields("resource", "types", "", NoName, NoName, "", "")
  BY PlainMeans DEF Types
<1> DEFINE a == Types.means
<1>2. a = Fields("resource", "types", "", NoName, NoName, "", "")
  BY <1>1
<1> HIDE DEF a
<1>3. a.Type = "resource" /\ a.Action = "types"
  BY <1>2 DEF Fields
<1>4. ~IsList(a)
  BY <1>3, MapFacts DEF IsList
<1>5. Outcomes(Types) = Shows(Section("types"))
  <2>1. Outcomes(Types) = dispatchCallback(a, Lost)
    BY <1>1, <1>3, <1>4, OutcomesOf DEF a
  <2>2. QED  BY <1>3, <1>4, <2>1 DEF dispatchCallback, dispatchResourceCallback
<1>6. OneTap(Section("types")) /\ Section("types") # Sent
  BY ScreensOK, OneTapHome DEF Section, Sent
<1>7. Types.means.Action \notin Changing
  BY <1>3 DEF Changing, a
<1>8. \A o \in Outcomes(Types) : o.shows = Section("types")
  BY <1>5 DEF Shows
<1>9. Outcomes(Types) # {}
  BY <1>5 DEF Shows
<1>10. Leads(s, OneTap)
  BY <1>6, <1>7, <1>8, <1>9 DEF Leads
<1>11. QED  BY <1>10 DEF TwoTaps

LEMMA ViewLeadsHome ==
  ASSUME NEW kind, NEW n, NEW name, ObjectOK(kind, n, name), NEW s, View(kind, n, name) \in Keyboard(s)
  PROVE  TwoTaps(s)
<1> DEFINE b == View(kind, n, name)
           a == b.means
<1>1. OnePiece(n) /\ OnePiece(name) /\ name # NoName /\ kind \in CanonicalNames
  BY KindsAre DEF ObjectOK
<1>2. Means(b) /\ a = Fields("resource", "view", kind, n, name, "", "")
  BY <1>1, ViewMeans
<1> HIDE DEF a
<1>3. /\ a.Type = "resource" /\ a.Action = "view" /\ a.ResourceType = kind /\ a.Namespace = n
      /\ a.Name = name
  BY <1>2 DEF Fields
<1>4. ~IsList(a)
  BY <1>3, MapFacts DEF IsList
<1>5. kind # "" /\ Known(kind) /\ CanonicalResource(kind) = kind
  BY <1>1, KindsAre DEF CanonicalNames
<1>6. Outcomes(b) = showResourceDetail(kind, n, name)
  <2>1. Outcomes(b) = dispatchCallback(a, Lost)
    BY <1>2, <1>3, <1>4, OutcomesOf DEF a
  <2>2. dispatchCallback(a, Lost) = dispatchResourceCallback(a)
    BY <1>3 DEF dispatchCallback
  <2>3. dispatchResourceCallback(a) = showResourceDetail(kind, n, name)
    BY <1>1, <1>3, <1>4, <1>5 DEF dispatchResourceCallback
  <2>4. QED  BY <2>1, <2>2, <2>3
<1> HIDE DEF b
<1>7. ASSUME NEW o \in showResourceDetail(kind, n, name)
      PROVE  o.shows # Sent /\ OneTap(o.shows)
  <2> DEFINE screens == {[view |-> "detail", kind |-> kind, ns |-> n, name |-> name, details |-> d] :
                           d \in Shapes[kind]}
  <2>1. (IF IsClusterScoped(kind) THEN NoName ELSE n) = n
    BY DEF ObjectOK
  <2>2. showResourceDetail(kind, n, name) = Shows(Result(kind, n, name)) \cup Leaves(screens, kind)
    BY <1>5, <2>1 DEF showResourceDetail
  <2>3. o.shows = Result(kind, n, name) \/ o.shows \in screens
    BY <2>2 DEF Shows, Leaves
  <2>4. CASE o.shows = Result(kind, n, name)
    <3>1. ScreenOK(Result(kind, n, name))
      BY ScreensOK
    <3>2. Result(kind, n, name).view = "result"
      BY DEF Result, Verb
    <3>3. QED  BY <2>4, <3>1, <3>2, OneTapHome DEF Sent
  <2>5. CASE o.shows \in screens
    <3>1. PICK d \in Shapes[kind] :
            o.shows = [view |-> "detail", kind |-> kind, ns |-> n, name |-> name, details |-> d]
      BY <2>5
    <3>2. ScreenOK(o.shows)
      BY <3>1, ScreensOK
    <3>3. o.shows.view = "detail"
      BY <3>1
    <3>4. QED  BY <3>2, <3>3, OneTapHome DEF Sent
  <2>6. QED  BY <2>3, <2>4, <2>5
<1>8. showResourceDetail(kind, n, name) # {}
  BY <1>5 DEF showResourceDetail, Shows
<1>9. b.means.Action \notin Changing
  BY <1>3 DEF Changing, a
<1>10. Leads(s, OneTap)
  BY <1>6, <1>7, <1>8, <1>9 DEF Leads, b
<1>11. QED  BY <1>10 DEF TwoTaps

\* The Stop button leads to the pod's result.
LEMMA FollowLeadsHome ==
  ASSUME NEW n, NEW name, ObjectOK("pods", n, name), NEW c,
         NEW s, Keyboard(s) = StopKeyboard(n, name, c)
  PROVE  TwoTaps(s)
<1> DEFINE b == IF c = "" THEN Acts("logsfollowstop", "pods", n, name)
                ELSE ActsOn("logsfollowstop", n, name, c)
           a == b.means
<1>1. b \in Keyboard(s)
  BY DEF StopKeyboard
<1>2. OnePiece(n) /\ OnePiece(name) /\ "logsfollowstop" \notin valueInContainerSlot
  BY DEF ObjectOK, valueInContainerSlot
<1>3. Means(b) /\ a = Fields("action", "logsfollowstop", "pods", n, name, c, "")
  <2>1. CASE c = ""
    BY <1>2, <2>1, ActsMeans
  <2>2. CASE c # ""
    BY <1>2, <2>2, ActsOnMeans
  <2>3. QED  BY <2>1, <2>2
<1> HIDE DEF a
<1>4. /\ a.Type = "action" /\ a.Action = "logsfollowstop" /\ a.ResourceType = "pods"
      /\ a.Namespace = n /\ a.Name = name
  BY <1>3 DEF Fields
<1> HIDE DEF b
<1>5. Outcomes(b) = Shows(Result("pods", n, name))
  <2>1. Outcomes(b) = dispatchCallback(a, Lost)
    BY <1>3, <1>4, OutcomesOf DEF a, IsList
  <2>2. dispatchCallback(a, Lost) = dispatchResourceAction(a)
    BY <1>4 DEF dispatchCallback
  <2>3. dispatchResourceAction(a) = verbPane(a)
    BY <1>4 DEF dispatchResourceAction, PodLogs
  <2>4. Kind(a) = "pods"
    <3>1. "pods" \in CanonicalNames
      BY DEF CanonicalNames
    <3>2. CanonicalResource("pods") = "pods"
      BY <3>1, KindsAre
    <3>3. QED  BY <1>4, <3>2 DEF Kind
  <2>5. verbPane(a) = Shows(Result("pods", n, name))
    BY <1>4, <2>4 DEF verbPane
  <2>6. QED  BY <2>1, <2>2, <2>3, <2>5
<1>6. ScreenOK(Result("pods", n, name)) /\ Result("pods", n, name).view = "result"
  BY ScreensOK DEF Result, Verb
<1>7. Result("pods", n, name) # Sent /\ OneTap(Result("pods", n, name))
  BY <1>6, OneTapHome DEF Sent
<1>8. b.means.Action \notin Changing
  BY <1>4 DEF Changing, a
<1>9. Outcomes(b) # {} /\ \A o \in Outcomes(b) : o.shows = Result("pods", n, name)
  BY <1>5 DEF Shows
<1>10. Leads(s, OneTap)
  BY <1>1, <1>7, <1>8, <1>9 DEF Leads
<1>11. QED  BY <1>10 DEF TwoTaps

\* A list that a picker leads back to is two taps from home.
LEMMA BackIsNear ==
  ASSUME NEW type \in ListTypes, NEW n, NEW page,
         NEW o \in listResources(type, n, page)
  PROVE  o.shows # Sent /\ TwoTaps(o.shows)
<1> DEFINE scope == IF IsClusterScoped(type) THEN NoName ELSE n
           asked == {x \in ToSet(Objects) : x.kind = ResourceMap[type] /\ scope \in {NoName, x.ns}}
           screens == {IF f = {} THEN Section("types") ELSE List(type, scope, f, page) : f \in Found(asked)}
<1>1. listResources(type, n, page) = Shows(Section("types")) \cup Leaves(screens, type)
  BY KindsAre DEF listResources
<1>2. o.shows = Section("types") \/ \E f \in Found(asked) : o.shows = List(type, scope, f, page)
  BY <1>1 DEF Shows, Leaves
<1>3. CASE o.shows = Section("types")
  <2>1. ScreenOK(Section("types")) /\ Section("types").view = "types"
    BY ScreensOK DEF Section
  <2>2. OneTap(Section("types"))
    BY <2>1, OneTapHome
  <2>3. Section("types") # Sent
    BY DEF Section, Sent
  <2>4. TwoTaps(Section("types"))
    BY <2>2 DEF TwoTaps
  <2>5. QED  BY <1>3, <2>3, <2>4
<1>4. CASE \E f \in Found(asked) : o.shows = List(type, scope, f, page)
  <2>1. o.shows.view = "list"
    BY <1>4 DEF List
  <2>2. Types \in Keyboard(o.shows)
    BY <2>1, KeyboardsAre DEF GetResourceListInlineKeyboard
  <2>3. QED  BY <2>1, <2>2, TypesLeadsHome DEF Sent
<1>5. QED  BY <1>2, <1>3, <1>4

LEMMA PickerLeadsHome ==
  ASSUME SessionOK, NEW s, ScreenOK(s), s.view = "picker"
  PROVE  Leads(s, TwoTaps)
<1>1. s.back \in {""} \cup ListTypes
  BY DEF ScreenOK
<1> DEFINE type == IF s.back = "" THEN "settings" ELSE "resource"
           verb == IF s.back = "" THEN "home" ELSE s.back
           b == Plain(type, verb)
           a == b.means
<1>2. b \in Keyboard(s)
  BY KeyboardsAre DEF GetNamespaceInlineKeyboard
<1>3. type \in {"resource", "settings"}
  OBVIOUS
<1>4. \/ type = "settings" /\ verb = "home"
      \/ type = "resource" /\ verb \in ListTypes
  <2>1. CASE s.back = ""
    BY <2>1
  <2>2. CASE s.back # ""
    BY <1>1, <2>2
  <2>3. QED  BY <2>1, <2>2
<1> HIDE DEF type, verb
<1>5. Means(b) /\ a = Fields(type, verb, "", NoName, NoName, "", "")
  BY <1>3, PlainMeans
<1> HIDE DEF a
<1>6. /\ a.Type = type /\ a.Action = verb /\ a.ResourceType = "" /\ a.Namespace = NoName
      /\ a.Name = NoName /\ a.Extra = ""
  BY <1>5 DEF Fields
<1>7. Outcomes(b) = dispatchCallback(ReadSession(a), Lost)
  BY <1>5 DEF Outcomes, Means, a
<1> HIDE DEF b
<1>8. Outcomes(b) # {} /\ \A o \in Outcomes(b) : o.shows # Sent /\ TwoTaps(o.shows)
  <2>1. CASE type = "settings" /\ verb = "home"
    <3>1. ReadSession(a) = a
      BY <1>6, <2>1 DEF ReadSession, IsList
    <3>2. dispatchCallback(a, Lost) = dispatchSettingsCallback(a, Lost)
      BY <1>6, <2>1 DEF dispatchCallback
    <3>3. dispatchSettingsCallback(a, Lost) = Shows(Section("settings"))
      BY <1>6, <2>1 DEF dispatchSettingsCallback, Home
    <3>4. ScreenOK(Section("settings")) /\ Section("settings").view = "settings"
      BY ScreensOK DEF Section
    <3>5. Section("settings") # Sent /\ TwoTaps(Section("settings"))
      <4>1. OneTap(Section("settings"))
        BY <3>4, OneTapHome
      <4>2. Section("settings") # Sent
        BY DEF Section, Sent
      <4>3. TwoTaps(Section("settings"))
        BY <4>1 DEF TwoTaps
      <4>4. QED  BY <4>2, <4>3
    <3>6. QED  BY <1>7, <3>1, <3>2, <3>3, <3>5 DEF Shows
  <2>2. CASE type = "resource" /\ verb \in ListTypes
    <3> DEFINE r == ReadSession(a)
    <3>1. IsList(a)
      BY <1>6, <2>2, KindsAre DEF IsList
    <3>2. r = [a EXCEPT !.Namespace = ns]
      BY <1>6, <2>2, <3>1 DEF ReadSession
    <3>3. a = [Type |-> type, Action |-> verb, ResourceType |-> "", Namespace |-> NoName,
               Name |-> NoName, Container |-> "", Extra |-> ""]
      BY <1>5 DEF Fields
    <3> HIDE DEF r
    <3>4. /\ r.Type = "resource" /\ r.Action = verb /\ r.ResourceType = "" /\ r.Namespace = ns
      BY <2>2, <3>2, <3>3
    <3>5. IsList(r) /\ verb \notin {"types", "view"} /\ ListType(r) = verb
      BY <2>2, <3>4, KindsAre, MapFacts DEF IsList, ListType
    <3>6. dispatchCallback(r, Lost) = dispatchResourceCallback(r)
      BY <3>4 DEF dispatchCallback
    <3>7. dispatchResourceCallback(r) = listResources(verb, ns, Atoi(r.Extra))
      BY <3>4, <3>5 DEF dispatchResourceCallback
    <3>8. Outcomes(b) = listResources(verb, ns, Atoi(r.Extra))
      BY <1>7, <3>6, <3>7 DEF r
    <3>9. Outcomes(b) # {}
      BY <2>2, <3>8, KindsAre DEF listResources, Shows
    <3>10. QED  BY <2>2, <3>8, <3>9, BackIsNear
  <2>3. QED  BY <1>4, <2>1, <2>2
<1>9. b.means.Action \notin Changing
  <2>1. verb \notin Changing
    <3>1. "home" \notin Changing
      BY DEF Changing
    <3>2. \A t \in ListTypes : t \notin Changing
      BY KindsAre, MapFacts
    <3>3. QED  BY <1>4, <3>1, <3>2
  <2>2. QED  BY <1>6, <2>1 DEF a
<1>10. QED  BY <1>2, <1>8, <1>9 DEF Leads

LEMMA WayOut ==
  ASSUME SessionOK, NEW s, ScreenOK(s)
  PROVE  TwoTaps(s) \/ Leads(s, TwoTaps)
<1>1. CASE s.view \in {"types", "help", "monitor", "ops", "settings", "contexts", "notice",
                       "unavailable", "unknown", "result", "detail"}
  BY <1>1, OneTapHome DEF TwoTaps
<1>2. CASE s.view \in {"main", "list"}
  <2>1. Types \in Keyboard(s)
    BY <1>2, KeyboardsAre DEF GetMainMenuInlineKeyboard, GetResourceListInlineKeyboard
  <2>2. QED  BY <2>1, TypesLeadsHome
<1>3. CASE s.view \in {"delete", "scale"}
  <2>1. ObjectOK(s.kind, s.ns, s.name)
    BY <1>3 DEF ScreenOK
  <2>2. View(s.kind, s.ns, s.name) \in Keyboard(s)
    BY <1>3, KeyboardsAre DEF GetConfirmDeleteKeyboard, GetScaleKeyboard
  <2>3. QED  BY <2>1, <2>2, ViewLeadsHome
<1>4. CASE s.view = "drain"
  <2>1. ObjectOK("nodes", s.ns, s.name)
    BY <1>4 DEF ScreenOK
  <2>2. s.ns = NoName
    BY <2>1, KindsAre DEF ObjectOK, CanonicalNames
  <2>3. View("nodes", NoName, s.name) \in Keyboard(s)
    BY <1>4, KeyboardsAre DEF ConfirmDrainKeyboard
  <2>4. QED  BY <2>1, <2>2, <2>3, ViewLeadsHome
<1>5. CASE s.view = "logs"
  <2>1. ObjectOK("pods", s.ns, s.name)
    BY <1>5 DEF ScreenOK
  <2>2. View("pods", s.ns, s.name) \in Keyboard(s)
    BY <1>5, KeyboardsAre DEF GetLogOptionsKeyboard
  <2>3. QED  BY <2>1, <2>2, ViewLeadsHome
<1>6. CASE s.view = "follow"
  <2>1. ObjectOK("pods", s.ns, s.name)
    BY <1>6 DEF ScreenOK
  <2>2. Keyboard(s) = StopKeyboard(s.ns, s.name, s.container)
    BY <1>6, KeyboardsAre
  <2>3. QED  BY <2>1, <2>2, FollowLeadsHome
<1>7. CASE s.view = "picker"
  BY <1>7, PickerLeadsHome
<1>8. QED  BY <1>1, <1>2, <1>3, <1>4, <1>5, <1>6, <1>7 DEF ScreenOK, Views

-----------------------------------------------------------------------------
(* Steps. *)

\* A picker that has lost its claim is the same picker.
LEMMA ForgottenScreen ==
  ASSUME NEW s, ScreenOK(s), NEW type
  PROVE  ScreenOK(ForgetsFor(s)) /\ PickerOK(ForgetsFor(s), type)
<1>1. CASE s.view = "picker"
  <2>1. s = Picker(s.page, s.back, s.for) /\ s.back \in {""} \cup ListTypes
    BY <1>1 DEF ScreenOK
  <2>2. [s EXCEPT !.for = Lost] = Picker(s.page, s.back, Lost)
    <3> DEFINE p == s.page
               k == s.back
               f == s.for
    <3>1. s = Picker(p, k, f)
      BY <2>1
    <3> HIDE DEF p, k, f
    <3>2. [s EXCEPT !.for = Lost] = Picker(p, k, Lost)
      BY <3>1 DEF Picker
    <3>3. QED  BY <3>2 DEF p, k
  <2>3. ForgetsFor(s) = Picker(s.page, s.back, Lost)
    BY <1>1, <2>2 DEF ForgetsFor
  <2>4. Picker(s.page, s.back, Lost).for = Lost
    BY DEF Picker
  <2>5. QED  BY <2>1, <2>3, <2>4, ScreensOK DEF PickerOK
<1>2. CASE s.view # "picker"
  BY <1>2 DEF ForgetsFor, PickerOK
<1>3. QED  BY <1>1, <1>2

\* A handler that has lost its claim goes on.
LEMMA ForgottenJob ==
  ASSUME NEW w, w # Idle, NEW type, NEW n, JobOK(w, type, n), NEW type2, NEW n2
  PROVE  JobOK(Forgets(w), type2, n2)
<1> DEFINE c == IF w.claim = Lost \/ w.claim.firm THEN w.claim ELSE Lost
           v == Forgets(w)
<1>1. \/ c = Lost
      \/ c = w.claim /\ w.claim # Lost /\ w.claim.firm
  BY Zenon
<1>2. ClaimOK(w, type, n) /\ (Handling(w) \/ Editing(w, type))
  BY DEF JobOK
<1>3. CASE Handling(w)
  <2>1. w.pc \in {"reading", "calling"} /\ w = [pc |-> w.pc, act |-> w.act, claim |-> w.claim]
    BY <1>3 DEF Handling
  <2>2. v = [w EXCEPT !.claim = c]
    BY <2>1 DEF Forgets
  <2> HIDE DEF v, c
  <2>3. v.pc = w.pc /\ v.act = w.act /\ v.claim = c /\ v = [pc |-> v.pc, act |-> v.act, claim |-> v.claim]
    BY <2>1, <2>2
  <2>4. Handling(v)
    BY <1>3, <2>3 DEF Handling
  <2>5. ClaimOK(v, type2, n2)
    <3>1. CASE c = Lost
      BY <2>3, <3>1 DEF ClaimOK
    <3>2. CASE c = w.claim /\ w.claim # Lost /\ w.claim.firm
      BY <1>2, <2>1, <2>3, <3>2 DEF ClaimOK
    <3>3. QED  BY <1>1, <3>1, <3>2
  <2>6. QED  BY <2>4, <2>5 DEF JobOK, v
<1>4. CASE Editing(w, type)
  <2>1. /\ w = [pc |-> "editing", act |-> NoFields, claim |-> w.claim, screen |-> w.screen]
        /\ w.screen # Sent => ScreenOK(w.screen)
    BY <1>4 DEF Editing
  <2>2. w.pc = "editing"
    BY <2>1
  <2> DEFINE s == ForgetsFor(w.screen)
  <2>3. v = [w EXCEPT !.claim = c, !.screen = s]
    BY <2>2 DEF Forgets
  <2>4. w.screen = Sent => s = Sent
    BY DEF ForgetsFor, Sent
  <2>5. w.screen # Sent => ScreenOK(s) /\ PickerOK(s, type2)
    BY <2>1, ForgottenScreen
  <2>6. s.view = "list" => s = w.screen
    <3>1. w.screen.view = "picker" => s.view = "picker"
      <4>1. w.screen.view = "picker" => w.screen # Sent
        BY DEF Sent
      <4>2. w.screen.view = "picker" => w.screen = Picker(w.screen.page, w.screen.back, w.screen.for)
        BY <2>1, <4>1 DEF ScreenOK
      <4>3. QED  BY <4>2 DEF ForgetsFor, Picker
    <3>2. QED  BY <3>1 DEF ForgetsFor
  <2> HIDE DEF v, c, s
  <2>7. v.pc = "editing" /\ v.claim = c /\ v.screen = s
    BY <2>1, <2>3
  <2>8. v = [pc |-> "editing", act |-> NoFields, claim |-> v.claim, screen |-> v.screen]
    <3> DEFINE x == w.claim
               y == w.screen
    <3>1. w = [pc |-> "editing", act |-> NoFields, claim |-> x, screen |-> y]
      BY <2>1
    <3> HIDE DEF x, y
    <3>2. v = [pc |-> "editing", act |-> NoFields, claim |-> c, screen |-> s]
      BY <2>3, <3>1
    <3>3. QED  BY <2>7, <3>2
  <2>9. Editing(v, type2)
    BY <2>4, <2>5, <2>7, <2>8 DEF Editing
  <2>10. ClaimOK(v, type2, n2)
    <3>1. CASE c = Lost
      BY <2>7, <3>1 DEF ClaimOK
    <3>2. CASE c = w.claim /\ w.claim # Lost
      <4>1. ListOK(w.screen, w.claim)
        BY <1>2, <2>2, <3>2 DEF ClaimOK
      <4>2. ListOK(s, c)
        BY <2>6, <3>2, <4>1 DEF ListOK
      <4>3. QED  BY <2>7, <4>2 DEF ClaimOK
    <3>3. QED  BY <1>1, <3>1, <3>2
  <2>11. QED  BY <2>9, <2>10 DEF JobOK, v
<1>5. QED  BY <1>2, <1>3, <1>4

\* A handler goes on, and the others see what it did to the session.
LEMMA Witnessed ==
  ASSUME NavInv, NEW mine, NEW w, Witness(mine, w),
         mine # {} => JobOK(w, menuType', ns'),
         ns' \in Scopes, menuType' \in {""} \cup ListTypes
  PROVE  NavInv'
<1>1. ScreenOK(pane') /\ PickerOK(pane', menuType')
  <2>1. CASE SessionChanges
    BY <2>1, ForgottenScreen DEF NavInv, Witness
  <2>2. CASE ~SessionChanges
    BY <2>2 DEF NavInv, Witness, SessionChanges
  <2>3. QED  BY <2>1, <2>2
<1>2. jobs' = [j \in Jobs |-> jobs'[j]]
  BY DEF Witness
<1>3. ASSUME NEW j \in Jobs
      PROVE  JobOK(jobs'[j], menuType', ns')
  <2>1. JobOK(jobs[j], menuType, ns)
    BY DEF NavInv
  <2>2. jobs'[j] = IF j \in mine THEN w
                   ELSE IF SessionChanges /\ jobs[j] # Idle THEN Forgets(jobs[j]) ELSE jobs[j]
    BY DEF Witness
  <2>3. CASE j \in mine
    BY <2>2, <2>3
  <2>4. CASE j \notin mine /\ SessionChanges /\ jobs[j] # Idle
    BY <2>1, <2>2, <2>4, ForgottenJob
  <2>5. CASE j \notin mine /\ jobs[j] = Idle
    BY <2>2, <2>5 DEF JobOK
  <2>6. CASE j \notin mine /\ ~SessionChanges
    BY <2>1, <2>2, <2>6 DEF SessionChanges
  <2>7. QED  BY <2>3, <2>4, <2>5, <2>6
<1>4. QED  BY <1>1, <1>2, <1>3 DEF NavInv

LEMMA StartOK == Init => NavInv
<1> SUFFICES ASSUME Init PROVE NavInv
  OBVIOUS
<1>1. PICK v \in {"main", "types", "monitor", "ops", "settings"} : pane = Section(v)
  BY DEF Init
<1>2. pane.view = v
  BY <1>1 DEF Section
<1>3. ScreenOK(pane) /\ PickerOK(pane, menuType)
  BY <1>1, <1>2, ScreensOK DEF PickerOK
<1>4. ns \in Scopes /\ menuType = ""
  BY DEF Init, Scopes
<1>5. \A j \in Jobs : JobOK(jobs[j], menuType, ns)
  BY DEF Init, JobOK
<1>6. jobs = [j \in Jobs |-> jobs[j]]
  BY DEF Init
<1>7. QED  BY <1>3, <1>4, <1>5, <1>6 DEF NavInv

\* What a list's own paging and refreshing are.
LEMMA ListButtons ==
  ASSUME NEW s, s.view = "list", ScreenOK(s), NEW b \in Keyboard(s),
         b.means.Action \in {"page", "refresh"}
  PROVE  /\ b.means.Type = "resource" /\ b.means.ResourceType = s.type
         /\ b.means.Namespace = s.ns
<1>1. s.type \in ListTypes /\ OnePiece(s.ns)
  BY DEF ScreenOK
<1>2. Keyboard(s) = GetResourceListInlineKeyboard(s.type, s.items, s.page, s.pages, s.ns)
  BY KeyboardsAre
<1> DEFINE turns == {ListsPage(s.type, s.ns, p) : p \in Turns(s.page, s.pages)}
<1>3. \/ \E o \in s.items : b = View(s.type, o.ns, o.name)
      \/ \E p : b = ListsPage(s.type, s.ns, p)
      \/ b = Bare("noop") \/ b = Lists("refresh", s.type, s.ns) \/ b = Named("ns", "pick", <<s.type>>)
      \/ b = Types
  <2>1. b \in {View(s.type, o.ns, o.name) : o \in s.items}
              \cup turns \cup (IF turns = {} THEN {} ELSE {Bare("noop")})
              \cup {Lists("refresh", s.type, s.ns), Named("ns", "pick", <<s.type>>), Types}
    BY <1>2 DEF GetResourceListInlineKeyboard
  <2>2. b \in turns => \E p : b = ListsPage(s.type, s.ns, p)
    OBVIOUS
  <2> HIDE DEF turns
  <2>3. QED  BY <2>1, <2>2
<1> DEFINE a == b.means
<1>4. CASE \E o \in s.items : b = View(s.type, o.ns, o.name)
  <2>1. PICK o \in s.items : b = View(s.type, o.ns, o.name)
    BY <1>4
  <2>2. a.Action = "view"
    BY <2>1 DEF View, NoFields
  <2>3. QED  BY <2>2
<1>5. CASE \E p : b = ListsPage(s.type, s.ns, p)
  <2>1. PICK p : b = ListsPage(s.type, s.ns, p)
    BY <1>5
  <2> DEFINE shown == ToString(p)
  <2>2. a = [NoFields EXCEPT !.Type = "resource", !.Action = "page", !.ResourceType = s.type,
                             !.Namespace = s.ns, !.Extra = shown]
    BY <2>1 DEF ListsPage
  <2> HIDE DEF shown
  <2>3. a.Type = "resource" /\ a.ResourceType = s.type /\ a.Namespace = s.ns
    BY <2>2 DEF NoFields
  <2>4. QED  BY <2>3
<1>6. CASE b = Bare("noop")
  BY <1>6 DEF Bare, NoFields
<1>7. CASE b = Lists("refresh", s.type, s.ns)
  BY <1>7 DEF Lists, NoFields
<1>8. CASE b = Named("ns", "pick", <<s.type>>)
  BY <1>8 DEF Named, NoFields
<1>9. CASE b = Types
  BY <1>9 DEF Types, Plain, NoFields
<1>10. QED  BY <1>3, <1>4, <1>5, <1>6, <1>7, <1>8, <1>9

\* What a tap is for.
LEMMA ClaimIs ==
  ASSUME NEW a
  PROVE  \/ Claim(a) = Lost
         \/ /\ a.Type = "ns" /\ a.Action = "pick"
            /\ Claim(a) = [type |-> Head(a.Name), ns |-> NoName, firm |-> FALSE]
         \/ /\ a.Type = "ns" /\ a.Action = "set" /\ pane.view = "picker" /\ pane.for # Lost
            /\ Claim(a) = [type |-> pane.for, ns |-> a.Name, firm |-> FALSE]
         \/ /\ pane.view = "list" /\ a.Action \in {"page", "refresh"}
            /\ pane.ns # NoName \/ IsClusterScoped(pane.type) \/ ns = NoName
            /\ Claim(a) = [type |-> pane.type, ns |-> pane.ns,
                           firm |-> pane.ns # NoName \/ IsClusterScoped(pane.type)]
<1>1. CASE a.Type = "ns" /\ a.Action = "pick"
  BY <1>1 DEF Claim
<1>2. CASE a.Type = "ns" /\ a.Action = "set" /\ pane.view = "picker"
  BY <1>2 DEF Claim
<1>3. CASE pane.view = "list" /\ a.Action \in {"page", "refresh"}
  BY <1>3 DEF Claim
<1>4. CASE /\ ~(a.Type = "ns" /\ a.Action = "pick")
           /\ ~(a.Type = "ns" /\ a.Action = "set" /\ pane.view = "picker")
           /\ ~(pane.view = "list" /\ a.Action \in {"page", "refresh"})
  BY <1>4 DEF Claim
<1>5. QED  BY <1>1, <1>2, <1>3, <1>4

\* A tap's handler, when it gives way after writing the namespace.
LEMMA SetsOK ==
  ASSUME NavInv, NEW a, ActOK(a), a.Type = "ns", a.Action = "set"
  PROVE  JobOK([pc |-> "reading", act |-> a, claim |-> Claim(a)], menuType, a.Name)
<1> DEFINE w == [pc |-> "reading", act |-> a, claim |-> Claim(a)]
<1>1. /\ w.pc = "reading" /\ w.act = a /\ w.claim = Claim(a)
      /\ w = [pc |-> w.pc, act |-> w.act, claim |-> w.claim]
  OBVIOUS
<1> HIDE DEF w
<1>3. Handling(w)
  BY <1>1 DEF Handling
<1>4. ClaimOK(w, menuType, a.Name)
  <2>1. CASE Claim(a) = Lost
    BY <1>1, <2>1 DEF ClaimOK
  <2>2. CASE Claim(a) # Lost
    <3>1. /\ pane.view = "picker" /\ pane.for # Lost
          /\ Claim(a) = [type |-> pane.for, ns |-> a.Name, firm |-> FALSE]
      BY <2>2, ClaimIs
    <3>2. pane.for = menuType
      BY <3>1 DEF NavInv, PickerOK
    <3> DEFINE c == Claim(a)
    <3>3. c.type = menuType /\ c.ns = a.Name /\ ~c.firm
      BY <3>1, <3>2
    <3> HIDE DEF c
    <3>4. QED  BY <1>1, <3>3 DEF ClaimOK, c
  <2>3. QED  BY <2>1, <2>2
<1>5. QED  BY <1>3, <1>4 DEF JobOK, w

\* A tap's handler, when it calls the cluster.
LEMMA CallsOK ==
  ASSUME NavInv, NEW b \in Keyboard(pane), Good(b),
         ~(b.means.Type = "ns" /\ b.means.Action = "set")
  PROVE  LET a == AsRead(b.means)
         IN JobOK([pc |-> "calling", act |-> ReadSession(a), claim |-> Claim(a)],
                  Written(a).type, Written(a).ns)
<1> DEFINE a == AsRead(b.means)
           r == ReadSession(a)
           w == [pc |-> "calling", act |-> r, claim |-> Claim(a)]
<1>0. /\ Whole(b.means) /\ a.Type = b.means.Type /\ a.Action = b.means.Action
      /\ b.means.Type # "ctx" => a = b.means
  BY AsReadIs DEF Good
<1>1. ActOK(r)
  BY ReadIsOK DEF Good, NavInv, SessionOK
<1>2. /\ w.pc = "calling" /\ w.act = r /\ w.claim = Claim(a)
      /\ w = [pc |-> w.pc, act |-> w.act, claim |-> w.claim]
  OBVIOUS
<1> HIDE DEF w
<1>3. Handling(w)
  BY <1>1, <1>2 DEF Handling
<1>4. ClaimOK(w, Written(a).type, Written(a).ns)
  <2>1. CASE Claim(a) = Lost
    BY <1>2, <2>1 DEF ClaimOK
  <2>2. CASE /\ a.Type = "ns" /\ a.Action = "pick"
             /\ Claim(a) = [type |-> Head(a.Name), ns |-> NoName, firm |-> FALSE]
    <3>1. r = a /\ ~IsList(r)
      BY <2>2 DEF ReadSession, IsList
    <3>2. Written(a).type = Head(a.Name)
      BY <2>2 DEF Written, WrittenType
    <3> DEFINE c == Claim(a)
    <3>3. c.type = Written(a).type /\ ~c.firm
      BY <2>2, <3>2
    <3> HIDE DEF c, r
    <3>4. QED  BY <1>2, <2>2, <3>1, <3>3 DEF ClaimOK, c
  <2>3. CASE /\ pane.view = "list" /\ a.Action \in {"page", "refresh"}
             /\ pane.ns # NoName \/ IsClusterScoped(pane.type) \/ ns = NoName
             /\ Claim(a) = [type |-> pane.type, ns |-> pane.ns,
                            firm |-> pane.ns # NoName \/ IsClusterScoped(pane.type)]
    <3>1. a.Type = "resource" /\ a.ResourceType = pane.type /\ a.Namespace = pane.ns
      <4>1. /\ b.means.Type = "resource" /\ b.means.ResourceType = pane.type
            /\ b.means.Namespace = pane.ns
        BY <1>0, <2>3, ListButtons DEF NavInv
      <4>2. QED  BY <1>0, <4>1
    <3>2. pane.type \in ListTypes /\ pane.type # ""
      BY <2>3, KindsAre DEF NavInv, ScreenOK
    <3>3. IsList(a)
      BY <2>3, <3>1 DEF IsList
    <3>4. r = IF a.Namespace = NoName THEN [a EXCEPT !.Namespace = ns] ELSE a
      BY <3>1, <3>3 DEF ReadSession
    <3>5. Whole(a)
      BY DEF Good, ActOK
    <3> DEFINE n == r.Namespace
    <3> HIDE DEF r
    <3>6. /\ r.Type = "resource" /\ r.Action = a.Action /\ r.ResourceType = pane.type
          /\ r.Namespace = IF pane.ns = NoName THEN ns ELSE pane.ns
      <4>1. CASE a.Namespace = NoName
        BY <3>1, <3>4, <3>5, <4>1 DEF Whole
      <4>2. CASE a.Namespace # NoName
        BY <3>1, <3>4, <4>2
      <4>3. QED  BY <4>1, <4>2
    <3>7. IsList(r) /\ ListType(r) = pane.type /\ r.Action # "pick"
      BY <2>3, <3>2, <3>6 DEF IsList, ListType
    <3> DEFINE c == Claim(a)
    <3>8. c.type = pane.type /\ c.ns = pane.ns
      BY <2>3
    <3> HIDE DEF c
    <3>9. IsClusterScoped(c.type) \/ r.Namespace = c.ns
      BY <2>3, <3>6, <3>8
    <3>10. QED  BY <1>2, <3>7, <3>8, <3>9 DEF ClaimOK, c
  <2>4. ~(a.Type = "ns" /\ a.Action = "set")
    BY <1>0
  <2>5. QED  BY <2>1, <2>2, <2>3, <2>4, ClaimIs
<1>5. QED  BY <1>3, <1>4 DEF JobOK, w

LEMMA TapOK ==
  ASSUME NavInv, NEW j \in Jobs, NEW b \in Keyboard(pane), Tap(j, b)
  PROVE  NavInv'
<1> DEFINE a == AsRead(b.means)
           sets == a.Type = "ns" /\ a.Action = "set"
<1>1. Good(b) /\ ParseCallbackData(b.data) = a /\ ActOK(a)
  BY GoodKeyboard DEF NavInv, GoodOnes, Good
<1>2. ~sets => ~(b.means.Type = "ns" /\ b.means.Action = "set")
  BY <1>1, AsReadIs DEF Good
<1> DEFINE w == [pc |-> IF sets THEN "reading" ELSE "calling",
                 act |-> IF sets THEN a ELSE ReadSession(a), claim |-> Claim(a)]
<1>3. menuType' = Written(a).type /\ ns' = Written(a).ns /\ Witness({j}, w)
  BY <1>1, Zenon DEF Tap
<1>4. ns' \in Scopes
  <2>1. CASE sets
    <3>1. a.Name \in Scopes
      BY <1>1, <2>1 DEF ActOK
    <3>2. QED  BY <1>3, <2>1, <3>1 DEF Written, WrittenType
  <2>2. CASE ~sets
    BY <1>3, <2>2 DEF Written, WrittenType, NavInv
  <2>3. QED  BY <2>1, <2>2
<1>5. menuType' \in {""} \cup ListTypes
  <2>1. CASE a.Type = "ns" /\ a.Action = "pick"
    <3>1. a.Name[1] \in ListTypes /\ OnePiece(a.Name)
      BY <1>1, <2>1 DEF ActOK
    <3>2. Head(a.Name) = a.Name[1]
      BY <3>1 DEF OnePiece
    <3>3. menuType' = Head(a.Name)
      BY <1>3, <2>1 DEF Written, WrittenType
    <3>4. QED  BY <3>1, <3>2, <3>3
  <2>2. CASE ~(a.Type = "ns" /\ a.Action = "pick")
    BY <1>3, <2>2 DEF Written, WrittenType, NavInv
  <2>3. QED  BY <2>1, <2>2
<1>6. JobOK(w, menuType', ns')
  <2>1. CASE sets
    <3>1. w = [pc |-> "reading", act |-> a, claim |-> Claim(a)]
      BY <2>1
    <3>2. menuType' = menuType /\ ns' = a.Name
      BY <1>3, <2>1 DEF Written, WrittenType
    <3> HIDE DEF w
    <3>3. QED  BY <1>1, <2>1, <3>1, <3>2, SetsOK
  <2>2. CASE ~sets
    <3>1. w = [pc |-> "calling", act |-> ReadSession(a), claim |-> Claim(a)]
      BY <2>2
    <3>2. JobOK([pc |-> "calling", act |-> ReadSession(a), claim |-> Claim(a)],
                Written(a).type, Written(a).ns)
      BY <1>1, <1>2, <2>2, CallsOK
    <3> HIDE DEF w
    <3>3. QED  BY <1>3, <3>1, <3>2
  <2>3. QED  BY <2>1, <2>2
<1> HIDE DEF w
<1>7. QED  BY <1>3, <1>4, <1>5, <1>6, Witnessed

\* A handler goes on without a change to the session.
LEMMA GoesOn ==
  ASSUME NavInv, NEW j \in Jobs, NEW w, jobs' = [jobs EXCEPT ![j] = w], JobOK(w, menuType, ns),
         UNCHANGED <<ns, menuType>>, ScreenOK(pane'), PickerOK(pane', menuType)
  PROVE  NavInv'
<1>1. jobs' = [k \in Jobs |-> IF k = j THEN w ELSE jobs[k]]
  BY DEF NavInv
<1>2. jobs' = [k \in Jobs |-> jobs'[k]]
  BY <1>1
<1>3. \A k \in Jobs : JobOK(jobs'[k], menuType', ns')
  BY <1>1 DEF NavInv
<1>4. QED  BY <1>2, <1>3 DEF NavInv

LEMMA ReadStep ==
  ASSUME NavInv, NEW j \in Jobs, Read(j)
  PROVE  NavInv'
<1> DEFINE v == jobs[j]
           a == v.act
           c == v.claim
           r == ReadSession(a)
           w == [pc |-> "calling", act |-> r, claim |-> c]
<1>1. v.pc = "reading" /\ v # Idle
  BY DEF Read, Idle
<1>2. JobOK(v, menuType, ns)
  BY DEF NavInv
<1>3. Handling(v) /\ ClaimOK(v, menuType, ns)
  BY <1>1, <1>2 DEF JobOK, Editing
<1>4. /\ v = [pc |-> "reading", act |-> a, claim |-> c]
      /\ ActOK(a) /\ a.Type = "ns" /\ a.Action = "set"
  BY <1>1, <1>3 DEF Handling
<1>5. jobs' = [jobs EXCEPT ![j] = w]
  <2> DEFINE u == [v EXCEPT !.pc = "calling", !.act = r]
  <2>1. jobs' = [jobs EXCEPT ![j] = u]
    BY DEF Read, NavInv
  <2>2. v = [pc |-> "reading", act |-> a, claim |-> c]
    BY <1>4
  <2>3. u = [v EXCEPT !.pc = "calling", !.act = r]
    OBVIOUS
  <2> HIDE DEF a, c, r, v, u
  <2>4. u = [pc |-> "calling", act |-> r, claim |-> c]
    BY <2>2, <2>3
  <2>5. QED  BY <2>1, <2>4
<1>6. /\ w.pc = "calling" /\ w.act = r /\ w.claim = c
      /\ w = [pc |-> w.pc, act |-> w.act, claim |-> w.claim]
  OBVIOUS
<1>7. ActOK(r)
  BY <1>4, ReadIsOK DEF NavInv, SessionOK
<1> HIDE DEF w
<1>8. Handling(w)
  BY <1>6, <1>7 DEF Handling
<1>9. ClaimOK(w, menuType, ns)
  <2>1. CASE c = Lost
    BY <1>6, <2>1 DEF ClaimOK
  <2>2. CASE c # Lost /\ menuType = ""
    <3>1. r = a /\ ~IsList(a)
      BY <1>4, <2>2 DEF ReadSession, IsList
    <3>2. QED  BY <1>4, <1>6, <3>1 DEF ClaimOK
  <2>3. CASE c # Lost /\ menuType # ""
    <3>1. menuType = c.type /\ ns = c.ns /\ a.Name = c.ns
      BY <1>1, <1>3, <2>3 DEF ClaimOK
    <3>2. r = [NoFields EXCEPT !.Type = "resource", !.Action = "list", !.ResourceType = menuType,
                               !.Namespace = IF a.Name # NoName THEN a.Name ELSE ns]
      BY <1>4, <2>3 DEF ReadSession, IsList
    <3>3. r = [NoFields EXCEPT !.Type = "resource", !.Action = "list", !.ResourceType = menuType,
                               !.Namespace = c.ns]
      BY <3>1, <3>2
    <3> HIDE DEF r, c
    <3>4. r.Type = "resource" /\ r.Action = "list" /\ r.ResourceType = menuType /\ r.Namespace = c.ns
      BY <3>3 DEF NoFields
    <3>5. IsList(r) /\ ListType(r) = c.type
      BY <2>3, <3>1, <3>4 DEF IsList, ListType
    <3>6. QED  BY <1>6, <3>4, <3>5 DEF ClaimOK
  <2>4. QED  BY <2>1, <2>2, <2>3
<1>10. JobOK(w, menuType, ns)
  BY <1>8, <1>9 DEF JobOK
<1>11. UNCHANGED <<pane, ns, menuType>>
  BY DEF Read
<1>12. ScreenOK(pane') /\ PickerOK(pane', menuType)
  BY <1>11 DEF NavInv
<1>13. QED  BY <1>5, <1>10, <1>11, <1>12, GoesOn

LEMMA AnswerStep ==
  ASSUME NavInv, NEW j \in Jobs, Answer(j)
  PROVE  NavInv'
<1> DEFINE v == jobs[j]
           a == v.act
           c == v.claim
           for == OpenedFor(a, c)
<1>1. v.pc = "calling" /\ v # Idle
  BY DEF Answer, Idle
<1>2. JobOK(v, menuType, ns)
  BY DEF NavInv
<1>3. Handling(v) /\ ClaimOK(v, menuType, ns)
  BY <1>1, <1>2 DEF JobOK, Editing
<1>4. ActOK(a)
  BY <1>3 DEF Handling
<1>5. PICK o \in dispatchCallback(a, for) :
        /\ menuType' = o.sets /\ ns' = ns
        /\ Witness({j}, [pc |-> "editing", act |-> NoFields, claim |-> c, screen |-> o.shows])
  BY DEF Answer
<1>6. OutcomeOK(a, for, o)
  <2> HIDE DEF a, for
  <2>1. QED  BY <1>4, <1>5, Answers DEF AnswersOK, NavInv, SessionOK
<1>7. ns' \in Scopes /\ menuType' \in {""} \cup ListTypes
  BY <1>4, <1>5, <1>6 DEF OutcomeOK, NavInv
<1> DEFINE s == o.shows
           w == [pc |-> "editing", act |-> NoFields, claim |-> c, screen |-> s]
<1>8. /\ w.pc = "editing" /\ w.claim = c /\ w.screen = s
      /\ w = [pc |-> "editing", act |-> NoFields, claim |-> w.claim, screen |-> w.screen]
  OBVIOUS
<1>9. Witness({j}, w)
  BY <1>5
<1> HIDE DEF w
<1>10. Editing(w, menuType')
  <2>1. s = Sent \/ ScreenOK(s)
    BY <1>4, <1>6 DEF OutcomeOK
  <2>2. PickerOK(s, menuType')
    <3> SUFFICES ASSUME s.view = "picker", s.for # Lost PROVE s.for = menuType'
      BY DEF PickerOK
    <3>1. s.for = OpenedFor(a, c) /\ menuType' = menuType
      BY <1>5, <1>6 DEF OutcomeOK
    <3>2. CASE a.Action # "pick"
      BY <3>1, <3>2 DEF OpenedFor
    <3>3. CASE a.Action = "pick"
      <4>1. c # Lost /\ s.for = c.type
        BY <3>1, <3>3 DEF OpenedFor
      <4>2. menuType = c.type
        BY <1>1, <1>3, <3>3, <4>1 DEF ClaimOK
      <4>3. QED  BY <3>1, <4>1, <4>2
    <3>4. QED  BY <3>2, <3>3
  <2>3. QED  BY <1>8, <2>1, <2>2 DEF Editing
<1>11. ClaimOK(w, menuType', ns')
  <2> SUFFICES ASSUME c # Lost, s.view = "list" PROVE ListOK(s, c)
    BY <1>8 DEF ClaimOK, ListOK
  <2>1. a.Type # "ns"
    BY <1>6 DEF OutcomeOK
  <2>2. /\ IsList(a)
        /\ ListType(a) = c.type
        /\ IsClusterScoped(c.type) \/ a.Namespace = c.ns
    BY <1>1, <1>3, <2>1 DEF ClaimOK
  <2>3. /\ s.type = ListType(a)
        /\ s.ns = IF IsClusterScoped(ListType(a)) THEN NoName ELSE a.Namespace
    BY <1>6, <2>2 DEF OutcomeOK
  <2>4. QED  BY <2>2, <2>3 DEF ListOK
<1>12. JobOK(w, menuType', ns')
  BY <1>10, <1>11 DEF JobOK
<1>13. QED  BY <1>7, <1>9, <1>12, Witnessed

LEMMA OtherSteps ==
  ASSUME NavInv
  PROVE  /\ \A j \in Jobs : Ignore(j) \/ Edit(j) \/ EditFails(j) => NavInv'
         /\ Elsewhere => NavInv'
<1>1. JobOK(Idle, menuType, ns)
  BY DEF JobOK
<1>2. ScreenOK(pane) /\ PickerOK(pane, menuType)
  BY DEF NavInv
<1>3. ASSUME NEW j \in Jobs, Ignore(j) PROVE NavInv'
  <2>1. jobs' = [jobs EXCEPT ![j] = Idle] /\ UNCHANGED <<pane, ns, menuType>>
    BY <1>3 DEF Ignore
  <2>2. QED  BY <1>1, <1>2, <2>1, GoesOn
<1>4. ASSUME NEW j \in Jobs, EditFails(j) PROVE NavInv'
  <2>1. jobs' = [jobs EXCEPT ![j] = Idle] /\ UNCHANGED <<pane, ns, menuType>>
    BY <1>4 DEF EditFails
  <2>2. QED  BY <1>1, <1>2, <2>1, GoesOn
<1>5. ASSUME NEW j \in Jobs, Edit(j) PROVE NavInv'
  <2> DEFINE s == jobs[j].screen
  <2>1. /\ jobs[j].pc = "editing" /\ jobs' = [jobs EXCEPT ![j] = Idle]
        /\ pane' = IF s = Sent THEN pane ELSE s
        /\ UNCHANGED <<ns, menuType>>
    BY <1>5 DEF Edit
  <2>2. jobs[j] # Idle /\ JobOK(jobs[j], menuType, ns)
    <3>1. JobOK(jobs[j], menuType, ns)
      BY DEF NavInv
    <3>2. QED  BY <2>1, <3>1 DEF Idle
  <2>3. Editing(jobs[j], menuType)
    BY <2>1, <2>2 DEF JobOK, Handling
  <2>4. ScreenOK(pane') /\ PickerOK(pane', menuType)
    BY <1>2, <2>1, <2>3 DEF Editing
  <2>5. QED  BY <1>1, <2>1, <2>4, GoesOn
<1>6. ASSUME Elsewhere PROVE NavInv'
  <2>1. Witness({}, Idle)
    BY <1>6 DEF Elsewhere
  <2>2. \A t \in Browsed : t \in ListTypes
    BY NavigationAssumption DEF ListTypes, Known
  <2>3. ns' \in Scopes /\ menuType' \in {""} \cup ListTypes
    BY <1>6, <2>2 DEF Elsewhere, NavInv, Scopes
  <2>4. QED  BY <2>1, <2>3, Witnessed
<1>7. QED  BY <1>3, <1>4, <1>5, <1>6

\* The invariant: what screens, taps and claims may be.
LEMMA NavInvariant == Spec => []NavInv
<1>1. NavInv /\ [Next]_vars => NavInv'
  <2> SUFFICES ASSUME NavInv, [Next]_vars PROVE NavInv'
    OBVIOUS
  <2>1. ASSUME NEW j \in Jobs, NEW b \in Keyboard(pane), Tap(j, b) PROVE NavInv'
    BY <2>1, TapOK
  <2>2. ASSUME NEW j \in Jobs, Read(j) PROVE NavInv'
    BY <2>2, ReadStep
  <2>3. ASSUME NEW j \in Jobs, Answer(j) PROVE NavInv'
    BY <2>3, AnswerStep
  <2>4. CASE UNCHANGED vars
    BY <2>4 DEF vars, NavInv
  <2>5. QED  BY <2>1, <2>2, <2>3, <2>4, OtherSteps DEF Next
<1>2. QED  BY <1>1, StartOK, PTL DEF Spec

\* The screens and the fields a handler gets have their types (Navigation.TypeOK).
THEOREM NavigationTypeCorrect == Spec => []TypeOK
<1>1. NavInv => TypeOK
  <2> SUFFICES ASSUME NavInv PROVE TypeOK
    OBVIOUS
  <2>1. pane.view \in Views /\ ns \in Scopes /\ menuType \in {""} \cup DOMAIN ResourceMap
    BY DEF NavInv, ScreenOK, ListTypes
  <2>2. ASSUME NEW j \in Jobs, jobs[j] # Idle
        PROVE  /\ jobs[j].pc \in {"reading", "calling", "editing"}
               /\ DOMAIN jobs[j].act = DOMAIN NoFields
               /\ jobs[j].act.Type \in {""} \cup DOMAIN callbackFields
               /\ OnePiece(jobs[j].act.Namespace) /\ OnePiece(jobs[j].act.Name)
    <3>1. Handling(jobs[j]) \/ Editing(jobs[j], menuType)
      BY <2>2 DEF NavInv, JobOK
    <3>2. CASE Handling(jobs[j])
      <4>1. jobs[j].pc \in {"reading", "calling"} /\ ActOK(jobs[j].act)
        BY <3>2 DEF Handling
      <4>2. DOMAIN jobs[j].act = DOMAIN NoFields
        BY <4>1 DEF ActOK, Whole, NoFields
      <4>3. QED  BY <4>1, <4>2 DEF ActOK
    <3>3. CASE Editing(jobs[j], menuType)
      <4>1. jobs[j].pc = "editing" /\ jobs[j].act = NoFields
        BY <3>3 DEF Editing
      <4>2. NoFields.Type = "" /\ NoFields.Namespace = NoName /\ NoFields.Name = NoName
        BY DEF NoFields
      <4>3. QED  BY <4>1, <4>2, NoNameIs
    <3>4. QED  BY <3>1, <3>2, <3>3
  <2>3. QED  BY <2>1, <2>2 DEF TypeOK, Views, Scopes
<1>2. QED  BY <1>1, NavInvariant, PTL

\* Whatever the handlers and the user's other panes did, a button of the pane carries the
\* fields it was drawn for, and of a context's name its first piece (ParseCallbackData and the
\* builders of menus.go).
THEOREM NavigationButtonsMeanIt == Spec => []ButtonsMeanIt
<1>1. NavInv => ButtonsMeanIt
  BY GoodKeyboard DEF NavInv, GoodOnes, Good, ButtonsMeanIt
<1>2. QED  BY <1>1, NavInvariant, PTL

\* No button of the pane but the page counter falls through the dispatchers of bot.go and
\* detail.go or comes to their last resort; the only settings without an implementation are
\* theme and notifications, and the only kinds it may ask for in vain are PVs and PVCs.
THEOREM NavigationEveryButtonAnswers == Spec => []EveryButtonAnswers
<1>1. NavInv => EveryButtonAnswers
  BY GoodKeyboard, ButtonAnswers DEF NavInv, GoodOnes, SessionOK, EveryButtonAnswers
<1>2. QED  BY <1>1, NavInvariant, PTL

\* From every screen a user can come to, at most three taps that change nothing in the cluster
\* lead to the main menu, whatever it answers.
THEOREM NavigationWayHome == Spec => []WayHome
<1>1. NavInv => WayHome
  BY WayOut DEF NavInv, SessionOK, WayHome
<1>2. QED  BY <1>1, NavInvariant, PTL

\* A page or a refresh of a list of one namespace is of that list, and choosing a namespace
\* returns to the list it was chosen for, unless the session was changed from elsewhere.
THEOREM NavigationLandsWhereAsked == Spec => []LandsWhereAsked
<1>1. NavInv => LandsWhereAsked
  BY DEF NavInv, JobOK, ClaimOK, ListOK, LandsWhereAsked
<1>2. QED  BY <1>1, NavInvariant, PTL
=============================================================================
