----------------------------- MODULE Kubeconfig -----------------------------
(***************************************************************************)
(* The kubeconfig, src/pkg/kubeconfig/kubeconfig.go: what the process read *)
(* when it started, changed in memory before each save, and the file,      *)
(* which kubectl changes too; with the context the client is on,           *)
(* src/internal/k8s/client.go.                                             *)
(*                                                                         *)
(* A change is made in memory first and undone by nothing when its save    *)
(* fails, and a save writes all of what the process once read.  Writing    *)
(* the file is external: clientcmd.WriteToFile, which is os.WriteFile, so  *)
(* the file is cut to nothing before it is written and, against the        *)
(* comment on Save, what is interrupted or fails may leave it torn.        *)
(* Servers and namespaces are left out: no operation changes them.         *)
(***************************************************************************)
EXTENDS Naturals, Sequences, FiniteSets, SequencesExt

CONSTANTS
  Names,      \* of contexts
  Clusters,
  Users,
  Link,       \* what a context names: a cluster and a user
  Vouches,    \* Vouches[v]: the users that AddContext finds among the users once v is there
  UserRequired, \* whether clientcmd refuses a context whose user the file does not have
  None

ASSUME KubeconfigAssumption ==
  /\ IsFiniteSet(Names) /\ Link \subseteq [cluster : Clusters, user : Users]
  /\ None \notin Names \cup Link
  /\ Vouches \in [Users -> SUBSET Users] /\ UserRequired \in BOOLEAN

VARIABLES
  disk,        \* the file
  mem,         \* the KubeConfig of the running process, or None
  context,     \* Client.currentContext
  unsaved,     \* history: a save has failed since the last that did not
  edited,      \* history: kubectl wrote the file, or a save broke off in it, since it was
               \* last read or saved
  unset,       \* history: the file read lacked its own current context, or the last
               \* context was deleted, and no other was made current since
  persistent   \* history: the context last switched to for good while the file was the
               \* process's own, until something else touches the choice or a save fails

vars == <<disk, mem, context, unsaved, edited, unset, persistent>>

\* A context is None when there is none of that name.
File == [context : [Names -> Link \cup {None}], clusters : SUBSET Clusters, users : SUBSET Users,
         current : Names \cup {None}]

In(f) == {n \in Names : f.context[n] # None}

\* ParseKubeconfig reads the server of each context's cluster and dies of one that is missing.
Parses(f) == \A n \in In(f) : f.context[n].cluster \in f.clusters

\* clientcmd builds a rest.Config for context n.
Usable(f, n) ==
  /\ n \in In(f)
  /\ f.context[n].cluster \in f.clusters
  /\ UserRequired => f.context[n].user \in f.users

Entry == [name : Names, link : Link, current : BOOLEAN]

\* raw is Raw, list is Contexts and current is CurrentContext.
Memory == [raw : File, list : BoundedSeq(Entry, Cardinality(Names)), current : Names \cup {None}]

TypeOK ==
  /\ disk \in File
  /\ mem \in Memory \cup {None}
  /\ context \in Names \cup {None}
  /\ unsaved \in BOOLEAN /\ edited \in BOOLEAN /\ unset \in BOOLEAN
  /\ persistent \in Names \cup {None}

Init ==
  /\ disk \in {f \in File : f.clusters = Clusters /\ f.users = Users}
  /\ mem = None /\ context = None
  /\ unsaved = FALSE /\ edited = FALSE /\ unset = FALSE
  /\ persistent = None

-----------------------------------------------------------------------------
(* Reading it. *)

\* The contexts come in the order a Go map is walked in, which is any.
ParseKubeconfig(f, order) ==
  [raw |-> f, current |-> f.current,
   list |-> [i \in DOMAIN order |->
               [name |-> order[i], link |-> f.context[order[i]], current |-> order[i] = f.current]]]

\* A process starts, with a --context or without.
NewClient(flag) ==
  LET active == IF flag # None THEN flag ELSE disk.current IN
  /\ mem = None
  /\ Usable(disk, active) /\ Parses(disk)
  /\ \E order \in SetToSeqs(In(disk)) : mem' = ParseKubeconfig(disk, order)
  /\ context' = active
  /\ unsaved' = FALSE /\ edited' = FALSE
  /\ unset' = (disk.current \notin In(disk))
  /\ UNCHANGED <<disk, persistent>>

Dies ==
  /\ mem # None
  /\ mem' = None /\ context' = None
  /\ UNCHANGED <<disk, unsaved, edited, unset, persistent>>

Listed == {mem.list[i].name : i \in DOMAIN mem.list}

\* GetContextByName found it.
GetContextByName(n) == mem # None /\ n \in Listed

-----------------------------------------------------------------------------
(* Changing it. *)

\* Save does not write a file with no clusters and no contexts.
RefusesEmpty(f) == f.clusters = {} /\ In(f) = {}

\* What may be left of a file that was not written to its end: clusters come first, then
\* contexts, the current one and users.  (It may be less than YAML, which is here the empty
\* file.  A name cut short names nothing.)
Torn(f) ==
  LET none == [context |-> [n \in Names |-> None], clusters |-> {}, users |-> {}, current |-> None]
      contexts == [none EXCEPT !.clusters = f.clusters]
      rest == [f EXCEPT !.users = {}] IN
     {[none EXCEPT !.clusters = part] : part \in SUBSET f.clusters}
  \cup {[contexts EXCEPT !.context = [n \in Names |-> IF n \in part THEN f.context[n] ELSE None]] :
          part \in SUBSET In(f)}
  \cup {[rest EXCEPT !.users = part] : part \in SUBSET f.users}

Saved(f, lasts) ==
  /\ ~RefusesEmpty(f)
  /\ disk' = f
  /\ unsaved' = FALSE /\ edited' = FALSE
  /\ persistent' = lasts

\* An error, before the file was opened or after.
SaveFails(f) ==
  /\ \/ UNCHANGED <<disk, edited>>
     \/ ~RefusesEmpty(f) /\ disk' \in Torn(f) /\ edited' = TRUE
  /\ unsaved' = TRUE /\ persistent' = None

\* The process ends in the middle of it.
SaveInterrupted(f) ==
  /\ ~RefusesEmpty(f)
  /\ disk' \in Torn(f) /\ edited' = TRUE
  /\ persistent' = None
  /\ UNCHANGED unsaved

\* Mutant: the file is written before the change is made.
SaveFirst(changed, lasts, ctx) ==
  /\ mem' = changed /\ context' = ctx
  /\ Saved(mem.raw, lasts)

\* The change is in memory, and then it is saved.  lasts is what is chosen for good when
\* that succeeds, ctx the context the client is on by then.
Save(changed, lasts, ctx) ==
  \/ mem' = changed /\ context' = ctx /\ (Saved(changed.raw, lasts) \/ SaveFails(changed.raw))
  \/ mem' = None /\ context' = None /\ SaveInterrupted(changed.raw)

\* Mutant: the copy that is saved keeps its current context.
SwitchedOnScreen(k, n) ==
  [k EXCEPT !.current = n,
            !.list = [i \in DOMAIN @ |-> [@[i] EXCEPT !.current = k.list[i].name = n]]]

Switched(k, n) ==
  [k EXCEPT !.raw.current = n, !.current = n,
            !.list = [i \in DOMAIN @ |-> [@[i] EXCEPT !.current = k.list[i].name = n]]]

SwitchContext(n, lasts, ctx) ==
  /\ GetContextByName(n)
  /\ Save(Switched(mem, n), lasts, ctx)
  /\ unset' = FALSE

\* Mutant: a context is added for any cluster.
CouldAdd(k, link) == \E v \in k.raw.users : link.user \in Vouches[v]

\* Any user with a token or a certificate vouches for every user, there or not, and one
\* without for that named as its Username, which need not be its name.
CanAdd(k, link) ==
  /\ link.cluster \in k.raw.clusters
  /\ \E v \in k.raw.users : link.user \in Vouches[v]

\* The new entry is not the current one, whatever its name.
AddContext(n, link) ==
  /\ mem # None /\ n \notin Listed
  /\ CanAdd(mem, link)
  /\ Save([mem EXCEPT !.raw.context[n] = link,
                      !.list = Append(@, [name |-> n, link |-> link, current |-> FALSE])],
          persistent, context)
  /\ UNCHANGED unset

\* The first context that is left becomes current.
Recurrent(k) ==
  IF k.list = <<>> THEN [k EXCEPT !.raw.current = None, !.current = None]
  ELSE [k EXCEPT !.raw.current = k.list[1].name, !.current = k.list[1].name,
                 !.list[1].current = TRUE]

\* Mutant: the entry is blanked where it stands.
WithoutBlank(k, n) ==
  [k EXCEPT !.raw.context[n] = None,
            !.list = [i \in DOMAIN @ |-> IF @[i].name = n THEN [@[i] EXCEPT !.link = None] ELSE @[i]]]

\* The loop keeps the entries of other names in their order; one entry has this name (Coherent).
Without(k, n) ==
  LET at == CHOOSE i \in DOMAIN k.list : k.list[i].name = n IN
  [k EXCEPT !.raw.context[n] = None, !.list = RemoveAt(@, at)]

\* Mutant: the current context is looked at after it was taken away.
DeletedLate(k, n) ==
  LET left == Without(k, n) IN
  IF \E i \in DOMAIN left.list : left.list[i].name = n /\ k.current = n THEN Recurrent(left) ELSE left

Deleted(k, n) == IF k.current = n THEN Recurrent(Without(k, n)) ELSE Without(k, n)

DeleteContext(n) ==
  /\ GetContextByName(n)
  /\ Save(Deleted(mem, n), IF persistent = n THEN None ELSE persistent, context)
  /\ unset' = (Deleted(mem, n).list = <<>> \/ (unset /\ mem.current # n))

-----------------------------------------------------------------------------
(* Switching the client. *)

\* Mutant: the file is not read again.
CanUseListed(n) == GetContextByName(n)

\* useContext reads the file again.
CanUse(n) == GetContextByName(n) /\ Usable(disk, n)

\* Client.SwitchContext, of the menu and of /use-context.
UseContext(n) ==
  /\ CanUse(n)
  /\ context' = n
  /\ UNCHANGED <<disk, mem, unsaved, edited, unset, persistent>>

\* What was checked is the file, and what is written is the memory.
SwitchContextPersistent(n) ==
  /\ CanUse(n)
  /\ SwitchContext(n, IF edited \/ unsaved THEN None ELSE n, n)

-----------------------------------------------------------------------------
\* kubectl config: use-context, set-context, delete-context, and clusters and users set
\* and deleted.
Kubectl ==
  /\ \/ \E n \in Names : disk' = [disk EXCEPT !.current = n]
     \/ \E n \in Names, link \in Link \cup {None} : disk' = [disk EXCEPT !.context[n] = link]
     \/ \E c \in Clusters, set \in BOOLEAN :
          disk' = [disk EXCEPT !.clusters = IF set THEN @ \cup {c} ELSE @ \ {c}]
     \/ \E u \in Users, set \in BOOLEAN :
          disk' = [disk EXCEPT !.users = IF set THEN @ \cup {u} ELSE @ \ {u}]
  /\ disk' # disk
  /\ edited' = TRUE /\ persistent' = None
  /\ UNCHANGED <<mem, context, unsaved, unset>>

Next ==
  \/ Dies \/ Kubectl
  \/ \E flag \in Names \cup {None} : NewClient(flag)
  \/ \E n \in Names :
       \/ UseContext(n) \/ SwitchContextPersistent(n) \/ DeleteContext(n)
       \/ SwitchContext(n, None, context)
       \/ \E link \in Link : AddContext(n, link)

Spec == Init /\ [][Next]_vars

-----------------------------------------------------------------------------
(* Properties. *)

Flagged == {mem.list[i].name : i \in {j \in DOMAIN mem.list : mem.list[j].current}}

\* The three tellings of the contexts agree, failed saves or not: the list has each
\* context of Raw once with its cluster and user, both names of the current context are the
\* same, and the current context exists and is the entry that carries the flag.  (A
\* file that came without its current context is the exception, and so is one whose
\* last context was deleted: a context then added under that name has no flag.)
Coherent ==
  mem # None =>
    /\ mem.current = mem.raw.current
    /\ IsInjective([i \in DOMAIN mem.list |-> mem.list[i].name])
    /\ Listed = In(mem.raw)
    /\ \A i \in DOMAIN mem.list : mem.list[i].link = mem.raw.context[mem.list[i].name]
    /\ Flagged \subseteq {mem.current}
    /\ ~unset => Flagged = {mem.current}

\* What the process says of the contexts is on disk, unless a save failed or kubectl
\* has written since.
AheadOnlyAfterFailure == mem # None /\ ~unsaved /\ ~edited => disk = mem.raw

\* What the process saves it can start on again: the file loads, and a context switched to
\* for good is the one the next process starts on, cluster and user there, through crashes,
\* contexts added and others deleted.  That rests on what the operations check and what they
\* write being the same, file and memory.  (A save that breaks off may leave anything behind.
\* After one that failed, or a write by kubectl, SwitchContextPersistent checks a file and
\* writes over it a memory that may lack the user: client.go:331.)
ComesBack ==
  /\ ~edited => Parses(disk)
  /\ persistent # None => disk.current = persistent /\ Usable(disk, persistent)
=============================================================================
