----------------------------- MODULE FollowLogs -----------------------------
(***************************************************************************)
(* Live log follows, src/internal/bot/detail.go 695-872.                   *)
(*                                                                         *)
(* A tap on Follow runs showFollowLogs in the update's goroutine: it       *)
(* stores the follow's cancel function in the user's session, fetches the  *)
(* log, puts it on the pane with a Stop button, and starts an updater.     *)
(* The updater polls on every tick until its context is cancelled or the   *)
(* iterations run out.  A tap on Stop runs showFollowLogsStop in another   *)
(* goroutine: it looks the entry up, cancels, deletes the entry and puts   *)
(* the ordinary keyboard back.  The two meet only in the session's State   *)
(* map, one mutex-guarded access at a time, and on the message, where      *)
(* Telegram applies edits in the order they arrive.                        *)
(*                                                                         *)
(* A fetch or an edit may fail.  Neither succeeds when begun on a cancelled *)
(* context; one under way at the time of the cancel may still arrive.      *)
(***************************************************************************)
EXTENDS Naturals, FiniteSets

CONSTANTS
  Users,      \* one session each
  Pods,       \* what is followed: namespace, pod and container
  Messages,   \* the panes
  Follows,    \* the follows started, each of them once
  Stops,      \* goroutines that run showFollowLogsStop
  MaxTicks,   \* maxIterations
  None,       \* no entry in the session
  Menu        \* a pane with the ordinary keyboard

ASSUME FollowAssumption ==
  /\ MaxTicks \in Nat
  /\ None \notin Follows
  /\ Menu \notin Pods
  /\ Users # {} /\ Pods # {} /\ Messages # {}

VARIABLES
  follow,     \* follow[f]: the goroutines of one follow, and its context
  entry,      \* entry[u][p]: the follow State["followlog:<p>"] of u's session names
  pane,       \* pane[m]: Menu, or the pod its Stop button is for
  stop        \* stop[s]: one run of the Stop handler

vars == <<follow, entry, pane, stop>>

Phases == {"unused", "fetching", "failing", "cleaning", "showing", "waiting",
           "polling", "sending", "closing", "done"}

\* cancelled: its context's state; ticks: iterations; late and alone are
\* history, the edits that arrived after the cancel and whether no other follow
\* or Stop of the same user and pod has been under way since it began.
FollowRec == [pc : Phases, user : Users, pod : Pods, msg : Messages, cancelled : BOOLEAN,
              ticks : 0..(MaxTicks + 1), late : 0..3, alone : BOOLEAN]
StopRec == [pc : {"idle", "cancelled", "deleted"}, user : Users, pod : Pods, msg : Messages]

Started == {f \in Follows : follow[f].pc # "unused"}
Running == {f \in Started : follow[f].pc # "done"}
Same(a, b) == a.user = b.user /\ a.pod = b.pod

\* A follow by u of p on pane m whose goroutine is at pc; a run of the Stop handler.
NewFollow(pc, u, p, m) ==
  [pc |-> pc, user |-> u, pod |-> p, msg |-> m,
   cancelled |-> FALSE, ticks |-> 0, late |-> 0, alone |-> TRUE]
NewStop(pc, u, p, m) == [pc |-> pc, user |-> u, pod |-> p, msg |-> m]

\* What no goroutine uses, yet or any more: whose it is does not matter.
AnyUser == CHOOSE u \in Users : TRUE
AnyPod == CHOOSE p \in Pods : TRUE
AnyPane == CHOOSE m \in Messages : TRUE
Idle == NewStop("idle", AnyUser, AnyPod, AnyPane)
Over == NewFollow("done", AnyUser, AnyPod, AnyPane)

Init ==
  /\ follow = [f \in Follows |-> NewFollow("unused", AnyUser, AnyPod, AnyPane)]
  /\ stop = [s \in Stops |-> Idle]
  /\ entry = [u \in Users |-> [p \in Pods |-> None]]
  /\ pane = [m \in Messages |-> Menu]

-----------------------------------------------------------------------------
(* Effects shared by the handlers. *)

\* Mutant: the key names the namespace only.
SetStateAnyPod(u, p, f) == entry' = [entry EXCEPT ![u] = [q \in Pods |-> f]]

\* SetState replaces whatever the key named, without cancelling it.
SetState(u, p, f) == entry' = [entry EXCEPT ![u][p] = f]

\* DeleteState removes whatever the key names.
DeleteState(r) == entry' = [entry EXCEPT ![r.user][r.pod] = None]

End(f) == follow' = [follow EXCEPT ![f] = Over]

To(f, pc) == follow' = [follow EXCEPT ![f].pc = pc]

\* An edit of follow f arrives and shows v, or is lost; f goes on to pc.
Arrives(f, v, pc) ==
  /\ pane' = [pane EXCEPT ![follow[f].msg] = v]
  /\ follow' = [follow EXCEPT ![f].pc = pc,
                  ![f].late = IF follow[f].cancelled /\ @ < 3 THEN @ + 1 ELSE @]
Lost(f, pc) == UNCHANGED pane /\ To(f, pc)

-----------------------------------------------------------------------------
(* showFollowLogs. *)

\* The entry is stored before anything is known to work.
ShowFollowLogs(f, u, p, m) ==
  /\ f \notin Started
  /\ pane[m] = Menu
  /\ LET r == NewFollow("fetching", u, p, m)
         met == \/ \E g \in Running : Same(follow[g], r)
                \/ \E s \in Stops : stop[s].pc # "idle" /\ Same(stop[s], r)
     IN  follow' = [g \in Follows |->
                      IF g = f THEN [r EXCEPT !.alone = ~met]
                      ELSE IF g \in Running /\ Same(follow[g], r) THEN [follow[g] EXCEPT !.alone = FALSE]
                      ELSE follow[g]]
  /\ SetState(u, p, f)
  /\ UNCHANGED <<pane, stop>>

\* The first fetch, on the follow's own context.
FirstFetch(f) ==
  /\ follow[f].pc = "fetching"
  /\ \/ ~follow[f].cancelled /\ To(f, "showing")
     \/ To(f, "failing")
  /\ UNCHANGED <<entry, pane, stop>>

\* reportPaneError, on the context of the tap ...
ReportError(f) ==
  /\ follow[f].pc = "failing"
  /\ Arrives(f, Menu, "cleaning") \/ Lost(f, "cleaning")
  /\ UNCHANGED <<entry, stop>>

\* ... then cancel and DeleteState.
GiveUp(f) ==
  /\ follow[f].pc = "cleaning"
  /\ End(f)
  /\ DeleteState(follow[f])
  /\ UNCHANGED <<pane, stop>>

\* The first live pane, on the context of the tap: a cancel does not stop it.
ShowFirst(f) ==
  /\ follow[f].pc = "showing"
  /\ Arrives(f, follow[f].pod, "waiting") \/ Lost(f, "waiting")
  /\ UNCHANGED <<entry, stop>>

-----------------------------------------------------------------------------
(* runFollowLogsUpdater. *)

Cancelled(f) ==
  /\ follow[f].pc = "waiting"
  /\ follow[f].cancelled
  /\ End(f)
  /\ DeleteState(follow[f])
  /\ UNCHANGED <<pane, stop>>

\* Mutant: the iterations are counted and never compared.
TickForever(f) ==
  /\ follow[f].pc = "waiting"
  /\ follow' = [follow EXCEPT ![f].ticks = @ + 1, ![f].pc = "polling"]
  /\ UNCHANGED <<entry, pane, stop>>

\* A tick: select takes either case when both are ready.  Past the limit the
\* closing edit is begun at once.
Tick(f) ==
  /\ follow[f].pc = "waiting"
  /\ follow' = [follow EXCEPT ![f].ticks = @ + 1,
                  ![f].pc = IF follow[f].ticks < MaxTicks THEN "polling"
                            ELSE IF follow[f].cancelled THEN "cleaning" ELSE "closing"]
  /\ UNCHANGED <<entry, pane, stop>>

\* Mutants: a failed poll gives its iteration back, and a poll that does not
\* use the follow's context.
PollUncounted(f) ==
  /\ follow[f].pc = "polling"
  /\ \/ ~follow[f].cancelled /\ To(f, "sending")
     \/ follow' = [follow EXCEPT ![f].pc = "waiting", ![f].ticks = @ - 1]
  /\ UNCHANGED <<entry, pane, stop>>
PollRegardless(f) ==
  /\ follow[f].pc = "polling"
  /\ To(f, "sending") \/ To(f, "waiting")
  /\ UNCHANGED <<entry, pane, stop>>

\* A failed fetch skips the iteration.  The edit is begun at once: not on a
\* context that was cancelled in the meantime.
Poll(f) ==
  /\ follow[f].pc = "polling"
  /\ \/ ~follow[f].cancelled /\ To(f, "sending")
     \/ To(f, "waiting")
  /\ UNCHANGED <<entry, pane, stop>>

Send(f) ==
  /\ follow[f].pc = "sending"
  /\ Arrives(f, follow[f].pod, "waiting") \/ Lost(f, "waiting")
  /\ UNCHANGED <<entry, stop>>

\* Out of iterations: the closing pane, then DeleteState.
\* Mutant: the limit forgets the entry.
CloseForgets(f) ==
  /\ follow[f].pc = "closing"
  /\ pane' \in {pane, [pane EXCEPT ![follow[f].msg] = Menu]}
  /\ End(f)
  /\ UNCHANGED <<entry, stop>>

Close(f) ==
  /\ follow[f].pc = "closing"
  /\ Arrives(f, Menu, "cleaning") \/ Lost(f, "cleaning")
  /\ UNCHANGED <<entry, stop>>

-----------------------------------------------------------------------------
(* showFollowLogsStop. *)

\* GetState and cancel.  The session is that of whoever tapped.
StopTap(s, u, m) ==
  /\ stop[s].pc = "idle"
  /\ pane[m] # Menu
  /\ LET r == NewStop("cancelled", u, pane[m], m) IN
       /\ stop' = [stop EXCEPT ![s] = r]
       /\ follow' = [f \in Follows |->
            [follow[f] EXCEPT !.cancelled = @ \/ entry[u][r.pod] = f,
                              !.alone = @ /\ ~(f \in Running /\ Same(follow[f], r))]]
  /\ UNCHANGED <<entry, pane>>

StopDelete(s) ==
  /\ stop[s].pc = "cancelled"
  /\ stop' = [stop EXCEPT ![s].pc = "deleted"]
  /\ DeleteState(stop[s])
  /\ UNCHANGED <<follow, pane>>

\* A last fetch, and the log or the error with the ordinary keyboard.
StopShow(s) ==
  /\ stop[s].pc = "deleted"
  /\ stop' = [stop EXCEPT ![s] = Idle]
  /\ pane' \in {pane, [pane EXCEPT ![stop[s].msg] = Menu]}
  /\ UNCHANGED <<follow, entry>>

-----------------------------------------------------------------------------

\* The process dies: goroutines and sessions are gone, the panes stay.
Reboot ==
  /\ follow' = [f \in Follows |-> IF f \in Running THEN Over ELSE follow[f]]
  /\ stop' = [s \in Stops |-> Idle]
  /\ entry' = [u \in Users |-> [p \in Pods |-> None]]
  /\ UNCHANGED pane

\* What the process does on its own once a follow has begun.
Handler(f) == FirstFetch(f) \/ ReportError(f) \/ GiveUp(f) \/ ShowFirst(f)
Updater(f) == Cancelled(f) \/ Tick(f) \/ Poll(f) \/ Send(f) \/ Close(f)

Next ==
  \/ \E f \in Follows, u \in Users, p \in Pods, m \in Messages : ShowFollowLogs(f, u, p, m)
  \/ \E f \in Follows : Handler(f) \/ Updater(f)
  \/ \E s \in Stops, u \in Users, m \in Messages : StopTap(s, u, m)
  \/ \E s \in Stops : StopDelete(s) \/ StopShow(s)
  \/ Reboot

Spec == Init /\ [][Next]_vars

\* Calls return (both HTTP clients have timeouts) and the ticker ticks; nobody
\* has to tap Stop.
FairSpec == Spec /\ \A f \in Follows : WF_vars(Handler(f) \/ Updater(f))

-----------------------------------------------------------------------------
(* Properties. *)

\* The type invariant.
TypeOK ==
  /\ follow \in [Follows -> FollowRec]
  /\ entry \in [Users -> [Pods -> Follows \cup {None}]]
  /\ pane \in [Messages -> Pods \cup {Menu}]
  /\ stop \in [Stops -> StopRec]

\* A session never keeps the cancel function of a follow that is over, on any
\* way out: a failed start, a cancel, the limit, a Stop, in any interleaving.
NoDanglingEntry ==
  \A u \in Users, p \in Pods :
    entry[u][p] # None => entry[u][p] \in Running

\* A follow that met no other follow and no Stop of its user and pod is its
\* session's entry for as long as it runs, whatever other users do and other
\* pods' follows do: its Stop button finds it.
ReachableWhenAlone ==
  \A f \in Running :
    LET r == follow[f] IN r.alone /\ r.pc # "cleaning" => entry[r.user][r.pod] = f

\* After the cancel at most one more edit of the follow reaches the pane, the
\* one that was under way or the first one.
OneLateEdit == \A f \in Follows : follow[f].late <= 1

\* Every follow ends, with or without a Stop, however its polls go.
EveryFollowEnds == \A f \in Follows : follow[f].pc = "fetching" ~> follow[f].pc = "done"

\* The claim of the comment at SetState, "Store the cancellation state in the
\* session so the Stop button can find it".
StopReaches ==
  \A f \in Running :
    LET r == follow[f] IN r.pc = "waiting" /\ ~r.cancelled => entry[r.user][r.pod] = f
=============================================================================
