-------------------------- MODULE FollowLogsProofs --------------------------
(***************************************************************************)
(* Theorems about FollowLogs, for all users, pods, panes, follows, Stops   *)
(* and iteration limits: the types, and its three safety invariants, from  *)
(* one inductive invariant.                                                *)
(***************************************************************************)
EXTENDS FollowLogs, TLAPS

-----------------------------------------------------------------------------
(* Types. *)

LEMMA NobodysAreThere ==
  AnyUser \in Users /\ AnyPod \in Pods /\ AnyPane \in Messages
  BY FollowAssumption DEF AnyUser, AnyPod, AnyPane

LEMMA NewFollowIsTyped ==
  ASSUME NEW pc \in Phases, NEW u \in Users, NEW p \in Pods, NEW m \in Messages
  PROVE  NewFollow(pc, u, p, m) \in FollowRec
  BY FollowAssumption DEF NewFollow, FollowRec

LEMMA OverIsTyped == Over \in FollowRec /\ Idle \in StopRec
  BY NobodysAreThere, NewFollowIsTyped DEF Over, Idle, Phases, StopRec, NewStop

\* Going on to another phase leaves the records of follows what they are.
LEMMA ToIsTyped ==
  ASSUME TypeOK, NEW f \in Follows, NEW pc \in Phases, To(f, pc)
  PROVE  follow' \in [Follows -> FollowRec]
  BY DEF TypeOK, To, FollowRec

\* An edit that arrives changes one pane and one follow.
LEMMA ArrivesIsTyped ==
  ASSUME TypeOK, NEW f \in Follows, NEW v \in Pods \cup {Menu}, NEW pc \in Phases,
         Arrives(f, v, pc)
  PROVE  /\ follow' \in [Follows -> FollowRec]
         /\ pane' \in [Messages -> Pods \cup {Menu}]
<1>1. pane' \in [Messages -> Pods \cup {Menu}]
  BY DEF TypeOK, Arrives, FollowRec
<1> DEFINE late == IF follow[f].cancelled /\ follow[f].late < 3 THEN follow[f].late + 1 ELSE follow[f].late
<1>2. follow[f] \in FollowRec
  BY DEF TypeOK
<1>3. late \in 0..3
  BY <1>2 DEF FollowRec
<1>4. follow' = [follow EXCEPT ![f] = [follow[f] EXCEPT !.pc = pc, !.late = late]]
  BY <1>2 DEF TypeOK, Arrives, FollowRec
<1> HIDE DEF late
<1>5. [follow[f] EXCEPT !.pc = pc, !.late = late] \in FollowRec
  BY <1>2, <1>3 DEF FollowRec
<1>6. QED  BY <1>1, <1>4, <1>5 DEF TypeOK

\* What the key named is gone.
LEMMA DeleteStateIsTyped ==
  ASSUME TypeOK, NEW r, DeleteState(r)
  PROVE  entry' \in [Users -> [Pods -> Follows \cup {None}]]
  BY DEF TypeOK, DeleteState

LEMMA TypeStep ==
  ASSUME TypeOK, [Next]_vars
  PROVE  TypeOK'
<1> USE FollowAssumption
<1>1. ASSUME NEW f \in Follows, NEW u \in Users, NEW p \in Pods, NEW m \in Messages,
             ShowFollowLogs(f, u, p, m)
      PROVE  TypeOK'
  <2>1. \A b \in BOOLEAN : [NewFollow("fetching", u, p, m) EXCEPT !.alone = b] \in FollowRec
    BY NewFollowIsTyped DEF FollowRec, Phases
  <2>2. \A g \in Follows : [follow[g] EXCEPT !.alone = FALSE] \in FollowRec /\ follow[g] \in FollowRec
    BY DEF TypeOK, FollowRec
  <2>3. follow' \in [Follows -> FollowRec]
    BY <1>1, <2>1, <2>2 DEF ShowFollowLogs
  <2>4. entry' \in [Users -> [Pods -> Follows \cup {None}]]
    BY <1>1 DEF ShowFollowLogs, SetState, TypeOK
  <2>5. QED  BY <1>1, <2>3, <2>4 DEF ShowFollowLogs, TypeOK
<1>2. ASSUME NEW f \in Follows, FirstFetch(f) \/ Poll(f)  PROVE  TypeOK'
  BY <1>2, ToIsTyped DEF FirstFetch, Poll, Phases, TypeOK
<1>3. ASSUME NEW f \in Follows, ReportError(f) \/ ShowFirst(f) \/ Send(f) \/ Close(f)  PROVE  TypeOK'
  <2>1. follow[f].pod \in Pods
    BY DEF TypeOK, FollowRec
  <2>2. PICK v \in Pods \cup {Menu}, pc \in Phases : Arrives(f, v, pc) \/ Lost(f, pc)
    BY <1>3, <2>1 DEF ReportError, ShowFirst, Send, Close, Phases
  <2>3. UNCHANGED <<entry, stop>>
    BY <1>3 DEF ReportError, ShowFirst, Send, Close
  <2>4. QED  BY <2>2, <2>3, ArrivesIsTyped, ToIsTyped DEF Lost, TypeOK
<1>4. ASSUME NEW f \in Follows, GiveUp(f) \/ Cancelled(f)  PROVE  TypeOK'
  <2>1. follow' \in [Follows -> FollowRec]
    BY <1>4, OverIsTyped DEF GiveUp, Cancelled, End, TypeOK
  <2>2. QED  BY <1>4, <2>1, DeleteStateIsTyped DEF GiveUp, Cancelled, TypeOK
<1>5. ASSUME NEW f \in Follows, Tick(f)  PROVE  TypeOK'
  BY <1>5 DEF Tick, TypeOK, FollowRec, Phases
<1>6. ASSUME NEW s \in Stops, NEW u \in Users, NEW m \in Messages, StopTap(s, u, m)  PROVE  TypeOK'
  <2> DEFINE r == NewStop("cancelled", u, pane[m], m)
             next(f) == [follow[f] EXCEPT !.cancelled = @ \/ entry[u][r.pod] = f,
                                          !.alone = @ /\ ~(f \in Running /\ Same(follow[f], r))]
  <2>1. r \in StopRec
    BY <1>6 DEF StopTap, TypeOK, StopRec, NewStop
  <2>2. ASSUME NEW f \in Follows  PROVE  next(f) \in FollowRec
    <3>1. follow[f] \in FollowRec
      BY DEF TypeOK
    <3>2. \A a, b \in BOOLEAN : [follow[f] EXCEPT !.cancelled = a, !.alone = b] \in FollowRec
      BY <3>1 DEF FollowRec
    <3>3. /\ (follow[f].cancelled \/ entry[u][r.pod] = f) \in BOOLEAN
          /\ (follow[f].alone /\ ~(f \in Running /\ Same(follow[f], r))) \in BOOLEAN
      BY Zenon
    <3>4. QED  BY <3>2, <3>3
  <2> HIDE DEF r, next
  <2>3. follow' = [f \in Follows |-> next(f)] /\ stop' = [stop EXCEPT ![s] = r] /\ UNCHANGED <<entry, pane>>
    BY <1>6 DEF StopTap, r, next
  <2>4. QED  BY <2>1, <2>2, <2>3 DEF TypeOK
<1>7. ASSUME NEW s \in Stops, StopDelete(s)  PROVE  TypeOK'
  BY <1>7, DeleteStateIsTyped DEF StopDelete, TypeOK, StopRec
<1>8. ASSUME NEW s \in Stops, StopShow(s)  PROVE  TypeOK'
  BY <1>8, OverIsTyped DEF StopShow, TypeOK
<1>9. CASE Reboot
  BY <1>9, OverIsTyped DEF Reboot, TypeOK
<1>10. CASE UNCHANGED vars
  BY <1>10 DEF vars, TypeOK
<1>11. QED
  BY <1>1, <1>2, <1>3, <1>4, <1>5, <1>6, <1>7, <1>8, <1>9, <1>10 DEF Next, Handler, Updater

\* Type correctness of FollowLogs, for all values of its constants.
THEOREM FollowTypeCorrect == Spec => []TypeOK
<1>1. Init => TypeOK
  BY NobodysAreThere, NewFollowIsTyped, OverIsTyped DEF Init, TypeOK, Phases
<1>2. QED  BY <1>1, TypeStep, PTL DEF Spec

-----------------------------------------------------------------------------
(* The inductive invariant. *)

\* An entry is under the user and pod of a follow that runs: whoever deletes the
\* entry of a follow deletes the only one that names it.
EntryIsItsFollow ==
  \A u \in Users, p \in Pods :
    entry[u][p] # None =>
      /\ entry[u][p] \in Running
      /\ follow[entry[u][p]].user = u /\ follow[entry[u][p]].pod = p

\* No other follow and no Stop of its user and pod is there while a follow is alone:
\* nobody else can replace or delete its entry.
AloneIsAlone ==
  \A f \in Running : follow[f].alone =>
    /\ \A g \in Running \ {f} : ~Same(follow[g], follow[f])
    /\ \A s \in Stops : stop[s].pc # "idle" => ~Same(stop[s], follow[f])

\* Where an edit is under way, or must come before the context is looked at again,
\* none was late before; and none is late before the cancel.
LateOnlyAfterCancel ==
  \A f \in Follows :
    /\ follow[f].late <= 1
    /\ ~follow[f].cancelled => follow[f].late = 0
    /\ follow[f].pc \in {"fetching", "failing", "showing", "sending", "closing"} => follow[f].late = 0

Inv == TypeOK /\ EntryIsItsFollow /\ AloneIsAlone /\ ReachableWhenAlone /\ LateOnlyAfterCancel

\* A follow that stays under way keeps the first three, whatever else of it changes.
LEMMA MoveKeeps ==
  ASSUME Inv, TypeOK', NEW f \in Running,
         follow'[f].pc \notin {"unused", "done"},
         follow'[f].user = follow[f].user, follow'[f].pod = follow[f].pod,
         follow'[f].alone = follow[f].alone,
         \A g \in Follows \ {f} : follow'[g] = follow[g],
         follow[f].pc # "cleaning",
         UNCHANGED <<entry, stop>>
  PROVE  EntryIsItsFollow' /\ AloneIsAlone' /\ ReachableWhenAlone'
<1>1. Running' = Running
  BY DEF Running, Started
<1>2. \A g \in Follows : /\ follow'[g].user = follow[g].user /\ follow'[g].pod = follow[g].pod
                         /\ follow'[g].alone = follow[g].alone
  OBVIOUS
<1>3. EntryIsItsFollow'
  BY <1>1, <1>2 DEF Inv, EntryIsItsFollow, Running, Started
<1>4. AloneIsAlone'
  BY <1>1, <1>2 DEF Inv, AloneIsAlone, Running, Started, Same
<1>5. ReachableWhenAlone'
  BY <1>1, <1>2 DEF Inv, ReachableWhenAlone, Running, Started
<1>6. QED  BY <1>3, <1>4, <1>5

\* A follow that ends and deletes the entry under its name keeps the first three:
\* the entry was its own, or it had met the follow the entry is for.
LEMMA EndKeeps ==
  ASSUME Inv, NEW f \in Running, End(f), DeleteState(follow[f]), UNCHANGED stop
  PROVE  EntryIsItsFollow' /\ AloneIsAlone' /\ ReachableWhenAlone'
<1>1. follow'[f] = Over /\ \A g \in Follows \ {f} : follow'[g] = follow[g]
  BY DEF End, Inv, TypeOK, Running, Started
<1>2. Running' = Running \ {f}
  BY <1>1 DEF Running, Started, Over, NewFollow
<1>3. follow[f].user \in Users /\ follow[f].pod \in Pods
  BY DEF Inv, TypeOK, FollowRec, Running, Started
<1>4. \A u \in Users, p \in Pods :
        entry'[u][p] = IF u = follow[f].user /\ p = follow[f].pod THEN None ELSE entry[u][p]
  BY <1>3 DEF DeleteState, Inv, TypeOK
<1>5. EntryIsItsFollow'
  <2> SUFFICES ASSUME NEW u \in Users, NEW p \in Pods, entry'[u][p] # None
               PROVE  /\ entry'[u][p] \in Running'
                      /\ follow'[entry'[u][p]].user = u /\ follow'[entry'[u][p]].pod = p
    BY DEF EntryIsItsFollow
  <2>1. entry'[u][p] = entry[u][p] /\ ~(u = follow[f].user /\ p = follow[f].pod)
    BY <1>4
  <2>2. entry[u][p] \in Running /\ follow[entry[u][p]].user = u /\ follow[entry[u][p]].pod = p
    BY <2>1 DEF Inv, EntryIsItsFollow
  <2>3. entry[u][p] # f
    BY <2>1, <2>2
  <2>4. QED  BY <1>1, <1>2, <2>1, <2>2, <2>3 DEF Running, Started
<1>6. AloneIsAlone'
  BY <1>1, <1>2 DEF Inv, AloneIsAlone, Running, Started
<1>7. ReachableWhenAlone'
  <2> SUFFICES ASSUME NEW g \in Running', follow'[g].alone, follow'[g].pc # "cleaning"
               PROVE  entry'[follow'[g].user][follow'[g].pod] = g
    BY DEF ReachableWhenAlone
  <2>1. g \in Running /\ g # f /\ follow'[g] = follow[g]
    BY <1>1, <1>2 DEF Running, Started
  <2>2. entry[follow[g].user][follow[g].pod] = g
    BY <2>1 DEF Inv, ReachableWhenAlone
  <2>3. ~Same(follow[f], follow[g])
    BY <2>1 DEF Inv, AloneIsAlone
  <2>4. follow[g].user \in Users /\ follow[g].pod \in Pods
    BY <2>1 DEF Inv, TypeOK, FollowRec, Running, Started
  <2>5. QED  BY <1>4, <2>1, <2>2, <2>3, <2>4 DEF Same
<1>8. QED  BY <1>5, <1>6, <1>7

\* A step of one follow keeps the bounds of what is late if it does for that follow.
LEMMA LateKeeps ==
  ASSUME Inv, NEW f \in Follows, \A g \in Follows \ {f} : follow'[g] = follow[g],
         follow'[f].late <= 1, ~follow'[f].cancelled => follow'[f].late = 0,
         follow'[f].pc \in {"fetching", "failing", "showing", "sending", "closing"} => follow'[f].late = 0
  PROVE  LateOnlyAfterCancel'
  BY DEF Inv, LateOnlyAfterCancel

\* Going on to another phase keeps all of it, but for an edit begun after the cancel.
LEMMA ToKeeps ==
  ASSUME Inv, TypeOK', NEW f \in Running, NEW pc \in Phases \ {"unused", "done"}, To(f, pc),
         follow[f].pc # "cleaning", UNCHANGED <<entry, stop>>,
         pc \in {"fetching", "failing", "showing", "sending", "closing"} => follow[f].late = 0
  PROVE  Inv'
<1>1. f \in Follows /\ follow[f] \in FollowRec
  BY DEF Running, Started, Inv, TypeOK
<1>2. \A g \in Follows \ {f} : follow'[g] = follow[g]
  BY <1>1 DEF To, Inv, TypeOK
<1>3. /\ follow'[f].pc = pc
      /\ follow'[f].user = follow[f].user /\ follow'[f].pod = follow[f].pod
      /\ follow'[f].alone = follow[f].alone /\ follow'[f].cancelled = follow[f].cancelled
      /\ follow'[f].late = follow[f].late
  BY <1>1 DEF To, Inv, TypeOK, FollowRec
<1>4. EntryIsItsFollow' /\ AloneIsAlone' /\ ReachableWhenAlone'
  BY <1>2, <1>3, MoveKeeps
<1>5. LateOnlyAfterCancel'
  BY <1>1, <1>2, <1>3, LateKeeps DEF Inv, LateOnlyAfterCancel
<1>6. QED  BY <1>4, <1>5 DEF Inv

\* So does an edit that arrives, from a phase where none was late before.
LEMMA ArrivesKeeps ==
  ASSUME Inv, TypeOK', NEW f \in Running, NEW v, NEW pc \in {"waiting", "cleaning"}, Arrives(f, v, pc),
         follow[f].pc \in {"failing", "showing", "sending", "closing"}, UNCHANGED <<entry, stop>>
  PROVE  Inv'
<1>1. f \in Follows /\ follow[f] \in FollowRec
  BY DEF Running, Started, Inv, TypeOK
<1>2. \A g \in Follows \ {f} : follow'[g] = follow[g]
  BY <1>1 DEF Arrives, Inv, TypeOK
<1>3. follow[f].late = 0
  BY <1>1 DEF Inv, LateOnlyAfterCancel
<1>4. /\ follow'[f].pc = pc
      /\ follow'[f].user = follow[f].user /\ follow'[f].pod = follow[f].pod
      /\ follow'[f].alone = follow[f].alone /\ follow'[f].cancelled = follow[f].cancelled
      /\ follow'[f].late = IF follow[f].cancelled THEN 1 ELSE 0
  BY <1>1, <1>3 DEF Arrives, Inv, TypeOK, FollowRec
<1>5. EntryIsItsFollow' /\ AloneIsAlone' /\ ReachableWhenAlone'
  BY <1>2, <1>4, MoveKeeps
<1>6. LateOnlyAfterCancel'
  BY <1>1, <1>2, <1>4, LateKeeps
<1>7. QED  BY <1>5, <1>6 DEF Inv

\* A follow that begins takes the entry, and tells all it meets.
LEMMA ShowKeeps ==
  ASSUME Inv, TypeOK', NEW f \in Follows, NEW u \in Users, NEW p \in Pods, NEW m \in Messages,
         ShowFollowLogs(f, u, p, m)
  PROVE  Inv'
<1> USE FollowAssumption
<1> DEFINE r == NewFollow("fetching", u, p, m)
           met == \/ \E g \in Running : Same(follow[g], r)
                  \/ \E s \in Stops : stop[s].pc # "idle" /\ Same(stop[s], r)
<1>1. /\ f \notin Running
      /\ follow'[f] = [r EXCEPT !.alone = ~met]
      /\ \A g \in Follows \ {f} :
           follow'[g] = IF g \in Running /\ Same(follow[g], r)
                        THEN [follow[g] EXCEPT !.alone = FALSE] ELSE follow[g]
      /\ stop' = stop
  BY DEF ShowFollowLogs, Running
<1>2. /\ follow'[f].pc = "fetching" /\ follow'[f].user = u /\ follow'[f].pod = p
      /\ follow'[f].alone <=> ~met
      /\ follow'[f].late = 0 /\ follow'[f].cancelled = FALSE
  BY <1>1 DEF NewFollow
<1>3. \A g \in Follows \ {f} :
        /\ follow'[g].pc = follow[g].pc
        /\ follow'[g].user = follow[g].user /\ follow'[g].pod = follow[g].pod
        /\ follow'[g].late = follow[g].late /\ follow'[g].cancelled = follow[g].cancelled
        /\ follow'[g].alone => follow[g].alone
        /\ g \in Running /\ follow'[g].alone => ~(follow[g].user = u /\ follow[g].pod = p)
  BY <1>1 DEF Inv, TypeOK, FollowRec, Same, NewFollow
<1>4. met <=> \/ \E g \in Running : follow[g].user = u /\ follow[g].pod = p
              \/ \E s \in Stops : stop[s].pc # "idle" /\ stop[s].user = u /\ stop[s].pod = p
  BY DEF Same, NewFollow
<1> HIDE DEF r, met
<1>5. Running' = Running \cup {f}
  BY <1>2, <1>3 DEF Running, Started
<1>6. \A v \in Users, q \in Pods : entry'[v][q] = IF v = u /\ q = p THEN f ELSE entry[v][q]
  BY DEF ShowFollowLogs, SetState, Inv, TypeOK
<1>7. EntryIsItsFollow'
  <2> SUFFICES ASSUME NEW v \in Users, NEW q \in Pods, entry'[v][q] # None
               PROVE  /\ entry'[v][q] \in Running'
                      /\ follow'[entry'[v][q]].user = v /\ follow'[entry'[v][q]].pod = q
    BY DEF EntryIsItsFollow
  <2>1. CASE v = u /\ q = p
    BY <1>2, <1>5, <1>6, <2>1
  <2>2. CASE ~(v = u /\ q = p)
    <3>1. entry'[v][q] = entry[v][q]
      BY <1>6, <2>2
    <3>2. /\ entry[v][q] \in Running
          /\ follow[entry[v][q]].user = v /\ follow[entry[v][q]].pod = q
      BY <3>1 DEF Inv, EntryIsItsFollow
    <3>3. entry[v][q] \in Follows \ {f}
      BY <1>1, <3>2 DEF Running, Started
    <3>4. QED  BY <1>3, <1>5, <3>1, <3>2, <3>3
  <2>3. QED  BY <2>1, <2>2
<1>8. AloneIsAlone'
  <2> SUFFICES ASSUME NEW g \in Running', follow'[g].alone
               PROVE  /\ \A h \in Running' \ {g} : ~Same(follow'[h], follow'[g])
                      /\ \A s \in Stops : stop[s].pc # "idle" => ~Same(stop[s], follow'[g])
    BY <1>1 DEF AloneIsAlone
  <2>1. CASE g = f
    BY <1>2, <1>3, <1>4, <1>5, <2>1 DEF Same, Running, Started
  <2>2. CASE g # f
    <3>1. g \in Running /\ g \in Follows \ {f} /\ follow[g].alone
      BY <1>3, <1>5, <2>2 DEF Running, Started
    <3>2. /\ \A h \in Running \ {g} : ~Same(follow[h], follow[g])
          /\ \A s \in Stops : stop[s].pc # "idle" => ~Same(stop[s], follow[g])
      BY <3>1 DEF Inv, AloneIsAlone
    <3>3. QED  BY <1>2, <1>3, <1>5, <3>1, <3>2 DEF Same, Running, Started
  <2>3. QED  BY <2>1, <2>2
<1>9. ReachableWhenAlone'
  <2> SUFFICES ASSUME NEW g \in Running', follow'[g].alone, follow'[g].pc # "cleaning"
               PROVE  entry'[follow'[g].user][follow'[g].pod] = g
    BY DEF ReachableWhenAlone
  <2>1. CASE g = f
    BY <1>2, <1>6, <2>1
  <2>2. CASE g # f
    <3>1. g \in Running /\ g \in Follows \ {f} /\ follow[g].alone
      BY <1>3, <1>5, <2>2 DEF Running, Started
    <3>2. entry[follow[g].user][follow[g].pod] = g
      BY <1>3, <3>1 DEF Inv, ReachableWhenAlone
    <3>3. follow[g].user \in Users /\ follow[g].pod \in Pods
      BY <3>1 DEF Inv, TypeOK, FollowRec
    <3>4. QED  BY <1>3, <1>6, <3>1, <3>2, <3>3
  <2>3. QED  BY <2>1, <2>2
<1>10. LateOnlyAfterCancel'
  BY <1>2, <1>3 DEF Inv, LateOnlyAfterCancel
<1>11. QED  BY <1>7, <1>8, <1>9, <1>10 DEF Inv

\* A tap on Stop tells every follow it is for, and cancels the one the entry names.
LEMMA StopTapKeeps ==
  ASSUME Inv, TypeOK', NEW s \in Stops, NEW u \in Users, NEW m \in Messages, StopTap(s, u, m)
  PROVE  Inv'
<1> DEFINE r == NewStop("cancelled", u, pane[m], m)
<1>1. /\ stop'[s] = r /\ \A t \in Stops \ {s} : stop'[t] = stop[t]
      /\ entry' = entry
  BY DEF StopTap, Inv, TypeOK
<1>2. \A f \in Follows :
        /\ follow'[f].pc = follow[f].pc
        /\ follow'[f].user = follow[f].user /\ follow'[f].pod = follow[f].pod
        /\ follow'[f].late = follow[f].late
        /\ follow[f].cancelled => follow'[f].cancelled
        /\ follow'[f].alone => follow[f].alone
        /\ f \in Running /\ follow'[f].alone => ~Same(follow[f], r)
  <2> SUFFICES ASSUME NEW f \in Follows
               PROVE  /\ follow'[f].pc = follow[f].pc
                      /\ follow'[f].user = follow[f].user /\ follow'[f].pod = follow[f].pod
                      /\ follow'[f].late = follow[f].late
                      /\ follow[f].cancelled => follow'[f].cancelled
                      /\ follow'[f].alone => follow[f].alone
                      /\ f \in Running /\ follow'[f].alone => ~Same(follow[f], r)
    OBVIOUS
  <2> DEFINE cancelled == follow[f].cancelled \/ entry[u][r.pod] = f
             alone == follow[f].alone /\ ~(f \in Running /\ Same(follow[f], r))
  <2>1. follow'[f] = [follow[f] EXCEPT !.cancelled = cancelled, !.alone = alone]
    BY DEF StopTap
  <2>2. follow[f] \in FollowRec
    BY DEF Inv, TypeOK
  <2> HIDE DEF cancelled, alone
  <2>3. /\ follow'[f].pc = follow[f].pc
        /\ follow'[f].user = follow[f].user /\ follow'[f].pod = follow[f].pod
        /\ follow'[f].late = follow[f].late
        /\ follow'[f].cancelled = cancelled /\ follow'[f].alone = alone
    BY <2>1, <2>2 DEF FollowRec
  <2>4. QED  BY <2>3, Zenon DEF cancelled, alone
<1> HIDE DEF r
<1>3. Running' = Running
  BY <1>2 DEF Running, Started
<1>4. EntryIsItsFollow'
  BY <1>1, <1>2, <1>3 DEF Inv, EntryIsItsFollow, Running, Started
<1>5. AloneIsAlone'
  <2> SUFFICES ASSUME NEW f \in Running, follow'[f].alone
               PROVE  /\ \A g \in Running \ {f} : ~Same(follow'[g], follow'[f])
                      /\ \A t \in Stops : stop'[t].pc # "idle" => ~Same(stop'[t], follow'[f])
    BY <1>3 DEF AloneIsAlone
  <2>1. f \in Follows /\ follow[f].alone /\ ~Same(follow[f], r)
    BY <1>2 DEF Running, Started
  <2>2. /\ \A g \in Running \ {f} : ~Same(follow[g], follow[f])
        /\ \A t \in Stops : stop[t].pc # "idle" => ~Same(stop[t], follow[f])
    BY <2>1 DEF Inv, AloneIsAlone
  <2>3. QED  BY <1>1, <1>2, <2>1, <2>2 DEF Same, Running, Started
<1>6. ReachableWhenAlone'
  BY <1>1, <1>2, <1>3 DEF Inv, ReachableWhenAlone, Running, Started
<1>7. LateOnlyAfterCancel'
  BY <1>2 DEF Inv, LateOnlyAfterCancel
<1>8. QED  BY <1>4, <1>5, <1>6, <1>7 DEF Inv

\* A Stop deletes no entry of a follow that is alone, for it has met that follow.
LEMMA StopDeleteKeeps ==
  ASSUME Inv, TypeOK', NEW s \in Stops, StopDelete(s)
  PROVE  Inv'
<1>1. stop[s] \in StopRec /\ stop[s].pc # "idle"
  BY DEF StopDelete, Inv, TypeOK
<1>2. /\ follow' = follow /\ Running' = Running
      /\ \A t \in Stops : Same(stop'[t], stop'[t]) /\ (stop'[t].pc # "idle" <=> stop[t].pc # "idle")
      /\ \A t \in Stops : stop'[t].user = stop[t].user /\ stop'[t].pod = stop[t].pod
  BY <1>1 DEF StopDelete, Inv, TypeOK, StopRec, Same, Running, Started
<1>3. \A u \in Users, p \in Pods :
        entry'[u][p] = IF u = stop[s].user /\ p = stop[s].pod THEN None ELSE entry[u][p]
  BY <1>1 DEF StopDelete, DeleteState, Inv, TypeOK, StopRec
<1>4. EntryIsItsFollow'
  BY <1>2, <1>3 DEF Inv, EntryIsItsFollow
<1>5. AloneIsAlone'
  BY <1>2 DEF Inv, AloneIsAlone, Same
<1>6. ReachableWhenAlone'
  <2> SUFFICES ASSUME NEW f \in Running, follow[f].alone, follow[f].pc # "cleaning"
               PROVE  entry'[follow[f].user][follow[f].pod] = f
    BY <1>2 DEF ReachableWhenAlone
  <2>1. entry[follow[f].user][follow[f].pod] = f /\ ~Same(stop[s], follow[f])
    BY <1>1 DEF Inv, ReachableWhenAlone, AloneIsAlone
  <2>2. follow[f].user \in Users /\ follow[f].pod \in Pods
    BY DEF Inv, TypeOK, FollowRec, Running, Started
  <2>3. QED  BY <1>3, <2>1, <2>2 DEF Same
<1>7. LateOnlyAfterCancel'
  BY <1>2 DEF Inv, LateOnlyAfterCancel
<1>8. QED  BY <1>4, <1>5, <1>6, <1>7 DEF Inv

\* Inv is inductive.
LEMMA InvStep ==
  ASSUME Inv, [Next]_vars
  PROVE  Inv'
<1>0. TypeOK'
  BY TypeStep DEF Inv
<1>1. ASSUME NEW f \in Follows, FirstFetch(f)  PROVE  Inv'
  <2>1. f \in Running /\ follow[f].pc = "fetching" /\ follow[f].late = 0
    BY <1>1 DEF FirstFetch, Running, Started, Inv, LateOnlyAfterCancel
  <2>2. QED  BY <1>0, <1>1, <2>1, ToKeeps DEF FirstFetch, Phases
<1>2. ASSUME NEW f \in Follows, ReportError(f) \/ ShowFirst(f) \/ Send(f) \/ Close(f)  PROVE  Inv'
  <2>1. f \in Running /\ follow[f].pc \in {"failing", "showing", "sending", "closing"}
    BY <1>2 DEF ReportError, ShowFirst, Send, Close, Running, Started
  <2>2. PICK pc \in {"waiting", "cleaning"} :
          Arrives(f, Menu, pc) \/ Arrives(f, follow[f].pod, pc) \/ To(f, pc)
    BY <1>2 DEF ReportError, ShowFirst, Send, Close, Lost
  <2>3. UNCHANGED <<entry, stop>>
    BY <1>2 DEF ReportError, ShowFirst, Send, Close
  <2>4. QED  BY <1>0, <2>1, <2>2, <2>3, ArrivesKeeps, ToKeeps DEF Phases
<1>3. ASSUME NEW f \in Follows, GiveUp(f) \/ Cancelled(f)  PROVE  Inv'
  <2>1. f \in Running /\ End(f) /\ DeleteState(follow[f]) /\ UNCHANGED stop
    BY <1>3 DEF GiveUp, Cancelled, Running, Started
  <2>2. follow'[f] = Over /\ \A g \in Follows \ {f} : follow'[g] = follow[g]
    BY <2>1 DEF End, Inv, TypeOK
  <2>3. LateOnlyAfterCancel'
    BY <2>2, LateKeeps DEF Over, NewFollow
  <2>4. QED  BY <1>0, <2>1, <2>3, EndKeeps DEF Inv
<1>4. ASSUME NEW f \in Follows, Tick(f)  PROVE  Inv'
  <2> DEFINE pc == IF follow[f].ticks < MaxTicks THEN "polling"
                   ELSE IF follow[f].cancelled THEN "cleaning" ELSE "closing"
  <2>1. f \in Running /\ follow[f].pc = "waiting" /\ follow[f] \in FollowRec /\ UNCHANGED <<entry, stop>>
    BY <1>4 DEF Tick, Running, Started, Inv, TypeOK
  <2>2. \A g \in Follows \ {f} : follow'[g] = follow[g]
    BY <1>4 DEF Tick, Inv, TypeOK
  <2>3. /\ follow'[f].pc = pc
        /\ follow'[f].user = follow[f].user /\ follow'[f].pod = follow[f].pod
        /\ follow'[f].alone = follow[f].alone /\ follow'[f].cancelled = follow[f].cancelled
        /\ follow'[f].late = follow[f].late
    BY <1>4, <2>1 DEF Tick, Inv, TypeOK, FollowRec
  <2>4. EntryIsItsFollow' /\ AloneIsAlone' /\ ReachableWhenAlone'
    BY <1>0, <2>1, <2>2, <2>3, MoveKeeps
  <2>5. LateOnlyAfterCancel'
    BY <2>2, <2>3, LateKeeps DEF Inv, LateOnlyAfterCancel
  <2>6. QED  BY <1>0, <2>4, <2>5 DEF Inv
<1>5. ASSUME NEW f \in Follows, Poll(f)  PROVE  Inv'
  <2>1. f \in Running /\ follow[f].pc = "polling" /\ UNCHANGED <<entry, stop>>
    BY <1>5 DEF Poll, Running, Started
  <2>2. CASE To(f, "waiting")
    BY <1>0, <2>1, <2>2, ToKeeps DEF Phases
  <2>3. CASE ~follow[f].cancelled /\ To(f, "sending")
    BY <1>0, <2>1, <2>3, ToKeeps DEF Phases, Inv, LateOnlyAfterCancel
  <2>4. QED  BY <1>5, <2>2, <2>3 DEF Poll
<1>6. ASSUME NEW s \in Stops, StopShow(s)  PROVE  Inv'
  <2>1. /\ stop'[s].pc = "idle" /\ \A t \in Stops \ {s} : stop'[t] = stop[t]
        /\ UNCHANGED <<follow, entry>>
    BY <1>6 DEF StopShow, Idle, NewStop, Inv, TypeOK
  <2>2. AloneIsAlone'
    BY <2>1 DEF Inv, AloneIsAlone, Running, Started
  <2>3. QED
    BY <1>0, <2>1, <2>2
    DEF Inv, EntryIsItsFollow, ReachableWhenAlone, LateOnlyAfterCancel, Running, Started
<1>7. CASE Reboot
  <2>1. Running' = {}
    BY <1>7 DEF Reboot, Running, Started, Over, NewFollow
  <2>2. \A u \in Users, p \in Pods : entry'[u][p] = None
    BY <1>7 DEF Reboot
  <2>3. \A f \in Follows : follow'[f] \in {Over, follow[f]}
    BY <1>7 DEF Reboot
  <2>4. LateOnlyAfterCancel'
    BY <2>3 DEF Inv, LateOnlyAfterCancel, Over, NewFollow
  <2>5. QED
    BY <1>0, <2>1, <2>2, <2>4 DEF Inv, EntryIsItsFollow, AloneIsAlone, ReachableWhenAlone
<1>8. CASE UNCHANGED vars
  BY <1>0, <1>8
  DEF vars, Inv, EntryIsItsFollow, AloneIsAlone, ReachableWhenAlone, LateOnlyAfterCancel,
      Running, Started, Same
<1>9. QED
  BY <1>0, <1>1, <1>2, <1>3, <1>4, <1>5, <1>6, <1>7, <1>8, ShowKeeps, StopTapKeeps, StopDeleteKeeps
  DEF Next, Handler, Updater

LEMMA InvHolds == Spec => []Inv
<1>1. Init => Inv
  <2> SUFFICES ASSUME Init  PROVE  Inv
    OBVIOUS
  <2>1. TypeOK
    BY NobodysAreThere, NewFollowIsTyped, OverIsTyped DEF Init, TypeOK, Phases
  <2>2. Running = {}
    BY DEF Init, Running, Started, NewFollow
  <2>3. QED
    BY <2>1, <2>2
    DEF Init, Inv, EntryIsItsFollow, AloneIsAlone, ReachableWhenAlone, LateOnlyAfterCancel, NewFollow
<1>2. QED  BY <1>1, InvStep, PTL DEF Spec

-----------------------------------------------------------------------------
(* What follows from it. *)

\* showFollowLogs, the updater and Stop store and delete entries in any interleaving:
\* none is left of a follow that is over.
THEOREM NoEntryDangles == Spec => []NoDanglingEntry
<1>1. Inv => NoDanglingEntry
  BY DEF Inv, EntryIsItsFollow, NoDanglingEntry
<1>2. QED  BY <1>1, InvHolds, PTL

\* A follow that met no other of its user and pod, nor a Stop, is found by its Stop button.
THEOREM AloneIsReachable == Spec => []ReachableWhenAlone
<1>1. Inv => ReachableWhenAlone
  BY DEF Inv
<1>2. QED  BY <1>1, InvHolds, PTL

\* A cancelled follow edits the pane once more at most.
THEOREM AtMostOneLateEdit == Spec => []OneLateEdit
<1>1. Inv => OneLateEdit
  BY DEF Inv, LateOnlyAfterCancel, OneLateEdit
<1>2. QED  BY <1>1, InvHolds, PTL
=============================================================================
