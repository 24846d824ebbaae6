------------------------- MODULE ClusterClientProofs -------------------------
(***************************************************************************)
(* Theorems about ClusterClient, for all contexts, users, goroutines and   *)
(* operations: the types, and its three safety invariants, from one        *)
(* inductive invariant.                                                    *)
(***************************************************************************)
EXTENDS ClusterClient, FiniteSetTheorems, SequenceTheorems, TLAPS

-----------------------------------------------------------------------------
(* Types. *)

Job == {Idle} \cup SwitchJob \cup OpJob

\* The kind of a job tells which record it is.
LEMMA KindTells ==
  ASSUME NEW j \in Job
  PROVE  /\ j.kind = "idle" <=> j = Idle
         /\ j.kind \in {"build", "assign"} <=> j \in SwitchJob
         /\ j.kind = "op" <=> j \in OpJob
  BY DEF Job, Idle, SwitchJob, OpJob

\* The client a handler gets is a copy for a context, or the shared one.
LEMMA ClientForIsTyped ==
  ASSUME TypeOK, NEW u
  PROVE  ClientFor(u) \subseteq Contexts \cup {None}
  BY DEF TypeOK, ClientFor, Fields

\* A call that is not a request for a client reads a field and reaches a context.
LEMMA ReachesIsTyped ==
  ASSUME TypeOK, NEW j \in OpJob, j.calls # << >>
  PROVE  /\ Tail(j.calls) \in Seq(Fields \cup {Resolve})
         /\ Head(j.calls) # Resolve =>
              Head(j.calls) \in Fields /\ Reaches(j.via, Head(j.calls)) \in Contexts
<1>1. j.calls \in Seq(Fields \cup {Resolve}) /\ j.via \in Contexts \cup {None}
  BY DEF OpJob
<1>2. Head(j.calls) \in Fields \cup {Resolve} /\ Tail(j.calls) \in Seq(Fields \cup {Resolve})
  BY <1>1, HeadTailProperties
<1>3. QED  BY <1>1, <1>2 DEF TypeOK, Reaches

\* What the two steps of an operation make of its record.
LEMMA CallIsTyped ==
  ASSUME TypeOK, NEW w \in Workers, Call(w)
  PROVE  /\ job[w] \in OpJob /\ job[w].calls # << >> /\ Head(job[w].calls) \in Fields
         /\ job' = [job EXCEPT ![w] = [job[w] EXCEPT
                      !.calls = Tail(job[w].calls),
                      !.hit = @ \cup {Reaches(job[w].via, Head(job[w].calls))}]]
         /\ job' \in [Workers -> Job]
<1>1. job[w] \in OpJob /\ job[w].calls # << >> /\ Head(job[w].calls) # Resolve
  BY KindTells DEF Call, TypeOK, Job
<1>2. /\ Tail(job[w].calls) \in Seq(Fields \cup {Resolve})
      /\ Head(job[w].calls) \in Fields /\ Reaches(job[w].via, Head(job[w].calls)) \in Contexts
  BY <1>1, ReachesIsTyped
<1>3. job' = [job EXCEPT ![w] = [job[w] EXCEPT
                !.calls = Tail(job[w].calls),
                !.hit = @ \cup {Reaches(job[w].via, Head(job[w].calls))}]]
  BY <1>1 DEF Call, TypeOK, OpJob
<1>4. [job[w] EXCEPT !.calls = Tail(job[w].calls),
                     !.hit = @ \cup {Reaches(job[w].via, Head(job[w].calls))}] \in OpJob
  BY <1>1, <1>2 DEF OpJob
<1>5. QED  BY <1>1, <1>2, <1>3, <1>4 DEF TypeOK, Job

LEMMA AskIsTyped ==
  ASSUME TypeOK, NEW w \in Workers, AskAgain(w)
  PROVE  /\ job[w] \in OpJob
         /\ \E via \in ClientFor(job[w].user) :
              job' = [job EXCEPT ![w] = [job[w] EXCEPT !.calls = Tail(job[w].calls),
                        !.via = via, !.hit = {}, !.calm = (via # None \/ Whole)]]
         /\ job' \in [Workers -> Job]
<1>1. job[w] \in OpJob /\ job[w].calls # << >>
  BY KindTells DEF AskAgain, TypeOK, Job
<1>2. PICK via \in ClientFor(job[w].user) :
        job' = [job EXCEPT ![w].calls = Tail(job[w].calls), ![w].via = via, ![w].hit = {},
                           ![w].calm = (via # None \/ Whole)]
  BY DEF AskAgain
<1>3. job' = [job EXCEPT ![w] = [job[w] EXCEPT !.calls = Tail(job[w].calls),
                !.via = via, !.hit = {}, !.calm = (via # None \/ Whole)]]
  BY <1>1, <1>2 DEF TypeOK, OpJob
<1>4. (via # None \/ Whole) \in BOOLEAN
  BY Zenon
<1>5. [job[w] EXCEPT !.calls = Tail(job[w].calls),
                     !.via = via, !.hit = {}, !.calm = (via # None \/ Whole)] \in OpJob
  <2> DEFINE calm == via # None \/ Whole
  <2> HIDE DEF calm
  <2>1. calm \in BOOLEAN
    BY <1>4 DEF calm
  <2>2. [job[w] EXCEPT !.calls = Tail(job[w].calls), !.via = via, !.hit = {}, !.calm = calm] \in OpJob
    BY <1>1, <2>1, ReachesIsTyped, ClientForIsTyped DEF OpJob
  <2>3. QED  BY <2>2 DEF calm
<1>6. QED  BY <1>1, <1>3, <1>5 DEF TypeOK, Job

LEMMA TypeStep ==
  ASSUME TypeOK, [Next]_vars
  PROVE  TypeOK'
<1> USE ClientAssumption
<1>0. job \in [Workers -> Job]
  BY DEF TypeOK, Job
<1>1. ASSUME NEW w \in Workers, NEW u \in Users, NEW to, SwitchContext(w, u, to)  PROVE  TypeOK'
  BY <1>1 DEF SwitchContext, TypeOK, SwitchJob
<1>2. ASSUME NEW w \in Workers, NEW u \in Users, NEW to, UseContextOnCopy(w, u, to)  PROVE  TypeOK'
  BY <1>2 DEF UseContextOnCopy, TypeOK
<1>3. ASSUME NEW w \in Workers, NEW u \in Users, NEW calls \in Operations, BeginOperation(w, u, calls)
      PROVE  TypeOK'
  <2>1. PICK via \in ClientFor(u) :
          job' = [job EXCEPT ![w] = [kind |-> "op", user |-> u, via |-> via, calls |-> calls,
                                     hit |-> {}, calm |-> via # None \/ Whole]]
    BY <1>3 DEF BeginOperation
  <2>2. (via # None \/ Whole) \in BOOLEAN
    BY Zenon
  <2>3. [kind |-> "op", user |-> u, via |-> via, calls |-> calls,
         hit |-> {}, calm |-> via # None \/ Whole] \in OpJob
    BY <2>2, ClientForIsTyped, Zenon DEF OpJob
  <2>4. QED  BY <1>3, <2>1, <2>3 DEF BeginOperation, TypeOK
<1>4. ASSUME NEW w \in Workers, Build(w)  PROVE  TypeOK'
  <2>1. job[w] \in SwitchJob
    BY <1>0, <1>4, KindTells DEF Build
  <2>2. (Switching = {}) \in BOOLEAN
    BY Zenon
  <2>3. job' \in [Workers -> Job] /\ last' \in Users
    BY <1>0, <1>4, <2>1 DEF Build, SwitchJob, Rebuilt, Job
  <2>4. QED  BY <1>4, <2>2, <2>3 DEF Build, TypeOK, Job
<1>5. ASSUME NEW w \in Workers, BuildFails(w) \/ EndOperation(w)  PROVE  TypeOK'
  BY <1>5 DEF BuildFails, EndOperation, TypeOK
<1>6. ASSUME NEW w \in Workers, Assign(w)  PROVE  TypeOK'
  <2>1. job[w] \in SwitchJob
    BY <1>0, <1>6, KindTells DEF Assign, Switching
  <2>2. PICK x \in job[w].left :
          /\ client' = [client EXCEPT ![x] = job[w].to]
          /\ job' = [v \in Workers |->
               IF v = w THEN [job[w] EXCEPT !.left = @ \ {x}]
               ELSE IF job[v].kind = "op" /\ job[v].via = None THEN [job[v] EXCEPT !.calm = FALSE]
               ELSE job[v]]
    BY <1>6 DEF Assign
  <2>3. client' \in [Fields -> Contexts]
    BY <2>1, <2>2 DEF TypeOK, SwitchJob
  <2>4. [job[w] EXCEPT !.left = @ \ {x}] \in Job
    BY <2>1 DEF SwitchJob, Job
  <2>5. \A v \in Workers : job[v].kind = "op" => [job[v] EXCEPT !.calm = FALSE] \in Job
    BY <1>0, KindTells DEF OpJob, Job
  <2>6. job' \in [Workers -> Job]
    BY <1>0, <2>2, <2>4, <2>5
  <2>7. QED  BY <1>6, <2>3, <2>6 DEF Assign, TypeOK, Job
<1>7. ASSUME NEW w \in Workers, Report(w)  PROVE  TypeOK'
  <2>1. job[w] \in SwitchJob
    BY <1>0, <1>7, KindTells DEF Report, Switching
  <2>2. QED  BY <1>7, <2>1 DEF Report, TypeOK, SwitchJob
<1>8. ASSUME NEW w \in Workers, Call(w)  PROVE  TypeOK'
  BY <1>8, CallIsTyped DEF Call, TypeOK, Job
<1>9. ASSUME NEW w \in Workers, AskAgain(w)  PROVE  TypeOK'
  BY <1>9, AskIsTyped DEF AskAgain, TypeOK, Job
<1>10. CASE UNCHANGED vars
  BY <1>10 DEF vars, TypeOK
<1>11. QED
  BY <1>1, <1>2, <1>3, <1>4, <1>5, <1>6, <1>7, <1>8, <1>9, <1>10 DEF Next

\* Type correctness of ClusterClient, for all values of its constants.
THEOREM ClientTypeCorrect == Spec => []TypeOK
<1>1. Init => TypeOK
  BY ClientAssumption DEF Init, TypeOK
<1>2. QED  BY <1>1, TypeStep, PTL DEF Spec

-----------------------------------------------------------------------------
(* The inductive invariant. *)

\* A switch whose clients were built is to a context they could be built for.
GoodTargets == \A w \in Switching : job[w].to \notin Broken

\* While nobody has begun to assign beside the last one who did, he is the only
\* one to assign, and every field he has written holds what he wrote.
LoneIsAlone ==
  lone =>
    /\ \A v, w \in Switching : v = w
    /\ \A w \in Switching :
         /\ job[w].user = last
         /\ \A x \in Fields \ job[w].left : client[x] = job[w].to

\* An operation not disturbed has used one context: its copy's, or the one that all
\* fields of the shared client still name.
KeepsToOne(j) ==
  IF j.via = None THEN Whole /\ j.hit \subseteq {client["clientset"]} ELSE j.hit \subseteq {j.via}

CalmKeepsToOne == \A w \in Workers : job[w].kind = "op" /\ job[w].calm => KeepsToOne(job[w])

Inv == /\ TypeOK
       /\ NeverBroken /\ GoodTargets
       /\ LoneIsAlone /\ LoneSwitchIsWhole
       /\ CalmKeepsToOne

\* A change of one worker's job that neither begins nor ends its assigning keeps Inv
\* if it leaves an operation with one context.
LEMMA JobKeeps ==
  ASSUME Inv, TypeOK', NEW w \in Workers, NEW j, job' = [job EXCEPT ![w] = j],
         job[w].kind # "assign", j.kind # "assign", j.kind = "op" /\ j.calm => KeepsToOne(j),
         UNCHANGED <<client, currentCtx, lone, last>>
  PROVE  Inv'
<1>1. job'[w] = j /\ \A v \in Workers \ {w} : job'[v] = job[v]
  BY DEF Inv, TypeOK
<1>2. Switching' = Switching /\ \A v \in Switching : job'[v] = job[v]
  BY <1>1 DEF Switching
<1>3. NeverBroken' /\ GoodTargets' /\ Whole' = Whole
  BY <1>2 DEF Inv, NeverBroken, GoodTargets, Whole
<1>4. LoneIsAlone' /\ LoneSwitchIsWhole'
  BY <1>2, <1>3 DEF Inv, LoneIsAlone, LoneSwitchIsWhole, Whole
<1>5. CalmKeepsToOne'
  <2>1. \A i : KeepsToOne(i)' <=> KeepsToOne(i)
    BY DEF KeepsToOne, Whole
  <2>2. \A v \in Workers : job'[v].kind = "op" /\ job'[v].calm => KeepsToOne(job'[v])
    BY <1>1, Zenon DEF Inv, CalmKeepsToOne
  <2>3. QED  BY <2>2 DEF CalmKeepsToOne, KeepsToOne, Whole
<1>6. QED  BY <1>3, <1>4, <1>5 DEF Inv

\* A switch that begins to assign is to a good context and has written nothing yet.
LEMMA BuildKeeps ==
  ASSUME Inv, TypeOK', NEW w \in Workers, Build(w)
  PROVE  Inv'
<1>1. job[w] \in SwitchJob
  BY KindTells DEF Build, Inv, TypeOK, Job
<1>2. /\ job'[w].kind = "assign" /\ job'[w].left = Fields /\ job'[w].to = job[w].to
      /\ job'[w].user = job[w].user
      /\ \A v \in Workers \ {w} : job'[v] = job[v]
      /\ UNCHANGED <<client, currentCtx>>
  BY <1>1 DEF Build, Inv, TypeOK, SwitchJob, Rebuilt
<1>3. Switching' = Switching \cup {w}
  BY <1>2 DEF Switching
<1>4. NeverBroken' /\ GoodTargets'
  BY <1>2, <1>3 DEF Inv, NeverBroken, GoodTargets, Build, Switching
<1>5. lone' => Switching' = {w} /\ last' = job'[w].user
  BY <1>2, <1>3 DEF Build
<1>6. LoneIsAlone' /\ LoneSwitchIsWhole'
  BY <1>2, <1>3, <1>5 DEF LoneIsAlone, LoneSwitchIsWhole
<1>7. CalmKeepsToOne'
  BY <1>2 DEF Inv, CalmKeepsToOne, KeepsToOne, Whole
<1>8. QED  BY <1>4, <1>6, <1>7 DEF Inv

\* An assignment leaves no operation of the shared client calm, and adds to what the
\* switch has written.
LEMMA AssignKeeps ==
  ASSUME Inv, TypeOK', NEW w \in Workers, Assign(w)
  PROVE  Inv'
<1>0. \A v \in Workers : job[v] \in Job
  BY DEF Inv, TypeOK, Job
<1>1. job[w] \in SwitchJob /\ w \in Switching
  BY <1>0, KindTells DEF Assign, Switching
<1> PICK x \in job[w].left :
      /\ client' = [client EXCEPT ![x] = job[w].to]
      /\ job' = [v \in Workers |->
           IF v = w THEN [job[w] EXCEPT !.left = @ \ {x}]
           ELSE IF job[v].kind = "op" /\ job[v].via = None THEN [job[v] EXCEPT !.calm = FALSE]
           ELSE job[v]]
  BY DEF Assign
<1>2. x \in Fields /\ \A y \in Fields : client'[y] = IF y = x THEN job[w].to ELSE client[y]
  BY <1>1 DEF Inv, TypeOK, SwitchJob
<1>3. /\ job'[w].left = job[w].left \ {x} /\ job'[w].to = job[w].to
      /\ job'[w].user = job[w].user /\ job'[w].kind = "assign"
  BY <1>1 DEF SwitchJob, Switching
<1>4. ASSUME NEW v \in Workers \ {w}
      PROVE  /\ job'[v].kind = job[v].kind
             /\ job[v].kind = "assign" => job'[v] = job[v]
             /\ job'[v].kind = "op" /\ job'[v].calm => job'[v] = job[v] /\ job[v].via # None
  <2>1. CASE job[v].kind = "op" /\ job[v].via = None
    <3>1. job[v] \in OpJob
      BY <1>0, <2>1, KindTells
    <3>2. job'[v] = [job[v] EXCEPT !.calm = FALSE]
      BY <2>1
    <3>3. QED  BY <2>1, <3>1, <3>2 DEF OpJob
  <2>2. CASE ~(job[v].kind = "op" /\ job[v].via = None)
    BY <2>2
  <2>3. QED  BY <2>1, <2>2
<1>5. Switching' = Switching
  BY <1>1, <1>3, <1>4 DEF Switching
<1>6. NeverBroken' /\ GoodTargets'
  BY <1>1, <1>2, <1>3, <1>4, <1>5 DEF Inv, NeverBroken, GoodTargets, Switching
<1>7. UNCHANGED <<currentCtx, lone, last>>
  BY DEF Assign
<1>8. LoneIsAlone' /\ LoneSwitchIsWhole'
  BY <1>1, <1>2, <1>3, <1>4, <1>5, <1>7 DEF Inv, LoneIsAlone, LoneSwitchIsWhole, Switching
<1>9. CalmKeepsToOne'
  BY <1>3, <1>4 DEF Inv, CalmKeepsToOne, KeepsToOne
<1>10. QED  BY <1>6, <1>8, <1>9 DEF Inv

\* A switch that returns has written every field, and names the context in its session.
LEMMA ReportKeeps ==
  ASSUME Inv, TypeOK', NEW w \in Workers, Report(w)
  PROVE  Inv'
<1>1. job[w] \in SwitchJob /\ w \in Switching /\ job[w].left = {}
  BY KindTells DEF Report, Switching, Inv, TypeOK, Job
<1>2. /\ job'[w] = Idle /\ \A v \in Workers \ {w} : job'[v] = job[v]
      /\ UNCHANGED <<client, lone, last>>
      /\ currentCtx' = [currentCtx EXCEPT ![job[w].user] = job[w].to]
  BY DEF Report, Inv, TypeOK
<1>3. Switching' = Switching \ {w}
  BY <1>2 DEF Switching, Idle
<1>4. NeverBroken' /\ GoodTargets'
  BY <1>2, <1>3 DEF Inv, NeverBroken, GoodTargets, Switching
<1>5. lone => /\ Switching' = {} /\ Whole
              /\ last = job[w].user /\ client["clientset"] = job[w].to
  <2> SUFFICES ASSUME lone  PROVE  /\ Switching' = {} /\ Whole
                                   /\ last = job[w].user /\ client["clientset"] = job[w].to
    OBVIOUS
  <2>1. \A x \in Fields : client[x] = job[w].to
    BY <1>1 DEF Inv, LoneIsAlone
  <2>2. QED  BY <1>1, <1>3, <2>1 DEF Inv, LoneIsAlone, Whole, Fields
<1>6. currentCtx'[job[w].user] = job[w].to
  BY <1>1, <1>2 DEF Inv, TypeOK, SwitchJob
<1>7. LoneIsAlone' /\ LoneSwitchIsWhole'
  BY <1>2, <1>5, <1>6 DEF LoneIsAlone, LoneSwitchIsWhole, Whole
<1>8. CalmKeepsToOne'
  BY <1>2 DEF Inv, CalmKeepsToOne, KeepsToOne, Whole, Idle
<1>9. QED  BY <1>4, <1>7, <1>8 DEF Inv

\* Inv is inductive.
LEMMA InvStep ==
  ASSUME Inv, [Next]_vars
  PROVE  Inv'
<1> USE ClientAssumption
<1>0. TypeOK' /\ \A w \in Workers : job[w] \in Job
  BY TypeStep DEF Inv, TypeOK, Job
<1>1. ASSUME NEW w \in Workers, NEW u \in Users, NEW to, SwitchContext(w, u, to)  PROVE  Inv'
  <2> DEFINE j == [kind |-> "build", user |-> u, to |-> to, left |-> {}]
  <2>1. j.kind = "build" /\ job[w].kind = "idle" /\ job' = [job EXCEPT ![w] = j]
        /\ UNCHANGED <<client, currentCtx, lone, last>>
    BY <1>1 DEF SwitchContext
  <2> HIDE DEF j
  <2>2. QED  BY <1>0, <2>1, JobKeeps
<1>2. ASSUME NEW w \in Workers, NEW u \in Users, NEW to, UseContextOnCopy(w, u, to)  PROVE  Inv'
  <2>1. /\ UNCHANGED <<client, job, lone, last>>
        /\ \A v \in Users \ Impersonated : currentCtx'[v] = currentCtx[v]
    BY <1>2 DEF UseContextOnCopy, Inv, TypeOK
  <2>2. last # None => last \in Users
    BY DEF Inv, TypeOK
  <2>3. QED
    BY <1>0, <2>1, <2>2
    DEF Inv, NeverBroken, GoodTargets, LoneIsAlone, LoneSwitchIsWhole, CalmKeepsToOne, KeepsToOne,
        Whole, Switching
<1>3. ASSUME NEW w \in Workers, NEW u \in Users, NEW calls \in Operations, BeginOperation(w, u, calls)
      PROVE  Inv'
  <2> PICK via \in ClientFor(u) :
        job' = [job EXCEPT ![w] = [kind |-> "op", user |-> u, via |-> via, calls |-> calls,
                                   hit |-> {}, calm |-> via # None \/ Whole]]
    BY <1>3 DEF BeginOperation
  <2> DEFINE j == [kind |-> "op", user |-> u, via |-> via, calls |-> calls,
                   hit |-> {}, calm |-> via # None \/ Whole]
  <2>1. j.kind = "op" /\ j.via = via /\ j.hit = {} /\ (j.calm => via # None \/ Whole)
    BY Zenon
  <2>2. j.calm => KeepsToOne(j)
    BY <2>1 DEF KeepsToOne
  <2> HIDE DEF j
  <2>3. job' = [job EXCEPT ![w] = j]
    BY DEF j
  <2>4. QED  BY <1>0, <1>3, <2>1, <2>2, <2>3, JobKeeps DEF BeginOperation
<1>4. ASSUME NEW w \in Workers, BuildFails(w) \/ EndOperation(w)  PROVE  Inv'
  BY <1>0, <1>4, JobKeeps DEF BuildFails, EndOperation, Idle
<1>5. ASSUME NEW w \in Workers, Call(w)  PROVE  Inv'
  <2> DEFINE j == [job[w] EXCEPT
                     !.calls = Tail(job[w].calls),
                     !.hit = @ \cup {Reaches(job[w].via, Head(job[w].calls))}]
  <2>1. job[w] \in OpJob /\ Head(job[w].calls) \in Fields /\ job' = [job EXCEPT ![w] = j]
    BY <1>5, CallIsTyped DEF Inv
  <2>2. /\ job[w].kind = "op" /\ j.kind = "op" /\ j.via = job[w].via /\ j.calm = job[w].calm
        /\ j.hit = job[w].hit \cup {Reaches(job[w].via, Head(job[w].calls))}
    BY <2>1 DEF OpJob
  <2> HIDE DEF j
  <2>3. j.calm => KeepsToOne(j)
    <3> SUFFICES ASSUME j.calm  PROVE  KeepsToOne(j)
      OBVIOUS
    <3>1. KeepsToOne(job[w])
      BY <2>2 DEF Inv, CalmKeepsToOne
    <3>2. CASE j.via = None
      BY <2>1, <2>2, <3>1, <3>2 DEF KeepsToOne, Reaches, Whole, Fields
    <3>3. CASE j.via # None
      BY <2>2, <3>1, <3>3 DEF KeepsToOne, Reaches
    <3>4. QED  BY <3>2, <3>3
  <2>4. QED  BY <1>0, <1>5, <2>1, <2>2, <2>3, JobKeeps DEF Call
<1>6. ASSUME NEW w \in Workers, AskAgain(w)  PROVE  Inv'
  <2> PICK via \in ClientFor(job[w].user) :
        job' = [job EXCEPT ![w] = [job[w] EXCEPT !.calls = Tail(job[w].calls),
                  !.via = via, !.hit = {}, !.calm = (via # None \/ Whole)]]
    BY <1>6, AskIsTyped DEF Inv
  <2> DEFINE j == [job[w] EXCEPT !.calls = Tail(job[w].calls),
                     !.via = via, !.hit = {}, !.calm = (via # None \/ Whole)]
             calm == via # None \/ Whole
  <2>1. job[w] \in OpJob
    BY <1>6, AskIsTyped DEF Inv
  <2>2. job[w].kind = "op" /\ j.kind = "op" /\ j.via = via /\ j.hit = {} /\ (j.calm => calm)
    <3> HIDE DEF calm
    <3>1. j = [job[w] EXCEPT !.calls = Tail(job[w].calls), !.via = via, !.hit = {}, !.calm = calm]
      BY DEF calm
    <3> HIDE DEF j
    <3>2. QED  BY <2>1, <3>1 DEF OpJob
  <2>3. job' = [job EXCEPT ![w] = j]
    OBVIOUS
  <2> HIDE DEF j
  <2>4. j.calm => KeepsToOne(j)
    BY <2>2 DEF KeepsToOne
  <2>5. QED  BY <1>0, <1>6, <2>2, <2>3, <2>4, JobKeeps DEF AskAgain
<1>7. CASE UNCHANGED vars
  BY <1>0, <1>7
  DEF vars, Inv, NeverBroken, GoodTargets, LoneIsAlone, LoneSwitchIsWhole, CalmKeepsToOne, KeepsToOne,
      Whole, Switching
<1>8. QED
  BY <1>0, <1>1, <1>2, <1>3, <1>4, <1>5, <1>6, <1>7, BuildKeeps, AssignKeeps, ReportKeeps DEF Next

LEMMA InvHolds == Spec => []Inv
<1>1. Init => Inv
  <2> SUFFICES ASSUME Init  PROVE  Inv
    OBVIOUS
  <2>1. TypeOK /\ NeverBroken
    BY ClientAssumption DEF Init, TypeOK, NeverBroken
  <2>2. Switching = {} /\ \A w \in Workers : job[w].kind = "idle"
    BY DEF Init, Switching, Idle
  <2>3. QED
    BY <2>1, <2>2
    DEF Init, Inv, GoodTargets, LoneIsAlone, LoneSwitchIsWhole, CalmKeepsToOne, Whole
<1>2. QED  BY <1>1, InvStep, PTL DEF Spec

-----------------------------------------------------------------------------
(* What follows from it. *)

\* A switch that fails to build leaves the client usable: no field is ever on a context
\* that cannot be built.
THEOREM ClientNeverBroken == Spec => []NeverBroken
<1>1. Inv => NeverBroken
  BY DEF Inv
<1>2. QED  BY <1>1, InvHolds, PTL

\* A switch no other overlapped leaves the shared client, and its user's session, on one
\* context.
THEOREM LoneSwitchLeavesWhole == Spec => []LoneSwitchIsWhole
<1>1. Inv => LoneSwitchIsWhole
  BY DEF Inv
<1>2. QED  BY <1>1, InvHolds, PTL

\* An undisturbed operation stays on one cluster between two requests for a client.
THEOREM OperationKeepsToOne == Spec => []OneClusterPerOperation
<1>1. Inv => OneClusterPerOperation
  <2> SUFFICES ASSUME Inv, NEW w \in Workers, job[w].kind = "op", job[w].calm
               PROVE  Cardinality(job[w].hit) <= 1
    BY DEF OneClusterPerOperation
  <2>1. PICK c : job[w].hit \subseteq {c}
    BY DEF Inv, CalmKeepsToOne, KeepsToOne
  <2>2. IsFiniteSet({c}) /\ Cardinality({c}) = 1
    BY FS_Singleton
  <2>3. QED  BY <2>1, <2>2, FS_Subset
<1>2. QED  BY <1>1, InvHolds, PTL
=============================================================================
