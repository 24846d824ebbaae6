--------------------------- MODULE MessagesProofs ---------------------------
(***************************************************************************)
(* Theorems about RateLimiter and Messages, for all users, chats, shells,  *)
(* texts in flight, clocks, limits and windows: the limiter alone keeps to *)
(* its limit both ways, the limiter of the bot is one, the variables keep  *)
(* their types, no entry or exec mode outlives its shell, and shells of a  *)
(* chat that are open side by side are shells that raced past the check.   *)
(*                                                                         *)
(* The limiter knows only what its slice still holds, and what it promises *)
(* is about all admitted requests.  The link is Remembers: what the slice  *)
(* has forgotten is out of the window for good.                            *)
(***************************************************************************)
EXTENDS Messages, FiniteSetTheorems, SequenceTheorems, TLAPS

-----------------------------------------------------------------------------
(* The limiter alone. *)

\* Times never go back, nor are they ahead of the clock.
InOrder ==
  \A u \in Users :
    \A i, j \in DOMAIN admitted[u] :
      admitted[u][i] <= now /\ (i <= j => admitted[u][i] <= admitted[u][j])

\* A request still within the window is in the slice.
Remembers ==
  \A u \in Users :
    \A i \in DOMAIN admitted[u] : admitted[u][i] + Window > now => i \in requests[u]

RateInv == RateTypeOK /\ InOrder /\ Remembers /\ AtMostLimitPerWindow

-----------------------------------------------------------------------------

\* The positions from a to b, and how many they are.
LEMMA Interval ==
  ASSUME NEW a \in Nat \ {0}, NEW b \in Nat, a <= b + 1
  PROVE  IsFiniteSet(a..b) /\ Cardinality(a..b) = b - a + 1
<1>1. a \in Int /\ b \in Int
  OBVIOUS
<1>2. CASE a > b
  <2>1. a..b = {} /\ b - a + 1 = 0
    BY <1>2
  <2> QED
    BY <2>1, FS_EmptySet
<1>3. CASE a <= b
  BY <1>1, <1>3, FS_Interval
<1> QED
  BY <1>2, <1>3

\* A position of a sequence that has grown by one is an old one or the last.
LEMMA AboutLast ==
  ASSUME NEW n \in Nat, NEW i \in 1..(n + 1)
  PROVE  i \in Nat /\ (i \in 1..n \/ i = n + 1)
OBVIOUS

\* What counts against the limit is among the admitted requests.
LEMMA ValidIsFinite ==
  ASSUME RateTypeOK, NEW u \in Users
  PROVE  /\ Len(admitted[u]) \in Nat /\ DOMAIN admitted[u] = 1..Len(admitted[u])
         /\ Valid(u) \subseteq 1..Len(admitted[u])
         /\ IsFiniteSet(Valid(u)) /\ Cardinality(Valid(u)) \in Nat
<1>1. Len(admitted[u]) \in Nat /\ DOMAIN admitted[u] = 1..Len(admitted[u])
  BY LenProperties DEF RateTypeOK
<1>2. Valid(u) \subseteq 1..Len(admitted[u])
  BY <1>1 DEF RateTypeOK, Valid
<1>3. IsFiniteSet(1..Len(admitted[u]))
  BY <1>1, Interval
<1> QED
  BY <1>1, <1>2, <1>3, FS_Subset, FS_CardinalityType

\* The heart of it: when a user may pass, the request Limit positions before
\* the next one has left the window, or there is none.  Otherwise it and all
\* since would be in the window, so in the slice, Limit of them.
LEMMA PassMeansExpired ==
  ASSUME RateInv, NEW u \in Users, MayPass(u),
         NEW i \in DOMAIN admitted[u], i + Limit = Len(admitted[u]) + 1
  PROVE  admitted[u][i] + Window <= now
<1> DEFINE n == Len(admitted[u])
<1>1. n \in Nat /\ i \in 1..n /\ Limit \in Nat \ {0} /\ Window \in Nat
  BY ValidIsFinite, RateAssumption DEF RateInv
<1>2. admitted[u][i] \in Nat /\ now \in Nat
  BY ElementOfSeq, LenProperties DEF RateInv, RateTypeOK
<1>3. SUFFICES ASSUME admitted[u][i] + Window > now PROVE FALSE
  BY <1>1, <1>2
<1>4. i..n \subseteq Valid(u)
  <2>1. SUFFICES ASSUME NEW j \in i..n PROVE j \in Valid(u)
    OBVIOUS
  <2>2. j \in DOMAIN admitted[u] /\ i <= j
    BY <1>1, <2>1, ValidIsFinite DEF RateInv
  <2>3. admitted[u][j] \in Nat /\ admitted[u][i] <= admitted[u][j]
    BY <2>2, ElementOfSeq, LenProperties DEF RateInv, RateTypeOK, InOrder
  <2>4. admitted[u][j] + Window > now
    BY <1>1, <1>2, <1>3, <2>3
  <2> QED
    BY <2>2, <2>4 DEF RateInv, Remembers, Valid
<1>5. Cardinality(i..n) = Limit
  <2>1. Cardinality(i..n) = n - i + 1
    BY <1>1, Interval
  <2> QED
    BY <1>1, <2>1
<1>6. Cardinality(i..n) <= Cardinality(Valid(u))
  BY <1>4, ValidIsFinite, FS_Subset DEF RateInv
<1> QED
  BY <1>1, <1>5, <1>6, ValidIsFinite DEF RateInv, MayPass

\* The converse: once that request has left the window so have all before it,
\* and fewer than Limit are left to count.
LEMMA ExpiredMeansPass ==
  ASSUME RateInv, NEW u \in Users,
         \A i \in DOMAIN admitted[u] : i + Limit > Len(admitted[u]) + 1 \/ admitted[u][i] + Window <= now
  PROVE  MayPass(u)
<1> DEFINE n == Len(admitted[u])
           a == IF n < Limit THEN 1 ELSE (n - Limit) + 2
<1>1. n \in Nat /\ DOMAIN admitted[u] = 1..n /\ Limit \in Nat \ {0} /\ Window \in Nat
  BY ValidIsFinite, RateAssumption DEF RateInv
<1>2. a \in Nat \ {0} /\ a <= n + 1
  BY <1>1
<1>3. Valid(u) \subseteq a..n
  <2>1. SUFFICES ASSUME NEW i \in Valid(u) PROVE i \in a..n
    OBVIOUS
  <2>2. i \in 1..n /\ admitted[u][i] + Window > now
    BY <2>1, ValidIsFinite DEF RateInv, Valid
  <2>3. admitted[u][i] \in Nat /\ now \in Nat
    BY <1>1, <2>2, ElementOfSeq DEF RateInv, RateTypeOK
  <2>4. i + Limit > n + 1 \/ admitted[u][i] + Window <= now
    BY <1>1, <2>2
  <2> DEFINE t == admitted[u][i]
  <2> HIDE DEF n, t
  <2>5. i + Limit > n + 1
    BY <1>1, <2>2, <2>3, <2>4 DEF t
  <2> QED
    BY <1>1, <2>2, <2>5 DEF n
<1>4. IsFiniteSet(a..n) /\ Cardinality(a..n) = n - a + 1
  BY <1>1, <1>2, Interval
<1>5. Cardinality(Valid(u)) <= Cardinality(a..n)
  BY <1>3, <1>4, FS_Subset
<1>6. n - a + 1 < Limit
  <2> HIDE DEF n
  <2>1. CASE n < Limit
    BY <1>1, <2>1
  <2>2. CASE ~(n < Limit)
    BY <1>1, <2>2
  <2> QED
    BY <2>1, <2>2
<1>7. Cardinality(Valid(u)) < Limit
  <2>1. Cardinality(Valid(u)) \in Nat
    BY ValidIsFinite DEF RateInv
  <2> HIDE DEF n, a
  <2> QED
    BY <1>1, <1>2, <1>4, <1>5, <1>6, <2>1
<1> QED
  BY <1>7 DEF MayPass

-----------------------------------------------------------------------------
(* The invariant. *)

LEMMA RateInitInv == RateInit => RateInv
<1> SUFFICES ASSUME RateInit PROVE RateInv
  OBVIOUS
<1>1. \A u \in Users : admitted[u] = << >> /\ requests[u] = {} /\ DOMAIN admitted[u] = {}
  BY DEF RateInit
<1>2. RateTypeOK
  BY <1>1 DEF RateInit, RateTypeOK
<1> QED
  BY <1>1, <1>2 DEF RateInv, InOrder, Remembers, AtMostLimitPerWindow

\* Admitting a request: it is the newest, it is in the slice, and the one Limit
\* before it has left the window.
LEMMA AdmitKeepsInv ==
  ASSUME RateInv, NEW u \in Users, Admit(u)
  PROVE  RateInv'
<1> DEFINE n == Len(admitted[u])
<1>1. /\ n \in Nat /\ DOMAIN admitted[u] = 1..n
      /\ now \in Nat /\ Window \in Nat \ {0} /\ Limit \in Nat \ {0}
  BY ValidIsFinite, RateAssumption DEF RateInv, RateTypeOK
<1>2. /\ admitted'[u] = Append(admitted[u], now)
      /\ requests'[u] = Valid(u) \cup {n + 1}
      /\ now' = now
      /\ \A v \in Users \ {u} : admitted'[v] = admitted[v] /\ requests'[v] = requests[v]
  BY DEF Admit, RateInv, RateTypeOK
<1>3. /\ DOMAIN admitted'[u] = 1..(n + 1) /\ admitted'[u][n + 1] = now
      /\ admitted'[u] \in Seq(Nat)
      /\ \A i \in 1..n : admitted'[u][i] = admitted[u][i] /\ admitted[u][i] \in Nat
  <2>1. admitted[u] \in Seq(Nat)
    BY DEF RateInv, RateTypeOK
  <2>2. \A i \in 1..n : admitted[u][i] \in Nat
    BY <2>1, ElementOfSeq
  <2> QED
    BY <1>1, <1>2, <2>1, <2>2, AppendProperties, LenProperties
<1>4. RateTypeOK'
  <2>1. admitted' \in [Users -> Seq(Nat)]
    BY <1>1, AppendProperties DEF Admit, RateInv, RateTypeOK
  <2>2. requests' \in [Users -> SUBSET Nat]
    BY <1>1, ValidIsFinite DEF Admit, RateInv, RateTypeOK
  <2>3. requests'[u] \subseteq DOMAIN admitted'[u]
    BY <1>1, <1>2, <1>3, ValidIsFinite DEF RateInv
  <2> QED
    BY <1>1, <1>2, <2>1, <2>2, <2>3 DEF RateInv, RateTypeOK
<1>5. InOrder'
  <2>1. SUFFICES ASSUME NEW v \in Users, NEW i \in DOMAIN admitted'[v], NEW j \in DOMAIN admitted'[v]
                 PROVE  admitted'[v][i] <= now' /\ (i <= j => admitted'[v][i] <= admitted'[v][j])
    BY DEF InOrder
  <2>2. CASE v # u
    BY <1>2, <2>2 DEF RateInv, InOrder
  <2>3. CASE v = u /\ i \in 1..n /\ j \in 1..n
    BY <1>1, <1>2, <1>3, <2>3 DEF RateInv, InOrder
  <2>4. CASE v = u /\ i \in 1..n /\ j = n + 1
    <3>1. admitted[u][i] <= now
      BY <1>1, <2>4 DEF RateInv, InOrder
    <3> QED
      BY <1>2, <1>3, <2>4, <3>1
  <2>5. CASE v = u /\ i = n + 1
    <3>1. admitted'[u][i] = now
      BY <1>3, <2>5
    <3>2. i <= j => j = n + 1
      BY <1>1, <1>3, <2>1, <2>5
    <3> QED
      BY <1>1, <1>2, <2>5, <3>1, <3>2
  <2>6. v = u => /\ i \in 1..n \/ i = n + 1
                 /\ j \in 1..n \/ j = n + 1
    BY <1>1, <1>3, <2>1, AboutLast
  <2> QED
    BY <2>2, <2>3, <2>4, <2>5, <2>6
<1>6. Remembers'
  <2>1. SUFFICES ASSUME NEW v \in Users, NEW i \in DOMAIN admitted'[v], admitted'[v][i] + Window > now'
                 PROVE  i \in requests'[v]
    BY DEF Remembers
  <2>2. CASE v # u
    BY <1>2, <2>1, <2>2 DEF RateInv, Remembers
  <2>3. CASE v = u /\ i \in 1..n
    BY <1>1, <1>2, <1>3, <2>1, <2>3 DEF RateInv, Remembers, Valid
  <2>4. CASE v = u /\ i = n + 1
    BY <1>2, <2>4
  <2>5. v = u => i \in 1..n \/ i = n + 1
    BY <1>1, <1>3, <2>1, AboutLast
  <2> QED
    BY <2>2, <2>3, <2>4, <2>5
<1>7. AtMostLimitPerWindow'
  <2>1. SUFFICES ASSUME NEW v \in Users, NEW i \in DOMAIN admitted'[v], NEW j \in DOMAIN admitted'[v],
                        j = i + Limit
                 PROVE  admitted'[v][i] + Window <= admitted'[v][j]
    BY DEF AtMostLimitPerWindow
  <2>2. CASE v # u
    BY <1>2, <2>1, <2>2 DEF RateInv, AtMostLimitPerWindow
  <2>3. v = u => /\ i \in 1..n \/ i = n + 1
                 /\ j \in 1..n \/ j = n + 1
                 /\ i \in Nat /\ j \in Nat
    BY <1>1, <1>3, <2>1, AboutLast
  <2>4. CASE v = u /\ j \in 1..n
    <3>1. i \in 1..n
      BY <1>1, <2>1, <2>3, <2>4
    <3> QED
      BY <1>1, <1>3, <2>1, <2>4, <3>1 DEF RateInv, AtMostLimitPerWindow
  <2>5. CASE v = u /\ j = n + 1
    <3>1. i \in 1..n /\ i + Limit = n + 1
      BY <1>1, <2>1, <2>3, <2>5
    <3>2. admitted[u][i] + Window <= now
      BY <1>1, <3>1, PassMeansExpired DEF Admit
    <3> QED
      BY <1>3, <2>5, <3>1, <3>2
  <2> QED
    BY <2>2, <2>3, <2>4, <2>5
<1> QED
  BY <1>4, <1>5, <1>6, <1>7 DEF RateInv

\* As the clock goes on requests only leave the window.
LEMMA ElapseKeepsInv ==
  ASSUME RateInv, Elapse
  PROVE  RateInv'
<1>1. now \in Nat /\ Window \in Nat /\ now' = now + 1 /\ admitted' = admitted /\ requests' = requests
  BY RateAssumption DEF Elapse, RateInv, RateTypeOK
<1>2. \A u \in Users : \A i \in DOMAIN admitted[u] : admitted[u][i] \in Nat
  BY ElementOfSeq, LenProperties DEF RateInv, RateTypeOK
<1>3. RateTypeOK' /\ AtMostLimitPerWindow'
  BY <1>1 DEF RateInv, RateTypeOK, AtMostLimitPerWindow
<1>4. InOrder'
  <2>1. SUFFICES ASSUME NEW u \in Users, NEW i \in DOMAIN admitted[u], NEW j \in DOMAIN admitted[u]
                 PROVE  admitted[u][i] <= now + 1 /\ (i <= j => admitted[u][i] <= admitted[u][j])
    BY <1>1 DEF InOrder
  <2>2. admitted[u][i] <= now /\ (i <= j => admitted[u][i] <= admitted[u][j])
    BY DEF RateInv, InOrder
  <2> QED
    BY <1>1, <1>2, <2>2
<1>5. Remembers'
  <2>1. SUFFICES ASSUME NEW u \in Users, NEW i \in DOMAIN admitted[u], admitted[u][i] + Window > now + 1
                 PROVE  i \in requests[u]
    BY <1>1 DEF Remembers
  <2>2. admitted[u][i] + Window > now
    BY <1>1, <1>2, <2>1
  <2> QED
    BY <2>2 DEF RateInv, Remembers
<1> QED
  BY <1>3, <1>4, <1>5 DEF RateInv

LEMMA RateNextInv == RateInv /\ [RateNext]_rateVars => RateInv'
<1> SUFFICES ASSUME RateInv, [RateNext]_rateVars PROVE RateInv'
  OBVIOUS
<1>1. CASE Elapse
  BY <1>1, ElapseKeepsInv
<1>2. ASSUME NEW u \in Users, Admit(u) PROVE RateInv'
  BY <1>2, AdmitKeepsInv
<1>3. CASE UNCHANGED rateVars
  BY <1>3 DEF rateVars, RateInv, RateTypeOK, InOrder, Remembers, AtMostLimitPerWindow
<1> QED
  BY <1>1, <1>2, <1>3 DEF RateNext, Refuse

THEOREM RateInvariant == RateSpec => []RateInv
BY RateInitInv, RateNextInv, PTL DEF RateSpec

-----------------------------------------------------------------------------

\* The limiter's slices only ever hold admitted requests.
THEOREM RateTypeCorrect == RateSpec => []RateTypeOK
<1>1. RateInv => RateTypeOK
  BY DEF RateInv
<1> QED
  BY <1>1, RateInvariant, PTL

\* No window, wherever it begins, holds more than Limit admitted requests of a
\* user, whatever the limiter has forgotten: Allow for every limit and window.
THEOREM NeverAboveLimit == RateSpec => []AtMostLimitPerWindow
<1>1. RateInv => AtMostLimitPerWindow
  BY DEF RateInv
<1> QED
  BY <1>1, RateInvariant, PTL

\* A user whose Limit-th last admitted request is a window old is admitted:
\* neither refused requests nor what the slice still holds count against him.
THEOREM NeverBelowLimit == RateSpec => []AdmittedAfterWindow
<1>1. RateInv => AdmittedAfterWindow
  BY ExpiredMeansPass DEF AdmittedAfterWindow
<1> QED
  BY <1>1, RateInvariant, PTL

-----------------------------------------------------------------------------
(* The limiter in the bot. *)

\* A message asks the limiter once, and the handlers never touch it: the limiter in the
\* bot goes through what the limiter alone goes through.
THEOREM MessagesKeepTheLimiter == Spec => RateSpec
<1>1. Init => RateInit
  BY DEF Init
<1>2. ASSUME [Next]_vars  PROVE  [RateNext]_rateVars
  <2>1. ASSUME NEW u \in Users, Admit(u)  PROVE  RateNext
    BY <2>1 DEF RateNext
  <2>2. ASSUME NEW u \in Users, Refuse(u)  PROVE  RateNext
    BY <2>2 DEF RateNext
  <2>3. CASE Tick
    BY <2>3 DEF Tick, RateNext
  <2>4. QED
    BY <1>2, <2>1, <2>2, <2>3
    DEF Next, vars, ExecCommand, ExecInput, ExitCommand, OtherMessage, RefusedMessage, Handler,
        NoPod, Check, Register, EnterMode, ShellEnds, Cleanup, Unregister, LeaveMode, ClearMode
<1>3. QED  BY <1>1, <1>2, PTL DEF Spec, RateSpec

\* No window of the bot's clock holds more than Limit of a user's messages that were let in.
THEOREM MessagesNeverAboveLimit == Spec => []AtMostLimitPerWindow
  BY MessagesKeepTheLimiter, NeverAboveLimit, PTL

\* A user whose Limit-th last message is a window old is let in.
THEOREM MessagesNeverBelowLimit == Spec => []AdmittedAfterWindow
  BY MessagesKeepTheLimiter, NeverBelowLimit, PTL

-----------------------------------------------------------------------------
(* Types. *)

Proc == ExecRec \cup {Unused, Over}

ExecTypeOK ==
  /\ sessions \in [Chats -> Execs \cup {None}]
  /\ mode \in [Users -> Execs \cup {None}]
  /\ proc \in [Execs -> Proc]
  /\ text \in [Texts -> Users \cup {None}]

\* A shell past the command that asked for it and not over has a user and a chat.
LEMMA PcTells ==
  ASSUME NEW p \in Proc
  PROVE  p.pc \notin {"unused", "over"} <=> p \in ExecRec
  BY DEF Proc, ExecRec, Unused, Over

\* What a step makes of the record of one shell, or of the flags of several.
LEMMA RecordIsTyped ==
  ASSUME NEW p \in ExecRec,
         NEW pc \in {"checking", "registering", "entering", "running", "ended", "leaving"},
         NEW b \in BOOLEAN
  PROVE  /\ [p EXCEPT !.pc = pc] \in ExecRec
         /\ [p EXCEPT !.pc = pc, !.raced = b] \in ExecRec
         /\ [p EXCEPT !.raced = b] \in ExecRec
         /\ [p EXCEPT !.asked = b] \in ExecRec
  BY DEF ExecRec

LEMMA TypeStep ==
  ASSUME ExecTypeOK, [Next]_vars,
         \A c \in Chats : sessions[c] # None => proc[sessions[c]] \in ExecRec
  PROVE  ExecTypeOK'
<1> USE MessageAssumption
<1>1. ASSUME NEW e \in Execs, NEW u \in Users, NEW c \in Chats, ExecCommand(e, u, c)
      PROVE  ExecTypeOK'
  <2>1. [pc |-> "checking", user |-> u, chat |-> c, asked |-> FALSE, raced |-> FALSE] \in ExecRec
    BY DEF ExecRec
  <2>2. QED  BY <1>1, <2>1 DEF ExecCommand, ExecTypeOK, Proc
<1>2. ASSUME NEW t \in Texts, NEW u \in Users, ExecInput(t, u)  PROVE  ExecTypeOK'
  BY <1>2 DEF ExecInput, ExecTypeOK
<1>3. ASSUME NEW u \in Users, NEW c \in Chats, ExitCommand(u, c)  PROVE  ExecTypeOK'
  <2>1. \A e \in Execs : sessions[c] = e => [proc[e] EXCEPT !.asked = TRUE] \in Proc
    BY RecordIsTyped DEF Proc
  <2>2. QED  BY <1>3, <2>1 DEF ExitCommand, ExecTypeOK
<1>4. ASSUME NEW u \in Users, OtherMessage(u) \/ RefusedMessage(u)  PROVE  ExecTypeOK'
  BY <1>4 DEF OtherMessage, RefusedMessage, execVars, ExecTypeOK
<1>5. ASSUME NEW e \in Execs, NoPod(e)  PROVE  ExecTypeOK'
  BY <1>5 DEF NoPod, ExecTypeOK, Proc
<1>6. ASSUME NEW e \in Execs, Check(e)  PROVE  ExecTypeOK'
  <2> DEFINE c == proc[e].chat
             met == Rivals(c) # {}
  <2>1. proc[e] \in ExecRec
    BY <1>6, PcTells DEF Check, ExecTypeOK
  <2>2. met \in BOOLEAN
    BY Zenon
  <2>3. \A d \in Rivals(c) : d \in Execs /\ [proc[d] EXCEPT !.raced = TRUE] \in Proc
    BY PcTells, RecordIsTyped DEF Rivals, Open, ExecTypeOK, Proc
  <2> HIDE DEF met
  <2>4. [proc[e] EXCEPT !.pc = "registering", !.raced = met] \in Proc
    BY <2>1, <2>2, RecordIsTyped DEF Proc
  <2>5. CASE sessions[c] = None
    <3>1. proc' = [d \in Execs |->
            IF d = e THEN [proc[e] EXCEPT !.pc = "registering", !.raced = met]
            ELSE IF d \in Rivals(c) THEN [proc[d] EXCEPT !.raced = TRUE]
            ELSE proc[d]]
      BY <1>6, <2>5 DEF Check, Pass, met
    <3>2. proc' \in [Execs -> Proc]
      BY <2>3, <2>4, <3>1 DEF ExecTypeOK
    <3>3. QED  BY <1>6, <3>2 DEF Check, ExecTypeOK
  <2>6. CASE sessions[c] # None
    BY <1>6, <2>6 DEF Check, ExecTypeOK, Proc
  <2>7. QED  BY <2>5, <2>6
<1>7. ASSUME NEW e \in Execs,
             Register(e) \/ EnterMode(e) \/ ShellEnds(e) \/ Unregister(e) \/ LeaveMode(e)
      PROVE  ExecTypeOK'
  <2>1. proc[e] \in ExecRec /\ proc[e].user \in Users /\ proc[e].chat \in Chats
    BY <1>7, PcTells
    DEF Register, EnterMode, ShellEnds, Unregister, LeaveMode, ExecTypeOK, ExecRec
  <2>2. \A pc \in {"entering", "running", "ended", "leaving"} : [proc[e] EXCEPT !.pc = pc] \in Proc
    BY <2>1, RecordIsTyped DEF Proc
  <2>3. proc' \in [Execs -> Proc]
    BY <1>7, <2>1, <2>2
    DEF Register, EnterMode, ShellEnds, Unregister, LeaveMode, ExecTypeOK, Proc
  <2>4. QED
    BY <1>7, <2>1, <2>3 DEF Register, EnterMode, ShellEnds, Unregister, LeaveMode, ExecTypeOK
<1>8. ASSUME NEW t \in Texts, ClearMode(t)  PROVE  ExecTypeOK'
  BY <1>8 DEF ClearMode, ExecTypeOK
<1>9. CASE Tick \/ UNCHANGED vars
  BY <1>9 DEF Tick, vars, execVars, ExecTypeOK
<1>10. QED
  BY <1>1, <1>2, <1>3, <1>4, <1>5, <1>6, <1>7, <1>8, <1>9 DEF Next, Handler, Cleanup

-----------------------------------------------------------------------------
(* The inductive invariant of the shells. *)

\* The entry of a chat is for a shell of that chat: the shell deletes its own entry.
EntryIsItsShell ==
  \A c \in Chats : sessions[c] # None =>
    /\ proc[sessions[c]].pc \in {"entering", "running", "ended"}
    /\ proc[sessions[c]].chat = c

ModeIsItsShell ==
  \A u \in Users : mode[u] # None =>
    /\ proc[mode[u]].pc \in {"running", "ended", "leaving"}
    /\ proc[mode[u]].user = u

\* The two halves of OneShellUnlessRaced: a shell that did not race is the only one of its
\* chat that is open, from before it has an entry to the end; and has that entry, once it is
\* registered.
OnlyOneOpen ==
  \A e \in Execs :
    proc[e].pc \in {"registering", "entering", "running", "ended"} /\ ~proc[e].raced =>
      Open(proc[e].chat) = {e}

RegisteredUnlessRaced ==
  \A e \in Execs :
    proc[e].pc \in {"entering", "running", "ended"} /\ ~proc[e].raced =>
      sessions[proc[e].chat] = e

Inv == ExecTypeOK /\ EntryIsItsShell /\ ModeIsItsShell /\ OnlyOneOpen /\ RegisteredUnlessRaced

\* Where no shell moves, all holds that held, with a mode or two cleared.
LEMMA StillKeeps ==
  ASSUME Inv, ExecTypeOK', UNCHANGED <<sessions, proc>>, \A u \in Users : mode'[u] \in {mode[u], None}
  PROVE  Inv'
<1>1. \A c : Open(c)' = Open(c)
  BY DEF Open
<1>2. EntryIsItsShell' /\ ModeIsItsShell'
  BY DEF Inv, EntryIsItsShell, ModeIsItsShell
<1>3. OnlyOneOpen' /\ RegisteredUnlessRaced'
  BY <1>1 DEF Inv, OnlyOneOpen, RegisteredUnlessRaced
<1>4. QED  BY <1>2, <1>3 DEF Inv

\* A shell that goes on, from a chat's point of view where it was, keeps what is not
\* about its own entry and mode.
LEMMA StepKeeps ==
  ASSUME Inv, NEW e \in Execs, proc[e] \in ExecRec, proc'[e] \in ExecRec,
         \A d \in Execs \ {e} : proc'[d] = proc[d],
         proc'[e].user = proc[e].user, proc'[e].chat = proc[e].chat, proc'[e].raced = proc[e].raced,
         proc[e].pc \in {"registering", "entering", "running", "ended"}
  PROVE  /\ proc'[e].pc \in {"registering", "entering", "running", "ended"} =>
              /\ \A c : Open(c)' = Open(c)
              /\ OnlyOneOpen'
         /\ proc'[e].pc = "leaving" =>
              /\ \A c : Open(c)' = Open(c) \ {e}
              /\ OnlyOneOpen'
<1>1. CASE proc'[e].pc \in {"registering", "entering", "running", "ended"}
  <2>1. \A c : Open(c)' = Open(c)
    BY <1>1 DEF Open
  <2>2. QED  BY <1>1, <2>1 DEF Inv, OnlyOneOpen
<1>2. CASE proc'[e].pc = "leaving"
  <2>1. \A c : Open(c)' = Open(c) \ {e}
    BY <1>2 DEF Open
  <2>2. OnlyOneOpen'
    <3> SUFFICES ASSUME NEW d \in Execs, ~proc'[d].raced,
                        proc'[d].pc \in {"registering", "entering", "running", "ended"}
                 PROVE  Open(proc[d].chat)' = {d}
      BY DEF OnlyOneOpen
    <3>1. d # e /\ proc'[d] = proc[d] /\ Open(proc[d].chat) = {d}
      BY <1>2 DEF Inv, OnlyOneOpen
    <3>2. QED  BY <2>1, <3>1
  <2>3. QED  BY <1>2, <2>1, <2>2
<1>3. QED  BY <1>1, <1>2

\* A command that asks for a shell: it is not past the check yet.
LEMMA CommandKeeps ==
  ASSUME Inv, ExecTypeOK', NEW e \in Execs, NEW u \in Users, NEW c \in Chats, ExecCommand(e, u, c)
  PROVE  Inv'
<1>1. /\ proc[e].pc = "unused" /\ proc'[e].pc = "checking"
      /\ \A d \in Execs \ {e} : proc'[d] = proc[d]
      /\ UNCHANGED <<sessions, mode>>
  BY DEF ExecCommand, Inv, ExecTypeOK
<1>2. \A b : Open(b)' = Open(b)
  BY <1>1 DEF Open
<1>3. /\ \A b \in Chats : sessions[b] \in Execs \cup {None}
      /\ \A v \in Users : mode[v] \in Execs \cup {None}
  BY DEF Inv, ExecTypeOK
<1>4. EntryIsItsShell' /\ ModeIsItsShell'
  BY <1>1, <1>3 DEF Inv, EntryIsItsShell, ModeIsItsShell
<1>5. OnlyOneOpen' /\ RegisteredUnlessRaced'
  BY <1>1, <1>2 DEF Inv, OnlyOneOpen, RegisteredUnlessRaced
<1>6. QED  BY <1>4, <1>5 DEF Inv

\* /exit leaves a mark nobody reads.
LEMMA ExitKeeps ==
  ASSUME Inv, ExecTypeOK', NEW u \in Users, NEW c \in Chats, ExitCommand(u, c)
  PROVE  Inv'
<1>1. \A e \in Execs : sessions[c] = e => proc[e] \in ExecRec
  BY PcTells, MessageAssumption DEF Inv, EntryIsItsShell, ExecTypeOK
<1>2. UNCHANGED <<sessions, mode>>
  BY DEF ExitCommand
<1>3. \A e \in Execs :
        /\ proc'[e].pc = proc[e].pc
        /\ proc[e].pc \notin {"unused", "over"} =>
             /\ proc'[e].user = proc[e].user /\ proc'[e].chat = proc[e].chat
             /\ proc'[e].raced = proc[e].raced
  BY <1>1 DEF ExitCommand, ExecRec
<1>4. \A b : Open(b)' = Open(b)
  BY <1>3 DEF Open
<1>5. /\ \A b \in Chats : sessions[b] \in Execs \cup {None}
      /\ \A v \in Users : mode[v] \in Execs \cup {None}
  BY DEF Inv, ExecTypeOK
<1>6. EntryIsItsShell' /\ ModeIsItsShell'
  BY <1>2, <1>3, <1>5 DEF Inv, EntryIsItsShell, ModeIsItsShell
<1>7. OnlyOneOpen' /\ RegisteredUnlessRaced'
  BY <1>2, <1>3, <1>4 DEF Inv, OnlyOneOpen, RegisteredUnlessRaced
<1>8. QED  BY <1>6, <1>7 DEF Inv

\* A chat without an entry has no open shell but those that have not got that far yet and
\* those that raced, and the shell that passes the check marks all of these.
LEMMA CheckKeeps ==
  ASSUME Inv, ExecTypeOK', NEW e \in Execs, Check(e), sessions[proc[e].chat] = None
  PROVE  Inv'
<1> DEFINE c == proc[e].chat
           met == Rivals(c) # {}
<1>1. proc[e] \in ExecRec /\ proc[e].pc = "checking" /\ e \notin Open(c) /\ UNCHANGED <<sessions, mode>>
  BY PcTells DEF Check, Inv, ExecTypeOK, Open
<1>2. proc' = [d \in Execs |->
        IF d = e THEN [proc[e] EXCEPT !.pc = "registering", !.raced = met]
        ELSE IF d \in Rivals(c) THEN [proc[d] EXCEPT !.raced = TRUE]
        ELSE proc[d]]
  BY DEF Check, Pass
<1>3. /\ proc'[e].pc = "registering" /\ proc'[e].chat = c /\ proc'[e].user = proc[e].user
      /\ proc'[e].raced = met
  <2> HIDE DEF met
  <2>1. QED  BY <1>1, <1>2 DEF ExecRec
<1>4. Open(c) \subseteq Rivals(c)
  <2> SUFFICES ASSUME NEW d \in Open(c), d \notin Rivals(c)  PROVE FALSE
    OBVIOUS
  <2>1. d \in Execs /\ proc[d].pc \in {"entering", "running", "ended"} /\ ~proc[d].raced /\ proc[d].chat = c
    BY DEF Rivals, Open
  <2>2. QED  BY <2>1, MessageAssumption DEF Inv, RegisteredUnlessRaced
<1>5. ASSUME NEW d \in Execs \ {e}
      PROVE  /\ proc'[d].pc = proc[d].pc
             /\ proc[d].pc \notin {"unused", "over"} =>
                  /\ proc'[d].user = proc[d].user /\ proc'[d].chat = proc[d].chat
                  /\ ~proc'[d].raced => ~proc[d].raced /\ d \notin Open(c)
  <2>1. CASE d \in Rivals(c)
    <3>1. proc[d] \in ExecRec
      BY <2>1, PcTells DEF Rivals, Open, Inv, ExecTypeOK
    <3>2. proc'[d] = [proc[d] EXCEPT !.raced = TRUE]
      BY <1>2, <2>1
    <3>3. QED  BY <3>1, <3>2 DEF ExecRec
  <2>2. CASE d \notin Rivals(c)
    BY <1>2, <1>4, <2>2
  <2>3. QED  BY <2>1, <2>2
<1> HIDE DEF met
<1>6. \A b : Open(b)' = IF b = c THEN Open(b) \cup {e} ELSE Open(b)
  BY <1>1, <1>3, <1>5 DEF Open
<1>7. /\ \A b \in Chats : sessions[b] \in Execs \cup {None}
      /\ \A v \in Users : mode[v] \in Execs \cup {None}
  BY DEF Inv, ExecTypeOK
<1>8. EntryIsItsShell' /\ ModeIsItsShell'
  BY <1>1, <1>5, <1>7 DEF Inv, EntryIsItsShell, ModeIsItsShell
<1>9. \A d \in Execs \ {e} :
        proc'[d].pc \in {"registering", "entering", "running", "ended"} /\ ~proc'[d].raced =>
          proc[d].chat # c
  BY <1>5 DEF Open
<1>10. OnlyOneOpen'
  <2> SUFFICES ASSUME NEW d \in Execs, ~proc'[d].raced,
                      proc'[d].pc \in {"registering", "entering", "running", "ended"}
               PROVE  Open(proc[d].chat)' = {d}
    BY DEF OnlyOneOpen
  <2>1. CASE d = e
    BY <1>3, <1>4, <1>6, <2>1 DEF met
  <2>2. CASE d # e
    BY <1>5, <1>6, <1>9, <2>2 DEF Inv, OnlyOneOpen
  <2>3. QED  BY <2>1, <2>2
<1>11. RegisteredUnlessRaced'
  <2> SUFFICES ASSUME NEW d \in Execs, ~proc'[d].raced,
                      proc'[d].pc \in {"entering", "running", "ended"}
               PROVE  sessions'[proc'[d].chat] = d
    BY DEF RegisteredUnlessRaced
  <2>1. d # e
    BY <1>3
  <2>2. QED  BY <1>1, <1>5, <1>9, <2>1 DEF Inv, RegisteredUnlessRaced
<1>12. QED  BY <1>8, <1>10, <1>11 DEF Inv

\* A command without its pod, or refused for the shell its chat has: it had nothing to undo.
LEMMA RefusalKeeps ==
  ASSUME Inv, ExecTypeOK', NEW e \in Execs,
         NoPod(e) \/ (Check(e) /\ sessions[proc[e].chat] # None)
  PROVE  Inv'
<1>1. /\ proc[e].pc = "checking" /\ proc'[e].pc = "over"
      /\ \A d \in Execs \ {e} : proc'[d] = proc[d]
      /\ UNCHANGED <<sessions, mode>>
  <2>1. /\ proc[e].pc = "checking" /\ proc' = [proc EXCEPT ![e] = Over]
        /\ UNCHANGED <<sessions, mode>>
    BY DEF NoPod, Check
  <2>2. QED  BY <2>1 DEF Over, Inv, ExecTypeOK
<1>2. \A b : Open(b)' = Open(b)
  BY <1>1 DEF Open
<1>3. /\ \A b \in Chats : sessions[b] \in Execs \cup {None}
      /\ \A v \in Users : mode[v] \in Execs \cup {None}
  BY DEF Inv, ExecTypeOK
<1>4. EntryIsItsShell' /\ ModeIsItsShell'
  BY <1>1, <1>3 DEF Inv, EntryIsItsShell, ModeIsItsShell
<1>5. OnlyOneOpen' /\ RegisteredUnlessRaced'
  BY <1>1, <1>2 DEF Inv, OnlyOneOpen, RegisteredUnlessRaced
<1>6. QED  BY <1>4, <1>5 DEF Inv

\* What Register, EnterMode, ShellEnds and Unregister do to the record of their shell.
LEMMA Proceeds ==
  ASSUME Inv, NEW e \in Execs,
         NEW pc \in {"entering", "running", "ended", "leaving"},
         proc[e].pc \in {"registering", "entering", "running", "ended"},
         proc' = [proc EXCEPT ![e].pc = pc]
  PROVE  /\ proc[e] \in ExecRec /\ proc'[e] \in ExecRec
         /\ \A d \in Execs \ {e} : proc'[d] = proc[d]
         /\ proc'[e].pc = pc
         /\ proc'[e].user = proc[e].user /\ proc'[e].chat = proc[e].chat
         /\ proc'[e].raced = proc[e].raced
         /\ proc[e].user \in Users /\ proc[e].chat \in Chats
<1>1. proc[e] \in ExecRec
  BY PcTells DEF Inv, ExecTypeOK
<1>2. proc'[e] = [proc[e] EXCEPT !.pc = pc]
  BY DEF Inv, ExecTypeOK
<1>3. QED  BY <1>1, <1>2 DEF ExecRec, Inv, ExecTypeOK

\* An entry that is written over is not that of a shell that did not race: the two would
\* both be open.
LEMMA RegisterKeeps ==
  ASSUME Inv, ExecTypeOK', NEW e \in Execs, Register(e)
  PROVE  Inv'
<1>1. /\ proc[e].pc = "registering" /\ proc' = [proc EXCEPT ![e].pc = "entering"]
      /\ UNCHANGED mode
      /\ sessions' = [sessions EXCEPT ![proc[e].chat] = e]
  BY DEF Register
<1>2. /\ proc[e] \in ExecRec /\ proc'[e] \in ExecRec
      /\ \A d \in Execs \ {e} : proc'[d] = proc[d]
      /\ proc'[e].pc = "entering"
      /\ proc'[e].user = proc[e].user /\ proc'[e].chat = proc[e].chat
      /\ proc'[e].raced = proc[e].raced
      /\ proc[e].user \in Users /\ proc[e].chat \in Chats
  BY <1>1, Proceeds
<1>3. (\A c : Open(c)' = Open(c)) /\ OnlyOneOpen'
  BY <1>1, <1>2, StepKeeps
<1>4. /\ sessions'[proc[e].chat] = e
      /\ \A c \in Chats \ {proc[e].chat} : sessions'[c] = sessions[c]
      /\ \A c \in Chats : sessions[c] \in Execs \cup {None}
      /\ \A v \in Users : mode[v] \in Execs \cup {None}
  BY <1>1, <1>2 DEF Inv, ExecTypeOK
<1>5. EntryIsItsShell' /\ ModeIsItsShell'
  BY <1>1, <1>2, <1>4 DEF Inv, EntryIsItsShell, ModeIsItsShell
<1>6. RegisteredUnlessRaced'
  <2> SUFFICES ASSUME NEW d \in Execs, ~proc'[d].raced,
                      proc'[d].pc \in {"entering", "running", "ended"}
               PROVE  sessions'[proc'[d].chat] = d
    BY <1>2 DEF RegisteredUnlessRaced
  <2>1. CASE d = e
    BY <1>1, <1>2, <1>3, <1>4, <2>1 DEF Inv, OnlyOneOpen
  <2>2. CASE d # e
    <3>1. sessions[proc[d].chat] = d /\ Open(proc[d].chat) = {d} /\ proc'[d] = proc[d]
      BY <1>2, <2>2 DEF Inv, OnlyOneOpen, RegisteredUnlessRaced
    <3>2. e \in Open(proc[e].chat)
      BY <1>1 DEF Open
    <3>3. proc[d].chat \in Chats /\ proc[d].chat # proc[e].chat
      BY <2>2, <3>1, <3>2, PcTells DEF Inv, ExecTypeOK, ExecRec
    <3>4. QED  BY <1>3, <1>4, <3>1, <3>3
  <2>3. QED  BY <2>1, <2>2
<1>7. QED  BY <1>3, <1>5, <1>6 DEF Inv

\* The mode of its user is the shell's, whose ever it was.
LEMMA EnterKeeps ==
  ASSUME Inv, ExecTypeOK', NEW e \in Execs, EnterMode(e)
  PROVE  Inv'
<1>1. /\ proc[e].pc = "entering" /\ proc' = [proc EXCEPT ![e].pc = "running"]
      /\ UNCHANGED sessions
      /\ mode' = [mode EXCEPT ![proc[e].user] = e]
  BY DEF EnterMode
<1>2. /\ proc[e] \in ExecRec /\ proc'[e] \in ExecRec
      /\ \A d \in Execs \ {e} : proc'[d] = proc[d]
      /\ proc'[e].pc = "running"
      /\ proc'[e].user = proc[e].user /\ proc'[e].chat = proc[e].chat
      /\ proc'[e].raced = proc[e].raced
      /\ proc[e].user \in Users /\ proc[e].chat \in Chats
  BY <1>1, Proceeds
<1>3. (\A c : Open(c)' = Open(c)) /\ OnlyOneOpen'
  BY <1>1, <1>2, StepKeeps
<1>4. /\ \A v \in Users : mode'[v] = IF v = proc[e].user THEN e ELSE mode[v]
      /\ \A c \in Chats : sessions[c] \in Execs \cup {None}
      /\ \A v \in Users : mode[v] \in Execs \cup {None}
  BY <1>1, <1>2 DEF Inv, ExecTypeOK
<1>5. EntryIsItsShell' /\ ModeIsItsShell'
  BY <1>1, <1>2, <1>4 DEF Inv, EntryIsItsShell, ModeIsItsShell
<1>6. RegisteredUnlessRaced'
  BY <1>1, <1>2, <1>3 DEF Inv, RegisteredUnlessRaced
<1>7. QED  BY <1>3, <1>5, <1>6 DEF Inv

\* The end of a shell is not seen yet.
LEMMA EndKeeps ==
  ASSUME Inv, ExecTypeOK', NEW e \in Execs, ShellEnds(e)
  PROVE  Inv'
<1>1. /\ proc[e].pc = "running" /\ proc' = [proc EXCEPT ![e].pc = "ended"]
      /\ UNCHANGED <<sessions, mode>>
  BY DEF ShellEnds
<1>2. /\ proc[e] \in ExecRec /\ proc'[e] \in ExecRec
      /\ \A d \in Execs \ {e} : proc'[d] = proc[d]
      /\ proc'[e].pc = "ended"
      /\ proc'[e].user = proc[e].user /\ proc'[e].chat = proc[e].chat
      /\ proc'[e].raced = proc[e].raced
  BY <1>1, Proceeds
<1>3. (\A c : Open(c)' = Open(c)) /\ OnlyOneOpen'
  BY <1>1, <1>2, StepKeeps
<1>4. /\ \A c \in Chats : sessions[c] \in Execs \cup {None}
      /\ \A v \in Users : mode[v] \in Execs \cup {None}
  BY DEF Inv, ExecTypeOK
<1>5. EntryIsItsShell' /\ ModeIsItsShell'
  BY <1>1, <1>2, <1>4 DEF Inv, EntryIsItsShell, ModeIsItsShell
<1>6. RegisteredUnlessRaced'
  BY <1>1, <1>2, <1>3 DEF Inv, RegisteredUnlessRaced
<1>7. QED  BY <1>3, <1>5, <1>6 DEF Inv

\* An entry that goes is the shell's own, or that of one of the same chat, so not that of a
\* shell that did not race.
LEMMA UnregisterKeeps ==
  ASSUME Inv, ExecTypeOK', NEW e \in Execs, Unregister(e)
  PROVE  Inv'
<1>1. /\ proc[e].pc = "ended" /\ proc' = [proc EXCEPT ![e].pc = "leaving"]
      /\ UNCHANGED mode
      /\ sessions' = [sessions EXCEPT ![proc[e].chat] = None]
  BY DEF Unregister
<1>2. /\ proc[e] \in ExecRec /\ proc'[e] \in ExecRec
      /\ \A d \in Execs \ {e} : proc'[d] = proc[d]
      /\ proc'[e].pc = "leaving"
      /\ proc'[e].user = proc[e].user /\ proc'[e].chat = proc[e].chat
      /\ proc'[e].raced = proc[e].raced
      /\ proc[e].user \in Users /\ proc[e].chat \in Chats
  BY <1>1, Proceeds
<1>3. (\A c : Open(c)' = Open(c) \ {e}) /\ OnlyOneOpen'
  BY <1>1, <1>2, StepKeeps
<1>4. /\ sessions'[proc[e].chat] = None
      /\ \A c \in Chats \ {proc[e].chat} : sessions'[c] = sessions[c]
      /\ \A c \in Chats : sessions[c] \in Execs \cup {None}
      /\ \A v \in Users : mode[v] \in Execs \cup {None}
  BY <1>1, <1>2 DEF Inv, ExecTypeOK
<1>5. \A c \in Chats \ {proc[e].chat} : sessions[c] # e
  BY MessageAssumption DEF Inv, EntryIsItsShell
<1>6. EntryIsItsShell' /\ ModeIsItsShell'
  BY <1>1, <1>2, <1>4, <1>5 DEF Inv, EntryIsItsShell, ModeIsItsShell
<1>7. RegisteredUnlessRaced'
  <2> SUFFICES ASSUME NEW d \in Execs, ~proc'[d].raced,
                      proc'[d].pc \in {"entering", "running", "ended"}
               PROVE  sessions'[proc'[d].chat] = d
    BY <1>2 DEF RegisteredUnlessRaced
  <2>1. d # e /\ proc'[d] = proc[d]
    BY <1>2
  <2>2. sessions[proc[d].chat] = d /\ Open(proc[d].chat) = {d}
    BY <2>1 DEF Inv, OnlyOneOpen, RegisteredUnlessRaced
  <2>3. e \in Open(proc[e].chat)
    BY <1>1 DEF Open
  <2>4. proc[d].chat # proc[e].chat
    BY <2>1, <2>2, <2>3
  <2>5. proc[d].chat \in Chats
    BY <2>1, PcTells DEF Inv, ExecTypeOK, ExecRec
  <2>6. QED  BY <1>3, <1>4, <2>1, <2>2, <2>4, <2>5
<1>8. QED  BY <1>3, <1>6, <1>7 DEF Inv

\* The last step of a shell: it has no entry, and takes the mode of its user with it.
LEMMA LeaveKeeps ==
  ASSUME Inv, ExecTypeOK', NEW e \in Execs, LeaveMode(e)
  PROVE  Inv'
<1>1. /\ proc[e].pc = "leaving" /\ proc'[e].pc = "over"
      /\ \A d \in Execs \ {e} : proc'[d] = proc[d]
      /\ UNCHANGED sessions
      /\ proc[e].user \in Users
      /\ \A v \in Users : mode'[v] = IF v = proc[e].user THEN None ELSE mode[v]
  BY PcTells DEF LeaveMode, Over, Inv, ExecTypeOK, ExecRec
<1>2. \A b : Open(b)' = Open(b)
  BY <1>1 DEF Open
<1>3. /\ \A b \in Chats : sessions[b] \in Execs \cup {None}
      /\ \A v \in Users : mode[v] \in Execs \cup {None}
  BY DEF Inv, ExecTypeOK
<1>4. EntryIsItsShell' /\ ModeIsItsShell'
  BY <1>1, <1>3 DEF Inv, EntryIsItsShell, ModeIsItsShell
<1>5. OnlyOneOpen' /\ RegisteredUnlessRaced'
  BY <1>1, <1>2 DEF Inv, OnlyOneOpen, RegisteredUnlessRaced
<1>6. QED  BY <1>4, <1>5 DEF Inv

LEMMA InitInv == Init => Inv
<1>1. SUFFICES ASSUME Init  PROVE Inv
  OBVIOUS
<1>2. ExecTypeOK /\ EntryIsItsShell /\ ModeIsItsShell
  BY <1>1 DEF Init, ExecTypeOK, EntryIsItsShell, ModeIsItsShell, Proc
<1>3. OnlyOneOpen /\ RegisteredUnlessRaced
  BY <1>1 DEF Init, OnlyOneOpen, RegisteredUnlessRaced, Unused
<1>4. QED  BY <1>2, <1>3 DEF Inv

LEMMA NextInv == Inv /\ [Next]_vars => Inv'
<1>1. SUFFICES ASSUME Inv, [Next]_vars  PROVE Inv'
  OBVIOUS
<1>2. ExecTypeOK'
  <2>1. \A c \in Chats : sessions[c] # None => proc[sessions[c]] \in ExecRec
    BY <1>1, PcTells DEF Inv, EntryIsItsShell, ExecTypeOK
  <2>2. QED  BY <1>1, <2>1, TypeStep DEF Inv
<1>3. ASSUME NEW e \in Execs, NEW u \in Users, NEW c \in Chats, ExecCommand(e, u, c)
      PROVE  Inv'
  BY <1>1, <1>2, <1>3, CommandKeeps
<1>4. ASSUME NEW u \in Users, NEW c \in Chats, ExitCommand(u, c)  PROVE Inv'
  BY <1>1, <1>2, <1>4, ExitKeeps
<1>5. ASSUME NEW e \in Execs, NoPod(e)  PROVE Inv'
  BY <1>1, <1>2, <1>5, RefusalKeeps
<1>6. ASSUME NEW e \in Execs, Check(e)  PROVE Inv'
  BY <1>1, <1>2, <1>6, RefusalKeeps, CheckKeeps
<1>7. ASSUME NEW e \in Execs, Register(e)  PROVE Inv'
  BY <1>1, <1>2, <1>7, RegisterKeeps
<1>8. ASSUME NEW e \in Execs, EnterMode(e)  PROVE Inv'
  BY <1>1, <1>2, <1>8, EnterKeeps
<1>9. ASSUME NEW e \in Execs, ShellEnds(e)  PROVE Inv'
  BY <1>1, <1>2, <1>9, EndKeeps
<1>10. ASSUME NEW e \in Execs, Unregister(e)  PROVE Inv'
  BY <1>1, <1>2, <1>10, UnregisterKeeps
<1>11. ASSUME NEW e \in Execs, LeaveMode(e)  PROVE Inv'
  BY <1>1, <1>2, <1>11, LeaveKeeps
<1>12. ASSUME NEW t \in Texts, ClearMode(t)  PROVE Inv'
  <2>1. \A u \in Users : mode'[u] \in {mode[u], None}
    BY <1>1, <1>12 DEF ClearMode, Inv, ExecTypeOK
  <2>2. QED  BY <1>1, <1>2, <1>12, <2>1, StillKeeps DEF ClearMode
<1>13. ASSUME UNCHANGED <<sessions, mode, proc>>  PROVE Inv'
  BY <1>1, <1>2, <1>13, StillKeeps
<1>14. ASSUME NEW t \in Texts, NEW u \in Users, ExecInput(t, u)  PROVE Inv'
  BY <1>13, <1>14 DEF ExecInput
<1>15. ASSUME NEW u \in Users, OtherMessage(u) \/ RefusedMessage(u)  PROVE Inv'
  BY <1>13, <1>15 DEF OtherMessage, RefusedMessage, execVars
<1>16. CASE Tick \/ UNCHANGED vars
  BY <1>13, <1>16 DEF Tick, vars, execVars
<1>17. QED
  BY <1>1, <1>3, <1>4, <1>5, <1>6, <1>7, <1>8, <1>9, <1>10, <1>11, <1>12, <1>14, <1>15, <1>16
  DEF Next, Handler, Cleanup

LEMMA InvHolds == Spec => []Inv
  BY InitInv, NextInv, PTL DEF Spec

-----------------------------------------------------------------------------

\* Every variable keeps its type: the limiter's because it is a limiter, the shells' with
\* the entries, since /exit writes to the record of the shell an entry names.
THEOREM MessagesTypeCorrect == Spec => []TypeOK
<1>1. RateTypeOK /\ Inv => TypeOK
  BY DEF Inv, ExecTypeOK, Proc, TypeOK
<1>2. QED  BY <1>1, InvHolds, MessagesKeepTheLimiter, RateTypeCorrect, PTL

\* No chat is refused for a shell that is over and no user's text is taken for one, in any
\* interleaving of starts, ends and text.
THEOREM NothingOutlives == Spec => []NothingOutlivesItsShell
<1>1. Inv => NothingOutlivesItsShell
  BY DEF Inv, EntryIsItsShell, ModeIsItsShell, NothingOutlivesItsShell
<1>2. QED  BY <1>1, InvHolds, PTL

\* The check and the entry are under two locks, and yet a shell that did not race is the
\* only one of its chat from the check to its end, and has the chat's entry.
THEOREM OneShell == Spec => []OneShellUnlessRaced
<1>1. Inv => OneShellUnlessRaced
  BY DEF Inv, OnlyOneOpen, RegisteredUnlessRaced, OneShellUnlessRaced
<1>2. QED  BY <1>1, InvHolds, PTL
=============================================================================
