--------------------------- MODULE CommandsProofs ---------------------------
(***************************************************************************)
(* Theorems about Commands and Replies, for all arguments, lines, texts,   *)
(* bodies, message lengths and pane limits: the parsers read each argument *)
(* once, the namespace asked for is the one typed, a reply that is split   *)
(* loses nothing, and a log that is cut is still a closed block.           *)
(***************************************************************************)
EXTENDS Commands, SequenceTheorems, FiniteSetTheorems, WellFoundedInduction, TLAPS

-----------------------------------------------------------------------------
(* Greatest and least. *)

LessThan == OpToRel(<, Nat)

LEMMA MinIsLeast ==
  ASSUME NEW T \in SUBSET Nat, T # {}
  PROVE  Min(T) \in T /\ \A x \in T : Min(T) <= x
<1>1. IsWellFoundedOn(LessThan, Nat)
  BY NatLessThanWellFounded, Zenon DEF LessThan
<1>2. \A x, y \in Nat : <<x, y>> \in LessThan <=> x < y
  BY SMT DEF LessThan, OpToRel
<1>3. PICK x \in T : \A y \in T : <<y, x>> \notin LessThan
  BY <1>1, WFMin, Zenon
<1>4. x \in T /\ x \in Nat /\ \A y \in T : y \in Nat /\ ~(y < x)
  BY <1>2, <1>3
<1>5. \A y \in T : x <= y
  BY <1>4
<1>6. QED  BY <1>4, <1>5 DEF Min

LEMMA MaxIsGreatest ==
  ASSUME NEW T \in SUBSET Nat, T # {}, NEW n \in Nat, \A x \in T : x <= n
  PROVE  Max(T) \in T /\ \A x \in T : x <= Max(T)
<1> DEFINE U == {n - x : x \in T}
<1>1. U \in SUBSET Nat /\ U # {}
  <2>1. \A x \in T : n - x \in Nat
    BY DEF Max
  <2>2. QED  BY <2>1
<1>2. Min(U) \in U /\ \A y \in U : Min(U) <= y
  BY <1>1, MinIsLeast
<1>3. PICK m \in T : Min(U) = n - m
  BY <1>2
<1>4. \A x \in T : n - m <= n - x
  BY <1>2, <1>3
<1>5. \A x \in T : x <= m
  BY <1>4
<1>6. QED  BY <1>5 DEF Max

-----------------------------------------------------------------------------
(* Arguments. *)

LEMMA ArgumentsAreThere ==
  ASSUME TypeOK, NEW k \in 1..Len(args)
  PROVE  /\ k \in Nat /\ Len(args) \in Nat /\ DOMAIN args = 1..Len(args)
         /\ Consumed(k) \in {1, 2} /\ k + Consumed(k) <= Len(args) + 1
         /\ Consumed(k) = 2 <=> IsAlone(args[k]) /\ k < Len(args)
<1>1. args \in Seq(Arguments)
  BY DEF TypeOK
<1>2. QED  BY <1>1 DEF Consumed

LEMMA NothingIsFound ==
  /\ Nothing.ns = Empty /\ Nothing.value = Empty /\ Nothing.words = <<>> /\ Nothing.start = 1
  /\ NoCommand.name = ""
  /\ NoCommand \in [name : Names \cup {""}, scoped : BOOLEAN, session : {"", Session}]
BY DEF NoCommand, Session, Nothing

\* What can have been found when these arguments were looked at.
Finds(seen) ==
  [ns : Found(seen), value : Found(seen), follow : BOOLEAN, words : Seq(seen),
   start : 1..(Len(args) + 1)]

\* A turn of any parser keeps the types.
LEMMA TurnIsTyped ==
  ASSUME TypeOK, pc = "parse", i <= Len(args), NEW n, n = 1 \/ n = Consumed(i),
         NEW found, found \in Finds(looked \cup {i}), Turn(n, found)
  PROVE  TypeOK'
<1>1. args \in Seq(Arguments) /\ i \in 1..(Len(args) + 1) /\ looked \subseteq 1..(i - 1)
  BY DEF TypeOK
<1>2. i \in 1..Len(args) /\ \A k \in looked : k \in 1..(i - 1)
  BY <1>1
<1>3. i' \in 1..(Len(args) + 1) /\ i' > i
  BY <1>2, ArgumentsAreThere DEF Turn
<1>4. looked' \subseteq 1..(i' - 1)
  BY <1>2, <1>3 DEF Turn
<1>5. args' = args /\ pc' = pc /\ cmd' = cmd
  BY DEF Turn
<1>6. \A k : Value(k)' = Value(k)
  BY <1>5 DEF Value
<1>7. Found(looked)' = Found(looked')
  BY <1>6 DEF Found
<1>8. got' \in Finds(looked')
  BY DEF Turn
<1>9. UNCHANGED <<whole, text, out, sent>>
  BY DEF Turn, replying
<1>10. QED  BY <1>3, <1>4, <1>5, <1>7, <1>8, <1>9 DEF TypeOK, Finds

-----------------------------------------------------------------------------
(* The parsers. *)

Step == IF args[i][1] \in Takes THEN Consumed(i) ELSE 1

\* Each value flag has a word, and -A is not there: a line that is clear is plain.
PlainLine ==
  /\ \A k \in DOMAIN args : args[k][1] \in {"-n", "-v"} => Value(k)[1] = "" /\ Value(k) # Empty
  /\ \A k \in DOMAIN args : args[k] # Alone("-A")

\* What a turn of any parser does: it takes a value with exactly the flags that take one,
\* the command of /exec does not begin before what is behind them, and the namespace of a
\* plain line is the value of the last -n.
Turned ==
  \E found \in Finds(looked \cup {i}) :
    /\ Turn(Step, found)
    /\ found.start = IF cmd.name = "exec" THEN i + Step ELSE got.start
    /\ cmd.name \in {"get", "inline"} /\ PlainLine =>
         found.ns = IF args[i][1] = "-n" THEN Value(i) ELSE got.ns

LEMMA FindsStill ==
  ASSUME TypeOK, i \in 1..Len(args)
  PROVE  /\ got \in Finds(looked \cup {i})
         /\ Value(i) \in Found(looked \cup {i}) /\ Empty \in Found(looked \cup {i})
         /\ Append(got.words, i) \in Seq(looked \cup {i}) /\ <<i>> \in Seq(looked \cup {i})
         /\ i + Consumed(i) \in 1..(Len(args) + 1)
<1>1. got \in Finds(looked)
  BY DEF TypeOK, Finds
<1>2. got.words \in Seq(looked \cup {i})
  BY <1>1, SeqMonotonic, looked \subseteq looked \cup {i} DEF Finds
<1>3. i + Consumed(i) \in 1..(Len(args) + 1)
  BY ArgumentsAreThere
<1>4. Found(looked) \subseteq Found(looked \cup {i})
  BY DEF Found
<1>5. Value(i) \in Found(looked \cup {i}) /\ Empty \in Found(looked \cup {i})
  BY DEF Found
<1>6. got \in Finds(looked \cup {i})
  BY <1>1, <1>2, <1>4 DEF Finds
<1>7. QED  BY <1>2, <1>3, <1>5, <1>6

LEMMA GetTurns ==
  ASSUME TypeOK, ParseGet
  PROVE  Turned
<1>1. pc = "parse" /\ cmd.name = "get" /\ i <= Len(args)
  BY DEF ParseGet, Parsing
<1>2. i \in 1..Len(args) /\ i \in DOMAIN args
  <2>1. args \in Seq(Arguments) /\ i \in 1..(Len(args) + 1)
    BY DEF TypeOK
  <2>2. QED  BY <1>1, <2>1
<1>3. Takes = {"-n", "-v"}
  BY <1>1 DEF Takes
<1>4. CASE args[i] = Alone("-A")
  <2> DEFINE found == [got EXCEPT !.ns = Empty]
  <2>1. Turn(1, found)
    BY <1>4 DEF ParseGet, Turn, Alone
  <2>2. Step = 1
    BY <1>3, <1>4 DEF Step, Alone
  <2>3. ~PlainLine
    BY <1>2, <1>4 DEF PlainLine
  <2>4. found \in Finds(looked \cup {i}) /\ found.start = got.start
    BY <1>2, FindsStill DEF Finds
  <2>5. QED  BY <1>1, <1>2, <2>1, <2>2, <2>3, <2>4 DEF Turned
<1>5. CASE args[i][1] = "-n"
  <2> DEFINE found == IF Given(i) THEN [got EXCEPT !.ns = Value(i)] ELSE got
  <2>1. Turn(Consumed(i), found)
    BY <1>5 DEF ParseGet, Turn, Alone
  <2>2. Step = Consumed(i)
    BY <1>3, <1>5 DEF Step, Alone
  <2>3. PlainLine => Given(i)
    BY <1>2, <1>5 DEF PlainLine, Given
  <2>4. found \in Finds(looked \cup {i}) /\ found.start = got.start
    BY <1>2, FindsStill DEF Finds
  <2>5. Given(i) => found.ns = Value(i)
    BY <1>2, FindsStill DEF Finds
  <2>6. QED  BY <1>1, <1>2, <1>5, <2>1, <2>2, <2>3, <2>4, <2>5 DEF Turned
<1>6. CASE args[i][1] = "-v"
  <2> DEFINE found == IF Given(i) THEN [got EXCEPT !.value = Value(i)] ELSE got
  <2>1. Turn(Consumed(i), found)
    BY <1>6 DEF ParseGet, Turn, Alone
  <2>2. Step = Consumed(i)
    BY <1>3, <1>6 DEF Step
  <2>3. found \in Finds(looked \cup {i}) /\ found.start = got.start /\ found.ns = got.ns
    BY <1>2, FindsStill DEF Finds
  <2>4. QED  BY <1>1, <1>2, <1>6, <2>1, <2>2, <2>3 DEF Turned
<1>7. CASE args[i] # Alone("-A") /\ args[i][1] \notin {"-n", "-v"}
  <2> DEFINE found == [got EXCEPT !.words = Append(@, i)]
  <2>1. Turn(1, found)
    BY <1>7 DEF ParseGet, Turn
  <2>2. Step = 1
    BY <1>3, <1>7 DEF Step
  <2>3. found \in Finds(looked \cup {i}) /\ found.start = got.start /\ found.ns = got.ns
    BY <1>2, FindsStill DEF Finds
  <2>4. QED  BY <1>1, <1>2, <1>7, <2>1, <2>2, <2>3 DEF Turned
<1>8. QED  BY <1>4, <1>5, <1>6, <1>7

LEMMA LogsTurns ==
  ASSUME TypeOK, ParseLogs
  PROVE  Turned
<1>1. pc = "parse" /\ cmd.name = "logs" /\ i <= Len(args)
  BY DEF ParseLogs, Parsing
<1>2. i \in 1..Len(args) /\ i \in DOMAIN args
  <2>1. args \in Seq(Arguments) /\ i \in 1..(Len(args) + 1)
    BY DEF TypeOK
  <2>2. QED  BY <1>1, <2>1
<1>3. Takes = {"-v"}
  BY <1>1 DEF Takes
<1>4. CASE args[i] = Alone("-f")
  <2> DEFINE found == [got EXCEPT !.follow = TRUE]
  <2>1. Turn(1, found)
    BY <1>4 DEF ParseLogs, Turn, Alone
  <2>2. Step = 1
    BY <1>3, <1>4 DEF Step, Alone
  <2>3. found \in Finds(looked \cup {i}) /\ found.start = got.start
    BY <1>2, FindsStill DEF Finds
  <2>4. QED  BY <1>1, <1>2, <2>1, <2>2, <2>3 DEF Turned
<1>5. CASE args[i][1] = "-v"
  <2> DEFINE found == IF Value(i) # Empty THEN [got EXCEPT !.value = Value(i)] ELSE got
  <2>1. Turn(Consumed(i), found)
    BY <1>5 DEF ParseLogs, Turn, Alone
  <2>2. Step = Consumed(i)
    BY <1>3, <1>5 DEF Step
  <2>3. found \in Finds(looked \cup {i}) /\ found.start = got.start
    BY <1>2, FindsStill DEF Finds
  <2>4. QED  BY <1>1, <1>2, <2>1, <2>2, <2>3 DEF Turned
<1>6. CASE args[i] # Alone("-f") /\ args[i][1] # "-v"
  <2>1. Turn(1, got)
    BY <1>6 DEF ParseLogs, Turn
  <2>2. Step = 1
    BY <1>3, <1>6 DEF Step
  <2>3. got \in Finds(looked \cup {i})
    BY <1>2, FindsStill
  <2>4. QED  BY <1>1, <1>2, <2>1, <2>2, <2>3 DEF Turned
<1>7. QED  BY <1>4, <1>5, <1>6

\* parseExecArgs stops, or takes a turn.
Stopped ==
  /\ Finished
  /\ \/ args[i] = Alone("--") /\ got' = [got EXCEPT !.start = i + 1]
     \/ args[i] # Alone("--") /\ args[i][1] \notin {"-n", "-v"} /\ got' = got

LEMMA ExecTurns ==
  ASSUME TypeOK, ParseExec
  PROVE  Turned \/ Stopped
<1>1. pc = "parse" /\ cmd.name = "exec" /\ i <= Len(args)
  BY DEF ParseExec, Parsing
<1>2. i \in 1..Len(args) /\ i \in DOMAIN args
  <2>1. args \in Seq(Arguments) /\ i \in 1..(Len(args) + 1)
    BY DEF TypeOK
  <2>2. QED  BY <1>1, <2>1
<1>3. Takes = {"-n", "-v"}
  BY <1>1 DEF Takes
<1>4. CASE args[i] = Alone("--")
  BY <1>4 DEF ParseExec, Stopped, Alone, ExecFlags
<1>5. CASE args[i][1] \in {"-n", "-v"}
  <2> DEFINE found == [got EXCEPT !.start = i + Consumed(i),
                        !.value = IF args[i][1] = "-v" /\ Value(i) # Empty THEN Value(i) ELSE @]
  <2>1. Turn(Consumed(i), found)
    BY <1>5 DEF ParseExec, Turn, Alone, ExecFlags
  <2>2. Step = Consumed(i)
    BY <1>3, <1>5 DEF Step
  <2>3. found \in Finds(looked \cup {i}) /\ found.start = i + Consumed(i)
    BY <1>2, FindsStill DEF Finds
  <2>4. QED  BY <1>1, <1>2, <2>1, <2>2, <2>3 DEF Turned
<1>6. CASE args[i] # Alone("--") /\ args[i][1] \notin {"-n", "-v"}
  BY <1>6 DEF ParseExec, Stopped, Finished, ExecFlags
<1>7. QED  BY <1>4, <1>5, <1>6

LEMMA InlineTurns ==
  ASSUME TypeOK, ParseInline
  PROVE  Turned
<1>1. pc = "parse" /\ cmd.name = "inline" /\ i <= Len(args)
  BY DEF ParseInline, Parsing
<1>2. i \in 1..Len(args) /\ i \in DOMAIN args
  <2>1. args \in Seq(Arguments) /\ i \in 1..(Len(args) + 1)
    BY DEF TypeOK
  <2>2. QED  BY <1>1, <2>1
<1>3. Takes = {"-n", "-v"}
  BY <1>1 DEF Takes
<1> DEFINE complete == ~IsAlone(args[i]) \/ i < Len(args)
<1>4. CASE args[i][1] = "-n"
  <2> DEFINE found == IF complete THEN [got EXCEPT !.ns = Value(i)] ELSE got
  <2>1. Turn(Consumed(i), found)
    BY <1>4 DEF ParseInline, Turn
  <2>2. Step = Consumed(i)
    BY <1>3, <1>4 DEF Step
  <2>3. PlainLine => complete
    BY <1>2, <1>4 DEF PlainLine, Value
  <2>4. found \in Finds(looked \cup {i}) /\ found.start = got.start
    BY <1>2, FindsStill DEF Finds
  <2>5. complete => found.ns = Value(i)
    BY <1>2, FindsStill DEF Finds
  <2>6. QED  BY <1>1, <1>2, <1>4, <2>1, <2>2, <2>3, <2>4, <2>5 DEF Turned
<1>5. CASE args[i][1] = "-v"
  <2> DEFINE found == IF complete THEN [got EXCEPT !.value = Value(i)] ELSE got
  <2>1. Turn(Consumed(i), found)
    BY <1>5 DEF ParseInline, Turn
  <2>2. Step = Consumed(i)
    BY <1>3, <1>5 DEF Step
  <2>3. found \in Finds(looked \cup {i}) /\ found.start = got.start /\ found.ns = got.ns
    BY <1>2, FindsStill DEF Finds
  <2>4. QED  BY <1>1, <1>2, <1>5, <2>1, <2>2, <2>3 DEF Turned
<1>6. CASE args[i][1] \notin {"-n", "-v"}
  <2> DEFINE found == IF got.words = <<>> THEN [got EXCEPT !.words = <<i>>] ELSE got
  <2>1. Turn(1, found)
    BY <1>6 DEF ParseInline, Turn
  <2>2. Step = 1
    BY <1>3, <1>6 DEF Step
  <2>3. found \in Finds(looked \cup {i}) /\ found.start = got.start /\ found.ns = got.ns
    BY <1>2, FindsStill DEF Finds
  <2>4. QED  BY <1>1, <1>2, <1>6, <2>1, <2>2, <2>3 DEF Turned
<1>7. QED  BY <1>4, <1>5, <1>6

-----------------------------------------------------------------------------
(* Texts: cutting, trimming, putting together. *)

LEMMA PartsOfTexts ==
  ASSUME NEW t \in Seq(Bytes), NEW a \in Nat, NEW b \in Nat, a >= 1, b <= Len(t)
  PROVE  /\ SubSeq(t, a, b) \in Seq(Bytes)
         /\ Len(SubSeq(t, a, b)) = IF a <= b THEN b - a + 1 ELSE 0
         /\ \A k \in 1..(b - a + 1) : SubSeq(t, a, b)[k] = t[a + k - 1]
OBVIOUS

LEMMA TextsTogether ==
  ASSUME NEW s \in Seq(Bytes), NEW t \in Seq(Bytes)
  PROVE  /\ s \o t \in Seq(Bytes) /\ Len(s \o t) = Len(s) + Len(t)
         /\ \A k \in 1..Len(s) : (s \o t)[k] = s[k]
         /\ \A k \in 1..Len(t) : (s \o t)[Len(s) + k] = t[k]
OBVIOUS

LEMMA FixedTexts ==
  /\ Note \in Seq(Bytes) /\ Len(Note) = 2
  /\ TailNote \in Seq(Bytes) /\ Len(TailNote) = 2
  /\ Fence \in Seq(Bytes) /\ Len(Fence) = 3
  /\ Opening \in Seq(Bytes) /\ Len(Opening) = 4
  /\ Closing \in Seq(Bytes) /\ Len(Closing) = 5
  /\ <<Newline>> \in Seq(Bytes) /\ Len(<<Newline>>) = 1
<1>1. Newline \in Bytes /\ Tick \in Bytes /\ Mark \in Bytes
  BY ReplyAssumption
<1>2. /\ Note \in Seq(Bytes) /\ Len(Note) = 2 /\ TailNote \in Seq(Bytes) /\ Len(TailNote) = 2
      /\ Fence \in Seq(Bytes) /\ Len(Fence) = 3 /\ <<Newline>> \in Seq(Bytes) /\ Len(<<Newline>>) = 1
  BY <1>1 DEF Note, TailNote, Fence
<1>0. \A s, t \in Seq(Bytes) : s \o t \in Seq(Bytes) /\ Len(s \o t) = Len(s) + Len(t)
  OBVIOUS
<1>3. Opening \in Seq(Bytes) /\ Len(Opening) = 4
  <2>1. Opening \in Seq(Bytes) /\ Len(Opening) = Len(Fence) + Len(<<Newline>>)
    BY <1>0, <1>2, Zenon DEF Opening
  <2>2. QED  BY <1>2, <2>1
<1>4. <<Newline>> \o Fence \in Seq(Bytes) /\ Len(<<Newline>> \o Fence) = 4
  <2>1. /\ <<Newline>> \o Fence \in Seq(Bytes)
        /\ Len(<<Newline>> \o Fence) = Len(<<Newline>>) + Len(Fence)
    BY <1>0, <1>2, Zenon
  <2>2. QED  BY <1>2, <2>1
<1>5. Closing \in Seq(Bytes) /\ Len(Closing) = 5
  <2>1. Closing \in Seq(Bytes) /\ Len(Closing) = Len(<<Newline>> \o Fence) + Len(<<Newline>>)
    BY <1>0, <1>2, <1>4, Zenon DEF Closing
  <2>2. QED  BY <1>2, <1>4, <2>1
<1>6. QED  BY <1>2, <1>3, <1>5

LEMMA CutIsInside ==
  ASSUME NEW t \in Seq(Bytes), Len(t) > MaxMessage
  PROVE  /\ Cut(t) \in 1..MaxMessage
         /\ LineEnds(t) # {} => t[Cut(t) + 1] = Newline
         /\ LineEnds(t) = {} => Cut(t) = MaxMessage /\ \A k \in 2..MaxMessage : t[k] # Newline
<1>1. MaxMessage \in Nat \ {0} /\ Len(t) \in Nat
  BY ReplyAssumption
<1>2. CASE LineEnds(t) = {}
  BY <1>1, <1>2 DEF Cut, LineEnds
<1>3. CASE LineEnds(t) # {}
  <2>1. LineEnds(t) \in SUBSET Nat /\ \A x \in LineEnds(t) : x <= MaxMessage
    BY <1>1 DEF LineEnds
  <2>2. Max(LineEnds(t)) \in LineEnds(t)
    BY <1>1, <1>3, <2>1, MaxIsGreatest
  <2>3. Max(LineEnds(t)) \in 2..MaxMessage /\ t[Max(LineEnds(t))] = Newline
    BY <2>2 DEF LineEnds
  <2>4. QED  BY <1>1, <1>3, <2>3 DEF Cut
<1>4. QED  BY <1>2, <1>3

\* What is left begins right behind the chunk, or behind the line end there.
LEMMA RestIsBehind ==
  ASSUME NEW t \in Seq(Bytes), Len(t) > MaxMessage
  PROVE  \E n \in {Cut(t) + 1, Cut(t) + 2} :
           /\ Rest(t) = SubSeq(t, n, Len(t)) /\ n <= Len(t) + 1
           /\ Rest(t) \in Seq(Bytes) /\ Len(Rest(t)) = Len(t) - n + 1
           /\ n = Cut(t) + 2 <=> t[Cut(t) + 1] = Newline
<1> DEFINE r == SubSeq(t, Cut(t) + 1, Len(t))
<1>1. MaxMessage \in Nat /\ Len(t) \in Nat /\ Cut(t) \in 1..MaxMessage
  BY ReplyAssumption, CutIsInside
<1>2. r \in Seq(Bytes) /\ Len(r) = Len(t) - Cut(t) /\ r # <<>> /\ r[1] = t[Cut(t) + 1]
  BY <1>1, PartsOfTexts
<1>3. CASE t[Cut(t) + 1] # Newline
  <2>1. Rest(t) = r
    BY <1>2, <1>3 DEF Rest, From
  <2>2. QED  BY <1>1, <1>2, <1>3, <2>1
<1>4. CASE t[Cut(t) + 1] = Newline
  <2>1. Rest(t) = Tail(r)
    BY <1>2, <1>4 DEF Rest, From
  <2>2. Tail(r) = SubSeq(t, Cut(t) + 2, Len(t))
    <3>1. Cut(t) + 1 \in 1..Len(t) /\ Len(t) \in (Cut(t) + 1)..Len(t)
      BY <1>1
    <3>2. Tail(r) = SubSeq(t, Cut(t) + 1 + 1, Len(t))
      BY <3>1, HeadTailOfSubSeq, Zenon
    <3>3. Cut(t) + 1 + 1 = Cut(t) + 2
      BY <1>1
    <3>4. QED  BY <3>2, <3>3
  <2>3. /\ SubSeq(t, Cut(t) + 2, Len(t)) \in Seq(Bytes)
        /\ Len(SubSeq(t, Cut(t) + 2, Len(t))) = Len(t) - Cut(t) - 1
    BY <1>1, PartsOfTexts
  <2>4. Rest(t) = SubSeq(t, Cut(t) + 2, Len(t)) /\ Cut(t) + 2 <= Len(t) + 1
    <3>1. Rest(t) = SubSeq(t, Cut(t) + 2, Len(t))
      BY <2>1, <2>2, Zenon
    <3>2. Cut(t) + 2 <= Len(t) + 1
      BY <1>1
    <3>3. QED  BY <3>1, <3>2
  <2>5. Rest(t) \in Seq(Bytes) /\ Len(Rest(t)) = Len(t) - (Cut(t) + 2) + 1
    BY <1>1, <2>3, <2>4
  <2>6. QED  BY <1>4, <2>4, <2>5
<1>5. QED  BY <1>3, <1>4

\* The kept tail of a body is an end of it, of more than half the limit, and begins at a line
\* if it is shorter than the limit.
LEMMA KeptTailIsAnEnd ==
  ASSUME NEW t \in Seq(Bytes), Len(t) > PaneLimit
  PROVE  \E n \in 1..PaneLimit :
           /\ KeptTail(t) = SubSeq(t, Len(t) - n + 1, Len(t))
           /\ n >= PaneLimit \div 2
<1> DEFINE L == Len(t)
           P == PaneLimit
           tail == Ending(t, P)
           nl == IF Newlines(tail) = {} THEN 1 ELSE Min(Newlines(tail))
<1>1. P \in Nat /\ P > 0 /\ L \in Nat /\ P \div 2 \in Nat /\ 2 * (P \div 2) <= P
  BY ReplyAssumption
<1>2. tail = SubSeq(t, L - P + 1, L) /\ tail \in Seq(Bytes) /\ Len(tail) = P
  BY <1>1, PartsOfTexts DEF Ending
<1>3. nl \in 1..P
  <2>1. Newlines(tail) \in SUBSET Nat /\ Newlines(tail) \subseteq 1..P
    BY <1>2 DEF Newlines
  <2>2. Newlines(tail) # {} => Min(Newlines(tail)) \in Newlines(tail)
    BY <2>1, MinIsLeast
  <2>3. QED  BY <1>1, <2>1, <2>2
<1>4. CASE nl > 1 /\ nl < P \div 2 + 1
  <2>1. KeptTail(t) = SubSeq(tail, nl + 1, P)
    BY <1>2, <1>4 DEF KeptTail, From
  <2>2. /\ L - P + 1 \in 1..L /\ L \in 1..L
        /\ nl + 1 \in 1..(L - (L - P + 1) + 1) /\ P \in 1..(L - (L - P + 1) + 1)
    BY <1>1, <1>3, <1>4
  <2>3. SubSeq(tail, nl + 1, P) = SubSeq(t, L - P + 1 + (nl + 1) - 1, L - P + 1 + P - 1)
    <3> DEFINE j == L - P + 1
               k == nl + 1
    <3> HIDE DEF j, k
    <3>1. j \in 1..L /\ L \in 1..L /\ k \in 1..(L - j + 1) /\ P \in 1..(L - j + 1)
      BY <2>2 DEF j, k
    <3>2. SubSeq(SubSeq(t, j, L), k, P) = SubSeq(t, j + k - 1, j + P - 1)
      BY <3>1, SubSeqOfSubSeq
    <3>3. QED  BY <1>2, <3>2 DEF j, k
  <2>4. L - P + 1 + (nl + 1) - 1 = L - (P - nl) + 1 /\ L - P + 1 + P - 1 = L
    BY <1>1, <1>3
  <2>5. KeptTail(t) = SubSeq(t, L - (P - nl) + 1, L)
    BY <2>1, <2>3, <2>4
  <2>6. P - nl \in 1..P /\ P - nl >= P \div 2
    BY <1>1, <1>3, <1>4
  <2>7. QED  BY <2>5, <2>6
<1>5. CASE ~(nl > 1 /\ nl < P \div 2 + 1)
  <2>1. KeptTail(t) = tail
    BY <1>5 DEF KeptTail
  <2>2. P \in 1..P /\ P >= P \div 2
    BY <1>1
  <2>3. QED  BY <1>2, <2>1, <2>2
<1>6. QED  BY <1>4, <1>5

LEMMA TrimRightIsABeginning ==
  ASSUME NEW t \in Seq(Bytes)
  PROVE  /\ \E m \in 0..Len(t) : TrimRight(t) = SubSeq(t, 1, m)
         /\ TrimRight(t) \in Seq(Bytes) /\ Len(TrimRight(t)) <= Len(t)
         /\ t # <<>> /\ t[Len(t)] # Newline => TrimRight(t) = t
<1> DEFINE solid == DOMAIN t \ Newlines(t)
<1>1. Len(t) \in Nat /\ solid \in SUBSET Nat /\ solid \subseteq 1..Len(t)
  OBVIOUS
<1>2. CASE solid = {}
  <2>1. TrimRight(t) = <<>>
    BY <1>2 DEF TrimRight
  <2>2. SubSeq(t, 1, 0) = <<>> /\ 0 \in 0..Len(t)
    BY <1>1, SubSeqEmpty
  <2>3. t # <<>> => t[Len(t)] = Newline
    BY <1>2 DEF Newlines
  <2>4. QED  BY <1>1, <2>1, <2>2, <2>3
<1>3. CASE solid # {}
  <2> DEFINE m == Max(solid)
  <2>1. m \in solid /\ \A x \in solid : x <= m
    <3>1. \A x \in solid : x <= Len(t)
      BY <1>1
    <3>2. QED  BY <1>1, <1>3, <3>1, MaxIsGreatest, Zenon
  <2>2. TrimRight(t) = SubSeq(t, 1, m)
    BY <1>3 DEF TrimRight, Beginning
  <2> HIDE DEF m
  <2>3. m \in 1..Len(t)
    BY <1>1, <2>1
  <2>4. SubSeq(t, 1, m) \in Seq(Bytes) /\ Len(SubSeq(t, 1, m)) <= Len(t)
    BY <1>1, <2>3, PartsOfTexts
  <2>5. ASSUME t # <<>>, t[Len(t)] # Newline  PROVE TrimRight(t) = t
    <3>1. Len(t) \in solid
      BY <1>1, <2>5 DEF Newlines
    <3>2. m = Len(t)
      BY <1>1, <2>1, <2>3, <3>1
    <3>3. QED  BY <2>2, <3>2, SubSeqFull
  <2>6. QED  BY <1>1, <2>2, <2>3, <2>4, <2>5
<1>4. QED  BY <1>2, <1>3

LEMMA ThreeTogether ==
  ASSUME NEW a \in Seq(Bytes), NEW b \in Seq(Bytes), NEW c \in Seq(Bytes)
  PROVE  a \o b \o c \in Seq(Bytes) /\ Len(a \o b \o c) = Len(a) + Len(b) + Len(c)
<1>1. a \o b \in Seq(Bytes) /\ Len(a \o b) = Len(a) + Len(b)
  BY TextsTogether
<1>2. (a \o b) \o c \in Seq(Bytes) /\ Len((a \o b) \o c) = Len(a \o b) + Len(c)
  BY <1>1, TextsTogether
<1>3. QED  BY <1>1, <1>2

LEMMA RepairsAddTwoFences ==
  ASSUME NEW t \in Seq(Bytes), NEW cut \in Seq(Bytes)
  PROVE  Repaired(t, cut) \in Seq(Bytes) /\ Len(Repaired(t, cut)) <= Len(cut) + 9
<1>1. /\ Opening \in Seq(Bytes) /\ Len(Opening) = 4 /\ Closing \in Seq(Bytes) /\ Len(Closing) = 5
      /\ <<Newline>> \in Seq(Bytes) /\ Len(<<Newline>>) = 1
  BY FixedTexts
<1>0. /\ Opening \in Seq(Bytes) /\ Closing \in Seq(Bytes) /\ <<Newline>> \in Seq(Bytes)
      /\ TrimRight(cut) \in Seq(Bytes)
  BY FixedTexts, TrimRightIsABeginning
<1>2. TrimRight(cut) \in Seq(Bytes) /\ Len(TrimRight(cut)) <= Len(cut) /\ Len(TrimRight(cut)) \in Nat
  BY TrimRightIsABeginning
<1>3. TrimRight(cut) \o Closing \in Seq(Bytes) /\ Len(TrimRight(cut) \o Closing) = Len(TrimRight(cut)) + 5
  <2>1. TrimRight(cut) \o Closing \in Seq(Bytes)
        /\ Len(TrimRight(cut) \o Closing) = Len(TrimRight(cut)) + Len(Closing)
    BY <1>1, <1>2, TextsTogether, Zenon
  <2>2. QED  BY <1>1, <2>1
<1>4. Opening \o cut \o Closing \in Seq(Bytes) /\ Len(Opening \o cut \o Closing) = 4 + Len(cut) + 5
  <2>1. /\ Opening \o cut \o Closing \in Seq(Bytes)
        /\ Len(Opening \o cut \o Closing) = Len(Opening) + Len(cut) + Len(Closing)
    BY <1>0, ThreeTogether
  <2>2. QED  BY <1>1, <2>1
<1>5. /\ Opening \o TrimRight(cut) \o <<Newline>> \in Seq(Bytes)
      /\ Len(Opening \o TrimRight(cut) \o <<Newline>>) = 4 + Len(TrimRight(cut)) + 1
  <2>1. /\ Opening \o TrimRight(cut) \o <<Newline>> \in Seq(Bytes)
        /\ Len(Opening \o TrimRight(cut) \o <<Newline>>)
             = Len(Opening) + Len(TrimRight(cut)) + Len(<<Newline>>)
    BY <1>0, ThreeTogether
  <2>2. QED  BY <1>1, <2>1
<1>6. \/ Repaired(t, cut) = cut \/ Repaired(t, cut) = TrimRight(cut) \o Closing
      \/ Repaired(t, cut) = Opening \o cut \o Closing
      \/ Repaired(t, cut) = Opening \o TrimRight(cut) \o <<Newline>>
  BY Zenon DEF Repaired
<1>7. Len(cut) \in Nat
  OBVIOUS
<1> HIDE DEF Repaired, Opening, Closing
<1>8. CASE Repaired(t, cut) = cut
  BY <1>7, <1>8
<1>9. CASE Repaired(t, cut) = TrimRight(cut) \o Closing
  BY <1>2, <1>3, <1>7, <1>9
<1>10. CASE Repaired(t, cut) = Opening \o cut \o Closing
  BY <1>4, <1>7, <1>10
<1>11. CASE Repaired(t, cut) = Opening \o TrimRight(cut) \o <<Newline>>
  BY <1>2, <1>5, <1>7, <1>11
<1>12. QED  BY <1>6, <1>8, <1>9, <1>10, <1>11

\* A pane is a text, no longer than the limit and what may be put to it.
LEMMA PanesFit ==
  ASSUME NEW t \in Seq(Bytes)
  PROVE  /\ truncateForPane(t) \in Seq(Bytes) /\ Len(truncateForPane(t)) <= PaneLimit + 2
         /\ truncateForPaneTail(t) \in Seq(Bytes)
         /\ IF Len(t) <= PaneLimit THEN truncateForPaneTail(t) = t /\ truncateForPane(t) = t
            ELSE Len(truncateForPaneTail(t)) <= PaneLimit + 11 /\ truncateForPaneTail(t)[1] = Mark
<1> DEFINE L == Len(t)
           P == PaneLimit
<1>1. P \in Nat /\ P > 0 /\ L \in Nat
  BY ReplyAssumption
<1>2. CASE L <= P
  BY <1>1, <1>2 DEF truncateForPane, truncateForPaneTail
<1>3. CASE L > P
  <2> DEFINE ends == {k \in Newlines(Beginning(t, P)) : k > P \div 2 + 1}
             m == IF ends = {} THEN P ELSE Max(ends) - 1
  <2>1. Beginning(t, P) \in Seq(Bytes) /\ Len(Beginning(t, P)) = P
    BY <1>1, <1>3, PartsOfTexts DEF Beginning
  <2>2. ends \in SUBSET Nat /\ ends \subseteq 1..P
    BY <2>1 DEF Newlines
  <2>3. m \in 0..P
    <3>1. \A x \in ends : x <= P
      BY <2>2
    <3>2. ends # {} => Max(ends) \in ends
      BY <1>1, <2>2, <3>1, MaxIsGreatest
    <3>3. QED  BY <1>1, <2>2, <3>2
  <2>4. truncateForPane(t) = Beginning(t, m) \o Note
    <3>1. ~(Len(t) <= PaneLimit)
      BY <1>1, <1>3
    <3>2. QED  BY <3>1, Zenon DEF truncateForPane
  <2> HIDE DEF m
  <2>5. Beginning(t, m) \in Seq(Bytes) /\ Len(Beginning(t, m)) <= P /\ Len(Beginning(t, m)) \in Nat
    BY <1>1, <1>3, <2>3, PartsOfTexts DEF Beginning
  <2>6. Note \in Seq(Bytes) /\ Len(Note) = 2 /\ TailNote \in Seq(Bytes) /\ Len(TailNote) = 2
        /\ TailNote[1] = Mark
    BY FixedTexts DEF TailNote
  <2>7. truncateForPane(t) \in Seq(Bytes) /\ Len(truncateForPane(t)) = Len(Beginning(t, m)) + Len(Note)
    <3>1. Beginning(t, m) \in Seq(Bytes) /\ Note \in Seq(Bytes)
      BY <2>5, <2>6
    <3>2. QED  BY <2>4, <3>1, TextsTogether
  <2>8. PICK n \in 1..P : KeptTail(t) = SubSeq(t, L - n + 1, L)
    BY <1>3, KeptTailIsAnEnd
  <2>9. KeptTail(t) \in Seq(Bytes) /\ Len(KeptTail(t)) = n
    BY <1>1, <1>3, <2>8, PartsOfTexts
  <2> DEFINE r == Repaired(t, KeptTail(t))
  <2>10. r \in Seq(Bytes) /\ Len(r) <= n + 9 /\ Len(r) \in Nat
    BY <2>9, RepairsAddTwoFences
  <2>11. truncateForPaneTail(t) = TailNote \o r
    BY <1>1, <1>3 DEF truncateForPaneTail
  <2> HIDE DEF r
  <2>12. /\ TailNote \o r \in Seq(Bytes) /\ Len(TailNote \o r) = Len(TailNote) + Len(r)
         /\ \A k \in 1..Len(TailNote) : (TailNote \o r)[k] = TailNote[k]
    BY <2>6, <2>10, TextsTogether, Zenon
  <2>13. (TailNote \o r)[1] = Mark
    BY <2>6, <2>12
  <2>14. Len(truncateForPane(t)) <= P + 2
    BY <1>1, <2>5, <2>6, <2>7
  <2>15. Len(TailNote \o r) <= P + 11
    BY <1>1, <2>6, <2>10, <2>12
  <2>16. QED  BY <1>1, <1>3, <2>7, <2>11, <2>12, <2>13, <2>14, <2>15
<1>4. QED  BY <1>1, <1>2, <1>3

-----------------------------------------------------------------------------
(* Types. *)

\* What the parsers do, whichever command it is.
LEMMA ParserSteps ==
  ASSUME TypeOK, Parse
  PROVE  /\ pc = "parse" /\ cmd.name \in Names
         /\ \/ i <= Len(args) /\ cmd.name \notin {"describe", "watch"} /\ Turned
            \/ i <= Len(args) /\ cmd.name = "exec" /\ Stopped
            \/ cmd.name \in {"describe", "watch"} /\ Finished /\ UNCHANGED got
            \/ i > Len(args) /\ cmd.name \notin {"describe", "watch"} /\ Finished /\ UNCHANGED got
<1>1. pc = "parse"
  BY DEF Parse, ParseGet, ParseLogs, ParseExec, ParseInline, ParseNothing, ParseEnds, Parsing
<1>2. cmd.name \in Names
  BY <1>1 DEF TypeOK
<1>3. CASE ParseGet
  BY <1>1, <1>2, <1>3, GetTurns DEF ParseGet, Parsing
<1>4. CASE ParseLogs
  BY <1>1, <1>2, <1>4, LogsTurns DEF ParseLogs, Parsing
<1>5. CASE ParseExec
  BY <1>1, <1>2, <1>5, ExecTurns DEF ParseExec, Parsing
<1>6. CASE ParseInline
  BY <1>1, <1>2, <1>6, InlineTurns DEF ParseInline, Parsing
<1>7. CASE ParseNothing
  BY <1>1, <1>2, <1>7 DEF ParseNothing
<1>8. CASE ParseEnds
  BY <1>1, <1>2, <1>8 DEF ParseEnds
<1>9. QED  BY <1>3, <1>4, <1>5, <1>6, <1>7, <1>8 DEF Parse

\* What has been found when nothing was looked at.
LEMMA IdleIsTyped ==
  ASSUME NEW a \in Seq(Arguments)
  PROVE  Nothing \in [ns : {Empty}, value : {Empty}, follow : BOOLEAN, words : Seq({}),
                      start : 1..(Len(a) + 1)]
<1>1. <<>> \in Seq({})
  OBVIOUS
<1>2. 1 \in 1..(Len(a) + 1)
  <2>1. Len(a) \in Nat
    OBVIOUS
  <2>2. QED  BY <2>1
<1>3. Nothing = [ns |-> Empty, value |-> Empty, follow |-> FALSE, words |-> <<>>, start |-> 1]
  BY DEF Nothing
<1>4. QED  BY <1>1, <1>2, <1>3

LEMMA NothingLooked == Found({}) = {Empty}
BY DEF Found

LEMMA TypeInit == Init => TypeOK
<1> SUFFICES ASSUME Init PROVE TypeOK
  OBVIOUS
<1>1. args \in Seq(Arguments) /\ Len(args) <= MaxArgs /\ args = <<>>
  BY CommandsAssumption DEF Init
<1>2. cmd \in [name : Names \cup {""}, scoped : BOOLEAN, session : {"", Session}]
  BY NothingIsFound DEF Init
<1>3. cmd.name \notin Names /\ pc = "idle"
  BY NothingIsFound DEF Init, Names
<1>4. /\ i \in 1..(Len(args) + 1) /\ looked \subseteq 1..(i - 1)
      /\ got \in [ns : Found(looked), value : Found(looked), follow : BOOLEAN, words : Seq(looked),
             start : 1..(Len(args) + 1)]
  <2>1. got = Nothing /\ looked = {} /\ i = 1 /\ Len(args) = 0
    BY <1>1 DEF Init
  <2>2. Found(looked) = {Empty}
    BY <2>1, NothingLooked
  <2>3. Nothing \in [ns : {Empty}, value : {Empty}, follow : BOOLEAN, words : Seq({}),
                      start : 1..(Len(args) + 1)]
    BY <1>1, IdleIsTyped
  <2>4. QED  BY <2>1, <2>2, <2>3
<1>5. /\ whole \in Seq(Bytes) /\ text \in Seq(Bytes)
      /\ out \in Seq(Seq(Bytes)) /\ sent \in Seq(Seq(Bytes))
  BY DEF Init
<1>6. QED  BY <1>1, <1>2, <1>3, <1>4, <1>5 DEF TypeOK

LEMMA TypeOfParsing ==
  ASSUME TypeOK, Parse
  PROVE  TypeOK'
<1>1. pc = "parse" /\ cmd.name \in Names
  BY ParserSteps
<1>2. args \in Seq(Arguments) /\ i \in 1..(Len(args) + 1)
  BY DEF TypeOK
<1>3. CASE i <= Len(args) /\ Turned
  <2>1. PICK found \in Finds(looked \cup {i}) : Turn(Step, found)
    BY <1>3 DEF Turned
  <2>2. Step = 1 \/ Step = Consumed(i)
    BY DEF Step
  <2>3. QED  BY <1>1, <1>3, <2>1, <2>2, TurnIsTyped
<1>4. ASSUME Finished,
             got' \in [ns : Found(looked), value : Found(looked), follow : BOOLEAN,
                       words : Seq(looked), start : 1..(Len(args) + 1)]
      PROVE  TypeOK'
  <2>1. UNCHANGED <<cmd, args, i, looked, whole, text, out, sent>> /\ pc' = "asked"
    BY <1>4 DEF Finished, replying
  <2>2. Found(looked)' = Found(looked)
    BY <2>1 DEF Found, Value
  <2>3. QED  BY <1>1, <1>4, <2>1, <2>2 DEF TypeOK
<1>5. got \in [ns : Found(looked), value : Found(looked), follow : BOOLEAN,
               words : Seq(looked), start : 1..(Len(args) + 1)]
  BY DEF TypeOK
<1>6. CASE i <= Len(args) /\ Stopped
  <2>1. i + 1 \in 1..(Len(args) + 1)
    BY <1>2, <1>6
  <2>2. [got EXCEPT !.start = i + 1] \in [ns : Found(looked), value : Found(looked),
            follow : BOOLEAN, words : Seq(looked), start : 1..(Len(args) + 1)]
    BY <1>5, <2>1
  <2>3. QED  BY <1>4, <1>5, <1>6, <2>2 DEF Stopped
<1>7. CASE Finished /\ UNCHANGED got
  BY <1>4, <1>5, <1>7
<1>8. QED  BY <1>3, <1>6, <1>7, ParserSteps

LEMMA TypeOfReplies ==
  ASSUME TypeOK, Answer \/ Split \/ SplitEnds \/ SendChunk \/ SendEnds \/ ShowPane \/ Shown
  PROVE  TypeOK'
<1>1. /\ whole \in Seq(Bytes) /\ text \in Seq(Bytes)
      /\ out \in Seq(Seq(Bytes)) /\ sent \in Seq(Seq(Bytes))
  BY DEF TypeOK
<1>2. /\ cmd' = cmd /\ args' = args /\ i' = i /\ got' = got /\ looked' = looked
      /\ pc \notin {"parse", "asked"} /\ pc' \notin {"parse", "asked"}
      /\ pc' \in {"idle", "reply", "split", "send", "done", "pane"}
  BY DEF Answer, Split, SplitEnds, SendChunk, SendEnds, ShowPane, Shown, parsing, TypeOK
<1>3. Found(looked)' = Found(looked)
  BY <1>2 DEF Found, Value
<1>4. ASSUME /\ (whole \in Seq(Bytes))' /\ (text \in Seq(Bytes))'
             /\ (out \in Seq(Seq(Bytes)))' /\ (sent \in Seq(Seq(Bytes)))'
      PROVE  TypeOK'
  BY <1>2, <1>3, <1>4 DEF TypeOK
<1>5. CASE Answer
  <2>1. whole' \in Seq(Bytes)
    BY <1>5, CommandsAssumption DEF Answer
  <2>2. <<whole'>> \in Seq(Seq(Bytes))
    BY <2>1
  <2>3. QED  BY <1>1, <1>4, <1>5, <2>1, <2>2 DEF Answer
<1>6. CASE Split
  <2>1. Len(text) > MaxMessage
    BY <1>6 DEF Split
  <2>2. MaxMessage \in Nat /\ Len(text) \in Nat /\ Cut(text) \in 1..MaxMessage
    BY <1>1, <2>1, CutIsInside, ReplyAssumption
  <2>3. Beginning(text, Cut(text)) \in Seq(Bytes)
    BY <1>1, <2>1, <2>2, PartsOfTexts DEF Beginning
  <2>4. Rest(text) \in Seq(Bytes)
    BY <1>1, <2>1, RestIsBehind
  <2>5. QED  BY <1>1, <1>4, <1>6, <2>3, <2>4 DEF Split
<1>7. CASE SplitEnds
  BY <1>1, <1>4, <1>7 DEF SplitEnds
<1>8. CASE SendChunk
  <2>1. out # <<>> => Tail(out) \in Seq(Seq(Bytes)) /\ Head(out) \in Seq(Bytes)
    BY <1>1, HeadTailProperties
  <2>2. out \in Seq(Seq(Bytes)) /\ sent \in Seq(Seq(Bytes)) /\ <<>> \in Seq(Seq(Bytes))
    BY <1>1
  <2>3. (out \in Seq(Seq(Bytes)))' /\ (sent \in Seq(Seq(Bytes)))'
    <3>1. CASE sent' = Append(sent, Head(out)) /\ out' = Tail(out) /\ out # <<>>
      <4>1. Append(sent, Head(out)) \in Seq(Seq(Bytes))
        BY <2>1, <2>2, <3>1, AppendProperties
      <4>2. QED  BY <2>1, <3>1, <4>1
    <3>2. CASE out' = <<>> /\ sent' = sent
      BY <2>2, <3>2
    <3>3. QED  BY <1>8, <3>1, <3>2 DEF SendChunk
  <2>4. QED  BY <1>1, <1>4, <1>8, <2>3 DEF SendChunk
<1>9. CASE SendEnds
  BY <1>1, <1>4, <1>9 DEF SendEnds, replying
<1>10. CASE ShowPane
  <2>1. whole' \in Seq(Bytes)
    BY <1>10, CommandsAssumption DEF ShowPane
  <2>2. truncateForPane(whole') \in Seq(Bytes) /\ truncateForPaneTail(whole') \in Seq(Bytes)
    BY <2>1, PanesFit
  <2>3. sent' \in Seq(Seq(Bytes))
    <3>1. PICK p \in Seq(Bytes) : sent' = <<p>>
      BY <1>10, <2>2 DEF ShowPane
    <3>2. QED  BY <3>1
  <2>4. QED  BY <1>1, <1>4, <1>10, <2>1, <2>3 DEF ShowPane
<1>11. CASE Shown
  BY <1>1, <1>4, <1>11 DEF Shown
<1>12. QED  BY <1>5, <1>6, <1>7, <1>8, <1>9, <1>10, <1>11

-----------------------------------------------------------------------------
(* The loops: what has been read, and which namespace a line names. *)

Named(n) == {k \in 1..n : args[k][1] = "-n"}
LastNamed(n) == IF Named(n) = {} THEN Empty ELSE Value(Max(Named(n)))

\* All arguments before the index have been looked at or are values, none is both; the
\* command of /exec begins at the index; the namespace of a plain line is the last one named.
ParseInv ==
  /\ pc \notin {"parse", "asked"} => i = 1 /\ got = Nothing /\ looked = {}
  /\ pc = "parse" =>
       /\ looked \cap Values = {} /\ looked \cup Values = 1..(i - 1)
       /\ got.start = IF cmd.name = "exec" THEN i ELSE 1
  /\ pc \in {"parse", "asked"} /\ cmd.name \in {"get", "inline"} /\ PlainLine =>
       got.ns = LastNamed(i - 1)
  /\ pc = "asked" /\ cmd.name \in {"get", "inline"} => i = Len(args) + 1

LEMMA TypeNext ==
  ASSUME TypeOK, ParseInv, Next
  PROVE  TypeOK'
<1>1. CASE Type
  <2>1. PICK a \in Arguments : args' = Append(args, a)
    BY <1>1 DEF Type
  <2>2. /\ pc = "idle" /\ Len(args) < MaxArgs
        /\ UNCHANGED <<pc, cmd, i, got, looked, whole, text, out, sent>>
    BY <1>1 DEF Type, replying
  <2>3. args' \in Seq(Arguments) /\ Len(args') = Len(args) + 1 /\ Len(args) \in Nat
    <3>1. args \in Seq(Arguments)
      BY DEF TypeOK
    <3>2. QED  BY <2>1, <3>1, AppendProperties
  <2>4. looked' = {} /\ i' = 1 /\ got' = Nothing
    BY <2>2 DEF ParseInv
  <2>5. Found(looked)' = {Empty}
    BY <2>4 DEF Found
  <2>6. (got \in [ns : Found(looked), value : Found(looked), follow : BOOLEAN, words : Seq(looked),
                  start : 1..(Len(args) + 1)])'
    BY <2>3, <2>4, <2>5, IdleIsTyped
  <2>7. Len(args') <= MaxArgs /\ i' \in 1..(Len(args') + 1) /\ looked' \subseteq 1..(i' - 1)
    BY <2>2, <2>3, <2>4, CommandsAssumption
  <2>8. QED  BY <2>2, <2>3, <2>6, <2>7 DEF TypeOK
<1>2. CASE Receive
  <2>1. /\ pc = "idle" /\ pc' = "parse"
        /\ UNCHANGED <<args, i, got, looked, whole, text, out, sent>>
    BY <1>2 DEF Receive, replying
  <2>2. PICK name \in Names, scoped \in BOOLEAN, s \in {"", Session} :
          cmd' = [name |-> name, scoped |-> scoped, session |-> s]
    BY <1>2 DEF Receive
  <2>3. Found(looked)' = Found(looked)
    BY <2>1 DEF Found, Value
  <2>4. QED  BY <2>1, <2>2, <2>3 DEF TypeOK
<1>3. CASE Parse
  BY <1>3, TypeOfParsing
<1>4. CASE Answered
  <2>1. /\ pc' = "reply" /\ cmd' = NoCommand /\ args' = <<>> /\ i' = 1 /\ got' = Nothing
        /\ looked' = {} /\ UNCHANGED <<whole, text, out, sent>>
    BY <1>4 DEF Answered, replying
  <2>2. args' \in Seq(Arguments) /\ Len(args') = 0
    BY <2>1
  <2>3. Found(looked)' = {Empty}
    BY <2>1 DEF Found
  <2>4. (got \in [ns : Found(looked), value : Found(looked), follow : BOOLEAN, words : Seq(looked),
                  start : 1..(Len(args) + 1)])'
    BY <2>1, <2>2, <2>3, IdleIsTyped
  <2>5. Len(args') <= MaxArgs /\ i' \in 1..(Len(args') + 1) /\ looked' \subseteq 1..(i' - 1)
    BY <2>1, <2>2, CommandsAssumption
  <2>6. cmd' \in [name : Names \cup {""}, scoped : BOOLEAN, session : {"", Session}]
        /\ cmd'.name \notin Names
    BY <2>1, NothingIsFound DEF Names
  <2>7. QED  BY <2>1, <2>2, <2>4, <2>5, <2>6 DEF TypeOK
<1>5. QED  BY <1>1, <1>2, <1>3, <1>4, TypeOfReplies DEF Next, Reply

\* What a turn adds to the arguments that are values.
LEMMA ValuesGrow ==
  ASSUME TypeOK, i \in 1..Len(args), NEW found, Turn(Step, found)
  PROVE  Values' = Values \cup IF Step = 2 THEN {i + 1} ELSE {}
<1>1. looked' = looked \cup {i} /\ args' = args /\ cmd' = cmd
  BY DEF Turn
<1>2. Takes' = Takes
  BY <1>1 DEF Takes
<1> DEFINE V(k) == args[k][1] \in Takes /\ IsAlone(args[k]) /\ k < Len(args)
<1>3. Values = {k + 1 : k \in {j \in looked : V(j)}}
      /\ Values' = {k + 1 : k \in {j \in looked \cup {i} : V(j)}}
  BY <1>1, <1>2 DEF Values, IsAlone
<1>4. Step = 2 <=> V(i)
  BY ArgumentsAreThere DEF Step
<1> HIDE DEF V
<1>5. QED  BY <1>3, <1>4

LEMMA MaxOfMore ==
  ASSUME NEW T \in SUBSET Nat, NEW n \in Nat, \A x \in T : x < n
  PROVE  Max(T \cup {n}) = n
<1> DEFINE U == T \cup {n}
<1>1. U \in SUBSET Nat /\ U # {} /\ \A x \in U : x <= n
  OBVIOUS
<1>2. Max(U) \in U /\ \A x \in U : x <= Max(U)
  BY <1>1, MaxIsGreatest
<1>3. n \in U
  OBVIOUS
<1> HIDE DEF U
<1>4. Max(U) \in Nat /\ Max(U) <= n
  BY <1>1, <1>2
<1>5. n <= Max(U)
  BY <1>2, <1>3
<1>6. Max(U) = n
  BY <1>4, <1>5
<1>7. QED  BY <1>6 DEF U

\* A value is a word on a plain line, and no flag: past a turn, the last -n is the one the
\* turn was at, or the one before.
LEMMA NamesGrow ==
  ASSUME TypeOK, i \in 1..Len(args), cmd.name \in {"get", "inline"}, PlainLine
  PROVE  LastNamed(i + Step - 1) = IF args[i][1] = "-n" THEN Value(i) ELSE LastNamed(i - 1)
<1>1. /\ i \in Nat /\ Len(args) \in Nat /\ DOMAIN args = 1..Len(args)
      /\ Consumed(i) \in {1, 2} /\ i + Consumed(i) <= Len(args) + 1
      /\ Consumed(i) = 2 <=> IsAlone(args[i]) /\ i < Len(args)
  BY ArgumentsAreThere
<1>2. Takes = {"-n", "-v"}
  BY DEF Takes
<1>3. Step \in {1, 2}
  BY <1>1 DEF Step
<1>4. Step = 2 => args[i + 1][1] # "-n"
  <2> SUFFICES ASSUME Step = 2 PROVE args[i + 1][1] # "-n"
    OBVIOUS
  <2>1. args[i][1] \in {"-n", "-v"} /\ IsAlone(args[i]) /\ i < Len(args)
    BY <1>1, <1>2 DEF Step
  <2>2. Value(i) = args[i + 1]
    BY <2>1 DEF Value
  <2>3. Value(i)[1] = ""
    BY <1>1, <2>1 DEF PlainLine
  <2>4. QED  BY <2>2, <2>3
<1>5. Named(i + Step - 1) = Named(i - 1) \cup IF args[i][1] = "-n" THEN {i} ELSE {}
  <2>1. CASE Step = 1
    BY <1>1, <2>1 DEF Named
  <2>2. CASE Step = 2
    BY <1>1, <1>4, <2>2 DEF Named
  <2>3. QED  BY <1>3, <2>1, <2>2
<1>6. CASE args[i][1] = "-n"
  <2>1. Named(i - 1) \in SUBSET Nat /\ \A x \in Named(i - 1) : x < i
    BY <1>1 DEF Named
  <2>2. Max(Named(i - 1) \cup {i}) = i
    BY <1>1, <2>1, MaxOfMore
  <2>3. QED  BY <1>5, <1>6, <2>2 DEF LastNamed
<1>7. CASE args[i][1] # "-n"
  BY <1>5, <1>7 DEF LastNamed
<1>8. QED  BY <1>6, <1>7

LEMMA TurnKeepsParseInv ==
  ASSUME TypeOK, ParseInv, pc = "parse", i <= Len(args), Turned
  PROVE  ParseInv'
<1>0. i \in 1..(Len(args) + 1)
  BY DEF TypeOK
<1>1. i \in 1..Len(args) /\ Len(args) \in Nat
  <2>1. args \in Seq(Arguments)
    BY DEF TypeOK
  <2>2. Len(args) \in Nat
    BY <2>1
  <2>3. QED  BY <1>0, <2>2
<1>2. PICK found \in Finds(looked \cup {i}) :
        /\ Turn(Step, found)
        /\ found.start = IF cmd.name = "exec" THEN i + Step ELSE got.start
        /\ cmd.name \in {"get", "inline"} /\ PlainLine =>
             found.ns = IF args[i][1] = "-n" THEN Value(i) ELSE got.ns
  BY DEF Turned
<1>3. /\ pc' = "parse" /\ args' = args /\ cmd' = cmd /\ i' = i + Step
      /\ looked' = looked \cup {i} /\ got' = found
  BY <1>2 DEF Turn
<1>4. Step \in {1, 2}
  BY <1>1, ArgumentsAreThere DEF Step
<1>5. Values' = Values \cup IF Step = 2 THEN {i + 1} ELSE {}
  BY <1>1, <1>2, ValuesGrow
<1>6. /\ looked \cap Values = {} /\ looked \cup Values = 1..(i - 1)
      /\ got.start = IF cmd.name = "exec" THEN i ELSE 1
  BY DEF ParseInv
<1>7. looked' \cap Values' = {}
  BY <1>1, <1>3, <1>4, <1>5, <1>6
<1>8. looked' \cup Values' = 1..(i' - 1)
  BY <1>1, <1>3, <1>4, <1>5, <1>6
<1>9. got'.start = IF cmd'.name = "exec" THEN i' ELSE 1
  BY <1>2, <1>3, <1>6
<1>10. ASSUME cmd.name \in {"get", "inline"}, PlainLine
       PROVE  found.ns = LastNamed(i + Step - 1)
  <2>1. got.ns = LastNamed(i - 1)
    BY <1>10 DEF ParseInv
  <2>2. QED  BY <1>1, <1>2, <1>10, <2>1, NamesGrow
<1>11. PlainLine' = PlainLine /\ LastNamed(i - 1)' = LastNamed(i + Step - 1)
  <2>1. PlainLine' = PlainLine
    BY <1>3 DEF PlainLine, Value
  <2>2. Named(i - 1)' = {k \in 1..(i' - 1) : args'[k][1] = "-n"}
    BY Zenon DEF Named
  <2>3. Named(i - 1)' = Named(i + Step - 1)
    <3>1. Named(i - 1)' = Named(i' - 1)
      BY <1>3, <2>2 DEF Named
    <3>2. i' - 1 = i + Step - 1
      BY <1>1, <1>3, <1>4
    <3>3. QED  BY <3>1, <3>2
  <2>4. LastNamed(i - 1)' = IF Named(i - 1)' = {} THEN Empty ELSE Value(Max(Named(i - 1)'))
    BY <1>3 DEF LastNamed, Value
  <2>5. QED  BY <2>1, <2>3, <2>4 DEF LastNamed
<1>12. (pc \in {"parse", "asked"} /\ cmd.name \in {"get", "inline"} /\ PlainLine =>
          got.ns = LastNamed(i - 1))'
  BY <1>3, <1>10, <1>11
<1>13. QED  BY <1>3, <1>7, <1>8, <1>9, <1>12 DEF ParseInv

\* The arguments a loop has ended behind.
LEMMA EndKeepsParseInv ==
  ASSUME TypeOK, ParseInv, pc = "parse",
         \/ i <= Len(args) /\ cmd.name = "exec" /\ Stopped
         \/ cmd.name \in {"describe", "watch"} /\ Finished /\ UNCHANGED got
         \/ i > Len(args) /\ cmd.name \notin {"describe", "watch"} /\ Finished /\ UNCHANGED got
  PROVE  ParseInv' /\ EveryArgumentOnce'
<1>1. /\ args \in Seq(Arguments) /\ i \in 1..(Len(args) + 1) /\ Len(args) \in Nat
      /\ got \in [ns : Found(looked), value : Found(looked), follow : BOOLEAN, words : Seq(looked),
                  start : 1..(Len(args) + 1)]
  <2>1. /\ args \in Seq(Arguments) /\ i \in 1..(Len(args) + 1)
        /\ got \in [ns : Found(looked), value : Found(looked), follow : BOOLEAN, words : Seq(looked),
                    start : 1..(Len(args) + 1)]
    BY DEF TypeOK
  <2>2. Len(args) \in Nat
    BY <2>1
  <2>3. QED  BY <2>1, <2>2
<1>2. pc' = "asked" /\ cmd' = cmd /\ args' = args /\ i' = i /\ looked' = looked
  BY DEF Stopped, Finished
<1>3. /\ looked \cap Values = {} /\ looked \cup Values = 1..(i - 1)
      /\ got.start = IF cmd.name = "exec" THEN i ELSE 1
  BY DEF ParseInv
<1>4. Values' = Values
  BY <1>2 DEF Values, Takes, IsAlone
<1>5. ParseInv'
  <2>1. cmd.name \in {"get", "inline"} => got' = got /\ i = Len(args) + 1
    BY <1>1
  <2>2. PlainLine' = PlainLine /\ LastNamed(i - 1)' = LastNamed(i - 1)
    BY <1>2 DEF PlainLine, LastNamed, Named, Value
  <2>3. QED  BY <1>2, <2>1, <2>2 DEF ParseInv
<1>6. CASE i <= Len(args) /\ cmd.name = "exec" /\ Stopped /\ args[i] = Alone("--")
  <2>1. got'.start = i + 1
    BY <1>1, <1>6 DEF Stopped, Alone
  <2>2. Command' = (i + 1)..Len(args)
    BY <1>2, <1>6, <2>1 DEF Command
  <2>3. Separator' = {i}
    <3>1. Separator' = {k \in {i} \cap DOMAIN args : args[k] = Alone("--") /\ k \notin looked \cup Values}
      <4>1. Separator' = {k \in {got'.start - 1} \cap DOMAIN args :
                            args[k] = Alone("--") /\ k \notin looked \cup Values}
        BY <1>2, <1>4 DEF Separator
      <4>2. got'.start - 1 = i
        BY <1>1, <2>1
      <4>3. QED  BY <4>1, <4>2
    <3>2. i \in DOMAIN args /\ i \notin 1..(i - 1)
      BY <1>1, <1>6
    <3>3. QED  BY <1>3, <1>6, <3>1, <3>2
  <2>4. /\ (looked \cup Values) \cap (Command' \cup Separator') = {}
        /\ looked \cup Values \cup Command' \cup Separator' = DOMAIN args
    <3>1. 1..(i - 1) \cap ((i + 1)..Len(args) \cup {i}) = {}
      BY <1>1
    <3>2. 1..(i - 1) \cup (i + 1)..Len(args) \cup {i} = 1..Len(args)
      BY <1>1, <1>6
    <3>3. DOMAIN args = 1..Len(args)
      BY <1>1
    <3>4. QED  BY <1>3, <2>2, <2>3, <3>1, <3>2, <3>3
  <2>5. QED  BY <1>2, <1>3, <1>4, <1>5, <2>3, <2>4 DEF EveryArgumentOnce
<1>7. CASE i <= Len(args) /\ cmd.name = "exec" /\ Stopped /\ args[i] # Alone("--")
  <2>1. got'.start = i /\ args[i][1] \notin {"-n", "-v"}
    BY <1>3, <1>7 DEF Stopped
  <2>2. Command' = i..Len(args)
    BY <1>2, <1>7, <2>1 DEF Command
  <2>3. Separator' = {}
    <3>1. Separator' = {k \in {i - 1} \cap DOMAIN args : args[k] = Alone("--") /\ k \notin looked \cup Values}
      BY <1>2, <1>4, <2>1 DEF Separator
    <3>2. \A k \in {i - 1} \cap DOMAIN args : k \in 1..(i - 1)
      BY <1>1
    <3>3. QED  BY <1>3, <3>1, <3>2
  <2>4. /\ (looked \cup Values) \cap (Command' \cup Separator') = {}
        /\ looked \cup Values \cup Command' \cup Separator' = DOMAIN args
    <3>1. 1..(i - 1) \cap i..Len(args) = {}
      BY <1>1
    <3>2. 1..(i - 1) \cup i..Len(args) = 1..Len(args)
      BY <1>1, <1>7
    <3>3. DOMAIN args = 1..Len(args)
      BY <1>1
    <3>4. QED  BY <1>3, <2>2, <2>3, <3>1, <3>2, <3>3
  <2>5. QED  BY <1>2, <1>3, <1>4, <1>5, <2>1, <2>4 DEF EveryArgumentOnce
<1>8. CASE cmd.name \in {"describe", "watch"}
  BY <1>2, <1>5, <1>8 DEF EveryArgumentOnce
<1>9. CASE i > Len(args) /\ UNCHANGED got
  <2>1. i = Len(args) + 1 /\ looked \cup Values = DOMAIN args
    <3>1. i = Len(args) + 1
      BY <1>1, <1>9
    <3>2. i - 1 = Len(args) /\ DOMAIN args = 1..Len(args)
      BY <1>1, <3>1
    <3>3. QED  BY <1>3, <3>1, <3>2
  <2>2. Command' = {}
    <3>1. cmd.name = "exec" => got'.start = Len(args) + 1
      BY <1>3, <1>9, <2>1
    <3>2. QED  BY <1>1, <1>2, <3>1 DEF Command
  <2>3. Separator' = {}
    <3>1. \A k \in DOMAIN args : k \in looked \cup Values
      BY <2>1
    <3>2. QED  BY <1>2, <1>4, <3>1 DEF Separator
  <2>4. QED  BY <1>2, <1>3, <1>4, <1>5, <2>1, <2>2, <2>3 DEF EveryArgumentOnce
<1>10. QED  BY <1>6, <1>7, <1>8, <1>9

LEMMA ParseInvNext ==
  ASSUME TypeOK, ParseInv, EveryArgumentOnce, Next
  PROVE  ParseInv' /\ EveryArgumentOnce'
<1>1. CASE Type
  <2>1. pc' = "idle" /\ pc = "idle" /\ i' = i /\ got' = got /\ looked' = looked
    BY <1>1 DEF Type
  <2>2. QED  BY <2>1 DEF ParseInv, EveryArgumentOnce
<1>2. CASE Receive
  <2>1. pc = "idle" /\ pc' = "parse" /\ UNCHANGED <<args, i, got, looked>>
    BY <1>2 DEF Receive
  <2>2. i' = 1 /\ got' = Nothing /\ looked' = {}
    BY <2>1 DEF ParseInv
  <2>3. Values' = {}
    BY <2>2 DEF Values
  <2>4. Nothing.start = 1 /\ Nothing.ns = Empty
    BY NothingIsFound
  <2>5. LastNamed(i - 1)' = Empty
    <3>1. Named(i - 1)' = {}
      BY <2>2 DEF Named
    <3>2. QED  BY <3>1 DEF LastNamed
  <2>6. QED  BY <2>1, <2>2, <2>3, <2>4, <2>5 DEF ParseInv, EveryArgumentOnce
<1>3. CASE Parse
  <2>1. pc = "parse"
    BY <1>3, ParserSteps
  <2>2. CASE i <= Len(args) /\ Turned
    <3>1. ParseInv'
      BY <2>1, <2>2, TurnKeepsParseInv
    <3>2. pc' = "parse"
      BY <2>1, <2>2 DEF Turned, Turn
    <3>3. QED  BY <3>1, <3>2 DEF EveryArgumentOnce
  <2>3. CASE ~(i <= Len(args) /\ Turned)
    BY <1>3, <2>1, <2>3, ParserSteps, EndKeepsParseInv
  <2>4. QED  BY <2>2, <2>3
<1>4. CASE Answered
  BY <1>4 DEF Answered, ParseInv, EveryArgumentOnce
<1>5. CASE Answer \/ Split \/ SplitEnds \/ SendChunk \/ SendEnds \/ ShowPane \/ Shown
  <2>1. /\ i' = i /\ got' = got /\ looked' = looked
        /\ pc \notin {"parse", "asked"} /\ pc' \notin {"parse", "asked"}
    BY <1>5 DEF Answer, Split, SplitEnds, SendChunk, SendEnds, ShowPane, Shown, parsing
  <2>2. QED  BY <2>1 DEF ParseInv, EveryArgumentOnce
<1>6. QED  BY <1>1, <1>2, <1>3, <1>4, <1>5 DEF Next, Reply

LEMMA StutterKeepsParsing ==
  ASSUME TypeOK, ParseInv, EveryArgumentOnce, UNCHANGED vars
  PROVE  TypeOK' /\ ParseInv' /\ EveryArgumentOnce'
<1>1. UNCHANGED <<pc, cmd, args, i, got, looked, whole, text, out, sent>>
  BY DEF vars, parsing, replying
<1>2. Found(looked)' = Found(looked)
  BY <1>1 DEF Found, Value
<1>3. TypeOK'
  BY <1>1, <1>2 DEF TypeOK
<1>4. Values' = Values /\ Separator' = Separator /\ Command' = Command
  <2>1. Values' = Values
    BY <1>1 DEF Values, Takes, IsAlone
  <2>2. QED  BY <1>1, <2>1 DEF Separator, Command
<1>5. EveryArgumentOnce'
  BY <1>1, <1>4 DEF EveryArgumentOnce
<1>6. PlainLine' = PlainLine /\ LastNamed(i - 1)' = LastNamed(i - 1)
  BY <1>1 DEF PlainLine, LastNamed, Named, Value
<1>7. ParseInv'
  BY <1>1, <1>4, <1>6 DEF ParseInv
<1>8. QED  BY <1>3, <1>5, <1>7

\* The loops of the parsers keep their index and what they find within bounds, and read each
\* argument once (the inductive invariant all statements about arguments follow from).
THEOREM CommandsParse == Spec => [](TypeOK /\ ParseInv /\ EveryArgumentOnce)
<1>1. Init => TypeOK /\ ParseInv /\ EveryArgumentOnce
  BY TypeInit DEF Init, ParseInv, EveryArgumentOnce
<1>2. TypeOK /\ ParseInv /\ EveryArgumentOnce /\ [Next]_vars
        => (TypeOK /\ ParseInv /\ EveryArgumentOnce)'
  BY TypeNext, ParseInvNext, StutterKeepsParsing
<1>3. QED  BY <1>1, <1>2, PTL DEF Spec

\* Every state is typed: no parser stands more than one behind its arguments.
THEOREM CommandsTypeCorrect == Spec => []TypeOK
BY CommandsParse, PTL

\* However flags are spelt, every argument is read as a flag or a word, as a value, or as part
\* of the command of /exec, and as one of these only.
THEOREM CommandsEveryArgumentOnce == Spec => []EveryArgumentOnce
BY CommandsParse, PTL

\* On a clear line getNamespace finds the arguments that name a namespace.
LEMMA NamespacesOfClearLines ==
  ASSUME TypeOK, Clear, NEW first \in Nat \ {0},
         \A k \in DOMAIN args : args[k][1] = "-n" => first <= k
  PROVE  NamespacesFrom(first) = {k \in DOMAIN args : args[k][1] = "-n"}
<1>1. args \in Seq(Arguments)
  BY DEF TypeOK
<1>2. Len(args) \in Nat /\ DOMAIN args = 1..Len(args)
  BY <1>1
<1>3. ASSUME NEW k \in DOMAIN args, args[k][1] = "-n", IsAlone(args[k])
      PROVE  k < Len(args)
  <2>1. Value(k) # Empty
    BY <1>3 DEF Clear
  <2>2. QED  BY <1>3, <2>1 DEF Value
<1>4. \A k \in DOMAIN args : args[k][1] = "-n" => k \in first..Len(args)
  BY <1>2
<1>5. first..Len(args) \subseteq DOMAIN args
  BY <1>2
<1>6. QED  BY <1>3, <1>4, <1>5 DEF NamespacesFrom

LEMMA ClearIsPlain ==
  ASSUME Clear
  PROVE  PlainLine
BY DEF Clear, PlainLine, Range

LEMMA NamesAgree ==
  ASSUME TypeOK, ParseInv
  PROVE  NamespaceAsTyped
<1> DEFINE typed == TypedNamespaces
<1> SUFFICES ASSUME pc = "asked", Clear, \A j, k \in typed : j = k
             PROVE  /\ ~cmd.scoped => \A k \in typed : Asked = Value(k)
                    /\ ~cmd.scoped /\ cmd.name # "inline" /\ typed = {} => Asked = OfSession
                    /\ cmd.scoped /\ cmd.name = "describe" => Asked = Empty
                    /\ cmd.scoped /\ cmd.name = "get" /\ typed = {} => Asked = Empty
  BY DEF NamespaceAsTyped
<1>1. cmd.name \in Names /\ args \in Seq(Arguments)
  BY DEF TypeOK
<1>2. Len(args) \in Nat /\ DOMAIN args = 1..Len(args)
  BY <1>1
<1>3. NamespacesFrom(1) = typed
  <2>1. \A k \in DOMAIN args : args[k][1] = "-n" => 1 <= k
    BY <1>2
  <2>2. QED  BY <2>1, NamespacesOfClearLines DEF TypedNamespaces
<1>4. getNamespace(1) = IF typed = {} THEN OfSession ELSE Value(Min(typed))
  BY <1>3 DEF getNamespace
<1>9. ASSUME NEW k \in typed  PROVE Min(typed) = k /\ Max(typed) = k
  <2>1. typed \in SUBSET Nat /\ \A x \in typed : x <= Len(args)
    BY <1>2 DEF TypedNamespaces
  <2>2. Min(typed) \in typed /\ Max(typed) \in typed
    BY <1>2, <1>9, <2>1, MinIsLeast, MaxIsGreatest
  <2>3. QED  BY <1>9, <2>2
<1>5. CASE cmd.name = "describe"
  <2>1. args[1][1] = ""
    BY <1>5 DEF Clear
  <2>2. NamespacesFrom(2) = typed
    <3>1. \A k \in DOMAIN args : args[k][1] = "-n" => 2 <= k
      <4>1. \A k \in DOMAIN args : args[k][1] = "-n" => k # 1
        BY <2>1
      <4>2. \A k \in DOMAIN args : k # 1 => 2 <= k
        BY <1>2
      <4>3. QED  BY <4>1, <4>2
    <3>2. QED  BY <3>1, NamespacesOfClearLines DEF TypedNamespaces
  <2>3. getNamespace(2) = IF typed = {} THEN OfSession ELSE Value(Min(typed))
    BY <2>2 DEF getNamespace
  <2>4. Asked = IF cmd.scoped THEN Empty ELSE getNamespace(2)
    BY <1>5 DEF Asked, AskedByDescribe
  <2> HIDE DEF typed
  <2>5. QED  BY <1>5, <1>9, <2>3, <2>4
<1>6. CASE cmd.name \in {"logs", "exec", "watch"}
  <2>1. Asked = getNamespace(1)
    BY <1>6 DEF Asked, AskedByLogs, AskedByExec, AskedByWatch
  <2> HIDE DEF typed
  <2>2. QED  BY <1>4, <1>6, <1>9, <2>1
<1>7. CASE cmd.name \in {"get", "inline"}
  <2>1. i = Len(args) + 1 /\ got.ns = LastNamed(i - 1)
    BY <1>7, ClearIsPlain DEF ParseInv
  <2>2. i - 1 = Len(args)
    BY <1>2, <2>1
  <2>3. Named(i - 1) = typed
    BY <1>2, <2>2 DEF Named, TypedNamespaces
  <2>4. got.ns = IF typed = {} THEN Empty ELSE Value(Max(typed))
    BY <2>1, <2>3 DEF LastNamed
  <2>5. typed # {} => Max(typed) \in typed
    <3>1. typed \in SUBSET Nat /\ \A x \in typed : x <= Len(args)
      BY <1>2 DEF TypedNamespaces
    <3>2. QED  BY <1>2, <3>1, MaxIsGreatest
  <2>6. typed # {} => got.ns # Empty
    BY <2>4, <2>5 DEF Clear, TypedNamespaces
  <2>7. cmd.name = "get" => Asked = IF got.ns = Empty /\ ~cmd.scoped THEN getNamespace(1) ELSE got.ns
    BY DEF Asked, AskedByGet
  <2>8. cmd.name = "inline" => Asked = got.ns
    BY DEF Asked, AskedByInline
  <2> HIDE DEF typed
  <2>9. CASE cmd.name = "get"
    BY <1>4, <1>9, <2>4, <2>6, <2>7, <2>9
  <2>10. CASE cmd.name = "inline"
    BY <1>9, <2>4, <2>8, <2>10
  <2>11. QED  BY <1>7, <2>9, <2>10
<1>8. QED  BY <1>1, <1>5, <1>6, <1>7 DEF Names

\* The namespace a handler asks for is the one that was typed, else the session's or the
\* default, and none where the kind has none, though the parsers and getNamespace read the
\* line independently (base.go, get.go, describe.go).
THEOREM CommandsNamespaceAsTyped == Spec => []NamespaceAsTyped
<1>1. TypeOK /\ ParseInv => NamespaceAsTyped
  BY NamesAgree
<1>2. QED  BY <1>1, CommandsParse, PTL

-----------------------------------------------------------------------------
(* Fences. *)

TicksAt(t, k) == t[k] = Tick /\ t[k + 1] = Tick /\ t[k + 2] = Tick

LEMMA FencesAreTicks ==
  ASSUME NEW t \in Seq(Bytes)
  PROVE  FencesAt(t) = {k \in 1..(Len(t) - 2) : TicksAt(t, k)}
<1>1. Len(t) \in Nat
  OBVIOUS
<1>2. ASSUME NEW k \in 1..(Len(t) - 2)
      PROVE  SubSeq(t, k, k + 2) = Fence <=> TicksAt(t, k)
  <2> DEFINE u == SubSeq(t, k, k + 2)
  <2>1. k \in Nat /\ k >= 1 /\ k + 2 \in Nat /\ k + 2 <= Len(t)
    BY <1>1, <1>2
  <2>2. /\ u \in Seq(Bytes) /\ Len(u) = IF k <= k + 2 THEN k + 2 - k + 1 ELSE 0
        /\ \A j \in 1..(k + 2 - k + 1) : u[j] = t[k + j - 1]
    BY <2>1, PartsOfTexts
  <2>3. Len(u) = 3 /\ u[1] = t[k] /\ u[2] = t[k + 1] /\ u[3] = t[k + 2]
    BY <2>1, <2>2
  <2>4. Fence \in Seq(Bytes) /\ Len(Fence) = 3
    BY FixedTexts
  <2>5. Fence[1] = Tick /\ Fence[2] = Tick /\ Fence[3] = Tick
    BY DEF Fence
  <2> HIDE DEF u
  <2>6. ASSUME TicksAt(t, k) PROVE u = Fence
    <3>1. \A j \in 1..Len(u) : u[j] = Fence[j]
      BY <2>3, <2>5, <2>6 DEF TicksAt
    <3>2. u \in Seq(Bytes)
      BY <2>2
    <3>3. Len(u) = Len(Fence)
      BY <2>3, <2>4
    <3>4. QED  BY <2>4, <3>1, <3>2, <3>3, SeqEqual
  <2>7. u = Fence => TicksAt(t, k)
    BY <2>3, <2>5 DEF TicksAt
  <2>8. QED  BY <2>6, <2>7 DEF u
<1>3. QED  BY <1>2 DEF FencesAt

\* No fence lies across a line end.
LEMMA FencesTogether ==
  ASSUME NEW s \in Seq(Bytes), NEW t \in Seq(Bytes), s # <<>>, t # <<>>,
         s[Len(s)] = Newline \/ t[1] = Newline
  PROVE  FencesAt(s \o t) = FencesAt(s) \cup {Len(s) + k : k \in FencesAt(t)}
<1> DEFINE u == s \o t
<1>1. Len(s) \in Nat /\ Len(t) \in Nat /\ Len(s) > 0 /\ Len(t) > 0
  OBVIOUS
<1>2. /\ u \in Seq(Bytes) /\ Len(u) = Len(s) + Len(t)
      /\ \A k \in 1..Len(s) : u[k] = s[k]
      /\ \A k \in 1..Len(t) : u[Len(s) + k] = t[k]
  BY TextsTogether
<1>3. /\ FencesAt(u) = {k \in 1..(Len(u) - 2) : TicksAt(u, k)}
      /\ FencesAt(s) = {k \in 1..(Len(s) - 2) : TicksAt(s, k)}
      /\ FencesAt(t) = {k \in 1..(Len(t) - 2) : TicksAt(t, k)}
  BY <1>2, FencesAreTicks
<1>4. u[Len(s)] = s[Len(s)] /\ u[Len(s) + 1] = t[1]
  BY <1>1, <1>2
<1> HIDE DEF u
<1>5. u[Len(s)] # Tick \/ u[Len(s) + 1] # Tick
  BY <1>4 DEF Newline, Tick
<1>6. ASSUME NEW k \in 1..(Len(s) - 2)
      PROVE  k \in 1..(Len(u) - 2) /\ (TicksAt(u, k) <=> TicksAt(s, k))
  <2>1. k \in 1..Len(s) /\ k + 1 \in 1..Len(s) /\ k + 2 \in 1..Len(s)
    BY <1>1
  <2>2. k \in 1..(Len(u) - 2)
    BY <1>1, <1>2
  <2>3. QED  BY <1>2, <2>1, <2>2 DEF TicksAt
<1>7. ASSUME NEW k \in 1..(Len(t) - 2)
      PROVE  Len(s) + k \in 1..(Len(u) - 2) /\ (TicksAt(u, Len(s) + k) <=> TicksAt(t, k))
  <2>1. k \in 1..Len(t) /\ k + 1 \in 1..Len(t) /\ k + 2 \in 1..Len(t)
    BY <1>1
  <2>2. Len(s) + k \in 1..(Len(u) - 2)
    BY <1>1, <1>2
  <2>3. u[Len(s) + k] = t[k] /\ u[Len(s) + k + 1] = t[k + 1] /\ u[Len(s) + k + 2] = t[k + 2]
    <3>1. u[Len(s) + k] = t[k] /\ u[Len(s) + (k + 1)] = t[k + 1] /\ u[Len(s) + (k + 2)] = t[k + 2]
      BY <1>2, <2>1
    <3>2. Len(s) + (k + 1) = Len(s) + k + 1 /\ Len(s) + (k + 2) = Len(s) + k + 2
      BY <1>1
    <3>3. QED  BY <3>1, <3>2
  <2>4. QED  BY <2>2, <2>3 DEF TicksAt
<1>8. ASSUME NEW k \in 1..(Len(u) - 2), TicksAt(u, k)
      PROVE  k \in 1..(Len(s) - 2) \/ \E j \in 1..(Len(t) - 2) : k = Len(s) + j
  <2>1. CASE k \in 1..(Len(s) - 2)
    BY <2>1
  <2>2. CASE k > Len(s)
    <3>1. k - Len(s) \in 1..(Len(t) - 2) /\ k = Len(s) + (k - Len(s))
      BY <1>1, <1>2, <2>2
    <3>2. QED  BY <3>1
  <2>3. CASE k = Len(s)
    BY <1>5, <1>8, <2>3 DEF TicksAt
  <2>4. CASE k = Len(s) - 1
    <3>1. k + 1 = Len(s) /\ k + 2 = Len(s) + 1
      BY <1>1, <2>4
    <3>2. QED  BY <1>5, <1>8, <3>1 DEF TicksAt
  <2>5. QED  BY <1>1, <1>2, <2>1, <2>2, <2>3, <2>4
<1>9. FencesAt(u) \subseteq FencesAt(s) \cup {Len(s) + k : k \in FencesAt(t)}
  BY <1>3, <1>6, <1>7, <1>8
<1>10. FencesAt(s) \subseteq FencesAt(u)
  BY <1>3, <1>6
<1>11. \A k \in FencesAt(t) : Len(s) + k \in FencesAt(u)
  BY <1>3, <1>7
<1>12. QED  BY <1>9, <1>10, <1>11 DEF u

LEMMA FencesOfFixed ==
  /\ FencesAt(<<Newline>>) = {} /\ FencesAt(TailNote) = {}
  /\ FencesAt(Opening) = {1} /\ Opening[4] = Newline
  /\ FencesAt(Closing) = {2} /\ Closing[1] = Newline
<1>1. /\ TailNote \in Seq(Bytes) /\ Len(TailNote) = 2
      /\ Fence \in Seq(Bytes) /\ Len(Fence) = 3
      /\ <<Newline>> \in Seq(Bytes) /\ Len(<<Newline>>) = 1
  BY FixedTexts
<1> DEFINE N == <<Newline>>
<1>2. N[1] = Newline /\ N[Len(N)] = Newline /\ N # <<>> /\ Fence # <<>>
  <2>1. N[1] = Newline
    OBVIOUS
  <2>2. N[Len(N)] = Newline
    BY <1>1, <2>1
  <2>3. \A t : Len(t) \in {1, 3} => t # <<>>
    OBVIOUS
  <2>4. QED  BY <1>1, <2>1, <2>2, <2>3
<1>3. FencesAt(N) = {} /\ FencesAt(TailNote) = {}
  <2>1. FencesAt(N) = {k \in 1..(Len(N) - 2) : TicksAt(N, k)}
        /\ FencesAt(TailNote) = {k \in 1..(Len(TailNote) - 2) : TicksAt(TailNote, k)}
    BY <1>1, FencesAreTicks
  <2>2. 1..(Len(N) - 2) = {} /\ 1..(Len(TailNote) - 2) = {}
    BY <1>1
  <2>3. QED  BY <2>1, <2>2
<1>4. FencesAt(Fence) = {1}
  <2>1. FencesAt(Fence) = {k \in 1..(Len(Fence) - 2) : TicksAt(Fence, k)}
    BY <1>1, FencesAreTicks
  <2>2. 1..(Len(Fence) - 2) = {1}
    BY <1>1
  <2>3. TicksAt(Fence, 1)
    BY DEF TicksAt, Fence
  <2>4. QED  BY <2>1, <2>2, <2>3
<1> HIDE DEF N
<1>5. N \in Seq(Bytes) /\ Len(N) = 1
  BY <1>1 DEF N
<1>6. FencesAt(Fence \o N) = FencesAt(Fence) \cup {Len(Fence) + k : k \in FencesAt(N)}
  BY <1>1, <1>2, <1>5, FencesTogether
<1>7. FencesAt(Fence \o N) = {1} /\ (Fence \o N)[4] = Newline
  <2>1. \A k \in 1..Len(N) : (Fence \o N)[Len(Fence) + k] = N[k]
    BY <1>1, <1>5, TextsTogether
  <2>2. (Fence \o N)[4] = N[1]
    <3>1. 1 \in 1..Len(N) /\ Len(Fence) + 1 = 4
      BY <1>1, <1>5
    <3>2. (Fence \o N)[Len(Fence) + 1] = N[1]
      BY <2>1, <3>1
    <3>3. QED  BY <3>1, <3>2
  <2>3. QED  BY <1>1, <1>2, <1>3, <1>4, <1>6, <2>2
<1>8. FencesAt(N \o Fence) = FencesAt(N) \cup {Len(N) + k : k \in FencesAt(Fence)}
  BY <1>1, <1>2, <1>5, FencesTogether
<1>9. FencesAt(N \o Fence) = {2}
  BY <1>3, <1>4, <1>5, <1>8
<1>10. N \o Fence \in Seq(Bytes) /\ Len(N \o Fence) = 4 /\ (N \o Fence)[1] = Newline
  <2>1. /\ N \o Fence \in Seq(Bytes) /\ Len(N \o Fence) = Len(N) + Len(Fence)
        /\ \A k \in 1..Len(N) : (N \o Fence)[k] = N[k]
    BY <1>1, <1>5, TextsTogether
  <2>2. QED  BY <1>1, <1>2, <1>5, <2>1
<1> DEFINE M == N \o Fence
<1>11. M # <<>>
  BY <1>10
<1> HIDE DEF M
<1>12. FencesAt(M \o N) = FencesAt(M) \cup {Len(M) + k : k \in FencesAt(N)}
  BY <1>2, <1>5, <1>10, <1>11, FencesTogether DEF M
<1>13. FencesAt(M \o N) = {2} /\ (M \o N)[1] = Newline
  <2>1. \A k \in 1..Len(M) : (M \o N)[k] = M[k]
    BY <1>5, <1>10, TextsTogether DEF M
  <2>2. M[1] = Newline /\ Len(M) = 4
    BY <1>10 DEF M
  <2>3. QED  BY <1>3, <1>9, <1>12, <2>1, <2>2 DEF M
<1>14. Opening = Fence \o N /\ Closing = M \o N
  BY DEF Opening, Closing, M, N
<1>15. QED  BY <1>3, <1>7, <1>13, <1>14 DEF N

LEMMA TwoFences ==
  ASSUME NEW x, NEW y, x # y
  PROVE  Cardinality({x, y}) = 2
<1>1. IsFiniteSet({x}) /\ Cardinality({x}) = 1
  BY FS_Singleton
<1>2. Cardinality({x} \cup {y}) = Cardinality({x}) + 1
  BY <1>1, FS_AddElement
<1>3. {x} \cup {y} = {x, y}
  OBVIOUS
<1>4. QED  BY <1>1, <1>2, <1>3

LEMMA WithinMore ==
  ASSUME NEW e \in Seq(Bytes), NEW s \in Seq(Bytes), NEW t \in Seq(Bytes)
  PROVE  /\ Within(e, s) => Within(e, s \o t)
         /\ Within(e, t) => Within(e, s \o t)
<1> DEFINE u == s \o t
<1>1. Len(e) \in Nat /\ Len(s) \in Nat /\ Len(t) \in Nat
  OBVIOUS
<1>2. /\ u \in Seq(Bytes) /\ Len(u) = Len(s) + Len(t)
      /\ \A k \in 1..Len(s) : u[k] = s[k]
      /\ \A k \in 1..Len(t) : u[Len(s) + k] = t[k]
  BY TextsTogether
<1> HIDE DEF u
<1>3. ASSUME NEW w \in Seq(Bytes), NEW k \in 1..(Len(w) - Len(e) + 1)
      PROVE  SubSeq(w, k, k + Len(e) - 1) = e <=> \A j \in 1..Len(e) : w[k + j - 1] = e[j]
  <2> DEFINE b == k + Len(e) - 1
             v == SubSeq(w, k, b)
  <2>1. k \in Nat /\ k >= 1 /\ b \in Nat /\ b <= Len(w) /\ b - k + 1 = Len(e)
    BY <1>1, <1>3
  <2> HIDE DEF b
  <2>2. /\ v \in Seq(Bytes) /\ Len(v) = IF k <= b THEN b - k + 1 ELSE 0
        /\ \A j \in 1..(b - k + 1) : v[j] = w[k + j - 1]
    BY <2>1, PartsOfTexts
  <2>3. Len(v) = Len(e)
    BY <1>1, <2>1, <2>2
  <2> HIDE DEF v
  <2>4. ASSUME \A j \in 1..Len(e) : w[k + j - 1] = e[j]  PROVE v = e
    <3>1. \A j \in 1..Len(v) : v[j] = e[j]
      BY <2>1, <2>2, <2>3, <2>4
    <3>2. v \in Seq(Bytes)
      BY <2>2
    <3>3. QED  BY <2>3, <3>1, <3>2, SeqEqual
  <2>5. v = e => \A j \in 1..Len(e) : w[k + j - 1] = e[j]
    BY <2>1, <2>2
  <2>6. QED  BY <2>4, <2>5 DEF v, b
<1>4. ASSUME Within(e, s)  PROVE Within(e, u)
  <2>1. PICK k \in 1..(Len(s) - Len(e) + 1) : SubSeq(s, k, k + Len(e) - 1) = e
    BY <1>4 DEF Within
  <2>2. \A j \in 1..Len(e) : s[k + j - 1] = e[j]
    BY <1>3, <2>1
  <2>3. k \in 1..(Len(u) - Len(e) + 1)
    BY <1>1, <1>2
  <2>4. \A j \in 1..Len(e) : k + j - 1 \in 1..Len(s)
    BY <1>1
  <2>5. \A j \in 1..Len(e) : u[k + j - 1] = e[j]
    BY <1>2, <2>2, <2>4
  <2>6. QED  BY <1>2, <1>3, <2>3, <2>5 DEF Within
<1>5. ASSUME Within(e, t)  PROVE Within(e, u)
  <2>1. PICK k \in 1..(Len(t) - Len(e) + 1) : SubSeq(t, k, k + Len(e) - 1) = e
    BY <1>5 DEF Within
  <2>2. \A j \in 1..Len(e) : t[k + j - 1] = e[j]
    BY <1>3, <2>1
  <2>3. Len(s) + k \in 1..(Len(u) - Len(e) + 1)
    BY <1>1, <1>2
  <2>4. \A j \in 1..Len(e) : k + j - 1 \in 1..Len(t) /\ Len(s) + k + j - 1 = Len(s) + (k + j - 1)
    BY <1>1
  <2>5. \A j \in 1..Len(e) : u[Len(s) + k + j - 1] = e[j]
    BY <1>2, <2>2, <2>4
  <2>6. QED  BY <1>2, <1>3, <2>3, <2>5 DEF Within
<1>6. QED  BY <1>4, <1>5 DEF u

\* What fences the kept tail of a log has that was cut behind its opening fence.
LEMMA FencesOfTheTail ==
  ASSUME NEW t \in Seq(Bytes), NEW f \in Nat, FencesAt(t) = {f, Len(t) - 2}, Len(t) >= 3,
         NEW n \in Nat \ {0}, n <= Len(t), Len(t) - n + 1 > f
  PROVE  /\ FencesAt(SubSeq(t, Len(t) - n + 1, Len(t))) = IF n >= 3 THEN {n - 2} ELSE {}
         /\ t[Len(t)] = Tick
<1> DEFINE L == Len(t)
           c == L - n + 1
           cut == SubSeq(t, c, L)
<1>1. L \in Nat /\ c \in Nat /\ c >= 1 /\ L - c + 1 = n /\ c <= L
  OBVIOUS
<1> HIDE DEF c
<1>2. cut \in Seq(Bytes) /\ Len(cut) = n /\ \A k \in 1..n : cut[k] = t[c + k - 1]
  BY <1>1, PartsOfTexts
<1>3. FencesAt(cut) = {k \in 1..(n - 2) : TicksAt(cut, k)}
      /\ {f, L - 2} = {k \in 1..(L - 2) : TicksAt(t, k)}
  BY <1>2, FencesAreTicks
<1> HIDE DEF cut
<1>4. ASSUME NEW k \in 1..(n - 2)
      PROVE  TicksAt(cut, k) <=> k = n - 2
  <2>1. k \in 1..n /\ k + 1 \in 1..n /\ k + 2 \in 1..n
    BY <1>1
  <2>2. cut[k] = t[c + k - 1] /\ cut[k + 1] = t[c + (k + 1) - 1] /\ cut[k + 2] = t[c + (k + 2) - 1]
    BY <1>2, <2>1
  <2>3. c + (k + 1) - 1 = c + k - 1 + 1 /\ c + (k + 2) - 1 = c + k - 1 + 2
    BY <1>1
  <2>4. TicksAt(cut, k) <=> TicksAt(t, c + k - 1)
    BY <2>2, <2>3 DEF TicksAt
  <2>5. c + k - 1 \in 1..(L - 2) /\ c + k - 1 # f /\ (c + k - 1 = L - 2 <=> k = n - 2)
    BY <1>1 DEF c
  <2>6. TicksAt(t, c + k - 1) <=> c + k - 1 = L - 2
    BY <1>3, <2>5
  <2>7. QED  BY <2>4, <2>5, <2>6
<1>5. t[L] = Tick
  <2>1. TicksAt(t, L - 2)
    BY <1>3
  <2>2. L - 2 + 2 = L
    BY <1>1
  <2>3. QED  BY <2>1, <2>2 DEF TicksAt
<1>6. FencesAt(cut) = IF n >= 3 THEN {n - 2} ELSE {}
  <2>1. FencesAt(cut) = {k \in 1..(n - 2) : k = n - 2}
    BY <1>3, <1>4
  <2>2. QED  BY <2>1
<1>7. QED  BY <1>5, <1>6 DEF cut, c

LEMMA PrefixIsFirstFence ==
  ASSUME NEW t \in Seq(Bytes)
  PROVE  IsPrefix(Fence, t) <=> 1 \in FencesAt(t)
<1>1. Len(t) \in Nat /\ Len(Fence) = 3 /\ Fence \in Seq(Bytes)
  BY FixedTexts
<1>2. SubSeq(Fence, 1, 3) = Fence
  BY <1>1, SubSeqFull
<1>3. IsPrefix(Fence, t) <=> 3 <= Len(t) /\ Fence = SubSeq(t, 1, 3)
  BY <1>1, <1>2 DEF IsPrefix
<1>4. 1 \in FencesAt(t) <=> 1 \in 1..(Len(t) - 2) /\ SubSeq(t, 1, 1 + 2) = Fence
  BY DEF FencesAt
<1>5. 1 \in 1..(Len(t) - 2) <=> 3 <= Len(t)
  BY <1>1
<1>6. QED  BY <1>3, <1>4, <1>5

\* A log that is cut behind its opening fence is put together as one block around the kept
\* tail, whichever fence was lost.
LEMMA RepairedIsOneBlock ==
  ASSUME NEW t \in Seq(Bytes), NEW cut \in Seq(Bytes), NEW n \in Nat \ {0}, Len(cut) = n,
         FencesAt(t) # {}, FencesAt(cut) = IF n >= 3 THEN {n - 2} ELSE {},
         n >= 3 => cut[n] = Tick
  PROVE  \E x, y \in Nat :
           /\ x # y /\ FencesAt(Repaired(t, cut)) = {x, y}
           /\ \A e \in Seq(Bytes) : Within(e, cut) => Within(e, Repaired(t, cut))
<1>1. cut # <<>>
  OBVIOUS
<1>2. /\ Opening \in Seq(Bytes) /\ Closing \in Seq(Bytes) /\ <<Newline>> \in Seq(Bytes)
      /\ Opening # <<>> /\ Closing # <<>> /\ <<Newline>> # <<>>
      /\ Opening[Len(Opening)] = Newline /\ Closing[1] = Newline
  <2>1. /\ Opening \in Seq(Bytes) /\ Len(Opening) = 4 /\ Closing \in Seq(Bytes) /\ Len(Closing) = 5
        /\ <<Newline>> \in Seq(Bytes) /\ Len(<<Newline>>) = 1
    BY FixedTexts
  <2>2. Opening[4] = Newline /\ Closing[1] = Newline
    BY FencesOfFixed
  <2>3. Opening # <<>> /\ Closing # <<>> /\ <<Newline>> # <<>>
    <3>1. Len(Opening) = 4 /\ Len(Closing) = 5 /\ Len(<<>>) = 0
      BY <2>1
    <3>2. Opening # <<>> /\ Closing # <<>>
      BY <3>1, Len(<<>>) # 4, Len(<<>>) # 5, Zenon
    <3>3. <<Newline>> # <<>>
      OBVIOUS
    <3>4. QED  BY <3>2, <3>3
  <2>4. Opening[Len(Opening)] = Newline
    BY <2>1, <2>2
  <2>5. QED  BY <2>1, <2>2, <2>3, <2>4
<1>3. Len(Opening) = 4 /\ FencesAt(Opening) = {1} /\ FencesAt(Closing) = {2} /\ FencesAt(<<Newline>>) = {}
  BY FixedTexts, FencesOfFixed
<1> DEFINE N == <<Newline>>
           front == Opening \o cut
<1>4. N \in Seq(Bytes) /\ N # <<>> /\ N[1] = Newline /\ FencesAt(N) = {}
  BY <1>2, <1>3
<1>5. front \in Seq(Bytes) /\ Len(front) = 4 + n /\ front # <<>>
  <2>1. front \in Seq(Bytes) /\ Len(front) = Len(Opening) + Len(cut)
    BY <1>2, TextsTogether
  <2>2. QED  BY <1>3, <2>1
<1>6. FencesAt(front) = {1} \cup {4 + k : k \in FencesAt(cut)}
  <2>1. FencesAt(front) = FencesAt(Opening) \cup {Len(Opening) + k : k \in FencesAt(cut)}
    BY <1>1, <1>2, FencesTogether
  <2>2. QED  BY <1>3, <2>1
<1>7. \A e \in Seq(Bytes) : Within(e, cut) => Within(e, front)
  BY <1>2, WithinMore
<1> HIDE DEF N, front
<1>8. CASE n < 3
  <2>1. FencesAt(cut) = {} /\ FencesAt(front) = {1}
    BY <1>6, <1>8
  <2>2. Repaired(t, cut) = front \o Closing
    BY <2>1, PrefixIsFirstFence DEF Repaired, front
  <2>3. FencesAt(front \o Closing) = {1} \cup {4 + n + k : k \in {2}}
    <3>1. FencesAt(front \o Closing) = FencesAt(front) \cup {Len(front) + k : k \in FencesAt(Closing)}
      BY <1>2, <1>5, FencesTogether
    <3>2. QED  BY <1>3, <1>5, <2>1, <3>1
  <2>4. FencesAt(front \o Closing) = {1, 4 + n + 2} /\ 4 + n + 2 \in Nat /\ 1 # 4 + n + 2
    BY <2>3
  <2>5. \A e \in Seq(Bytes) : Within(e, cut) => Within(e, front \o Closing)
    BY <1>2, <1>5, <1>7, WithinMore
  <2>6. QED  BY <2>2, <2>4, <2>5
<1>9. CASE n >= 3
  <2>1. FencesAt(cut) = {n - 2} /\ cut[n] # Newline /\ TrimRight(cut) = cut
    <3>1. cut[n] # Newline
      BY <1>9 DEF Newline, Tick
    <3>2. QED  BY <1>1, <1>9, <3>1, TrimRightIsABeginning
  <2>2. CASE n = 3
    <3>1. IsPrefix(Fence, cut) /\ Cardinality(FencesAt(cut)) = 1
      <4>1. FencesAt(cut) = {1}
        BY <2>1, <2>2
      <4>2. QED  BY <4>1, PrefixIsFirstFence, FS_Singleton
    <3>2. Repaired(t, cut) = cut \o Closing
      BY <2>1, <3>1 DEF Repaired
    <3>3. FencesAt(cut \o Closing) = FencesAt(cut) \cup {n + k : k \in {2}}
      <4>1. FencesAt(cut \o Closing) = FencesAt(cut) \cup {Len(cut) + k : k \in FencesAt(Closing)}
        BY <1>1, <1>2, FencesTogether
      <4>2. QED  BY <1>3, <4>1
    <3>4. FencesAt(cut \o Closing) = {1, 5}
      BY <2>1, <2>2, <3>3
    <3>5. \A e \in Seq(Bytes) : Within(e, cut) => Within(e, cut \o Closing)
      BY <1>2, WithinMore
    <3>6. QED  BY <3>2, <3>4, <3>5
  <2>3. CASE n > 3
    <3>1. ~IsPrefix(Fence, cut) /\ FencesAt(cut) # {}
      BY <2>1, <2>3, PrefixIsFirstFence
    <3>2. Repaired(t, cut) = front \o N
      BY <2>1, <3>1 DEF Repaired, front, N
    <3>3. FencesAt(front \o N) = FencesAt(front) \cup {4 + n + k : k \in {}}
      BY <1>4, <1>5, FencesTogether
    <3>4. FencesAt(front \o N) = {1, 4 + (n - 2)} /\ 4 + (n - 2) \in Nat /\ 1 # 4 + (n - 2)
      BY <1>6, <2>1, <2>3, <3>3
    <3>5. \A e \in Seq(Bytes) : Within(e, cut) => Within(e, front \o N)
      BY <1>4, <1>5, <1>7, WithinMore
    <3>6. QED  BY <3>2, <3>4, <3>5
  <2>4. QED  BY <1>9, <2>2, <2>3
<1>10. QED  BY <1>8, <1>9

\* A log that has to be cut, behind its opening fence: two fences, and its newest half.
LEMMA TailIsClosed ==
  ASSUME NEW t \in Seq(Bytes), OneBlock(t), Len(t) > PaneLimit,
         Len(t) - PaneLimit > Min(FencesAt(t)) + 1
  PROVE  /\ Cardinality(FencesAt(truncateForPaneTail(t))) = 2
         /\ Within(Ending(t, PaneLimit \div 2), truncateForPaneTail(t))
<1> DEFINE L == Len(t)
           P == PaneLimit
           h == P \div 2
<1>1. P \in Nat /\ P > 0 /\ L \in Nat /\ h \in Nat
  BY ReplyAssumption
<1> HIDE DEF h
<1>2. PICK f \in 1..(L - 7) : FencesAt(t) = {f, L - 2}
  BY DEF OneBlock
<1>3. f \in Nat /\ L - 2 \in Nat /\ f < L - 2 /\ L >= 3
  BY <1>1, <1>2
<1>4. L - P > f + 1
  <2>1. {f, L - 2} \in SUBSET Nat /\ {f, L - 2} # {}
    BY <1>3
  <2>2. Min({f, L - 2}) \in {f, L - 2} /\ Min({f, L - 2}) <= f
    BY <2>1, MinIsLeast
  <2>3. Min(FencesAt(t)) = f
    BY <1>2, <1>3, <2>2
  <2>4. QED  BY <2>3
<1>5. PICK n \in 1..P : KeptTail(t) = SubSeq(t, L - n + 1, L) /\ n >= h
  BY KeptTailIsAnEnd DEF h
<1> DEFINE c == L - n + 1
           cut == SubSeq(t, c, L)
<1>6. n \in Nat \ {0} /\ n <= L /\ c \in Nat /\ c >= 1 /\ c > f /\ L - c + 1 = n /\ c <= L
  BY <1>1, <1>3, <1>4, <1>5
<1>7. FencesAt(cut) = IF n >= 3 THEN {n - 2} ELSE {}
  BY <1>2, <1>3, <1>6, FencesOfTheTail
<1>8. t[L] = Tick
  BY <1>2, <1>3, <1>6, FencesOfTheTail
<1> HIDE DEF c
<1>9. cut \in Seq(Bytes) /\ Len(cut) = n /\ \A k \in 1..n : cut[k] = t[c + k - 1]
  BY <1>1, <1>6, PartsOfTexts
<1>10. cut[n] = Tick
  <2>1. cut[n] = t[c + n - 1] /\ c + n - 1 = L
    BY <1>1, <1>6, <1>9
  <2>2. QED  BY <1>8, <2>1
<1>11. FencesAt(t) # {} /\ KeptTail(t) = cut
  BY <1>2, <1>5 DEF c
<1> HIDE DEF cut
<1> DEFINE r == Repaired(t, cut)
<1>12. PICK x, y \in Nat :
         /\ x # y /\ FencesAt(r) = {x, y}
         /\ \A e \in Seq(Bytes) : Within(e, cut) => Within(e, r)
  BY <1>6, <1>7, <1>9, <1>10, <1>11, RepairedIsOneBlock
<1>13. r \in Seq(Bytes)
  BY <1>9, RepairsAddTwoFences
<1>14. truncateForPaneTail(t) = TailNote \o r
  BY <1>1, <1>11 DEF truncateForPaneTail
<1>15. /\ TailNote \in Seq(Bytes) /\ Len(TailNote) = 2 /\ FencesAt(TailNote) = {}
       /\ TailNote # <<>> /\ TailNote[Len(TailNote)] = Newline
  <2>1. TailNote \in Seq(Bytes) /\ Len(TailNote) = 2 /\ FencesAt(TailNote) = {}
    BY FixedTexts, FencesOfFixed
  <2>2. TailNote[2] = Newline /\ TailNote # <<>>
    BY DEF TailNote
  <2>3. QED  BY <2>1, <2>2
<1> HIDE DEF r
<1>16. r # <<>>
  <2>1. FencesAt(r) = {k \in 1..(Len(r) - 2) : TicksAt(r, k)}
    BY <1>13, FencesAreTicks
  <2>2. x \in 1..(Len(r) - 2)
    BY <1>12, <2>1
  <2>3. r = <<>> => Len(r) = 0
    OBVIOUS
  <2>4. QED  BY <2>2, <2>3
<1>17. FencesAt(TailNote \o r) = {2 + x, 2 + y}
  <2>1. FencesAt(TailNote \o r) = FencesAt(TailNote) \cup {Len(TailNote) + k : k \in FencesAt(r)}
    BY <1>13, <1>15, <1>16, FencesTogether
  <2>2. QED  BY <1>12, <1>15, <2>1
<1>18. Cardinality(FencesAt(TailNote \o r)) = 2
  <2>1. 2 + x # 2 + y
    BY <1>12
  <2>2. QED  BY <1>17, <2>1, TwoFences
<1>19. Within(Ending(t, h), cut)
  <2> DEFINE e == Ending(t, h)
             a == L - h + 1
  <2>1. a \in Nat /\ a >= 1 /\ L - a + 1 = h /\ h <= n
    BY <1>1, <1>5, <1>6
  <2> HIDE DEF a
  <2>2. e = SubSeq(t, a, L)
    BY DEF Ending, a
  <2>3. Len(e) = h
    BY <1>1, <2>1, <2>2, PartsOfTexts
  <2>4. SubSeq(cut, n - h + 1, n) = SubSeq(t, a, L)
    <3>1. CASE h = 0
      <4>1. SubSeq(cut, n - h + 1, n) = <<>>
        BY <1>6, <3>1, SubSeqEmpty
      <4>2. SubSeq(t, a, L) = <<>>
        BY <1>1, <2>1, <3>1, SubSeqEmpty
      <4>3. QED  BY <4>1, <4>2
    <3>2. CASE h > 0
      <4> DEFINE m == n - h + 1
      <4>1. c \in 1..L /\ L \in 1..L /\ m \in 1..(L - c + 1) /\ n \in 1..(L - c + 1)
        BY <1>1, <1>6, <2>1, <3>2
      <4>2. c + m - 1 = a /\ c + n - 1 = L
        BY <1>1, <1>6, <2>1 DEF a, c
      <4> HIDE DEF m
      <4>3. SubSeq(SubSeq(t, c, L), m, n) = SubSeq(t, c + m - 1, c + n - 1)
        BY <4>1, SubSeqOfSubSeq
      <4>4. QED  BY <4>2, <4>3 DEF m, cut
    <3>3. h = 0 \/ h > 0
      BY <1>1
    <3>4. QED  BY <3>1, <3>2, <3>3
  <2>5. n - h + 1 \in 1..(Len(cut) - Len(e) + 1) /\ n - h + 1 + Len(e) - 1 = n
    BY <1>1, <1>6, <1>9, <2>1, <2>3
  <2>6. SubSeq(cut, n - h + 1, n - h + 1 + Len(e) - 1) = e
    BY <2>2, <2>4, <2>5
  <2>7. QED  BY <2>5, <2>6 DEF Within
<1>20. Within(Ending(t, h), TailNote \o r)
  <2>1. Ending(t, h) \in Seq(Bytes)
    <3>1. L - h + 1 \in Nat /\ L - h + 1 >= 1
      BY <1>1, <1>5, <1>6
    <3>2. QED  BY <1>1, <3>1, PartsOfTexts DEF Ending
  <2>2. Within(Ending(t, h), r)
    BY <1>12, <1>19, <2>1
  <2>3. QED  BY <1>13, <1>15, <2>1, <2>2, WithinMore
<1>21. QED  BY <1>14, <1>18, <1>20 DEF h

\* A pane that is cut at its end begins as the body does.
LEMMA PaneBeginsAlike ==
  ASSUME NEW t \in Seq(Bytes), Len(t) > PaneLimit
  PROVE  truncateForPane(t)[1] = t[1]
<1> DEFINE P == PaneLimit
           ends == {k \in Newlines(Beginning(t, P)) : k > P \div 2 + 1}
           m == IF ends = {} THEN P ELSE Max(ends) - 1
<1>1. P \in Nat /\ P > 0 /\ Len(t) \in Nat /\ P \div 2 \in Nat
  BY ReplyAssumption
<1>2. Beginning(t, P) \in Seq(Bytes) /\ Len(Beginning(t, P)) = P
  BY <1>1, PartsOfTexts DEF Beginning
<1>3. ends \in SUBSET Nat /\ ends \subseteq 2..P
  <2>1. Newlines(Beginning(t, P)) \subseteq 1..P
    BY <1>2 DEF Newlines
  <2>2. QED  BY <1>1, <2>1
<1>4. m \in 1..P
  <2>1. \A x \in ends : x <= P
    BY <1>3
  <2>2. ends # {} => Max(ends) \in ends
    BY <1>1, <1>3, <2>1, MaxIsGreatest
  <2>3. QED  BY <1>1, <1>3, <2>2
<1>5. truncateForPane(t) = Beginning(t, m) \o Note
  <2>1. ~(Len(t) <= PaneLimit)
    BY <1>1
  <2>2. QED  BY <2>1, Zenon DEF truncateForPane
<1> HIDE DEF m
<1>6. /\ Beginning(t, m) \in Seq(Bytes) /\ Len(Beginning(t, m)) = m
      /\ \A k \in 1..m : Beginning(t, m)[k] = t[k]
  <2>1. /\ SubSeq(t, 1, m) \in Seq(Bytes)
        /\ Len(SubSeq(t, 1, m)) = IF 1 <= m THEN m - 1 + 1 ELSE 0
        /\ \A k \in 1..(m - 1 + 1) : SubSeq(t, 1, m)[k] = t[1 + k - 1]
    BY <1>1, <1>4, PartsOfTexts
  <2>2. QED  BY <1>4, <2>1 DEF Beginning
<1>7. \A k \in 1..Len(Beginning(t, m)) : (Beginning(t, m) \o Note)[k] = Beginning(t, m)[k]
  <2>1. Note \in Seq(Bytes)
    BY FixedTexts
  <2>2. QED  BY <1>6, <2>1, TextsTogether
<1>8. 1 \in 1..m
  BY <1>4
<1>9. QED  BY <1>5, <1>6, <1>7, <1>8

\* What is in the pane.
PaneInv ==
  pc = "pane" =>
    whole \in Bodies /\ sent \in {<<truncateForPane(whole)>>, <<truncateForPaneTail(whole)>>}

LEMMA PaneInvNext ==
  ASSUME PaneInv, [Next]_vars
  PROVE  PaneInv'
<1>1. CASE ShowPane
  BY <1>1 DEF ShowPane, PaneInv
<1>2. CASE UNCHANGED vars
  BY <1>2 DEF vars, replying, PaneInv
<1>3. CASE Next /\ ~ShowPane
  <2>1. pc' # "pane"
    <3>1. CASE Parse
      BY <3>1 DEF Parse, ParseGet, ParseLogs, ParseExec, ParseInline, ParseNothing, ParseEnds,
        Parsing, Turn, Finished
    <3>2. CASE Type \/ Receive \/ Answered \/ Answer \/ Split \/ SplitEnds \/ SendChunk \/ SendEnds \/ Shown
      BY <3>2 DEF Type, Receive, Answered, Answer, Split, SplitEnds, SendChunk, SendEnds, Shown
    <3>3. QED  BY <1>3, <3>1, <3>2 DEF Next, Reply
  <2>2. QED  BY <2>1 DEF PaneInv
<1>4. QED  BY <1>1, <1>2, <1>3

LEMMA PanesKeepTheirEnd ==
  ASSUME PaneInv, pc = "pane"
  PROVE  PaneKeepsItsEnd
<1> DEFINE t == whole
<1>1. t \in Seq(Bytes) /\ OneBlock(t)
  BY CommandsAssumption DEF PaneInv
<1>2. sent[1] = truncateForPane(t) \/ sent[1] = truncateForPaneTail(t)
  BY DEF PaneInv
<1>3. PaneLimit \in Nat /\ Len(t) \in Nat
  BY <1>1, ReplyAssumption
<1>4. Len(Note) = 2 /\ Len(TailNote \o Opening \o Closing) = 11
  <2>1. TailNote \in Seq(Bytes) /\ Opening \in Seq(Bytes) /\ Closing \in Seq(Bytes)
    BY FixedTexts
  <2>2. Len(TailNote \o Opening \o Closing) = Len(TailNote) + Len(Opening) + Len(Closing)
    BY <2>1, ThreeTogether
  <2>3. Len(TailNote) = 2 /\ Len(Opening) = 4 /\ Len(Closing) = 5 /\ Len(Note) = 2
    BY FixedTexts
  <2>4. QED  BY <2>2, <2>3
<1>5. Overhead = IF CutAtHead THEN 11 ELSE 2
  BY <1>4 DEF Overhead
<1>6. /\ truncateForPane(t) \in Seq(Bytes) /\ Len(truncateForPane(t)) <= PaneLimit + 2
      /\ truncateForPaneTail(t) \in Seq(Bytes)
      /\ IF Len(t) <= PaneLimit THEN truncateForPaneTail(t) = t /\ truncateForPane(t) = t
         ELSE Len(truncateForPaneTail(t)) <= PaneLimit + 11 /\ truncateForPaneTail(t)[1] = Mark
  BY <1>1, PanesFit
<1> HIDE DEF t
<1>7. sent[1] \in Seq(Bytes) /\ Len(sent[1]) \in Nat
  BY <1>2, <1>6
<1>8. Len(sent[1]) <= PaneLimit + Overhead
  <2>1. CASE sent[1] = truncateForPane(t)
    BY <1>3, <1>5, <1>6, <1>7, <2>1
  <2>2. CASE sent[1] = truncateForPaneTail(t) /\ Len(t) <= PaneLimit
    BY <1>3, <1>5, <1>6, <1>7, <2>2
  <2>3. CASE sent[1] = truncateForPaneTail(t) /\ ~(Len(t) <= PaneLimit)
    <3>1. CutAtHead
      BY <1>6, <2>3 DEF CutAtHead
    <3>2. QED  BY <1>3, <1>5, <1>6, <1>7, <2>3, <3>1
  <2>4. QED  BY <1>2, <2>1, <2>2, <2>3
<1>9. ASSUME CutAtHead, Len(t) - PaneLimit > Min(FencesAt(t)) + 1
      PROVE  /\ Cardinality(FencesAt(sent[1])) = 2
             /\ Within(Ending(t, PaneLimit \div 2), sent[1])
  <2>1. Len(t) > PaneLimit
    <3>1. PICK f \in 1..(Len(t) - 7) : FencesAt(t) = {f, Len(t) - 2}
      BY <1>1 DEF OneBlock
    <3>2. {f, Len(t) - 2} \in SUBSET Nat /\ {f, Len(t) - 2} # {}
      BY <1>3, <3>1
    <3>3. Min({f, Len(t) - 2}) \in Nat
      BY <3>2, MinIsLeast
    <3>4. QED  BY <1>3, <1>9, <3>1, <3>3
  <2>2. sent[1] = truncateForPaneTail(t)
    <3>1. ASSUME sent[1] = truncateForPane(t)  PROVE FALSE
      <4>1. truncateForPane(t)[1] = Mark
        BY <1>9, <3>1 DEF CutAtHead
      <4>2. truncateForPane(t)[1] # Mark
        <5>1. truncateForPane(t)[1] = t[1]
          BY <1>1, <2>1, PaneBeginsAlike
        <5>2. t[1] # Mark
          BY <1>1 DEF OneBlock
        <5>3. QED  BY <5>1, <5>2
      <4>3. QED  BY <4>1, <4>2
    <3>2. QED  BY <1>2, <3>1
  <2>3. QED  BY <1>1, <1>9, <2>1, <2>2, TailIsClosed
<1>10. QED  BY <1>8, <1>9 DEF PaneKeepsItsEnd, t

\* A pane fits one message whichever end is cut, and a log that was cut is one closed code
\* block with its newest half in it.
THEOREM CommandsPaneKeepsItsEnd == Spec => []PaneKeepsItsEnd
<1>1. Init => PaneInv
  BY DEF Init, PaneInv
<1>2. PaneInv /\ [Next]_vars => PaneInv'
  BY PaneInvNext
<1>3. PaneInv => PaneKeepsItsEnd
  BY PanesKeepTheirEnd DEF PaneKeepsItsEnd
<1>4. QED  BY <1>1, <1>2, <1>3, PTL DEF Spec

-----------------------------------------------------------------------------
(* Replies: what the chunks cover. *)

\* A chunk is cut off the last piece.
LEMMA CoveredByMore ==
  ASSUME NEW w \in Seq(Bytes), NEW s \in Seq(Nat), NEW o \in Seq(Seq(Bytes)), NEW t \in Seq(Bytes),
         Covered(w, s, Append(o, t)), Len(s) = Len(o) + 1,
         NEW chunk \in Seq(Bytes), NEW u \in Seq(Bytes), NEW b \in Nat,
         Stands(w, s[Len(s)], chunk, b), Stands(w, b, u, Len(w) + 1)
  PROVE  Covered(w, Append(s, b), Append(Append(o, chunk), u))
<1> DEFINE K == Len(o) + 1
           old == Append(o, t)
           new == Append(Append(o, chunk), u)
           r == Append(s, b)
<1>1. /\ K \in Nat /\ K >= 1 /\ Len(old) = K /\ Len(new) = K + 1 /\ Len(s) = K
      /\ DOMAIN old = 1..K /\ DOMAIN new = 1..(K + 1)
      /\ \A k \in 1..(K - 1) : old[k] = o[k] /\ new[k] = o[k]
      /\ new[K] = chunk /\ new[K + 1] = u
  <2> DEFINE mid == Append(o, chunk)
  <2>1. K \in Nat /\ K >= 1 /\ K - 1 = Len(o)
    OBVIOUS
  <2>2. /\ old \in Seq(Seq(Bytes)) /\ Len(old) = Len(o) + 1
        /\ \A k \in 1..Len(o) : old[k] = o[k]
    BY AppendProperties
  <2>3. /\ mid \in Seq(Seq(Bytes)) /\ Len(mid) = Len(o) + 1 /\ mid[Len(o) + 1] = chunk
        /\ \A k \in 1..Len(o) : mid[k] = o[k]
    BY AppendProperties
  <2> HIDE DEF mid
  <2>4. /\ Append(mid, u) \in Seq(Seq(Bytes)) /\ Len(Append(mid, u)) = Len(mid) + 1
        /\ Append(mid, u)[Len(mid) + 1] = u
        /\ \A k \in 1..Len(mid) : Append(mid, u)[k] = mid[k]
    BY <2>3, AppendProperties
  <2> HIDE DEF old
  <2>5. new = Append(mid, u)
    BY DEF mid
  <2> HIDE DEF new
  <2>6. DOMAIN old = 1..Len(old) /\ DOMAIN new = 1..Len(new)
    BY <2>2, <2>4, <2>5, LenProperties
  <2>7. Len(old) = K /\ Len(new) = K + 1
    BY <2>2, <2>3, <2>4, <2>5
  <2>8. new[K + 1] = u
    BY <2>3, <2>4, <2>5
  <2>9. \A k \in 1..K : new[k] = mid[k]
    BY <2>3, <2>4, <2>5
  <2>10. new[K] = chunk
    <3>1. K \in 1..K /\ K = Len(o) + 1
      BY <2>1
    <3>2. QED  BY <2>3, <2>9, <3>1
  <2>11. \A k \in 1..(K - 1) : old[k] = o[k] /\ new[k] = o[k]
    <3>1. K - 1 = Len(o) /\ \A k \in 1..Len(o) : k \in 1..K
      BY <2>1
    <3>2. \A k \in 1..Len(o) : old[k] = o[k] /\ new[k] = o[k]
      BY <2>2, <2>3, <2>9, <3>1
    <3>3. QED  BY <3>1, <3>2
  <2>12. QED  BY <2>1, <2>6, <2>7, <2>8, <2>10, <2>11
<1>2. \A k \in 1..K : r[k] = s[k]
  BY <1>1, AppendProperties
<1>3. r[K + 1] = b
  BY <1>1, AppendProperties
<1> HIDE DEF r, old, new, K
<1>4. ASSUME NEW k \in 1..(K - 1)
      PROVE  /\ k = 1 => r[k] = 1
             /\ Stands(w, r[k], new[k], IF k < Len(new) THEN r[k + 1] ELSE Len(w) + 1)
  <2>1. k \in 1..K /\ k + 1 \in 1..K /\ k < K /\ k < K + 1
    BY <1>1
  <2>2. /\ k = 1 => s[k] = 1
        /\ Stands(w, s[k], old[k], IF k < Len(old) THEN s[k + 1] ELSE Len(w) + 1)
    BY <1>1, <2>1 DEF Covered, old
  <2>3. Stands(w, s[k], o[k], s[k + 1])
    BY <1>1, <2>1, <2>2
  <2>4. r[k] = s[k] /\ r[k + 1] = s[k + 1] /\ new[k] = o[k]
    BY <1>1, <1>2, <2>1
  <2>5. QED  BY <1>1, <2>1, <2>2, <2>3, <2>4
<1>5. /\ K = 1 => r[K] = 1
      /\ Stands(w, r[K], new[K], IF K < Len(new) THEN r[K + 1] ELSE Len(w) + 1)
  <2>1. K \in 1..K /\ K < K + 1 /\ r[K] = s[K]
    BY <1>1, <1>2
  <2>2. K = 1 => s[K] = 1
    BY <1>1, <2>1 DEF Covered, old
  <2>3. QED  BY <1>1, <1>3, <2>1, <2>2
<1>6. /\ K + 1 = 1 => r[K + 1] = 1
      /\ Stands(w, r[K + 1], new[K + 1], IF K + 1 < Len(new) THEN r[K + 1 + 1] ELSE Len(w) + 1)
  BY <1>1, <1>3
<1>7. \A k \in DOMAIN new : k \in 1..(K - 1) \/ k = K \/ k = K + 1
  <2>1. DOMAIN new = 1..(K + 1) /\ K \in Nat
    BY <1>1
  <2>2. \A k \in 1..(K + 1) : k \in 1..(K - 1) \/ k = K \/ k = K + 1
    BY <2>1
  <2>3. QED  BY <2>1, <2>2
<1>8. Covered(w, r, new)
  BY <1>4, <1>5, <1>6, <1>7 DEF Covered
<1>9. QED  BY <1>8 DEF r, new

\* A last piece that is empty is none.
LEMMA CoveredByLess ==
  ASSUME NEW w \in Seq(Bytes), NEW s \in Seq(Nat), NEW o \in Seq(Seq(Bytes)),
         Covered(w, s, Append(o, <<>>)), Len(s) = Len(o) + 1, s[Len(s)] = Len(w) + 1
  PROVE  Covered(w, s, o)
<1> DEFINE old == Append(o, <<>>)
<1>1. <<>> \in Seq(Bytes) /\ Len(o) \in Nat /\ DOMAIN o = 1..Len(o)
  OBVIOUS
<1>2. /\ old \in Seq(Seq(Bytes)) /\ Len(old) = Len(o) + 1
      /\ \A k \in 1..Len(o) : old[k] = o[k]
  BY <1>1, AppendProperties
<1>3. DOMAIN old = 1..(Len(o) + 1)
  BY <1>2, LenProperties
<1> HIDE DEF old
<1>4. ASSUME NEW k \in 1..Len(o)
      PROVE  /\ k = 1 => s[k] = 1
             /\ Stands(w, s[k], o[k], IF k < Len(o) THEN s[k + 1] ELSE Len(w) + 1)
  <2>1. k \in 1..(Len(o) + 1) /\ k < Len(old)
    BY <1>1, <1>2
  <2>2. (k = 1 => s[k] = 1) /\ Stands(w, s[k], old[k], s[k + 1])
    BY <1>3, <2>1 DEF Covered, old
  <2>3. ~(k < Len(o)) => s[k + 1] = Len(w) + 1
    <3>1. ~(k < Len(o)) => k + 1 = Len(s)
      BY <1>1
    <3>2. QED  BY <3>1
  <2>4. old[k] = o[k]
    BY <1>2
  <2>5. QED  BY <2>2, <2>3, <2>4
<1>5. QED  BY <1>1, <1>4 DEF Covered

\* A part of a text that stands between line ends, or at an end of it, is well formed if the
\* text is.
LEMMA PartsOfLines ==
  ASSUME NEW w \in Seq(Bytes), WellFormed(w), NEW a \in Nat, NEW b \in Nat, a >= 1, b <= Len(w),
         a = 1 \/ w[a - 1] = Newline, b = Len(w) \/ w[b + 1] = Newline
  PROVE  WellFormed(SubSeq(w, a, b))
<1> DEFINE u == SubSeq(w, a, b)
<1>1. /\ u \in Seq(Bytes) /\ Len(u) = IF a <= b THEN b - a + 1 ELSE 0
      /\ \A k \in 1..(b - a + 1) : u[k] = w[a + k - 1]
  BY PartsOfTexts
<1> HIDE DEF u
<1> SUFFICES ASSUME NEW k \in DOMAIN u
             PROVE  /\ u[k] = Lead => k < Len(u) /\ u[k + 1] = Trail
                    /\ u[k] = Trail => k > 1 /\ u[k - 1] = Lead
  BY DEF WellFormed, u
<1>2. k \in 1..(b - a + 1) /\ Len(u) = b - a + 1 /\ k \in Nat /\ Len(w) \in Nat
  <2>1. k \in 1..Len(u)
    BY <1>1, LenProperties
  <2>2. Len(u) = b - a + 1
    BY <1>1, <2>1
  <2>3. QED  BY <2>1, <2>2
<1>3. PICK j \in 1..Len(w) : j = a + k - 1 /\ a <= j /\ j <= b /\ u[k] = w[j]
  <2>1. u[k] = w[a + k - 1]
    BY <1>1, <1>2
  <2>2. a + k - 1 \in 1..Len(w) /\ a <= a + k - 1 /\ a + k - 1 <= b
    BY <1>2
  <2>3. QED  BY <2>1, <2>2
<1>4. /\ j \in Nat /\ j = a + k - 1 /\ a <= j /\ j <= b
       /\ k \in Nat /\ 1 <= k /\ k <= b - a + 1
  BY <1>2, <1>3
<1>5. /\ w[j] = Lead => j < Len(w) /\ w[j + 1] = Trail
      /\ w[j] = Trail => j > 1 /\ w[j - 1] = Lead
  BY <1>3 DEF WellFormed
<1>6. ASSUME u[k] = Lead  PROVE k < Len(u) /\ u[k + 1] = Trail
  <2>1. j < Len(w) /\ w[j + 1] = Trail
    BY <1>3, <1>5, <1>6
  <2>2. j # b
    BY <2>1 DEF Newline, Trail
  <2>3. k < b - a + 1 /\ k + 1 \in 1..(b - a + 1) /\ a + (k + 1) - 1 = j + 1
    BY <1>4, <2>2
  <2>4. u[k + 1] = w[a + (k + 1) - 1]
    BY <1>1, <2>3
  <2>5. QED  BY <1>2, <2>1, <2>3, <2>4
<1>7. ASSUME u[k] = Trail  PROVE k > 1 /\ u[k - 1] = Lead
  <2>1. j > 1 /\ w[j - 1] = Lead
    BY <1>3, <1>5, <1>7
  <2>2. j # a
    BY <2>1 DEF Newline, Lead
  <2>3. k > 1 /\ k - 1 \in 1..(b - a + 1) /\ a + (k - 1) - 1 = j - 1
    BY <1>4, <2>2
  <2>4. u[k - 1] = w[a + (k - 1) - 1]
    BY <1>1, <2>3
  <2>5. QED  BY <2>1, <2>3, <2>4
<1>8. QED  BY <1>6, <1>7

ChunkFits(w, chunk) ==
  /\ Len(chunk) <= MaxMessage /\ (chunk = <<>> => w = <<>>)
  /\ ShortLined => WellFormed(chunk)

\* What is left to be split is the reply from where the last piece begins, which is the
\* beginning of a line if lines are short; the chunks and what is left cover the reply.
SplitInv ==
  /\ pc \notin {"split", "send"} => out = <<>>
  /\ pc \in {"idle", "parse", "asked", "reply"} => sent = <<>>
  /\ pc \in {"split", "send"} => whole \in Texts /\ \A k \in DOMAIN out : ChunkFits(whole, out[k])
  /\ pc = "split" =>
       /\ sent = <<>> /\ at \in Seq(Nat) /\ Len(at) = Len(out) + 1
       /\ at[Len(at)] \in 1..(Len(whole) + 1)
       /\ text = SubSeq(whole, at[Len(at)], Len(whole))
       /\ ShortLined => at[Len(at)] = 1 \/ whole[at[Len(at)] - 1] = Newline
       /\ Covered(whole, at, Append(out, text))
       /\ text = <<>> /\ out = <<>> => whole = <<>>
  /\ pc = "send" =>
       text = <<>> /\ Covered(whole, at, sent \o out) /\ sent \o out # <<>>

LEMMA AnswerKeepsSplitInv ==
  ASSUME TypeOK, SplitInv, Answer
  PROVE  SplitInv'
<1>1. pc = "reply" /\ whole' \in Texts /\ out' = out /\ out = <<>> /\ sent = <<>>
  BY DEF Answer, SplitInv
<1>2. CASE pc' = "done"
  BY <1>1, <1>2 DEF SplitInv
<1>3. CASE pc' = "split" /\ text' = whole' /\ at' = <<1>> /\ sent' = sent
  <2> DEFINE w == whole'
             s == <<1>>
  <2>1. w \in Seq(Bytes)
    BY <1>1, CommandsAssumption
  <2>2. s \in Seq(Nat) /\ Len(s) = 1 /\ s[1] = 1
    OBVIOUS
  <2>3. SubSeq(w, 1, Len(w)) = w /\ Len(w) \in Nat
    BY <2>1, SubSeqFull
  <2> HIDE DEF w, s
  <2>4. Covered(w, s, <<w>>)
    <3>1. DOMAIN <<w>> = {1} /\ Len(<<w>>) = 1 /\ <<w>>[1] = w
      OBVIOUS
    <3>2. Stands(w, s[1], w, Len(w) + 1)
      BY <2>2, <2>3 DEF Stands
    <3>3. QED  BY <2>2, <3>1, <3>2 DEF Covered
  <2>5. Append(out', text') = <<w>>
    BY <1>1, <1>3 DEF w
  <2>6. /\ Len(at') = Len(out') + 1 /\ at' = s /\ at'[Len(at')] = 1
    BY <1>1, <1>3, <2>2 DEF s
  <2>7. 1 \in 1..(Len(w) + 1)
    BY <2>3
  <2>8. QED  BY <1>1, <1>3, <2>2, <2>3, <2>4, <2>5, <2>6, <2>7 DEF SplitInv, w
<1>4. QED  BY <1>2, <1>3 DEF Answer

\* One turn of the loop, in the terms of the reply: t, which begins at a in w, is left with what
\* begins at b.  The chunk stands where t stood, what is left behind it or behind the line end
\* there; on short lines that is always a line end.
TurnOf(w, a, t, b) ==
  /\ b >= 1 /\ b <= Len(w) + 1 /\ Len(w) - Len(Rest(t)) + 1 = b
  /\ Rest(t) = SubSeq(w, b, Len(w)) /\ Rest(t) \in Seq(Bytes)
  /\ Stands(w, a, Beginning(t, Cut(t)), b)
  /\ Stands(w, b, Rest(t), Len(w) + 1)
  /\ Beginning(t, Cut(t)) \in Seq(Bytes) /\ Beginning(t, Cut(t)) # <<>>
  /\ Len(Beginning(t, Cut(t))) <= MaxMessage
  /\ Beginning(t, Cut(t)) = SubSeq(w, a, a + Cut(t) - 1)
  /\ a + Cut(t) \in 1..Len(w)
  /\ (\A first \in 1..(Len(w) - MaxMessage + 1) :
        \E k \in first..(first + MaxMessage - 1) : w[k] = Newline) =>
       w[a + Cut(t)] = Newline /\ w[b - 1] = Newline

LEMMA SplitTurn ==
  ASSUME NEW w \in Seq(Bytes), NEW a \in Nat, NEW t \in Seq(Bytes), a >= 1, a <= Len(w) + 1,
         t = SubSeq(w, a, Len(w)), Len(t) > MaxMessage
  PROVE  \E b \in Nat : TurnOf(w, a, t, b)
<1> DEFINE L == Len(w)
           M == MaxMessage
           c == Cut(t)
           chunk == Beginning(t, c)
<1>1. L \in Nat /\ M \in Nat /\ M >= 1 /\ c \in 1..M
  <2>1. Cut(t) \in 1..MaxMessage
    BY CutIsInside
  <2>2. L \in Nat /\ M \in Nat /\ M >= 1
    BY ReplyAssumption
  <2>3. QED  BY <2>1, <2>2
<1>2. /\ Len(t) = L - a + 1 /\ a + M <= L /\ \A k \in 1..(L - a + 1) : t[k] = w[a + k - 1]
  <2>1. /\ Len(t) = IF a <= L THEN L - a + 1 ELSE 0
        /\ \A k \in 1..(L - a + 1) : t[k] = w[a + k - 1]
    BY <1>1, PartsOfTexts
  <2>2. a <= L
    BY <1>1, <2>1
  <2>3. QED  BY <1>1, <2>1, <2>2
<1>3. PICK n \in {c + 1, c + 2} :
        /\ Rest(t) = SubSeq(t, n, Len(t)) /\ n <= Len(t) + 1
        /\ Rest(t) \in Seq(Bytes) /\ Len(Rest(t)) = Len(t) - n + 1
        /\ n = c + 2 <=> t[c + 1] = Newline
  BY RestIsBehind
<1>4. /\ LineEnds(t) # {} => t[c + 1] = Newline
      /\ LineEnds(t) = {} => c = M /\ \A k \in 2..M : t[k] # Newline
  BY CutIsInside
<1> HIDE DEF c
<1>5. /\ chunk \in Seq(Bytes) /\ Len(chunk) = c /\ chunk # <<>> /\ chunk = SubSeq(w, a, a + c - 1)
  <2>1. /\ SubSeq(t, 1, c) \in Seq(Bytes) /\ Len(SubSeq(t, 1, c)) = IF 1 <= c THEN c - 1 + 1 ELSE 0
    BY <1>1, <1>2, PartsOfTexts
  <2>2. a \in 1..L /\ L \in 1..L /\ 1 \in 1..(L - a + 1) /\ c \in 1..(L - a + 1)
    BY <1>1, <1>2
  <2>3. SubSeq(SubSeq(w, a, L), 1, c) = SubSeq(w, a + 1 - 1, a + c - 1)
    BY <2>2, SubSeqOfSubSeq
  <2>4. a + 1 - 1 = a
    OBVIOUS
  <2>5. Len(chunk) = c /\ chunk \in Seq(Bytes)
    BY <1>1, <2>1 DEF Beginning
  <2>6. chunk # <<>>
    BY <1>1, <2>5
  <2>7. QED  BY <2>3, <2>4, <2>5, <2>6 DEF Beginning
<1> DEFINE b == a + n - 1
<1>6. /\ b \in Nat /\ b >= 1 /\ b <= L + 1 /\ L - Len(Rest(t)) + 1 = b
      /\ b = a + c \/ b = a + c + 1
  <2>1. n \in Nat /\ n >= 2 /\ n <= L - a + 2 /\ Len(Rest(t)) = L - a + 1 - n + 1
    <3>1. n \in Nat /\ n >= 2
      BY <1>1
    <3>2. Len(t) = L - a + 1 /\ n <= Len(t) + 1 /\ Len(Rest(t)) = Len(t) - n + 1
      BY <1>2, <1>3
    <3>3. n <= L - a + 2
      BY <1>1, <3>1, <3>2
    <3>4. QED  BY <3>1, <3>2, <3>3
  <2>2. b \in Nat /\ b >= 1 /\ b <= L + 1 /\ L - Len(Rest(t)) + 1 = b
    BY <1>1, <2>1
  <2>3. b = a + c \/ b = a + c + 1
    BY <1>1, <1>3
  <2>4. QED  BY <2>2, <2>3
<1>7. Rest(t) = SubSeq(w, b, L)
  <2>1. CASE n <= Len(t)
    <3>1. a \in 1..L /\ L \in 1..L /\ n \in 1..(L - a + 1) /\ Len(t) \in 1..(L - a + 1)
      BY <1>1, <1>2, <1>3, <2>1
    <3>2. SubSeq(SubSeq(w, a, L), n, Len(t)) = SubSeq(w, a + n - 1, a + Len(t) - 1)
      BY <3>1, SubSeqOfSubSeq
    <3>3. a + Len(t) - 1 = L
      BY <1>1, <1>2
    <3>4. QED  BY <1>3, <3>2, <3>3
  <2>2. CASE n = Len(t) + 1
    <3>1. Rest(t) = <<>>
      BY <1>2, <1>3, <2>2, SubSeqEmpty
    <3>2. b = L + 1
      BY <1>1, <1>2, <2>2
    <3>3. SubSeq(w, b, L) = <<>>
      BY <1>1, <3>2, SubSeqEmpty
    <3>4. QED  BY <3>1, <3>3
  <2>3. n \in Nat /\ Len(t) \in Nat /\ (n <= Len(t) \/ n = Len(t) + 1)
    BY <1>1, <1>2, <1>3
  <2>4. QED  BY <2>1, <2>2, <2>3
<1>8. a + c \in 1..L /\ t[c + 1] = w[a + c]
  <2>1. c + 1 \in 1..(L - a + 1) /\ a + (c + 1) - 1 = a + c /\ a + c \in 1..L
    BY <1>1, <1>2
  <2>2. t[c + 1] = w[a + (c + 1) - 1]
    BY <1>2, <2>1
  <2>3. QED  BY <2>1, <2>2
<1>9. b = a + c + 1 <=> w[a + c] = Newline
  <2>1. n = c + 2 <=> b = a + c + 1
    BY <1>1, <1>3
  <2>2. QED  BY <1>3, <1>8, <2>1
<1> HIDE DEF b, chunk
<1>10. Stands(w, a, chunk, b)
  BY <1>1, <1>5, <1>6, <1>9 DEF Stands
<1>11. Stands(w, b, Rest(t), L + 1)
  <2>1. b + Len(Rest(t)) - 1 = L /\ L + 1 = b + Len(Rest(t))
    BY <1>1, <1>2, <1>3, <1>6
  <2>2. QED  BY <1>7, <2>1 DEF Stands
<1>12. ASSUME \A first \in 1..(L - M + 1) : \E k \in first..(first + M - 1) : w[k] = Newline
       PROVE  w[a + c] = Newline /\ w[b - 1] = Newline
  <2>1. w[a + c] = Newline
    <3>1. CASE LineEnds(t) # {}
      BY <1>4, <1>8, <3>1
    <3>2. CASE LineEnds(t) = {}
      <4>1. a + 1 \in 1..(L - M + 1)
        BY <1>1, <1>2
      <4>2. PICK k \in (a + 1)..(a + 1 + M - 1) : w[k] = Newline
        BY <1>12, <4>1
      <4>3. PICK j \in 2..(M + 1) : j = k - a + 1
        BY <1>1
      <4>4. j \in 1..(L - a + 1) /\ a + j - 1 = k
        BY <1>1, <1>2, <4>3
      <4>5. t[j] = Newline
        BY <1>2, <4>2, <4>4
      <4>6. j = M + 1
        BY <1>1, <1>4, <3>2, <4>5
      <4>7. k = a + c
        BY <1>1, <1>4, <3>2, <4>3, <4>6
      <4>8. QED  BY <4>2, <4>7
    <3>3. QED  BY <3>1, <3>2
  <2>2. b - 1 = a + c
    BY <1>1, <1>9, <2>1
  <2>3. QED  BY <2>1, <2>2
<1>13. Len(chunk) <= M
  BY <1>1, <1>5
<1>14. TurnOf(w, a, t, b)
  <2>1. /\ Rest(t) \in Seq(Bytes) /\ b >= 1 /\ b <= L + 1 /\ L - Len(Rest(t)) + 1 = b
        /\ Rest(t) = SubSeq(w, b, L) /\ chunk \in Seq(Bytes) /\ chunk # <<>> /\ a + c \in 1..L
        /\ chunk = SubSeq(w, a, a + c - 1)
    BY <1>3, <1>5, <1>6, <1>7, <1>8
  <2>2. QED  BY <2>1, <1>10, <1>11, <1>12, <1>13 DEF c, chunk, TurnOf
<1>15. QED  BY <1>6, <1>14

LEMMA SplitKeepsSplitInv ==
  ASSUME TypeOK, SplitInv, Split
  PROVE  SplitInv'
<1> DEFINE w == whole
           a == at[Len(at)]
           chunk == Beginning(text, Cut(text))
           rest == Rest(text)
<1>1. /\ pc = "split" /\ Len(text) > MaxMessage /\ out' = Append(out, chunk) /\ text' = rest
      /\ at' = Append(at, Len(w) - Len(rest) + 1) /\ pc' = "split" /\ whole' = w /\ sent' = sent
  BY DEF Split
<1>2. /\ sent = <<>> /\ at \in Seq(Nat) /\ Len(at) = Len(out) + 1
      /\ a \in 1..(Len(w) + 1) /\ text = SubSeq(w, a, Len(w))
      /\ ShortLined => a = 1 \/ w[a - 1] = Newline
      /\ Covered(w, at, Append(out, text)) /\ w \in Texts
      /\ \A k \in DOMAIN out : ChunkFits(w, out[k])
  BY <1>1 DEF SplitInv
<1>3. w \in Seq(Bytes) /\ WellFormed(w) /\ text \in Seq(Bytes) /\ out \in Seq(Seq(Bytes))
  BY <1>2, CommandsAssumption DEF TypeOK
<1>4. Len(w) \in Nat /\ a \in Nat /\ a >= 1 /\ a <= Len(w) + 1 /\ Len(out) \in Nat
  BY <1>2, <1>3
<1> HIDE DEF a, w
<1>5. PICK b \in Nat : TurnOf(w, a, text, b)
  <2>1. /\ w \in Seq(Bytes) /\ a \in Nat /\ text \in Seq(Bytes) /\ a >= 1 /\ a <= Len(w) + 1
        /\ text = SubSeq(w, a, Len(w)) /\ Len(text) > MaxMessage
    BY <1>1, <1>2, <1>3, <1>4
  <2>2. QED  BY <2>1, SplitTurn
<1>6. /\ b >= 1 /\ b <= Len(w) + 1 /\ Len(w) - Len(rest) + 1 = b
      /\ rest = SubSeq(w, b, Len(w)) /\ rest \in Seq(Bytes)
      /\ Stands(w, a, chunk, b)
      /\ Stands(w, b, rest, Len(w) + 1)
      /\ chunk \in Seq(Bytes) /\ chunk # <<>> /\ Len(chunk) <= MaxMessage
      /\ chunk = SubSeq(w, a, a + Cut(text) - 1)
      /\ a + Cut(text) \in 1..Len(w)
      /\ (\A first \in 1..(Len(w) - MaxMessage + 1) :
            \E k \in first..(first + MaxMessage - 1) : w[k] = Newline) =>
           w[a + Cut(text)] = Newline /\ w[b - 1] = Newline
  BY <1>5 DEF TurnOf
<1>7. ShortLined => w[a + Cut(text)] = Newline /\ w[b - 1] = Newline
  BY <1>6 DEF ShortLined, w
<1>8. Cut(text) \in Nat /\ Cut(text) >= 1
  <2>1. Cut(text) \in 1..MaxMessage /\ MaxMessage \in Nat
    BY <1>1, <1>3, CutIsInside, ReplyAssumption
  <2>2. QED  BY <2>1
<1> HIDE DEF chunk, rest
<1>9. ASSUME ShortLined  PROVE WellFormed(chunk)
  <2>1. PICK e \in Nat : e = a + Cut(text) - 1 /\ e <= Len(w) /\ e + 1 = a + Cut(text)
    <3>1. a + Cut(text) \in 1..Len(w)
      BY <1>6
    <3>2. a + Cut(text) - 1 \in Nat /\ a + Cut(text) - 1 <= Len(w)
      BY <1>4, <1>8, <3>1
    <3>3. QED  BY <1>4, <1>8, <3>2
  <2>2. w[e + 1] = Newline
    BY <1>7, <1>9, <2>1
  <2>3. WellFormed(SubSeq(w, a, e))
    BY <1>2, <1>3, <1>4, <1>9, <2>1, <2>2, PartsOfLines
  <2>4. QED  BY <1>6, <2>1, <2>3
<1>10. ShortLined' <=> ShortLined
  BY <1>1 DEF ShortLined, w
<1>11. ChunkFits(w, chunk)
  BY <1>6, <1>9 DEF ChunkFits
<1>12. /\ Append(out, chunk) \in Seq(Seq(Bytes)) /\ Len(Append(out, chunk)) = Len(out) + 1
       /\ Append(out, chunk)[Len(out) + 1] = chunk
       /\ \A k \in 1..Len(out) : Append(out, chunk)[k] = out[k]
       /\ DOMAIN Append(out, chunk) = 1..(Len(out) + 1) /\ DOMAIN out = 1..Len(out)
  <2>1. /\ Append(out, chunk) \in Seq(Seq(Bytes)) /\ Len(Append(out, chunk)) = Len(out) + 1
        /\ Append(out, chunk)[Len(out) + 1] = chunk
        /\ \A k \in 1..Len(out) : Append(out, chunk)[k] = out[k]
    <3>1. out \in Seq(Seq(Bytes)) /\ chunk \in Seq(Bytes)
      BY <1>3, <1>6
    <3>2. QED  BY <3>1, AppendProperties
  <2>2. DOMAIN Append(out, chunk) = 1..(Len(out) + 1) /\ DOMAIN out = 1..Len(out)
    BY <1>3, <2>1, LenProperties
  <2>3. QED  BY <2>1, <2>2
<1>13. \A k \in DOMAIN out' : ChunkFits(w, out'[k])
  <2>1. ASSUME NEW k \in 1..(Len(out) + 1)  PROVE ChunkFits(w, Append(out, chunk)[k])
    <3>1. k \in 1..Len(out) \/ k = Len(out) + 1
      BY <1>4
    <3>2. QED  BY <1>2, <1>11, <1>12, <3>1
  <2>2. QED  BY <1>1, <1>12, <2>1
<1>14. ChunkFits(whole, chunk)' <=> ChunkFits(whole', chunk')
  BY <1>10 DEF ChunkFits, ShortLined
<1>15. \A k \in DOMAIN out' : ChunkFits(whole, out[k])'
  BY <1>1, <1>10, <1>13 DEF ChunkFits, w
<1>16. /\ at' \in Seq(Nat) /\ Len(at') = Len(at) + 1 /\ at'[Len(at')] = b /\ at' = Append(at, b)
  <2>1. b \in Nat /\ at' = Append(at, b)
    BY <1>1, <1>6
  <2>2. /\ Append(at, b) \in Seq(Nat) /\ Len(Append(at, b)) = Len(at) + 1
        /\ Append(at, b)[Len(at) + 1] = b
    <3>1. at \in Seq(Nat)
      BY <1>2
    <3>2. QED  BY <2>1, <3>1, AppendProperties
  <2>3. QED  BY <2>1, <2>2
<1>17. Covered(w, at', Append(out', text'))
  <2>1. Stands(w, at[Len(at)], chunk, b)
    BY <1>6 DEF a
  <2>2. Covered(w, Append(at, b), Append(Append(out, chunk), rest))
    BY <1>2, <1>3, <1>6, <2>1, CoveredByMore
  <2>3. QED  BY <1>1, <1>16, <2>2
<1>18. out' # <<>>
  <2>1. Len(out') = Len(out) + 1 /\ Len(out') # 0
    BY <1>1, <1>4, <1>12
  <2>2. QED  BY <2>1
<1>19. Len(at') = Len(out') + 1
  BY <1>1, <1>2, <1>12, <1>16
<1>20. b \in 1..(Len(w) + 1)
  BY <1>4, <1>6
<1>21. QED
  BY <1>1, <1>2, <1>6, <1>7, <1>10, <1>15, <1>16, <1>17, <1>18, <1>19, <1>20 DEF SplitInv, w

\* The next chunk goes from those that wait to those the chat has.
LEMMA OneMore ==
  ASSUME NEW S, NEW s \in Seq(S), NEW o \in Seq(S), o # <<>>
  PROVE  Append(s, Head(o)) \o Tail(o) = s \o o
<1> DEFINE h == Head(o)
           r == Tail(o)
<1>1. /\ h \in S /\ r \in Seq(S)
      /\ <<h>> \o r = o
  <2>1. o = SubSeq(o, 1, Len(o)) /\ Len(o) \in Nat /\ Len(o) >= 1
    <3>1. Len(o) \in Nat \ {0}
      BY EmptySeq
    <3>2. QED  BY <3>1, SubSeqFull
  <2>2. 1 \in 1..Len(o) /\ Len(o) \in 1..Len(o)
    BY <2>1
  <2>3. SubSeq(o, 1, Len(o)) = <<o[1]>> \o SubSeq(o, 1 + 1, Len(o))
    BY <2>2, SubSeqRecursiveFirst
  <2>4. r = SubSeq(o, 2, Len(o)) /\ h \in S /\ r \in Seq(S)
    BY TailIsSubSeq, HeadTailProperties
  <2>5. h = o[1]
    BY DEF h
  <2>6. QED  BY <2>1, <2>3, <2>4, <2>5
<1> HIDE DEF h, r
<1>2. Append(s, h) = s \o <<h>>
  BY <1>1, AppendIsConcat
<1>3. <<h>> \in Seq(S)
  BY <1>1
<1>4. (s \o <<h>>) \o r = s \o (<<h>> \o r)
  BY <1>1, <1>3, ConcatAssociative
<1>5. Append(s, h) \o r = s \o o
  BY <1>1, <1>2, <1>4
<1>6. QED  BY <1>5 DEF h, r

LEMMA SplitEndsKeepsSplitInv ==
  ASSUME TypeOK, SplitInv, SplitEnds
  PROVE  SplitInv'
<1> DEFINE w == whole
           a == at[Len(at)]
           L == Len(w)
<1>1. /\ pc = "split" /\ pc' = "send" /\ Len(text) <= MaxMessage /\ text' = <<>>
      /\ whole' = w /\ at' = at /\ sent' = sent
      /\ out' = IF text = <<>> /\ out # <<>> THEN out ELSE Append(out, text)
  BY DEF SplitEnds
<1>2. /\ sent = <<>> /\ at \in Seq(Nat) /\ Len(at) = Len(out) + 1
      /\ a \in 1..(L + 1) /\ text = SubSeq(w, a, L)
      /\ ShortLined => a = 1 \/ w[a - 1] = Newline
      /\ Covered(w, at, Append(out, text)) /\ w \in Texts
      /\ text = <<>> /\ out = <<>> => w = <<>>
      /\ \A k \in DOMAIN out : ChunkFits(w, out[k])
  BY <1>1 DEF SplitInv
<1>3. w \in Seq(Bytes) /\ WellFormed(w) /\ text \in Seq(Bytes) /\ out \in Seq(Seq(Bytes))
  BY <1>2, CommandsAssumption DEF TypeOK
<1> HIDE DEF a, w
<1>4. L \in Nat /\ a \in Nat /\ a >= 1 /\ a <= L + 1
  <2>1. L \in Nat
    BY <1>3
  <2>2. QED  BY <1>2, <2>1
<1>5. ShortLined' <=> ShortLined
  BY <1>1 DEF ShortLined, w
<1>6. ASSUME NEW o \in Seq(Seq(Bytes)), out' = o, o # <<>>,
             \A k \in DOMAIN o : ChunkFits(w, o[k]), Covered(w, at, o)
      PROVE  SplitInv'
  <2>1. sent' \o out' = o
    BY <1>1, <1>2, <1>6, ConcatEmptySeq
  <2>2. \A k \in DOMAIN out' : ChunkFits(whole, out[k])'
    BY <1>1, <1>5, <1>6 DEF ChunkFits, w
  <2>3. pc' = "send" /\ whole' \in Texts /\ text' = <<>> /\ Covered(whole', at', sent' \o out')
    BY <1>1, <1>2, <1>6, <2>1 DEF w
  <2>4. QED  BY <1>6, <2>1, <2>2, <2>3 DEF SplitInv
<1>7. CASE text = <<>> /\ out # <<>>
  <2>1. out' = out
    BY <1>1, <1>7
  <2>2. a = L + 1
    <3>1. Len(SubSeq(w, a, L)) = IF a <= L THEN L - a + 1 ELSE 0
      BY <1>3, <1>4, PartsOfTexts
    <3>2. Len(text) = 0
      BY <1>7
    <3>3. QED  BY <1>2, <1>4, <3>1, <3>2
  <2>3. Covered(w, at, out)
    <3>1. Covered(w, at, Append(out, <<>>)) /\ Len(at) = Len(out) + 1 /\ at[Len(at)] = Len(w) + 1
      BY <1>2, <1>7, <2>2 DEF a
    <3>2. QED  BY <1>2, <1>3, <3>1, CoveredByLess
  <2>4. QED  BY <1>2, <1>3, <1>6, <1>7, <2>1, <2>3
<1>8. CASE ~(text = <<>> /\ out # <<>>)
  <2> DEFINE o == Append(out, text)
  <2>1. out' = o
    BY <1>1, <1>8
  <2>2. /\ o \in Seq(Seq(Bytes)) /\ o # <<>> /\ Len(o) = Len(out) + 1
        /\ \A k \in 1..Len(out) : o[k] = out[k]
        /\ o[Len(out) + 1] = text
    BY <1>3, AppendProperties
  <2>3. ShortLined => WellFormed(text)
    <3>1. L <= L
      BY <1>4
    <3>2. ShortLined => WellFormed(SubSeq(w, a, L))
      BY <1>2, <1>3, <1>4, <3>1, PartsOfLines
    <3>3. QED  BY <1>2, <3>2
  <2>4. ChunkFits(w, text)
    BY <1>1, <1>2, <1>8, <2>3 DEF ChunkFits
  <2>5. DOMAIN o = 1..(Len(out) + 1) /\ DOMAIN out = 1..Len(out) /\ Len(out) \in Nat
    BY <1>3, <2>2, LenProperties
  <2>6. Covered(w, at, o)
    BY <1>2
  <2> HIDE DEF o
  <2>7. ASSUME NEW k \in DOMAIN o  PROVE ChunkFits(w, o[k])
    <3>1. k \in 1..Len(out) \/ k = Len(out) + 1
      BY <2>5
    <3>2. QED  BY <1>2, <2>2, <2>4, <2>5, <3>1
  <2>8. QED  BY <1>6, <2>1, <2>2, <2>6, <2>7
<1>9. QED  BY <1>7, <1>8

LEMMA SendChunkKeepsSplitInv ==
  ASSUME TypeOK, SplitInv, SendChunk
  PROVE  SplitInv'
<1>1. /\ pc = "send" /\ out # <<>> /\ whole' = whole /\ at' = at /\ text' = text
      /\ text = <<>> /\ Covered(whole, at, sent \o out) /\ sent \o out # <<>> /\ whole \in Texts
      /\ \A k \in DOMAIN out : ChunkFits(whole, out[k])
      /\ out \in Seq(Seq(Bytes)) /\ sent \in Seq(Seq(Bytes))
  BY DEF SendChunk, SplitInv, TypeOK
<1>2. CASE out' = <<>> /\ pc' = "done"
  BY <1>2 DEF SplitInv
<1>3. CASE sent' = Append(sent, Head(out)) /\ out' = Tail(out) /\ pc' = "send"
  <2>1. sent' \o out' = sent \o out
    BY <1>1, <1>3, OneMore
  <2>2. /\ Tail(out) \in Seq(Seq(Bytes)) /\ Len(Tail(out)) = Len(out) - 1
        /\ \A k \in 1..Len(Tail(out)) : Tail(out)[k] = out[k + 1]
    BY <1>1, HeadTailProperties
  <2>3. /\ DOMAIN Tail(out) = 1..Len(Tail(out)) /\ DOMAIN out = 1..Len(out)
        /\ Len(out) \in Nat /\ Len(Tail(out)) \in Nat
    BY <1>1, <2>2, LenProperties
  <2>4. ShortLined' <=> ShortLined
    BY <1>1 DEF ShortLined
  <2> DEFINE r == Tail(out)
  <2> HIDE DEF r
  <2>5. ASSUME NEW k \in DOMAIN r  PROVE ChunkFits(whole, r[k])
    <3>1. k \in 1..Len(r) /\ Len(r) = Len(out) - 1 /\ Len(out) \in Nat
      BY <2>2, <2>3 DEF r
    <3>2. k + 1 \in 1..Len(out)
      BY <3>1
    <3>3. r[k] = out[k + 1]
      BY <2>2, <3>1 DEF r
    <3>4. QED  BY <1>1, <2>3, <3>2, <3>3
  <2>6. \A k \in DOMAIN out' : ChunkFits(whole, out[k])'
    BY <1>1, <1>3, <2>4, <2>5 DEF ChunkFits, r
  <2>7. QED  BY <1>1, <1>3, <2>1, <2>6 DEF SplitInv
<1>4. QED  BY <1>2, <1>3 DEF SendChunk, SplitInv

LEMMA SplitInvNext ==
  ASSUME TypeOK, SplitInv, [Next]_vars
  PROVE  SplitInv'
<1>1. CASE Parse \/ Type \/ Receive \/ Answered
  <2>1. /\ pc \in {"idle", "parse", "asked"} /\ pc' \in {"idle", "parse", "asked", "reply"}
        /\ out' = out /\ sent' = sent
    BY <1>1 DEF Type, Receive, Answered, Parse, ParseGet, ParseLogs, ParseExec, ParseInline,
      ParseNothing, ParseEnds, Parsing, Turn, Finished, replying
  <2>2. QED  BY <2>1 DEF SplitInv
<1>2. CASE ShowPane \/ Shown \/ SendEnds
  BY <1>2 DEF ShowPane, Shown, SendEnds, replying, SplitInv
<1>3. CASE UNCHANGED vars
  BY <1>3 DEF vars, replying, SplitInv, ChunkFits, ShortLined
<1>4. QED
  BY <1>1, <1>2, <1>3, AnswerKeepsSplitInv, SplitKeepsSplitInv, SplitEndsKeepsSplitInv,
    SendChunkKeepsSplitInv DEF Next, Reply

LEMMA ChunksLoseNothing ==
  ASSUME TypeOK, SplitInv
  PROVE  SplitLosesNothing
<1> SUFFICES ASSUME pc \in {"split", "send"}
             PROVE  /\ Pieces = <<>> => whole = <<>>
                    /\ Covered(whole, at, Pieces)
                    /\ \A k \in DOMAIN out : ChunkFits(whole, out[k])
  BY DEF SplitLosesNothing, ChunkFits
<1>1. \A k \in DOMAIN out : ChunkFits(whole, out[k])
  BY DEF SplitInv
<1>2. /\ whole \in Seq(Bytes) /\ text \in Seq(Bytes)
      /\ out \in Seq(Seq(Bytes)) /\ sent \in Seq(Seq(Bytes))
  BY DEF TypeOK
<1>3. CASE pc = "send"
  <2>1. text = <<>> /\ Covered(whole, at, sent \o out) /\ sent \o out # <<>>
    BY <1>3 DEF SplitInv
  <2>2. Pieces = (sent \o out) \o <<>>
    BY <2>1 DEF Pieces
  <2>3. sent \o out \in Seq(Seq(Bytes))
    BY <1>2, ConcatProperties
  <2>4. Pieces = sent \o out
    BY <2>2, <2>3, ConcatEmptySeq
  <2>5. QED  BY <1>1, <2>1, <2>4
<1>4. CASE pc = "split"
  <2> DEFINE a == at[Len(at)]
             L == Len(whole)
  <2>1. /\ sent = <<>> /\ at \in Seq(Nat) /\ Len(at) = Len(out) + 1
        /\ a \in 1..(L + 1) /\ text = SubSeq(whole, a, L)
        /\ Covered(whole, at, Append(out, text))
        /\ text = <<>> /\ out = <<>> => whole = <<>>
    BY <1>4 DEF SplitInv
  <2>2. sent \o out = out
    BY <1>2, <2>1, ConcatEmptySeq
  <2>3. CASE text = <<>>
    <3>1. Pieces = out \o <<>>
      BY <2>2, <2>3 DEF Pieces
    <3>2. Pieces = out
      BY <1>2, <3>1, ConcatEmptySeq
    <3>3. a = L + 1
      <4>1. L \in Nat /\ a \in Nat /\ a >= 1
        <5>1. L \in Nat
          BY <1>2
        <5>2. QED  BY <2>1, <5>1
      <4> HIDE DEF a
      <4>2. Len(SubSeq(whole, a, L)) = IF a <= L THEN L - a + 1 ELSE 0
        <5>1. L <= Len(whole)
          BY <4>1
        <5>2. QED  BY <1>2, <4>1, <5>1, PartsOfTexts
      <4>3. Len(text) = 0
        BY <2>3
      <4>4. QED  BY <2>1, <4>1, <4>2, <4>3
    <3>4. Covered(whole, at, Append(out, <<>>)) /\ at[Len(at)] = Len(whole) + 1
      BY <2>1, <2>3, <3>3
    <3>5. Covered(whole, at, out)
      BY <1>2, <2>1, <3>4, CoveredByLess
    <3>6. QED  BY <1>1, <2>1, <2>3, <3>2, <3>5
  <2>4. CASE text # <<>>
    <3>1. Pieces = out \o <<text>>
      BY <2>2, <2>4 DEF Pieces
    <3>2. Pieces = Append(out, text) /\ Pieces # <<>>
      BY <1>2, <3>1, AppendIsConcat, AppendProperties
    <3>3. QED  BY <1>1, <2>1, <3>2
  <2>5. QED  BY <2>3, <2>4
<1>5. QED  BY <1>3, <1>4

\* While a reply is split and sent, what the chat has, what waits and what is left make up the
\* reply, and no chunk is one that Telegram would refuse (splitMessage, SendLongMessage), for
\* any limit and any texts.
THEOREM CommandsSplitLosesNothing == Spec => []SplitLosesNothing
<1>1. Init => SplitInv
  BY DEF Init, SplitInv
<1>2. TypeOK /\ SplitInv /\ [Next]_vars => SplitInv'
  BY SplitInvNext
<1>3. TypeOK /\ SplitInv => SplitLosesNothing
  BY ChunksLoseNothing
<1>4. QED  BY <1>1, <1>2, <1>3, CommandsTypeCorrect, PTL DEF Spec
=============================================================================
