------------------------------ MODULE Commands ------------------------------
(***************************************************************************)
(* A typed command, from its arguments to what the chat shows: the flag    *)
(* parsers of the handlers (src/internal/handlers), which read one         *)
(* argument per turn of a loop, getNamespace, which reads the same         *)
(* arguments a second time, and the reply, which may be longer than a      *)
(* message or a pane (Replies).                                            *)
(*                                                                         *)
(* An argument is a pair of a flag and a value: a bare word has no flag, a *)
(* flag that stands alone has the value "alone".  "-v" is whichever value  *)
(* flag the command has besides -n (-o, -l, -c, --since), "-f" one without *)
(* a value.  The long spellings are read as the short ones are.            *)
(***************************************************************************)
EXTENDS Replies

CONSTANTS
  Arguments,   \* what may be typed after the resource type or the pod
  MaxArgs,
  Texts,       \* the texts that are sent
  Bodies       \* the bodies that are put in a pane

\* A log body is a heading and one code block, closed at the end: what is in the log like a
\* fence was made something else (RichDoc.Code).
OneBlock(t) ==
  \E f \in 1..(Len(t) - 7) :
    t[1] # Mark /\ FencesAt(t) = {f, Len(t) - 2} /\ t[f + 3] = Newline /\ t[Len(t) - 3] = Newline

ASSUME CommandsAssumption ==
  /\ MaxArgs \in Nat
  /\ Texts \subseteq Seq(Bytes) /\ \A t \in Texts : WellFormed(t)
  /\ Bodies \subseteq Seq(Bytes) /\ \A t \in Bodies : OneBlock(t)

VARIABLES
  pc,
  cmd,       \* what is asked: the command, if of a cluster-scoped kind, the session's namespace
  args,
  i,         \* the argument the parser stands at
  got,       \* what it has found
  looked,    \* history: the arguments it has taken for a flag or a name
  whole,     \* history: the reply as it was made
  at,        \* history: where in it the chunks and what is left begin
  text,      \* what is still to be split
  out,       \* the chunks still to be sent
  sent       \* the messages the chat has

parsing == <<cmd, args, i, got, looked>>
replying == <<whole, at, text, out, sent>>
vars == <<pc, parsing, replying>>

Word(w) == <<"", w>>
Alone(f) == <<f, "alone">>
Empty == Word("")
Session == "session"
Default == "default"

Names == {"get", "logs", "exec", "describe", "watch", "inline"}
NoCommand == [name |-> "", scoped |-> FALSE, session |-> ""]
Nothing == [ns |-> Empty, value |-> Empty, follow |-> FALSE, words |-> <<>>, start |-> 1]

Init ==
  /\ pc = "idle" /\ cmd = NoCommand /\ args = <<>> /\ i = 1 /\ got = Nothing /\ looked = {}
  /\ whole = <<>> /\ at = <<>> /\ text = <<>> /\ out = <<>> /\ sent = <<>>

-----------------------------------------------------------------------------
(* Arguments. *)

IsAlone(t) == t[1] # "" /\ t[2] = "alone"
Joined(t) == Word(t[2])

\* Mutant: a flag joined with an empty value takes the next argument as well.
ConsumedGreedy(k) == IF IsAlone(args[k]) \/ Joined(args[k]) = Empty THEN 2 ELSE 1

\* Mutant: a flag at the very end consumes nothing.
ConsumedNone(k) == IF ~IsAlone(args[k]) THEN 1 ELSE IF k < Len(args) THEN 2 ELSE 0

\* A flag at the very end consumes only itself.
Consumed(k) == IF IsAlone(args[k]) /\ k < Len(args) THEN 2 ELSE 1

Value(k) ==
  IF ~IsAlone(args[k]) THEN Joined(args[k])
  ELSE IF k < Len(args) THEN args[k + 1] ELSE Empty

\* Where getNamespace finds one.
NamespacesFrom(first) ==
  {k \in first..Len(args) : args[k][1] = "-n" /\ (IsAlone(args[k]) => k < Len(args))}

OfSession == Word(IF cmd.session # "" THEN cmd.session ELSE Default)

\* Mutant: the second reader knows only the spelling with a space.
getNamespaceSpaced(first) ==
  LET spaced == {k \in NamespacesFrom(first) : IsAlone(args[k])} IN
  IF spaced = {} THEN OfSession ELSE Value(Min(spaced))

getNamespace(first) ==
  IF NamespacesFrom(first) = {} THEN OfSession ELSE Value(Min(NamespacesFrom(first)))

-----------------------------------------------------------------------------
(* The parsers: one turn of each one's loop. *)

\* Go on after n arguments, the first of which meant something.
Turn(n, found) ==
  /\ got' = found
  /\ looked' = looked \cup {i}
  /\ i' = i + n
  /\ UNCHANGED <<pc, cmd, args, replying>>

Parsing(name) == pc = "parse" /\ cmd.name = name /\ i <= Len(args)

\* parseFlags: a flag that is joined with nothing changes nothing.
Given(k) == Consumed(k) = 2 \/ Value(k) # Empty

ParseGet ==
  /\ Parsing("get")
  /\ CASE args[i] = Alone("-A") -> Turn(1, [got EXCEPT !.ns = Empty])
       [] args[i][1] = "-n" -> Turn(Consumed(i), IF Given(i) THEN [got EXCEPT !.ns = Value(i)] ELSE got)
       [] args[i][1] = "-v" -> Turn(Consumed(i), IF Given(i) THEN [got EXCEPT !.value = Value(i)] ELSE got)
       [] OTHER -> Turn(1, [got EXCEPT !.words = Append(@, i)])

\* parseLogFlags: -n and its value are two arguments it does not know.
ParseLogs ==
  /\ Parsing("logs")
  /\ CASE args[i] = Alone("-f") -> Turn(1, [got EXCEPT !.follow = TRUE])
       [] args[i][1] = "-v" ->
            Turn(Consumed(i), IF Value(i) # Empty THEN [got EXCEPT !.value = Value(i)] ELSE got)
       [] OTHER -> Turn(1, got)

\* Mutant: the namespace is not skipped on the way to the command.
ExecFlagsOwn == {"-v"}

ExecFlags == {"-v", "-n"}

Finished == pc' = "asked" /\ UNCHANGED <<cmd, args, i, looked, replying>>

\* parseExecArgs: the first argument that is no flag begins the command.
ParseExec ==
  /\ Parsing("exec")
  /\ \/ args[i] = Alone("--") /\ Finished /\ got' = [got EXCEPT !.start = i + 1]
     \/ /\ args[i][1] \in ExecFlags
        /\ Turn(Consumed(i),
                [got EXCEPT !.start = i + Consumed(i),
                   !.value = IF args[i][1] = "-v" /\ Value(i) # Empty THEN Value(i) ELSE @])
     \/ args[i] # Alone("--") /\ args[i][1] \notin ExecFlags /\ Finished /\ UNCHANGED got

\* parseInlineArgs: a flag at the end is still being typed.
ParseInline ==
  /\ Parsing("inline")
  /\ LET complete == ~IsAlone(args[i]) \/ i < Len(args) IN
     CASE args[i][1] = "-n" -> Turn(Consumed(i), IF complete THEN [got EXCEPT !.ns = Value(i)] ELSE got)
       [] args[i][1] = "-v" -> Turn(Consumed(i), IF complete THEN [got EXCEPT !.value = Value(i)] ELSE got)
       [] OTHER -> Turn(1, IF got.words = <<>> THEN [got EXCEPT !.words = <<i>>] ELSE got)

\* The handlers that only ask for the namespace have no loop.
ParseNothing == pc = "parse" /\ cmd.name \in {"describe", "watch"} /\ Finished /\ UNCHANGED got

ParseEnds ==
  /\ pc = "parse" /\ cmd.name \notin {"describe", "watch"} /\ i > Len(args)
  /\ Finished /\ UNCHANGED got

Parse == ParseGet \/ ParseLogs \/ ParseExec \/ ParseInline \/ ParseNothing \/ ParseEnds

\* Which namespace each handler asks the API server for; Empty is all of them.
AskedByGet == IF got.ns = Empty /\ ~cmd.scoped THEN getNamespace(1) ELSE got.ns
AskedByDescribe == IF cmd.scoped THEN Empty ELSE getNamespace(2)
AskedByLogs == getNamespace(1)
AskedByExec == getNamespace(1)
AskedByWatch == getNamespace(1)
AskedByInline == got.ns

Asked ==
  CASE cmd.name = "get" -> AskedByGet
    [] cmd.name = "describe" -> AskedByDescribe
    [] cmd.name = "logs" -> AskedByLogs
    [] cmd.name = "exec" -> AskedByExec
    [] cmd.name = "watch" -> AskedByWatch
    [] cmd.name = "inline" -> AskedByInline

\* The user types one argument after another.
Type ==
  /\ pc = "idle" /\ Len(args) < MaxArgs
  /\ \E a \in Arguments : args' = Append(args, a)
  /\ UNCHANGED <<pc, cmd, i, got, looked, replying>>

Receive ==
  /\ pc = "idle"
  /\ \E name \in Names, scoped \in BOOLEAN, s \in {"", Session} :
       /\ scoped => name \notin {"logs", "exec"}
       /\ name = "inline" => s = ""
       /\ name = "describe" => args # <<>>
       /\ cmd' = [name |-> name, scoped |-> scoped, session |-> s]
  /\ pc' = "parse"
  /\ UNCHANGED <<args, i, got, looked, replying>>

-----------------------------------------------------------------------------
(* Replies. *)

\* The API server answers, or fails: what is said no longer depends on what was typed.
Answered ==
  /\ pc = "asked"
  /\ pc' = "reply"
  /\ cmd' = NoCommand /\ args' = <<>> /\ i' = 1 /\ got' = Nothing /\ looked' = {}
  /\ UNCHANGED replying

\* SendRich: what it falls back to when the rich message is refused goes through SendLongMessage.
Answer ==
  /\ pc = "reply"
  /\ whole' \in Texts
  /\ \/ pc' = "done" /\ sent' = <<whole'>> /\ UNCHANGED <<at, text>>
     \/ pc' = "split" /\ text' = whole' /\ at' = <<1>> /\ UNCHANGED sent
  /\ UNCHANGED <<parsing, out>>

\* One turn of splitMessage's loop.
Split ==
  /\ pc = "split" /\ Len(text) > MaxMessage
  /\ out' = Append(out, Beginning(text, Cut(text)))
  /\ text' = Rest(text)
  /\ at' = Append(at, Len(whole) - Len(text') + 1)
  /\ UNCHANGED <<pc, parsing, whole, sent>>

SplitEnds ==
  /\ pc = "split" /\ Len(text) <= MaxMessage
  /\ out' = IF text = <<>> /\ out # <<>> THEN out ELSE Append(out, text)
  /\ text' = <<>>
  /\ pc' = "send"
  /\ UNCHANGED <<parsing, whole, at, sent>>

\* A chunk that Telegram refuses, or that is lost on the way, ends the reply.
SendChunk ==
  /\ pc = "send" /\ out # <<>>
  /\ \/ WellFormed(Head(out)) /\ sent' = Append(sent, Head(out)) /\ out' = Tail(out) /\ UNCHANGED pc
     \/ out' = <<>> /\ pc' = "done" /\ UNCHANGED sent
  /\ UNCHANGED <<parsing, whole, at, text>>

SendEnds == pc = "send" /\ out = <<>> /\ pc' = "done" /\ UNCHANGED <<parsing, replying>>

\* showPane.
ShowPane ==
  /\ pc = "reply"
  /\ whole' \in Bodies
  /\ sent' \in {<<truncateForPane(whole')>>, <<truncateForPaneTail(whole')>>}
  /\ pc' = "pane"
  /\ UNCHANGED <<parsing, at, text, out>>

Shown ==
  /\ pc \in {"done", "pane"}
  /\ pc' = "idle" /\ whole' = <<>> /\ at' = <<>> /\ sent' = <<>>
  /\ UNCHANGED <<parsing, text, out>>

Reply == Answered \/ Answer \/ Split \/ SplitEnds \/ SendChunk \/ SendEnds \/ ShowPane

Next == Type \/ Receive \/ Parse \/ Reply \/ Shown

\* /exec with a command: ExecInPod's stream has neither a timeout nor a context that ends before
\* the bot does, and what runs in the pod need not end.  (Without one a shell is started, which
\* is answered at once.)
RunsInPod == cmd.name = "exec" /\ got.start <= Len(args)

\* Any other call to the API server ends within the client's timeout.
InTime == Answered /\ ~RunsInPod
Sending == Answer \/ Split \/ SplitEnds \/ SendChunk \/ SendEnds \/ ShowPane

Spec == Init /\ [][Next]_vars /\ WF_vars(Parse \/ InTime \/ Sending)
-----------------------------------------------------------------------------
(* Properties. *)

Found(seen) == {Empty} \cup {Value(k) : k \in seen}

\* The type invariant.  That a parser's index is never more than one behind its arguments,
\* and that what it finds is the value of an argument it looked at, are parts of it.
TypeOK ==
  /\ pc \in {"idle", "parse", "asked", "reply", "split", "send", "done", "pane"}
  /\ cmd \in [name : Names \cup {""}, scoped : BOOLEAN, session : {"", Session}]
  /\ cmd.name \in Names <=> pc \in {"parse", "asked"}
  /\ args \in Seq(Arguments) /\ Len(args) <= MaxArgs
  /\ i \in 1..(Len(args) + 1)
  /\ looked \subseteq 1..(i - 1)
  /\ got \in [ns : Found(looked), value : Found(looked), follow : BOOLEAN, words : Seq(looked),
             start : 1..(Len(args) + 1)]
  /\ whole \in Seq(Bytes) /\ text \in Seq(Bytes)
  /\ out \in Seq(Seq(Bytes)) /\ sent \in Seq(Seq(Bytes))

Takes == CASE cmd.name = "logs" -> {"-v"} [] cmd.name \in {"get", "exec", "inline"} -> {"-n", "-v"} [] OTHER -> {}

\* The arguments that are the value of the flag before them.
Values == {k + 1 : k \in {j \in looked : args[j][1] \in Takes /\ IsAlone(args[j]) /\ j < Len(args)}}

\* The command that is to run in the pod, and the "--" that may set it off.
Separator == {k \in {got.start - 1} \cap DOMAIN args : args[k] = Alone("--") /\ k \notin looked \cup Values}
Command == IF cmd.name = "exec" THEN got.start..Len(args) ELSE {}

\* However the flags are spelt and wherever a half-typed one stands, each argument is either
\* looked at, or the value of a flag, or part of the command of /exec, and never two of these:
\* the index arithmetic of four loops that advance by one or by two (base.go, exec.go, logs.go,
\* inline_query.go) skips nothing, reads nothing twice, and stays inside the slice.  And what
\* runs in the pod begins where telectl's own flags end: -n or -c is run only behind a "--".
EveryArgumentOnce ==
  pc = "asked" /\ cmd.name \notin {"describe", "watch"} =>
    /\ looked \cap Values = {} /\ (looked \cup Values) \cap (Command \cup Separator) = {}
    /\ looked \cup Values \cup Command \cup Separator = DOMAIN args
    /\ Command # {} /\ args[got.start][1] \in {"-n", "-v"} => Separator # {}

\* A line nobody could read in two ways: each value flag has a word, -A is not there, and the
\* namespace is not inside the command that /exec runs.
Clear ==
  /\ \A k \in DOMAIN args : args[k][1] \in {"-n", "-v"} => Value(k)[1] = "" /\ Value(k) # Empty
  /\ Alone("-A") \notin Range(args)
  /\ \A k \in Command : args[k][1] # "-n"
  /\ cmd.name = "describe" => args[1][1] = ""

TypedNamespaces == {k \in DOMAIN args : args[k][1] = "-n"}

\* Two readers of one line agree.  getNamespace scans all arguments and knows nothing of the
\* other flags, the parsers know nothing of the session: on a clear line with at most one -n,
\* in any of its spellings and wherever it stands, a namespaced kind is nevertheless asked for
\* in the namespace that was typed, and by every command in the session's, or else the default
\* one, when none was.  A cluster-scoped kind is asked for in none, as get.go and describe.go
\* say it must be: by /describe whatever was typed, by /get unless one was.
\* (Nothing is said of several -n, of /watch and a typed -n where the kind has no namespaces,
\* and of an inline query without one: there the code is at odds with itself or its help.)
NamespaceAsTyped ==
  pc = "asked" /\ Clear /\ (\A j, k \in TypedNamespaces : j = k) =>
    /\ ~cmd.scoped => \A k \in TypedNamespaces : Asked = Value(k)
    /\ ~cmd.scoped /\ cmd.name # "inline" /\ TypedNamespaces = {} => Asked = OfSession
    /\ cmd.scoped /\ cmd.name = "describe" => Asked = Empty
    /\ cmd.scoped /\ cmd.name = "get" /\ TypedNamespaces = {} => Asked = Empty

\* "-A, --all-namespaces: All namespaces (overrides -n)" (docs/wiki/Command-Reference.md:25).
\* Violated: /get takes the empty namespace for one that was not given, and asks getNamespace,
\* which finds the -n, the session's or the default (get.go).
AllMeansAll ==
  pc = "asked" /\ cmd.name = "get" /\ Alone("-A") \in {args[k] : k \in looked} => Asked = Empty

Pieces == sent \o out \o IF text = <<>> THEN <<>> ELSE <<text>>

\* A piece stands at a in w, and up to where the next one begins there is nothing or one
\* line end.
Stands(w, a, piece, next) ==
  /\ SubSeq(w, a, a + Len(piece) - 1) = piece
  /\ next = a + Len(piece) \/ (next = a + Len(piece) + 1 /\ w[a + Len(piece)] = Newline)

\* The pieces, the first from its beginning, make up w.
Covered(w, starts, pieces) ==
  \A k \in DOMAIN pieces :
    /\ k = 1 => starts[k] = 1
    /\ Stands(w, starts[k], pieces[k], IF k < Len(pieces) THEN starts[k + 1] ELSE Len(w) + 1)

\* All lines are shorter than a message.
ShortLined ==
  \A first \in 1..(Len(whole) - MaxMessage + 1) :
    \E k \in first..(first + MaxMessage - 1) : whole[k] = Newline

\* While a reply is split and sent, what has been sent, what waits and what is left make up
\* the reply in its order, less at most one line end at each cut (bot.go, splitMessage,
\* SendLongMessage): a blank line that falls on a cut does not vanish.  No chunk is empty or
\* beyond the limit, and none ends inside a rune as long as all lines are shorter than a
\* message, though bytes are cut (a line that is longer may be; pane.go cuts runes for this
\* reason): Telegram would refuse such a chunk, and SendLongMessage would drop the rest of the
\* reply with it.
SplitLosesNothing ==
  pc \in {"split", "send"} =>
    /\ Pieces = <<>> => whole = <<>>
    /\ Covered(whole, at, Pieces)
    /\ \A k \in DOMAIN out :
         /\ Len(out[k]) <= MaxMessage /\ (out[k] = <<>> => whole = <<>>)
         /\ ShortLined => WellFormed(out[k])

CutAtHead == sent[1][1] = Mark
Overhead == IF CutAtHead THEN Len(TailNote \o Opening \o Closing) ELSE Len(Note)
Within(s, t) == \E k \in 1..(Len(t) - Len(s) + 1) : SubSeq(t, k, k + Len(s) - 1) = s

\* A pane fits one message whichever end is cut: the limit, the note and the two fences that
\* may be put back.  A log that had to be cut is still one closed code block, and its newest
\* half is there, whatever fence the cut has lost (truncateForPaneTail): provided that the cut
\* falls behind the opening fence.  (When it takes only the heading, a third fence is put
\* before it.)
PaneKeepsItsEnd ==
  pc = "pane" =>
    /\ Len(sent[1]) <= PaneLimit + Overhead
    /\ CutAtHead /\ Len(whole) - PaneLimit > Min(FencesAt(whole)) + 1 =>
         Cardinality(FencesAt(sent[1])) = 2 /\ Within(Ending(whole, PaneLimit \div 2), sent[1])

\* Whatever was typed, the loops end and the chat gets an answer or loses one on the way; only
\* a command that /exec runs in a pod may keep it waiting, for as long as that command runs.
EveryCommandAnswers ==
  (pc \in {"parse", "asked", "reply", "split", "send"}) ~>
    (pc \in {"done", "pane"} \/ (pc = "asked" /\ RunsInPod))
=============================================================================
