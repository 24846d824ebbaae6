------------------------------ MODULE Messages ------------------------------
(***************************************************************************)
(* Incoming messages: handleMessage in src/internal/bot/bot.go asks the    *)
(* rate limiter, and a message that passes is a command, text in exec mode *)
(* or neither.  The command of interest is /exec with a shell,             *)
(* src/internal/handlers/exec.go: it leaves a goroutine behind, an entry   *)
(* in the handler's map of sessions per chat and the exec mode of the      *)
(* user's session, which text, /exit and the goroutine's own end meet.     *)
(*                                                                         *)
(* Users are those the allow list lets in.  Chats may be groups: a chat    *)
(* may have several users and a user several chats.                        *)
(***************************************************************************)
EXTENDS RateLimiter

CONSTANTS
  Chats,
  Execs,      \* the interactive shells asked for, each of them once
  Texts,      \* goroutines handling text sent in exec mode
  MaxNow,     \* where the clock of the model stops
  None

ASSUME MessageAssumption == MaxNow \in Nat /\ None \notin Execs

VARIABLES
  sessions,   \* ExecHandler.sessions: the shell each chat has, or None
  mode,       \* exec_mode of each user's session: the shell it was set for, or None
  proc,       \* proc[e]: the goroutines of one shell, the update's and then its own
  text        \* text[t]: the user whose exec mode is about to be cleared, or None

execVars == <<sessions, mode, proc, text>>
vars == <<rateVars, execVars>>

\* asked and raced are history: whether /exit was sent in its chat, and whether it
\* passed the check side by side with another, or in the aftermath (see Rivals).
ExecRec == [pc : {"checking", "registering", "entering", "running", "ended", "leaving"},
            user : Users, chat : Chats, asked : BOOLEAN, raced : BOOLEAN]

Unused == [pc |-> "unused"]
Over == [pc |-> "over"]

Open(c) == {e \in Execs : /\ proc[e].pc \in {"registering", "entering", "running", "ended"}
                          /\ proc[e].chat = c}

Init ==
  /\ RateInit
  /\ sessions = [c \in Chats |-> None]
  /\ mode = [u \in Users |-> None]
  /\ proc = [e \in Execs |-> Unused]
  /\ text = [t \in Texts |-> None]

-----------------------------------------------------------------------------
(* Messages. *)

\* /exec <pod>: a shell is asked for.
ExecCommand(e, u, c) ==
  /\ proc[e].pc = "unused"
  /\ Admit(u)
  /\ proc' = [proc EXCEPT ![e] = [pc |-> "checking", user |-> u, chat |-> c,
                                  asked |-> FALSE, raced |-> FALSE]]
  /\ UNCHANGED <<sessions, mode, text>>

\* Text while IsInExecMode: handleExecInput answers that it is not implemented.
ExecInput(t, u) ==
  /\ text[t] = None /\ mode[u] # None
  /\ Admit(u)
  /\ text' = [text EXCEPT ![t] = u]
  /\ UNCHANGED <<sessions, mode, proc>>

\* /exit: a slash makes it a command, and there is no such command.
ExitCommand(u, c) ==
  /\ Admit(u)
  /\ proc' = [e \in Execs |->
       IF sessions[c] = e THEN [proc[e] EXCEPT !.asked = TRUE] ELSE proc[e]]
  /\ UNCHANGED <<sessions, mode, text>>

\* Any other message, or an inline query.
OtherMessage(u) == Admit(u) /\ UNCHANGED execVars

RefusedMessage(u) == Refuse(u) /\ UNCHANGED execVars

-----------------------------------------------------------------------------
(* startInteractiveSession. *)

\* No such pod: the handler returns the error.
NoPod(e) ==
  /\ proc[e].pc = "checking"
  /\ proc' = [proc EXCEPT ![e] = Over]
  /\ UNCHANGED <<rateVars, sessions, mode, text>>

\* History: the shells of a chat that one which passes the check now is in a race with.
\* Those that have passed it, too, and have no entry yet; and those still open that raced
\* before, since the end of the other one takes their entry away.
Rivals(c) == {d \in Open(c) : proc[d].pc = "registering" \/ proc[d].raced}

Pass(e) ==
  LET rivals == Rivals(proc[e].chat) IN
  proc' = [d \in Execs |->
    IF d = e THEN [proc[e] EXCEPT !.pc = "registering", !.raced = rivals # {}]
    ELSE IF d \in rivals THEN [proc[d] EXCEPT !.raced = TRUE]
    ELSE proc[d]]

\* Mutant: the session of a chat is looked for and never refused.
CheckNothing(e) ==
  /\ proc[e].pc = "checking"
  /\ Pass(e)
  /\ UNCHANGED <<rateVars, sessions, mode, text>>

\* The check for an active session, under one lock ...  (Active is never false.)
Check(e) ==
  /\ proc[e].pc = "checking"
  /\ IF sessions[proc[e].chat] = None THEN Pass(e) ELSE proc' = [proc EXCEPT ![e] = Over]
  /\ UNCHANGED <<rateVars, sessions, mode, text>>

\* ... and the entry, under another.
Register(e) ==
  /\ proc[e].pc = "registering"
  /\ sessions' = [sessions EXCEPT ![proc[e].chat] = e]
  /\ proc' = [proc EXCEPT ![e].pc = "entering"]
  /\ UNCHANGED <<rateVars, mode, text>>

\* SetExecMode, the welcome message, and the goroutine.
EnterMode(e) ==
  /\ proc[e].pc = "entering"
  /\ mode' = [mode EXCEPT ![proc[e].user] = e]
  /\ proc' = [proc EXCEPT ![e].pc = "running"]
  /\ UNCHANGED <<rateVars, sessions, text>>

-----------------------------------------------------------------------------
(* The goroutine. *)

\* ExecInPod returns: the shell exits, its pod goes away or the stream breaks.
\* Nothing in the bot cancels it or closes its standard input.
ShellEnds(e) ==
  /\ proc[e].pc = "running"
  /\ proc' = [proc EXCEPT ![e].pc = "ended"]
  /\ UNCHANGED <<rateVars, sessions, mode, text>>

\* Mutant: the entry stays.
UnregisterForgotten(e) ==
  /\ proc[e].pc = "ended"
  /\ proc' = [proc EXCEPT ![e].pc = "leaving"]
  /\ UNCHANGED <<rateVars, sessions, mode, text>>

\* The entry of the chat is deleted, whichever shell it is for.
Unregister(e) ==
  /\ proc[e].pc = "ended"
  /\ sessions' = [sessions EXCEPT ![proc[e].chat] = None]
  /\ proc' = [proc EXCEPT ![e].pc = "leaving"]
  /\ UNCHANGED <<rateVars, mode, text>>

LeaveMode(e) ==
  /\ proc[e].pc = "leaving"
  /\ mode' = [mode EXCEPT ![proc[e].user] = None]
  /\ proc' = [proc EXCEPT ![e] = Over]
  /\ UNCHANGED <<rateVars, sessions, text>>

\* handleExecInput's last line, ClearExecMode, once its answer was sent.
ClearMode(t) ==
  /\ text[t] # None
  /\ mode' = [mode EXCEPT ![text[t]] = None]
  /\ text' = [text EXCEPT ![t] = None]
  /\ UNCHANGED <<rateVars, sessions, proc>>

-----------------------------------------------------------------------------

Tick == now < MaxNow /\ Elapse /\ UNCHANGED execVars

\* What the bot does on its own: everything but the end of the shell.
Handler(e) == NoPod(e) \/ Check(e) \/ Register(e) \/ EnterMode(e)
Cleanup(e) == Unregister(e) \/ LeaveMode(e)

Next ==
  \/ \E e \in Execs, u \in Users, c \in Chats : ExecCommand(e, u, c)
  \/ \E t \in Texts, u \in Users : ExecInput(t, u)
  \/ \E u \in Users, c \in Chats : ExitCommand(u, c)
  \/ \E u \in Users : OtherMessage(u) \/ RefusedMessage(u)
  \/ \E e \in Execs : Handler(e) \/ ShellEnds(e) \/ Cleanup(e)
  \/ \E t \in Texts : ClearMode(t)
  \/ Tick

Spec == Init /\ [][Next]_vars

\* Goroutines are scheduled and calls return; a shell need never end.
FairSpec ==
  /\ Spec
  /\ \A e \in Execs : WF_vars(Handler(e)) /\ WF_vars(Cleanup(e))
  /\ \A t \in Texts : WF_vars(ClearMode(t))

-----------------------------------------------------------------------------
(* Properties. *)

\* The type invariant.
TypeOK ==
  /\ RateTypeOK
  /\ sessions \in [Chats -> Execs \cup {None}]
  /\ mode \in [Users -> Execs \cup {None}]
  /\ proc \in [Execs -> ExecRec \cup {Unused, Over}]
  /\ text \in [Texts -> Users \cup {None}]

\* No entry and no exec mode outlives its shell: a chat is never refused for a
\* shell that is over, nor a user's text taken for one, in any interleaving of
\* starts, ends and text.
NothingOutlivesItsShell ==
  /\ \A c \in Chats : sessions[c] # None =>
       proc[sessions[c]].pc \in {"entering", "running", "ended"}
  /\ \A u \in Users : mode[u] # None =>
       proc[mode[u]].pc \in {"running", "ended", "leaving"} /\ proc[mode[u]].user = u

\* "You already have an active exec session": whatever shells start and end in a chat, in
\* any interleaving, a shell is the only one of its chat from the check to its end, and once
\* it is registered the chat's entry names it, unless it raced.  A check that forgets to
\* refuse, or an end that takes away the entry of a shell that did not race, would let a
\* second one in beside it.  (Two that raced are open at once, and so may be one that
\* comes while one of them still is: check and entry are under two locks, exec.go:167 and
\* 191.)
OneShellUnlessRaced ==
  \A e \in Execs :
    proc[e].pc \in {"registering", "entering", "running", "ended"} /\ ~proc[e].raced =>
      /\ Open(proc[e].chat) = {e}
      /\ proc[e].pc # "registering" => sessions[proc[e].chat] = e

\* The claim of the welcome message, "Use /exit to quit", and of the refusal,
\* "Type /exit to end it first".
ExitQuits ==
  \A e \in Execs : proc[e].pc = "running" /\ proc[e].asked ~> proc[e].pc = "over"
=============================================================================
