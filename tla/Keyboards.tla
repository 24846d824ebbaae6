------------------------------ MODULE Keyboards ------------------------------
(***************************************************************************)
(* Inline keyboards over the token store: the goroutines that answer       *)
(* updates build keyboards button by button (MenuBuilder.btn), put them on *)
(* messages with an edit that may fail, and receive taps on whatever       *)
(* keyboards are still on the users' screens, however old.                 *)
(*                                                                         *)
(* go-telegram runs each update's handler in a goroutine of its own, so    *)
(* the buttons of two keyboards are shortened in any interleaving.  The    *)
(* bot may restart at any time; the screens keep what they show.           *)
(***************************************************************************)
EXTENDS TokenStore

CONSTANTS
  Handlers,     \* goroutines handling updates at the same time
  Messages,     \* the messages that carry keyboards
  Menus,        \* the keyboards the bot can build: sequences of strings
  Home          \* the callback string of the way home (GetSectionResultKeyboard)

ASSUME KeyboardAssumption ==
  /\ Menus \subseteq Seq(Data)
  /\ Home \in Data \ Long

VARIABLES
  job,      \* job[h]: the keyboard handler h is building, or Idle
  screen,   \* screen[m]: the buttons message m shows
  recent    \* history: the last Limit strings bound, oldest first

vars == <<byKey, byData, order, job, screen, recent>>

\* A button: the string it stands for, what it carries, and as history how many
\* bindings were minted since the one it carries, no more than Limit counted.
Button == [data : Data, payload : Data \cup Keys, newer : 0..Limit]

Idle == [busy |-> FALSE]
Job(m, menu) == [busy |-> TRUE, msg |-> m, todo |-> menu, done |-> {}]

Busy == {h \in Handlers : job[h].busy}
OnScreens == UNION {screen[m] : m \in Messages}
Shown == OnScreens \cup UNION {job[h].done : h \in Busy}

Init ==
  /\ StoreInit
  /\ job = [h \in Handlers |-> Idle]
  /\ screen = [m \in Messages |-> {}]
  /\ recent = << >>

-----------------------------------------------------------------------------

\* A typed command answers with a keyboard on a message of its own.
Command(h, m, menu) ==
  /\ h \notin Busy
  /\ screen[m] = {}
  /\ job' = [job EXCEPT ![h] = Job(m, menu)]
  /\ UNCHANGED <<storeVars, screen, recent>>

\* A tap: handleCallbackQuery resolves the payload first of all.  A known one
\* is dispatched and ends in some keyboard for the same message; for a stale
\* one the pane is replaced by a way home.
Tap(h, m, b, menu) ==
  /\ h \notin Busy
  /\ b \in screen[m]
  /\ job' = [job EXCEPT ![h] = Job(m, IF Resolve(b.payload) = Stale THEN <<Home>> ELSE menu)]
  /\ UNCHANGED <<storeVars, screen, recent>>

\* History: the buttons when one more binding has been minted, and how many
\* bindings are newer than that of d, none for a string that fits.
Aged(S) == {[b EXCEPT !.newer = IF @ < Limit THEN @ + 1 ELSE @] : b \in S}
AgedJob(j) == IF j.busy THEN [j EXCEPT !.done = Aged(@)] ELSE j
Newer(d) ==
  LET at == {i \in DOMAIN recent : recent[i] = d}
  IN  IF at = {} THEN Limit ELSE Len(recent) - CHOOSE i \in at : \A j \in at : j <= i

Placed(h, d, newer, jobs) ==
  [jobs EXCEPT
     ![h].todo = Tail(@),
     ![h].done = @ \cup {[data |-> d, payload |-> Payload(d, byData'), newer |-> newer]}]

\* One call of btn: the string fits or has a key, or gets one.
Btn(h) ==
  /\ h \in Busy /\ job[h].todo # << >>
  /\ LET d == Head(job[h].todo) IN
       \/ /\ Reuse(d)
          /\ job' = Placed(h, d, IF d \in Long THEN Newer(d) ELSE 0, job)
          /\ UNCHANGED <<screen, recent>>
       \/ /\ Mint(d)
          /\ job' = Placed(h, d, 0, [g \in Handlers |-> AgedJob(job[g])])
          /\ screen' = [m \in Messages |-> Aged(screen[m])]
          /\ recent' = IF Len(recent) = Limit THEN Append(Tail(recent), d) ELSE Append(recent, d)

\* The edit that puts the keyboard on its message, and the edit that fails:
\* the error is logged and the message keeps what it shows.
Edit(h) ==
  /\ h \in Busy /\ job[h].todo = << >>
  /\ screen' = [screen EXCEPT ![job[h].msg] = job[h].done]
  /\ job' = [job EXCEPT ![h] = Idle]
  /\ UNCHANGED <<storeVars, recent>>

EditFails(h) ==
  /\ h \in Busy /\ job[h].todo = << >>
  /\ job' = [job EXCEPT ![h] = Idle]
  /\ UNCHANGED <<storeVars, screen, recent>>

\* The process dies with its goroutines and its store, and starts again; the
\* screens keep what they show.
Reboot ==
  /\ Restart
  /\ job' = [h \in Handlers |-> Idle]
  /\ screen' = [m \in Messages |->
       {[b EXCEPT !.newer = IF b.data \in Long THEN Limit ELSE 0] : b \in screen[m]}]
  /\ recent' = << >>

Next ==
  \/ \E h \in Handlers, m \in Messages, menu \in Menus : Command(h, m, menu)
  \/ \E h \in Handlers, m \in Messages, menu \in Menus :
       \E b \in screen[m] : Tap(h, m, b, menu)
  \/ \E h \in Handlers : Btn(h) \/ Edit(h) \/ EditFails(h)
  \/ Reboot

Spec == Init /\ [][Next]_vars

-----------------------------------------------------------------------------
(* Properties. *)

\* The type invariant of the keyboards and of the store under them.
KeyboardsTypeOK ==
  /\ TypeOK
  /\ Shown \subseteq Button
  /\ recent \in Seq(Long) /\ Len(recent) <= Limit

\* A button resolves to what it stands for as long as fewer than Limit newer
\* bindings were minted since its own: the capacity the store is given is the
\* life a button can count on, through collisions, reuse and concurrent
\* renders.  (Since its binding was minted, not since the button was shown: a
\* reused binding keeps its place in the queue.)
SurvivesLimitMints ==
  \A b \in Shown : b.data \notin Long \/ b.newer < Limit => Resolve(b.payload) = b.data

\* A tap never acts on another object than the button's: it resolves to the
\* button's own string or is reported stale, unless the two strings share
\* their shortest digest prefix.  Keys come from the data, so a restart makes
\* a button stale or valid again, never a button for something else.
MisroutesOnlyOnCollision ==
  \A b \in Shown :
    LET e == Resolve(b.payload)
    IN  e \in {b.data, Stale} \/ (e \in Long /\ Prefix[e][1] = Prefix[b.data][1])
=============================================================================
