------------------------------- MODULE Replies -------------------------------
(***************************************************************************)
(* What happens to a text that is too long: a reply is split into several  *)
(* messages (splitMessage, src/internal/bot/bot.go), a pane is cut to fit  *)
(* the one it has (truncateForPane and truncateForPaneTail, pane.go).      *)
(*                                                                         *)
(* A text is a sequence of bytes where Go counts bytes and of runes where  *)
(* it counts runes.  A rune of two bytes is Lead and then Trail; notes and *)
(* headings are as short as keeps their shape.                             *)
(***************************************************************************)
EXTENDS Naturals, Sequences, FiniteSets, FiniteSetsExt, SequencesExt

CONSTANTS
  Bytes,        \* what a text is made of
  MaxMessage,   \* splitMessage's max, in bytes
  PaneLimit     \* paneLimit, in runes

Plain == "a"
Newline == "n"
Lead == "<"
Trail == ">"
Tick == "t"
Mark == "."

ASSUME ReplyAssumption ==
  /\ MaxMessage \in Nat \ {0} /\ PaneLimit \in Nat \ {0}
  /\ {Plain, Newline, Lead, Trail, Tick, Mark} \subseteq Bytes

Beginning(t, n) == SubSeq(t, 1, n)
Ending(t, n) == SubSeq(t, Len(t) - n + 1, Len(t))
From(t, n) == SubSeq(t, n, Len(t))
Newlines(t) == {i \in DOMAIN t : t[i] = Newline}

-----------------------------------------------------------------------------
(* splitMessage. *)

\* Mutant: a newline right at the start is one, too.
LineEndsAny(t) == {i \in 1..MaxMessage : t[i] = Newline}

\* A newline right at the start is no place to cut.
LineEnds(t) == {i \in 2..MaxMessage : t[i] = Newline}

\* Mutant: lines are not looked at.
CutBlind(t) == MaxMessage

\* How many bytes of a text longer than max go into the next chunk.
Cut(t) == IF LineEnds(t) = {} THEN MaxMessage ELSE Max(LineEnds(t)) - 1

\* Mutant: every newline at the front is trimmed.
RestTrimmed(t) ==
  LET r == From(t, Cut(t) + 1) IN
  IF \A i \in DOMAIN r : r[i] = Newline THEN <<>>
  ELSE From(r, Min({i \in DOMAIN r : r[i] # Newline}))

\* One newline at the front of what is left is dropped.
Rest(t) ==
  LET r == From(t, Cut(t) + 1) IN IF r # <<>> /\ r[1] = Newline THEN Tail(r) ELSE r

\* What Telegram takes: no half of a rune.
WellFormed(t) ==
  \A i \in DOMAIN t :
    /\ t[i] = Lead => i < Len(t) /\ t[i + 1] = Trail
    /\ t[i] = Trail => i > 1 /\ t[i - 1] = Lead

-----------------------------------------------------------------------------
(* Panes. *)

Note == <<Newline, Mark>>

\* Mutant: the line boundary is looked for in all of the text.
truncateAnywhere(t) ==
  IF Len(t) <= PaneLimit THEN t
  ELSE LET ends == {i \in Newlines(t) : i > PaneLimit \div 2 + 1} IN
       (IF ends = {} THEN Beginning(t, PaneLimit) ELSE Beginning(t, Max(ends) - 1)) \o Note

\* (Go counts positions from zero.)
truncateForPane(t) ==
  IF Len(t) <= PaneLimit THEN t
  ELSE LET ends == {i \in Newlines(Beginning(t, PaneLimit)) : i > PaneLimit \div 2 + 1} IN
       (IF ends = {} THEN Beginning(t, PaneLimit) ELSE Beginning(t, Max(ends) - 1)) \o Note

Fence == <<Tick, Tick, Tick>>

FencesAt(t) == {i \in 1..(Len(t) - 2) : SubSeq(t, i, i + 2) = Fence}

\* The kept tail, begun at a line where it can.
KeptTail(t) ==
  LET tail == Ending(t, PaneLimit)
      nl == IF Newlines(tail) = {} THEN 1 ELSE Min(Newlines(tail))
  IN IF nl > 1 /\ nl < PaneLimit \div 2 + 1 THEN From(tail, nl + 1) ELSE tail

\* Without the newlines it ends with.
TrimRight(t) ==
  LET solid == DOMAIN t \ Newlines(t) IN IF solid = {} THEN <<>> ELSE Beginning(t, Max(solid))

Opening == Fence \o <<Newline>>
Closing == <<Newline>> \o Fence \o <<Newline>>

\* Mutant: a tail that has the closing fence is taken for whole.
RepairedOpen(t, cut) ==
  IF FencesAt(t) = {} \/ FencesAt(cut) # {} THEN cut ELSE Opening \o cut \o Closing

\* Put back what fence the cut has lost.
Repaired(t, cut) ==
  IF FencesAt(t) = {} THEN cut
  ELSE IF IsPrefix(Fence, cut) THEN
    IF Cardinality(FencesAt(cut)) % 2 # 0 THEN TrimRight(cut) \o Closing ELSE cut
  ELSE IF FencesAt(cut) = {} THEN Opening \o cut \o Closing
  ELSE Opening \o TrimRight(cut) \o <<Newline>>

\* Put before a tail.
TailNote == <<Mark, Newline>>

truncateForPaneTail(t) ==
  IF Len(t) <= PaneLimit THEN t ELSE TailNote \o Repaired(t, KeptTail(t))
=============================================================================
