----------------------------- MODULE MCCommands -----------------------------
EXTENDS Commands

UpTo(n, S) == UNION {[1..k -> S] : k \in 0..n}

MCArguments ==
  {Word("x"), Alone("-n"), <<"-n", "z">>, <<"-n", "">>, Alone("-v"), <<"-v", "">>,
   Alone("-A"), Alone("-f"), Alone("--")}

\* Bytes of one-byte and two-byte runes, and line ends.
MCTexts == {FlattenSeq(u) : u \in UpTo(6, {<<Plain>>, <<Newline>>, <<Lead, Trail>>})}

\* RichLogs: a heading and a code block of up to 8 bytes of log.
MCBodies ==
  {<<Plain, Plain, Newline, Newline>> \o Opening \o log \o <<Newline>> \o Fence
     : log \in UpTo(8, {Plain, Newline})}
=============================================================================
