----------------------------- MODULE TokenStore -----------------------------
(***************************************************************************)
(* The callback token store, src/internal/menus/tokens.go.                 *)
(*                                                                         *)
(* Telegram rejects a whole keyboard when one button carries more than 64  *)
(* bytes of callback data, so a long callback string is kept here and the  *)
(* button carries a short key.  A key is a prefix of the digest of the     *)
(* string, lengthened until no other living binding has it.  The store     *)
(* holds at most Limit bindings and drops the oldest one beyond that.      *)
(*                                                                         *)
(* A callback string is a member of Data; the digest and its prefixes are  *)
(* the constant Prefix, so two strings may share a short prefix but not    *)
(* their full digest.  Shorten and Resolve hold the store's mutex from     *)
(* beginning to end: each is one step.                                     *)
(***************************************************************************)
EXTENDS Naturals, Sequences

CONSTANTS
  Data,     \* the callback strings the menus build
  Long,     \* those of more than maxCallbackData bytes
  Keys,     \* what follows tokenPrefix in a token
  MaxLen,   \* how many prefixes of a digest mintKey tries
  Prefix,   \* Prefix[d][n]: the n-th candidate key of d, shortest first
  Limit,    \* TokenStore.limit
  Stale     \* what Resolve answers for an unknown token

ASSUME StoreAssumption ==
  /\ Long \subseteq Data
  /\ Keys \cap Data = {}                 \* no menu action starts with tokenPrefix
  /\ Stale \notin Data
  /\ MaxLen \in Nat \ {0}
  /\ Limit \in Nat \ {0}                 \* NewTokenStore replaces limit <= 0
  /\ Prefix \in [Long -> [1..MaxLen -> Keys]]
  \* Candidates of different lengths differ, and full digests do not collide.
  /\ \A d, e \in Long, m, n \in 1..MaxLen : Prefix[d][m] = Prefix[e][n] => m = n
  /\ \A d, e \in Long : Prefix[d][MaxLen] = Prefix[e][MaxLen] => d = e

\* They are prefixes: strings that share a candidate share the shorter ones too.
ASSUME PrefixAssumption ==
  \A d, e \in Long, m, n \in 1..MaxLen :
    m <= n /\ Prefix[d][n] = Prefix[e][n] => Prefix[d][m] = Prefix[e][m]

VARIABLES
  byKey,    \* key -> string, of the living bindings
  byData,   \* string -> key, the inverse index
  order     \* the living keys, oldest first

storeVars == <<byKey, byData, order>>

EmptyMap == [x \in {} |-> x]

\* The map f with x bound to y, and the map f without the set of keys S.
Bound(f, x, y) == [z \in DOMAIN f \cup {x} |-> IF z = x THEN y ELSE f[z]]
Without(f, S) == [z \in DOMAIN f \ S |-> f[z]]

StoreInit ==
  /\ byKey = EmptyMap
  /\ byData = EmptyMap
  /\ order = << >>

-----------------------------------------------------------------------------
(* The key of a new binding. *)

Untaken(d) ==
  {n \in 1..MaxLen : Prefix[d][n] \in DOMAIN byKey => byKey[Prefix[d][n]] = d}

\* Mutants: mintKey without the collision probe, and with keys drawn in turn.
MintKeyNoProbe(d) == Prefix[d][1]
MintKeyUnused(d) == CHOOSE k \in Keys : k \notin DOMAIN byKey

MintKey(d) ==
  IF Untaken(d) = {}
  THEN Prefix[d][MaxLen]
  ELSE Prefix[d][CHOOSE n \in Untaken(d) : \A m \in Untaken(d) : n <= m]

-----------------------------------------------------------------------------
(* evictLocked: what is left of the three indexes once the oldest bindings  *)
(* are dropped.                                                             *)

\* Mutant: the bound off by one.
EvictEarly(keys, datas, queue) ==
  LET excess == IF Len(queue) >= Limit THEN (Len(queue) - Limit) + 1 ELSE 0
      gone == {queue[i] : i \in 1..excess}
  IN  /\ order' = SubSeq(queue, excess + 1, Len(queue))
      /\ byData' = Without(datas, {keys[k] : k \in gone})
      /\ byKey' = Without(keys, gone)

Evict(keys, datas, queue) ==
  LET excess == IF Len(queue) > Limit THEN Len(queue) - Limit ELSE 0
      gone == {queue[i] : i \in 1..excess} \cap DOMAIN keys
  IN  /\ order' = SubSeq(queue, excess + 1, Len(queue))
      /\ byData' = Without(datas, {keys[k] : k \in gone})
      /\ byKey' = Without(keys, gone)

-----------------------------------------------------------------------------
(* The operations. *)

\* A string that fits, or that has a living key already, changes nothing.
Reuse(d) ==
  /\ d \in Long => d \in DOMAIN byData
  /\ UNCHANGED storeVars

\* Mutant: a string is stored whether or not it fits.
MintAny(d) ==
  /\ d \notin DOMAIN byData
  /\ LET key == IF d \in Long THEN MintKey(d) ELSE CHOOSE k \in Keys : k \notin DOMAIN byKey
     IN  Evict(Bound(byKey, key, d), Bound(byData, d, key), Append(order, key))

Mint(d) ==
  /\ d \in Long \ DOMAIN byData
  /\ LET key == MintKey(d)
     IN  Evict(Bound(byKey, key, d), Bound(byData, d, key), Append(order, key))

Shorten(d) == Reuse(d) \/ Mint(d)

\* What a button for d carries once Shorten(d) has run.
Payload(d, datas) == IF d \in Long THEN datas[d] ELSE d

Resolve(p) ==
  IF p \notin Keys THEN p
  ELSE IF p \in DOMAIN byKey THEN byKey[p] ELSE Stale

\* The store lives in the process: a restart begins with an empty one.
Restart ==
  /\ byKey' = EmptyMap
  /\ byData' = EmptyMap
  /\ order' = << >>

StoreNext == Restart \/ \E d \in Data : Shorten(d)

StoreSpec == StoreInit /\ [][StoreNext]_storeVars

-----------------------------------------------------------------------------
(* Properties of the store alone. *)

\* The type invariant of the three indexes.
TypeOK ==
  /\ DOMAIN byKey \subseteq Keys /\ byKey \in [DOMAIN byKey -> Long]
  /\ DOMAIN byData \subseteq Long /\ byData \in [DOMAIN byData -> Keys]
  /\ order \in Seq(Keys)

\* byKey and byData are inverse to each other, the queue names each living
\* key once and nothing else, and the table is within its limit: the three
\* indexes that Shorten, mintKey and evictLocked each update in part stay one.
IndexesAgree ==
  /\ \A k \in DOMAIN byKey : byKey[k] \in DOMAIN byData /\ byData[byKey[k]] = k
  /\ \A d \in DOMAIN byData : byData[d] \in DOMAIN byKey /\ byKey[byData[d]] = d
  /\ \A k \in Keys : k \in DOMAIN byKey <=> \E i \in DOMAIN order : order[i] = k
  /\ \A i, j \in DOMAIN order : order[i] = order[j] => i = j
  /\ Len(order) <= Limit

\* A key is always one of the candidates of the string it stands for, so a
\* key that outlives its binding can only come to mean a string with the same
\* digest prefix, before or after a restart.
KeysAreDigests ==
  \A k \in DOMAIN byKey : \E n \in 1..MaxLen : k = Prefix[byKey[k]][n]

\* The indexes together are the abstract queue of living bindings.
Fifo == INSTANCE TokenFifo
          WITH live <- [i \in DOMAIN order |-> [key |-> order[i], data |-> byKey[order[i]]]]
FifoSpec == Fifo!Spec
=============================================================================
