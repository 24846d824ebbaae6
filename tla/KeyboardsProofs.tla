--------------------------- MODULE KeyboardsProofs ---------------------------
(***************************************************************************)
(* Theorems about TokenStore and Keyboards, for all callback strings,      *)
(* digest functions, limits, handlers, messages and keyboards.             *)
(*                                                                         *)
(* The store first.  Its inductive invariant is Inv: no conjunct is        *)
(* inductive alone.  That the three indexes agree after a mint needs the   *)
(* minted key to be new; that it is, when every prefix of the digest is    *)
(* taken, needs the living keys to be prefixes of the digests of their own *)
(* strings.                                                                *)
(*                                                                         *)
(* Then what a button can count on while others are rendered, tapped and   *)
(* lost.  A button is related to the abstract queue of the store, Live:    *)
(* one whose binding has fewer than Limit newer ones is at that distance   *)
(* from the end of the queue.  The other half is that its key is a prefix  *)
(* of the digest of its own string, which outlives binding and process.    *)
(***************************************************************************)
EXTENDS Keyboards, SequenceTheorems, WellFoundedInduction, TLAPS

Inv == TypeOK /\ IndexesAgree /\ KeysAreDigests

-----------------------------------------------------------------------------
(* mintKey. *)

\* The order of the natural numbers as a relation, for the library's theorem
\* about minima of well-founded relations.
LessThan == OpToRel(<, Nat)

\* A set of prefix lengths that is not empty has a smallest one: the loop of
\* mintKey stops at the first candidate that is free.
LEMMA LeastLength ==
  ASSUME NEW T \in SUBSET Nat, T # {}
  PROVE  \E x \in T : \A y \in T : x <= y
<1>1. IsWellFoundedOn(LessThan, Nat)
  BY NatLessThanWellFounded, Zenon DEF LessThan
<1>2. \A x, y \in Nat : <<x, y>> \in LessThan <=> x < y
  BY SMT DEF LessThan, OpToRel
<1>3. PICK x \in T : \A y \in T : <<y, x>> \notin LessThan
  BY <1>1, WFMin, Zenon
<1>4. \A y \in T : ~(y < x)
  BY <1>2, <1>3
<1> QED
  BY <1>4

\* The key minted for a string that has none is one of its candidates and names
\* no living binding, even when every shorter candidate is taken.
LEMMA MintedKeyIsNew ==
  ASSUME Inv, NEW d \in Long, d \notin DOMAIN byData
  PROVE  /\ \E n \in 1..MaxLen : MintKey(d) = Prefix[d][n]
         /\ MintKey(d) \in Keys \ DOMAIN byKey
<1>1. \A n \in 1..MaxLen : Prefix[d][n] \in Keys
  BY StoreAssumption
<1>2. \A k \in DOMAIN byKey : byKey[k] # d
  BY DEF Inv, IndexesAgree
<1>3. MaxLen \in Untaken(d)
  <2>1. MaxLen \in 1..MaxLen
    BY StoreAssumption
  <2>2. SUFFICES ASSUME Prefix[d][MaxLen] \in DOMAIN byKey
                 PROVE  byKey[Prefix[d][MaxLen]] = d
    BY <2>1 DEF Untaken
  <2>3. PICK n \in 1..MaxLen : Prefix[d][MaxLen] = Prefix[byKey[Prefix[d][MaxLen]]][n]
    BY <2>2 DEF Inv, KeysAreDigests
  <2>4. byKey[Prefix[d][MaxLen]] \in Long
    BY <2>2 DEF Inv, TypeOK
  <2>5. n = MaxLen
    BY <2>1, <2>3, <2>4, StoreAssumption
  <2> QED
    BY <2>3, <2>4, <2>5, StoreAssumption
<1>4. Untaken(d) \in SUBSET Nat
  BY DEF Untaken
<1>5. PICK n \in Untaken(d) : \A m \in Untaken(d) : n <= m
  BY <1>3, <1>4, LeastLength
<1> DEFINE n0 == CHOOSE n1 \in Untaken(d) : \A m \in Untaken(d) : n1 <= m
<1>6. n0 \in Untaken(d)
  BY <1>5
<1>7. MintKey(d) = Prefix[d][n0]
  BY <1>3 DEF MintKey
<1> HIDE DEF n0
<1>8. n0 \in 1..MaxLen /\ Prefix[d][n0] \notin DOMAIN byKey
  BY <1>2, <1>6 DEF Untaken
<1> QED
  BY <1>1, <1>7, <1>8

-----------------------------------------------------------------------------
(* evictLocked, after a mint. *)

\* A mint into a table with room adds the binding; into a full table it also
\* drops the oldest one, and only that one.
LEMMA MintStep ==
  ASSUME Inv, NEW d \in Data, Mint(d)
  PROVE  LET key == MintKey(d) IN
         \/ /\ Len(order) < Limit
            /\ byKey' = Bound(byKey, key, d)
            /\ byData' = Bound(byData, d, key)
            /\ order' = Append(order, key)
         \/ /\ Len(order) = Limit
            /\ byKey' = Without(Bound(byKey, key, d), {order[1]})
            /\ byData' = Without(Bound(byData, d, key), {byKey[order[1]]})
            /\ order' = SubSeq(Append(order, key), 2, Len(order) + 1)
<1> DEFINE key == MintKey(d)
           K == Bound(byKey, key, d)
           D == Bound(byData, d, key)
           Q == Append(order, key)
<1>1. d \in Long /\ d \notin DOMAIN byData
  BY DEF Mint
<1>2. key \in Keys /\ key \notin DOMAIN byKey
  BY <1>1, MintedKeyIsNew
<1>3. Evict(K, D, Q)
  BY DEF Mint
<1>4. order \in Seq(Keys) /\ Len(order) \in Nat /\ Len(order) <= Limit /\ Limit \in Nat \ {0}
  BY StoreAssumption, LenProperties DEF Inv, TypeOK, IndexesAgree
<1>5. Q \in Seq(Keys) /\ Len(Q) = Len(order) + 1 /\ \A i \in 1..Len(order) : Q[i] = order[i]
  BY <1>2, <1>4, AppendProperties
<1> HIDE DEF key, K, D, Q
<1>6. CASE Len(order) < Limit
  <2>1. ~(Len(Q) > Limit)
    BY <1>4, <1>5, <1>6
  <2>2. {Q[i] : i \in 1..0} = {}
    BY SMT
  <2>3. /\ order' = SubSeq(Q, 0 + 1, Len(Q))
        /\ byData' = Without(D, {K[k] : k \in {Q[i] : i \in 1..0} \cap DOMAIN K})
        /\ byKey' = Without(K, {Q[i] : i \in 1..0} \cap DOMAIN K)
    BY <1>3, <2>1 DEF Evict
  <2>4. order' = Q
    BY <1>5, <2>3, SubSeqFull
  <2>5. byData' = Without(D, {}) /\ byKey' = Without(K, {})
    BY <2>2, <2>3
  <2>6. byData' = D /\ byKey' = K
    BY <2>5 DEF Without, D, K, Bound
  <2> QED
    BY <1>6, <2>4, <2>6 DEF key, K, D, Q
<1>7. CASE Len(order) = Limit
  <2>1. Len(Q) > Limit /\ Len(Q) - Limit = 1
    BY <1>4, <1>5, <1>7
  <2>2. order[1] \in DOMAIN byKey
    <3>1. 1 \in DOMAIN order /\ order[1] \in Keys
      BY <1>4, <1>7, LenProperties
    <3> QED
      BY <3>1 DEF Inv, IndexesAgree
  <2>3. {Q[i] : i \in 1..1} = {order[1]}
    <3>1. 1..1 = {1} /\ Q[1] = order[1]
      BY <1>4, <1>5, <1>7
    <3> QED
      BY <3>1
  <2>4. /\ order' = SubSeq(Q, 1 + 1, Len(Q))
        /\ byData' = Without(D, {K[k] : k \in {Q[i] : i \in 1..1} \cap DOMAIN K})
        /\ byKey' = Without(K, {Q[i] : i \in 1..1} \cap DOMAIN K)
    BY <1>3, <2>1 DEF Evict
  <2>5. /\ {Q[i] : i \in 1..1} \cap DOMAIN K = {order[1]}
        /\ K[order[1]] = byKey[order[1]]
    BY <1>2, <2>2, <2>3 DEF K, Bound
  <2>6. {K[k] : k \in {order[1]}} = {byKey[order[1]]}
    BY <2>5
  <2>7. /\ byKey' = Without(K, {order[1]})
        /\ byData' = Without(D, {byKey[order[1]]})
    BY <2>4, <2>5, <2>6
  <2>8. order' = SubSeq(Q, 2, Len(order) + 1)
    BY <1>5, <2>4
  <2> QED
    BY <1>7, <2>7, <2>8 DEF key, K, D, Q
<1> QED
  BY <1>4, <1>6, <1>7
-----------------------------------------------------------------------------
(* Inv is inductive. *)

LEMMA InitInv == StoreInit => Inv
<1> SUFFICES ASSUME StoreInit PROVE Inv
  OBVIOUS
<1>1. DOMAIN byKey = {} /\ DOMAIN byData = {} /\ order = << >>
  BY DEF StoreInit, EmptyMap
<1>2. TypeOK
  BY <1>1, EmptySeq DEF TypeOK, StoreInit, EmptyMap
<1>3. IndexesAgree
  BY <1>1, StoreAssumption DEF IndexesAgree
<1>4. KeysAreDigests
  BY <1>1 DEF KeysAreDigests
<1> QED
  BY <1>2, <1>3, <1>4 DEF Inv

\* A mint into a table with room.
LEMMA RoomKeepsInv ==
  ASSUME Inv, NEW d \in Long, d \notin DOMAIN byData, Len(order) < Limit,
         byKey' = Bound(byKey, MintKey(d), d),
         byData' = Bound(byData, d, MintKey(d)),
         order' = Append(order, MintKey(d))
  PROVE  Inv'
<1> DEFINE key == MintKey(d)
<1>1. key \in Keys /\ key \notin DOMAIN byKey /\ \E n \in 1..MaxLen : key = Prefix[d][n]
  BY MintedKeyIsNew
<1>2. order \in Seq(Keys) /\ Len(order) \in Nat /\ DOMAIN order = 1..Len(order)
  BY LenProperties DEF Inv, TypeOK
<1> HIDE DEF key
<1>3. order' = Append(order, key)
  BY DEF key
<1>4. /\ order' \in Seq(Keys) /\ Len(order') = Len(order) + 1
      /\ \A i \in 1..Len(order) : order'[i] = order[i]
      /\ order'[Len(order) + 1] = key
  BY <1>1, <1>2, <1>3, AppendProperties
<1>5. DOMAIN order' = 1..(Len(order) + 1)
  BY <1>4, LenProperties
<1>6. /\ DOMAIN byKey' = DOMAIN byKey \cup {key}
      /\ byKey'[key] = d
      /\ \A k \in DOMAIN byKey : byKey'[k] = byKey[k]
  BY <1>1 DEF Bound, key
<1>7. /\ DOMAIN byData' = DOMAIN byData \cup {d}
      /\ byData'[d] = key
      /\ \A e \in DOMAIN byData : byData'[e] = byData[e]
  BY DEF Bound, key
<1>8. byKey' = [k \in DOMAIN byKey' |-> byKey'[k]] /\ byData' = [e \in DOMAIN byData' |-> byData'[e]]
  BY DEF Bound
<1>9. TypeOK'
  <2>1. byKey' \in [DOMAIN byKey' -> Long]
    BY <1>6, <1>8 DEF Inv, TypeOK
  <2>2. byData' \in [DOMAIN byData' -> Keys]
    BY <1>1, <1>7, <1>8 DEF Inv, TypeOK
  <2> QED
    BY <1>1, <1>4, <1>6, <1>7, <2>1, <2>2 DEF Inv, TypeOK
<1>10. IndexesAgree'
  <2>1. \A k \in DOMAIN byKey' : byKey'[k] \in DOMAIN byData' /\ byData'[byKey'[k]] = k
    BY <1>6, <1>7 DEF Inv, IndexesAgree
  <2>2. \A e \in DOMAIN byData' : byData'[e] \in DOMAIN byKey' /\ byKey'[byData'[e]] = e
    BY <1>6, <1>7 DEF Inv, IndexesAgree
  <2>3. \A k \in Keys : k \in DOMAIN byKey' <=> \E i \in DOMAIN order' : order'[i] = k
    <3>1. \A k \in Keys : k \in DOMAIN byKey <=> \E i \in 1..Len(order) : order[i] = k
      BY <1>2 DEF Inv, IndexesAgree
    <3>2. \A k \in Keys : (\E i \in 1..(Len(order) + 1) : order'[i] = k)
                            <=> k = key \/ \E i \in 1..Len(order) : order[i] = k
      BY <1>2, <1>4
    <3> QED
      BY <1>5, <1>6, <3>1, <3>2
  <2>4. \A i \in 1..Len(order) : order[i] # key
    BY <1>1, <1>2 DEF Inv, IndexesAgree
  <2>5. \A i, j \in DOMAIN order' : order'[i] = order'[j] => i = j
    <3>1. \A i, j \in 1..Len(order) : order[i] = order[j] => i = j
      BY <1>2 DEF Inv, IndexesAgree
    <3> QED
      BY <1>2, <1>4, <1>5, <2>4, <3>1
  <2>6. Len(order') <= Limit
    BY <1>2, <1>4, StoreAssumption
  <2> QED
    BY <2>1, <2>2, <2>3, <2>5, <2>6 DEF IndexesAgree
<1>11. KeysAreDigests'
  BY <1>1, <1>6 DEF Inv, KeysAreDigests
<1> QED
  BY <1>9, <1>10, <1>11 DEF Inv

\* A mint into a full table, which drops the oldest binding.
LEMMA FullKeepsInv ==
  ASSUME Inv, NEW d \in Long, d \notin DOMAIN byData, Len(order) = Limit,
         byKey' = Without(Bound(byKey, MintKey(d), d), {order[1]}),
         byData' = Without(Bound(byData, d, MintKey(d)), {byKey[order[1]]}),
         order' = SubSeq(Append(order, MintKey(d)), 2, Len(order) + 1)
  PROVE  Inv'
<1> DEFINE key == MintKey(d)
           old == order[1]
           gone == byKey[old]
           Q == Append(order, key)
<1>1. key \in Keys /\ key \notin DOMAIN byKey /\ \E n \in 1..MaxLen : key = Prefix[d][n]
  BY MintedKeyIsNew
<1>2. order \in Seq(Keys) /\ Len(order) \in Nat \ {0} /\ DOMAIN order = 1..Len(order)
  BY LenProperties, StoreAssumption DEF Inv, TypeOK
<1>3. old \in DOMAIN byKey /\ old \in Keys
  BY <1>2 DEF Inv, TypeOK, IndexesAgree
<1>4. gone \in DOMAIN byData /\ byData[gone] = old /\ gone # d
  BY <1>3 DEF Inv, IndexesAgree
<1> HIDE DEF key
<1>5. Q \in Seq(Keys) /\ Len(Q) = Len(order) + 1
      /\ (\A i \in 1..Len(order) : Q[i] = order[i]) /\ Q[Len(order) + 1] = key
  BY <1>1, <1>2, AppendProperties
<1>6. order' = SubSeq(Q, 2, Len(order) + 1)
  BY DEF key
<1>7. \A i \in 1..Len(Q) : Q[i] \in Keys
  BY <1>5, LenProperties
<1> HIDE DEF Q
<1>8. /\ order' \in Seq(Keys) /\ Len(order') = Len(order)
      /\ \A i \in 1..Len(order) : order'[i] = Q[i + 1]
  <2>1. \A i \in 2..(Len(order) + 1) : Q[i] \in Keys
    BY <1>2, <1>5, <1>7
  <2>2. /\ SubSeq(Q, 2, Len(order) + 1) \in Seq(Keys)
        /\ Len(SubSeq(Q, 2, Len(order) + 1)) =
             IF 2 <= Len(order) + 1 THEN (Len(order) + 1) - 2 + 1 ELSE 0
        /\ \A i \in 1..((Len(order) + 1) - 2 + 1) : SubSeq(Q, 2, Len(order) + 1)[i] = Q[2 + i - 1]
    <3>1. 2 \in Int /\ Len(order) + 1 \in Int
      BY <1>2
    <3> HIDE DEF gone, old
    <3> QED
      BY <2>1, <3>1, SubSeqProperties
  <2> QED
    BY <1>2, <1>6, <2>2
<1>9. DOMAIN order' = 1..Len(order)
  BY <1>8, LenProperties
<1>10. /\ \A i \in 1..(Len(order) - 1) : order'[i] = order[i + 1]
       /\ order'[Len(order)] = key
  BY <1>2, <1>5, <1>8
<1>11. /\ DOMAIN byKey' = (DOMAIN byKey \ {old}) \cup {key}
       /\ byKey'[key] = d
       /\ \A k \in DOMAIN byKey \ {old} : byKey'[k] = byKey[k]
  BY <1>1, <1>3 DEF Bound, Without, key
<1>12. /\ DOMAIN byData' = (DOMAIN byData \ {gone}) \cup {d}
       /\ byData'[d] = key
       /\ \A e \in DOMAIN byData \ {gone} : byData'[e] = byData[e]
  BY <1>4 DEF Bound, Without, key
<1>13. byKey' = [k \in DOMAIN byKey' |-> byKey'[k]] /\ byData' = [e \in DOMAIN byData' |-> byData'[e]]
  BY DEF Without
<1> HIDE DEF old, gone
<1>14. TypeOK'
  <2>1. byKey' \in [DOMAIN byKey' -> Long]
    BY <1>11, <1>13 DEF Inv, TypeOK
  <2>2. byData' \in [DOMAIN byData' -> Keys]
    BY <1>1, <1>12, <1>13 DEF Inv, TypeOK
  <2> QED
    BY <1>1, <1>8, <1>11, <1>12, <2>1, <2>2 DEF Inv, TypeOK
<1>15. IndexesAgree'
  <2>1. gone = byKey[old]
    BY DEF gone
  <2>2. \A k \in DOMAIN byKey' : byKey'[k] \in DOMAIN byData' /\ byData'[byKey'[k]] = k
    <3>1. TAKE k \in DOMAIN byKey'
    <3>2. CASE k = key
      BY <1>11, <1>12, <3>2
    <3>3. CASE k # key
      <4>1. k \in DOMAIN byKey \ {old} /\ byKey'[k] = byKey[k]
        BY <1>11, <3>1, <3>3
      <4>2. byKey[k] \in DOMAIN byData /\ byData[byKey[k]] = k
        BY <4>1 DEF Inv, IndexesAgree
      <4>3. byKey[k] # gone
        BY <1>4, <4>1, <4>2
      <4> QED
        BY <1>12, <4>1, <4>2, <4>3
    <3> QED
      BY <3>2, <3>3
  <2>3. \A e \in DOMAIN byData' : byData'[e] \in DOMAIN byKey' /\ byKey'[byData'[e]] = e
    <3>1. TAKE e \in DOMAIN byData'
    <3>2. CASE e = d
      BY <1>11, <1>12, <3>2
    <3>3. CASE e # d
      <4>1. e \in DOMAIN byData \ {gone} /\ byData'[e] = byData[e]
        BY <1>12, <3>1, <3>3
      <4>2. byData[e] \in DOMAIN byKey /\ byKey[byData[e]] = e
        BY <4>1 DEF Inv, IndexesAgree
      <4>3. byData[e] # old
        BY <2>1, <4>1, <4>2
      <4> QED
        BY <1>11, <4>1, <4>2, <4>3
    <3> QED
      BY <3>2, <3>3
  <2>4. \A i \in 1..Len(order) : order[i] # key
    BY <1>1, <1>2 DEF Inv, IndexesAgree
  <2>5. \A i, j \in 1..Len(order) : order[i] = order[j] => i = j
    BY <1>2 DEF Inv, IndexesAgree
  <2>6. \A k \in Keys : k \in DOMAIN byKey' <=> \E i \in DOMAIN order' : order'[i] = k
    <3>1. \A k \in Keys : k \in DOMAIN byKey <=> \E i \in 1..Len(order) : order[i] = k
      BY <1>2 DEF Inv, IndexesAgree
    <3>2. \A k \in Keys : (\E i \in 1..Len(order) : order'[i] = k)
                            <=> k = key \/ \E i \in 2..Len(order) : order[i] = k
      <4>1. TAKE k \in Keys
      <4>2. ASSUME NEW i \in 1..Len(order), order'[i] = k
            PROVE  k = key \/ \E j \in 2..Len(order) : order[j] = k
        <5>1. CASE i = Len(order)
          BY <1>10, <4>2, <5>1
        <5>2. CASE i # Len(order)
          <6>1. i \in 1..(Len(order) - 1) /\ i + 1 \in 2..Len(order)
            BY <1>2, <5>2
          <6> QED
            BY <1>10, <4>2, <6>1
        <5> QED
          BY <5>1, <5>2
      <4>3. k = key => \E i \in 1..Len(order) : order'[i] = k
        <5>1. Len(order) \in 1..Len(order)
          BY <1>2
        <5> QED
          BY <1>10, <5>1
      <4>4. ASSUME NEW j \in 2..Len(order), order[j] = k
            PROVE  \E i \in 1..Len(order) : order'[i] = k
        <5>1. j - 1 \in 1..(Len(order) - 1) /\ j - 1 \in 1..Len(order) /\ (j - 1) + 1 = j
          BY <1>2
        <5> QED
          BY <1>10, <4>4, <5>1
      <4> QED
        BY <4>2, <4>3, <4>4
    <3>3. \A k \in Keys : (\E i \in 2..Len(order) : order[i] = k)
                            <=> k # old /\ \E i \in 1..Len(order) : order[i] = k
      BY <1>2, <2>5 DEF old
    <3> QED
      BY <1>9, <1>11, <3>1, <3>2, <3>3
  <2>7. \A i, j \in DOMAIN order' : order'[i] = order'[j] => i = j
    <3>1. \A i \in 1..Len(order) : i # Len(order) => i \in 1..(Len(order) - 1) /\ i + 1 \in 1..Len(order)
      BY <1>2
    <3>2. ASSUME NEW i \in 1..Len(order), NEW j \in 1..Len(order), order'[i] = order'[j]
          PROVE  i = j
      <4>1. CASE i # Len(order) /\ j # Len(order)
        <5>1. i + 1 = j + 1
          BY <1>10, <2>5, <3>1, <3>2, <4>1
        <5> QED
          BY <5>1
      <4>2. CASE i = Len(order) \/ j = Len(order)
        BY <1>10, <2>4, <3>1, <3>2, <4>2
      <4> QED
        BY <4>1, <4>2
    <3> QED
      BY <1>9, <3>2
  <2>8. Len(order') <= Limit
    BY <1>8, StoreAssumption
  <2> QED
    BY <2>2, <2>3, <2>6, <2>7, <2>8 DEF IndexesAgree
<1>16. KeysAreDigests'
  <2> USE DEF KeysAreDigests
  <2>1. TAKE k \in DOMAIN byKey'
  <2>2. CASE k = key
    BY <1>1, <1>11, <2>2
  <2>3. CASE k # key
    <3>1. k \in DOMAIN byKey /\ byKey'[k] = byKey[k]
      BY <1>11, <2>1, <2>3
    <3> QED
      BY <3>1 DEF Inv, KeysAreDigests
  <2> QED
    BY <2>2, <2>3
<1> QED
  BY <1>14, <1>15, <1>16 DEF Inv

LEMMA NextInv == Inv /\ [StoreNext]_storeVars => Inv'
<1> SUFFICES ASSUME Inv, [StoreNext]_storeVars PROVE Inv'
  OBVIOUS
<1>1. CASE UNCHANGED storeVars
  BY <1>1 DEF storeVars, Inv, TypeOK, IndexesAgree, KeysAreDigests
<1>2. CASE Restart
  <2>1. (StoreInit => Inv)'
    BY InitInv, PTL
  <2> QED
    BY <1>2, <2>1 DEF Restart, StoreInit
<1>3. ASSUME NEW d \in Data, Reuse(d) PROVE Inv'
  BY <1>1, <1>3 DEF Reuse
<1>4. ASSUME NEW d \in Data, Mint(d) PROVE Inv'
  <2>1. d \in Long /\ d \notin DOMAIN byData
    BY <1>4 DEF Mint
  <2> QED
    BY <1>4, <2>1, MintStep, RoomKeepsInv, FullKeepsInv
<1> QED
  BY <1>1, <1>2, <1>3, <1>4 DEF StoreNext, Shorten

-----------------------------------------------------------------------------
(* Theorems. *)

\* Inv holds of the store in every reachable state.
THEOREM StoreInv == StoreSpec => []Inv
  BY InitInv, NextInv, PTL DEF StoreSpec

\* The three indexes keep their types: Shorten, mintKey and evictLocked.
THEOREM TypeCorrect == StoreSpec => []TypeOK
<1>1. Inv => TypeOK
  BY DEF Inv
<1> QED
  BY <1>1, StoreInv, PTL

\* byKey and byData stay inverse to each other and the queue lists exactly the
\* living keys, once each and no more than Limit, however strings collide.
THEOREM IndexesAlwaysAgree == StoreSpec => []IndexesAgree
<1>1. Inv => IndexesAgree
  BY DEF Inv
<1> QED
  BY <1>1, StoreInv, PTL

\* A living key is a candidate of the digest of the string it stands for.
THEOREM KeysAlwaysDigests == StoreSpec => []KeysAreDigests
<1>1. Inv => KeysAreDigests
  BY DEF Inv
<1> QED
  BY <1>1, StoreInv, PTL

-----------------------------------------------------------------------------
(* The store implements TokenFifo. *)

\* The abstract queue, and what it is made of.
Live == [i \in DOMAIN order |-> [key |-> order[i], data |-> byKey[order[i]]]]
Bindings == [key : Keys, data : Long]

LEMMA LiveIsSeq ==
  ASSUME Inv
  PROVE  /\ Live \in Seq(Bindings) /\ Len(Live) = Len(order)
         /\ DOMAIN Live = 1..Len(order)
         /\ \A i \in 1..Len(order) : Live[i] = [key |-> order[i], data |-> byKey[order[i]]]
<1>1. order \in Seq(Keys) /\ Len(order) \in Nat /\ DOMAIN order = 1..Len(order)
  BY LenProperties DEF Inv, TypeOK
<1>2. \A i \in 1..Len(order) : order[i] \in Keys /\ byKey[order[i]] \in Long
  BY <1>1 DEF Inv, TypeOK, IndexesAgree
<1>3. Live \in [1..Len(order) -> Bindings]
  BY <1>1, <1>2 DEF Live, Bindings
<1> QED
  BY <1>1, <1>3 DEF Live

\* What a mint does to the abstract queue.
LEMMA MintBinds ==
  ASSUME Inv, Inv', NEW d \in Data, Mint(d)
  PROVE  Live' = Fifo!Newest(Append(Live, [key |-> MintKey(d), data |-> d]))
<1> DEFINE b == [key |-> MintKey(d), data |-> d]
           A == Append(Live, b)
           n == Len(order)
<1>1. d \in Long /\ d \notin DOMAIN byData
  BY DEF Mint
<1>2. MintKey(d) \in Keys /\ MintKey(d) \notin DOMAIN byKey
  BY <1>1, MintedKeyIsNew
<1>3. b \in Bindings
  BY <1>1, <1>2 DEF Bindings
<1>4. order \in Seq(Keys) /\ n \in Nat /\ n <= Limit /\ DOMAIN order = 1..n
  BY LenProperties DEF Inv, TypeOK, IndexesAgree
<1>5. \A i \in 1..n : order[i] \in DOMAIN byKey /\ order[i] \in Keys
  BY <1>4 DEF Inv, TypeOK, IndexesAgree
<1>6. /\ A \in Seq(Bindings) /\ Len(A) = n + 1
      /\ \A i \in 1..n : A[i] = [key |-> order[i], data |-> byKey[order[i]]]
      /\ A[n + 1] = b
  BY <1>3, LiveIsSeq, AppendProperties
<1>7. /\ Live' \in Seq(Bindings) /\ Len(Live') = Len(order')
      /\ \A i \in 1..Len(order') : Live'[i] = [key |-> order'[i], data |-> byKey'[order'[i]]]
  <2>1. (Inv => /\ Live \in Seq(Bindings) /\ Len(Live) = Len(order)
               /\ DOMAIN Live = 1..Len(order)
               /\ \A i \in 1..Len(order) : Live[i] = [key |-> order[i], data |-> byKey[order[i]]])'
    BY LiveIsSeq, PTL
  <2> QED
    BY <2>1 DEF Bindings
<1> HIDE DEF b, A
<1>8. CASE /\ n < Limit
           /\ byKey' = Bound(byKey, MintKey(d), d)
           /\ order' = Append(order, MintKey(d))
  <2>1. Fifo!Newest(A) = A
    <3>1. ~(Len(A) > Limit)
      BY <1>4, <1>6, <1>8, StoreAssumption
    <3> QED
      BY <3>1 DEF Fifo!Newest
  <2>2. /\ Len(order') = n + 1 /\ order'[n + 1] = MintKey(d)
        /\ \A i \in 1..n : order'[i] = order[i]
    BY <1>2, <1>4, <1>8, AppendProperties
  <2>3. /\ byKey'[MintKey(d)] = d
        /\ \A k \in DOMAIN byKey : byKey'[k] = byKey[k]
    BY <1>2, <1>8 DEF Bound
  <2>4. \A i \in 1..(n + 1) : Live'[i] = A[i]
    <3>1. TAKE i \in 1..(n + 1)
    <3>2. CASE i = n + 1
      BY <1>4, <1>6, <1>7, <2>2, <2>3, <3>2 DEF b
    <3>3. CASE i \in 1..n
      BY <1>5, <1>6, <1>7, <2>2, <2>3, <3>3
    <3> QED
      BY <1>4, <3>2, <3>3
  <2>5. Live' = A
    BY <1>6, <1>7, <2>2, <2>4, SeqEqual
  <2> QED
    BY <2>1, <2>5 DEF A, b
<1>9. CASE /\ n = Limit
           /\ byKey' = Without(Bound(byKey, MintKey(d), d), {order[1]})
           /\ order' = SubSeq(Append(order, MintKey(d)), 2, n + 1)
  <2> DEFINE Q == Append(order, MintKey(d))
             T == Tail(A)
  <2>1. n \in Nat \ {0} /\ A # << >> /\ Fifo!Newest(A) = T
    BY <1>4, <1>6, <1>9, StoreAssumption DEF Fifo!Newest
  <2>2. T \in Seq(Bindings) /\ Len(T) = n /\ \A i \in 1..n : T[i] = A[i + 1]
    BY <1>4, <1>6, <2>1, HeadTailProperties
  <2>3. /\ Q \in Seq(Keys) /\ Len(Q) = n + 1 /\ Q[n + 1] = MintKey(d)
        /\ \A i \in 1..n : Q[i] = order[i]
    BY <1>2, <1>4, AppendProperties
  <2> HIDE DEF T, Q
  <2>4. Len(order') = n /\ \A i \in 1..n : order'[i] = Q[i + 1]
    <3>1. \A i \in 2..(n + 1) : Q[i] \in Keys
      BY <1>4, <2>3, ElementOfSeq
    <3>2. order' = SubSeq(Q, 2, n + 1)
      BY <1>9 DEF Q
    <3>3. 2 \in Int /\ n + 1 \in Int
      BY <1>4
    <3>4. /\ Len(SubSeq(Q, 2, n + 1)) = IF 2 <= n + 1 THEN (n + 1) - 2 + 1 ELSE 0
          /\ \A i \in 1..((n + 1) - 2 + 1) : SubSeq(Q, 2, n + 1)[i] = Q[2 + i - 1]
      <4> HIDE DEF n
      <4> QED
        BY <3>1, <3>3, SubSeqProperties
    <3> QED
      BY <1>4, <2>1, <3>2, <3>4
  <2>5. /\ byKey'[MintKey(d)] = d
        /\ \A k \in DOMAIN byKey \ {order[1]} : byKey'[k] = byKey[k]
    <3>1. order[1] \in DOMAIN byKey
      BY <1>5, <2>1
    <3> QED
      BY <1>2, <1>9, <3>1 DEF Bound, Without
  <2>6. \A i \in 1..n : Live'[i] = T[i]
    <3>1. TAKE i \in 1..n
    <3>2. CASE i = n
      BY <1>6, <1>7, <2>1, <2>2, <2>3, <2>4, <2>5, <3>2 DEF b
    <3>3. CASE i # n
      <4>1. i + 1 \in 1..n /\ 1 \in 1..n /\ i + 1 # 1
        <5>1. n \in Nat /\ i \in 1..n
          BY <1>4
        <5> HIDE DEF n
        <5> QED
          BY <3>3, <5>1
      <4>2. order[i + 1] \in DOMAIN byKey \ {order[1]}
        BY <1>4, <1>5, <4>1 DEF Inv, IndexesAgree
      <4>3. order'[i] = order[i + 1] /\ byKey'[order[i + 1]] = byKey[order[i + 1]]
        BY <2>3, <2>4, <2>5, <4>1, <4>2
      <4>4. T[i] = [key |-> order[i + 1], data |-> byKey[order[i + 1]]]
        BY <1>6, <2>2, <4>1
      <4> QED
        BY <1>7, <2>4, <4>3, <4>4
    <3> QED
      BY <3>2, <3>3
  <2>7. Live' = T
    BY <1>7, <2>2, <2>4, <2>6, SeqEqual
  <2> QED
    BY <2>1, <2>7 DEF A, b
<1> QED
  BY <1>8, <1>9, MintStep

\* Every step of the store is a step of the abstract queue or leaves it alone.
LEMMA StepRefines ==
  ASSUME Inv, Inv', [StoreNext]_storeVars
  PROVE  [Fifo!Next]_Live
<1>1. CASE UNCHANGED storeVars
  BY <1>1 DEF storeVars, Live
<1>2. CASE Restart
  <2>1. Live' = << >>
    BY <1>2 DEF Restart, Live
  <2> QED
    BY <2>1 DEF Fifo!Next, Fifo!Forget, Live
<1>3. ASSUME NEW d \in Data, Reuse(d) PROVE [Fifo!Next]_Live
  BY <1>1, <1>3 DEF Reuse
<1>4. ASSUME NEW d \in Data, Mint(d) PROVE [Fifo!Next]_Live
  <2>1. d \in Long /\ d \notin DOMAIN byData
    BY <1>4 DEF Mint
  <2>2. MintKey(d) \in Keys /\ MintKey(d) \notin DOMAIN byKey
    BY <2>1, MintedKeyIsNew
  <2>3. \A i \in DOMAIN Live : Live[i].key # MintKey(d) /\ Live[i].data # d
    <3>1. TAKE i \in DOMAIN Live
    <3>2. i \in DOMAIN order /\ order[i] \in Keys
      BY <3>1, LiveIsSeq, LenProperties DEF Inv, TypeOK
    <3>3. order[i] \in DOMAIN byKey
      BY <3>2 DEF Inv, IndexesAgree
    <3>4. byKey[order[i]] # d
      BY <2>1, <3>3 DEF Inv, IndexesAgree
    <3> QED
      BY <2>2, <3>2, <3>3, <3>4 DEF Live
  <2>4. Fifo!Bind(MintKey(d), d)
    BY <1>4, <2>3, MintBinds DEF Fifo!Bind, Live
  <2> QED
    BY <2>1, <2>2, <2>4 DEF Fifo!Next
<1> QED
  BY <1>1, <1>2, <1>3, <1>4 DEF StoreNext, Shorten

\* The two maps and the queue of tokens.go implement the queue of the Limit
\* newest bindings: a key stands for one string, a string has one key, and the
\* oldest binding is the one dropped.
THEOREM StoreImplementsFifo == StoreSpec => FifoSpec
<1>1. StoreInit => Fifo!Init
  BY DEF StoreInit, Fifo!Init
<1>2. Inv /\ Inv' /\ [StoreNext]_storeVars => [Fifo!Next]_Live
  BY StepRefines
<1> QED
  BY <1>1, <1>2, StoreInv, PTL DEF StoreSpec, FifoSpec, Fifo!Spec, Live

-----------------------------------------------------------------------------
(* Keyboards over the store. *)

\* What a button in sight is, and what it can count on.
InQueue(b) ==
  /\ b.newer < Len(Live)
  /\ Live[Len(Live) - b.newer] = [key |-> b.payload, data |-> b.data]

Means(b) ==
  /\ b.data \notin Long => b.payload = b.data
  /\ b.data \in Long => \E n \in 1..MaxLen : b.payload = Prefix[b.data][n]
  /\ b.data \in Long /\ b.newer < Limit => InQueue(b)

Building == [busy : {TRUE}, msg : Messages, todo : Seq(Data), done : SUBSET Button]

RowsTypeOK ==
  /\ job \in [Handlers -> {Idle} \cup Building]
  /\ screen \in [Messages -> SUBSET Button]

\* The history is the abstract queue without its keys.
RecentIsQueue ==
  /\ recent \in Seq(Long) /\ Len(recent) = Len(Live)
  /\ \A i \in 1..Len(Live) : recent[i] = Live[i].data

AllMean ==
  /\ \A m \in Messages : \A b \in screen[m] : Means(b)
  /\ \A h \in Handlers : job[h].busy => \A b \in job[h].done : Means(b)

KeyboardsInv == Inv /\ RowsTypeOK /\ RecentIsQueue /\ AllMean

-----------------------------------------------------------------------------
(* The queue after a mint. *)

\* The new binding is last, every other is one place further from the end, and one
\* that has fewer than Limit newer ones is not dropped.
LEMMA MintedQueue ==
  ASSUME Inv, Inv', NEW d \in Data, Mint(d)
  PROVE  /\ Len(Live) \in Nat /\ Len(Live') \in Nat
         /\ Len(Live') = IF Len(Live) = Limit THEN Limit ELSE Len(Live) + 1
         /\ Len(Live') > 0 /\ Len(Live) <= Limit
         /\ Live'[Len(Live')] = [key |-> MintKey(d), data |-> d]
         /\ \A i \in 1..(Len(Live') - 1) : Live'[i] = Live[IF Len(Live) = Limit THEN i + 1 ELSE i]
<1> DEFINE e == [key |-> MintKey(d), data |-> d]
           q == Append(Live, e)
           len == Len(Live)
<1>1. Live' = Fifo!Newest(q)
  BY MintBinds
<1>2. Live \in Seq(Bindings) /\ len \in Nat /\ len <= Limit /\ Limit \in Nat \ {0}
  BY LiveIsSeq, LenProperties, StoreAssumption DEF Inv, IndexesAgree
<1>3. e \in Bindings
  <2>1. d \in Long /\ d \notin DOMAIN byData
    BY DEF Mint
  <2>2. QED  BY <2>1, MintedKeyIsNew DEF Bindings
<1>4. /\ q \in Seq(Bindings) /\ Len(q) = len + 1
      /\ q[len + 1] = e /\ \A i \in 1..len : q[i] = Live[i]
  BY <1>2, <1>3, AppendProperties
<1> HIDE DEF e, q, len
<1>5. CASE len = Limit
  <2>1. Live' = Tail(q) /\ q # << >>
    BY <1>1, <1>2, <1>4, <1>5, EmptySeq DEF Fifo!Newest
  <2>2. Len(Tail(q)) = len /\ \A i \in 1..len : Tail(q)[i] = q[i + 1]
    BY <1>2, <1>4, <2>1, HeadTailProperties
  <2>3. \A i \in 1..(len - 1) : i \in 1..len /\ i + 1 \in 1..len
    BY <1>2
  <2>4. len \in 1..len /\ len > 0
    BY <1>2, <1>5
  <2>5. QED  BY <1>2, <1>4, <1>5, <2>1, <2>2, <2>3, <2>4 DEF e, len
<1>6. CASE len # Limit
  <2>1. Live' = q
    BY <1>1, <1>2, <1>4, <1>6 DEF Fifo!Newest
  <2>2. \A i \in 1..((len + 1) - 1) : i \in 1..len
    BY <1>2
  <2>3. QED  BY <1>2, <1>4, <1>6, <2>1, <2>2 DEF e, len
<1>7. QED  BY <1>5, <1>6

\* A button keeps what it can count on when a binding is minted, its own age counted.
LEMMA MintKeeps ==
  ASSUME Inv, Inv', NEW d \in Data, Mint(d), NEW b \in Button, Means(b),
         NEW c \in Button, c.data = b.data, c.payload = b.payload,
         c.newer = IF b.newer < Limit THEN b.newer + 1 ELSE b.newer
  PROVE  Means(c)'
<1>1. b.newer \in Nat /\ Limit \in Nat \ {0}
  BY StoreAssumption DEF Button
<1>2. ASSUME c.data \in Long, c.newer < Limit
      PROVE  c.newer < Len(Live') /\ Live'[Len(Live') - c.newer] = [key |-> c.payload, data |-> c.data]
  <2>1. c.newer = b.newer + 1 /\ InQueue(b)
    BY <1>1, <1>2 DEF Means
  <2> DEFINE x == b.newer
             len == Len(Live)
             len1 == Len(Live')
  <2>2. /\ len \in Nat /\ len1 \in Nat /\ len <= Limit
        /\ len1 = IF len = Limit THEN Limit ELSE len + 1
    BY MintedQueue
  <2>3. x \in Nat /\ x < len /\ x + 1 < Limit
    BY <1>1, <1>2, <2>1 DEF InQueue
  <2>4. \A i \in 1..(len1 - 1) : Live'[i] = Live[IF len = Limit THEN i + 1 ELSE i]
    BY MintedQueue
  <2> HIDE DEF x, len, len1
  <2>5. /\ x + 1 < len1 /\ len1 - (x + 1) \in 1..(len1 - 1)
        /\ (IF len = Limit THEN (len1 - (x + 1)) + 1 ELSE len1 - (x + 1)) = len - x
    BY <1>1, <2>2, <2>3
  <2>6. Live'[len1 - (x + 1)] = Live[len - x]
    BY <2>4, <2>5
  <2>7. QED  BY <2>1, <2>5, <2>6 DEF InQueue, x, len, len1
<1>3. QED  BY <1>2 DEF Means, InQueue

\* The minted key is the one the rendered button carries.
LEMMA MintedPayload ==
  ASSUME Inv, Inv', NEW d \in Data, Mint(d)
  PROVE  Payload(d, byData') = MintKey(d)
<1>1. d \in Long /\ d \notin DOMAIN byData
  BY DEF Mint
<1>3. Len(Live') \in Nat /\ Len(Live') > 0 /\ Live'[Len(Live')] = [key |-> MintKey(d), data |-> d]
  BY MintedQueue
<1>4. /\ Len(Live') = Len(order') /\ order' \in Seq(Keys)
      /\ \A i \in 1..Len(order') : Live'[i] = [key |-> order'[i], data |-> byKey'[order'[i]]]
  <2>1. order' \in Seq(Keys) /\ DOMAIN order' = 1..Len(order') /\ Len(order') \in Nat
    BY LenProperties DEF Inv, TypeOK
  <2>2. Live' = [i \in 1..Len(order') |-> [key |-> order'[i], data |-> byKey'[order'[i]]]]
    BY <2>1 DEF Live
  <2> DEFINE n == Len(order')
             F(i) == [key |-> order'[i], data |-> byKey'[order'[i]]]
  <2>3. n \in Nat /\ Live' = [i \in 1..n |-> F(i)]
    BY <2>1, <2>2
  <2> HIDE DEF n, F
  <2>4. Len(Live') = n /\ \A i \in 1..n : Live'[i] = F(i)
    BY <2>3
  <2>5. QED  BY <2>1, <2>4 DEF n, F
<1>5. order'[Len(order')] = MintKey(d) /\ byKey'[MintKey(d)] = d
  <2>1. Len(order') \in 1..Len(order')
    BY <1>3, <1>4
  <2>2. [key |-> order'[Len(order')], data |-> byKey'[order'[Len(order')]]] = [key |-> MintKey(d), data |-> d]
    BY <1>3, <1>4, <2>1
  <2>3. QED  BY <2>2
<1>6. MintKey(d) \in DOMAIN byKey'
  <2>1. Len(order') \in DOMAIN order' /\ MintKey(d) \in Keys
    BY <1>1, <1>3, <1>4, LenProperties, MintedKeyIsNew
  <2>2. QED  BY <1>5, <2>1 DEF Inv, IndexesAgree
<1>7. byData'[d] = MintKey(d)
  BY <1>5, <1>6 DEF Inv, IndexesAgree
<1>8. QED  BY <1>1, <1>7 DEF Payload

\* The button that is rendered with a new key.
LEMMA MintedMeans ==
  ASSUME Inv, Inv', NEW d \in Data, Mint(d), NEW b \in Button,
         b.data = d, b.payload = Payload(d, byData'), b.newer = 0
  PROVE  Means(b)'
<1>1. d \in Long /\ d \notin DOMAIN byData
  BY DEF Mint
<1>2. PICK n \in 1..MaxLen : MintKey(d) = Prefix[d][n]
  BY <1>1, MintedKeyIsNew
<1>3. Len(Live') \in Nat /\ Len(Live') > 0 /\ Live'[Len(Live')] = [key |-> MintKey(d), data |-> d]
  BY MintedQueue
<1>4. b.payload = MintKey(d)
  BY MintedPayload
<1>5. InQueue(b)'
  BY <1>3, <1>4 DEF InQueue
<1>6. QED  BY <1>1, <1>2, <1>4, <1>5 DEF Means

\* The history grows and is cut as the queue is.
LEMMA RecentGrows ==
  ASSUME Inv, Inv', RecentIsQueue, NEW d \in Long, Mint(d), d \in Data,
         recent' = IF Len(recent) = Limit THEN Append(Tail(recent), d) ELSE Append(recent, d)
  PROVE  RecentIsQueue'
<1> DEFINE len == Len(Live)
           t == Tail(recent)
<1>1. /\ len \in Nat /\ Len(Live') = IF len = Limit THEN Limit ELSE len + 1
      /\ Live'[Len(Live')].data = d /\ Limit \in Nat \ {0}
      /\ \A i \in 1..(Len(Live') - 1) : Live'[i] = Live[IF len = Limit THEN i + 1 ELSE i]
  <2>1. Live'[Len(Live')] = [key |-> MintKey(d), data |-> d]
    BY MintedQueue
  <2>2. Live'[Len(Live')].data = d
    BY <2>1
  <2>3. QED  BY <2>2, MintedQueue, StoreAssumption
<1>2. recent \in Seq(Long) /\ Len(recent) = len /\ \A i \in 1..len : recent[i] = Live[i].data
  BY DEF RecentIsQueue
<1> HIDE DEF len, t
<1>3. CASE len = Limit
  <2>1. recent # << >>
    BY <1>1, <1>2, <1>3, EmptySeq
  <2>2. t \in Seq(Long) /\ Len(t) = len - 1 /\ \A i \in 1..(len - 1) : t[i] = recent[i + 1]
    BY <1>2, <2>1, HeadTailProperties DEF t
  <2>3. recent' = Append(t, d)
    BY <1>2, <1>3 DEF t
  <2>4. /\ recent' \in Seq(Long) /\ Len(recent') = len
        /\ recent'[len] = d /\ \A i \in 1..(len - 1) : recent'[i] = t[i]
    <3>1. Len(t) + 1 = len
      BY <1>1, <2>2
    <3> HIDE DEF t
    <3>2. /\ Append(t, d) \in Seq(Long) /\ Len(Append(t, d)) = Len(t) + 1
          /\ Append(t, d)[Len(t) + 1] = d /\ \A i \in 1..Len(t) : Append(t, d)[i] = t[i]
      BY <2>2, AppendProperties
    <3>3. QED  BY <2>2, <2>3, <3>1, <3>2
  <2>5. ASSUME NEW i \in 1..len  PROVE  recent'[i] = Live'[i].data
    <3>1. CASE i = len
      BY <1>1, <1>3, <2>4, <3>1
    <3>2. CASE i # len
      <4>1. i \in 1..(len - 1) /\ i + 1 \in 1..len
        BY <1>1, <3>2
      <4>2. QED  BY <1>1, <1>2, <1>3, <2>2, <2>4, <4>1
    <3>3. QED  BY <3>1, <3>2
  <2>6. QED  BY <1>1, <1>3, <2>4, <2>5 DEF RecentIsQueue
<1>4. CASE len # Limit
  <2>1. recent' = Append(recent, d) /\ Len(Live') = len + 1
    BY <1>1, <1>2, <1>4
  <2>2. /\ recent' \in Seq(Long) /\ Len(recent') = len + 1
        /\ recent'[len + 1] = d /\ \A i \in 1..len : recent'[i] = recent[i]
    <3>1. /\ Append(recent, d) \in Seq(Long) /\ Len(Append(recent, d)) = Len(recent) + 1
          /\ Append(recent, d)[Len(recent) + 1] = d
          /\ \A i \in 1..Len(recent) : Append(recent, d)[i] = recent[i]
      BY <1>2, AppendProperties
    <3>2. QED  BY <1>2, <2>1, <3>1
  <2>3. ASSUME NEW i \in 1..(len + 1)  PROVE  recent'[i] = Live'[i].data
    <3>1. CASE i = len + 1
      BY <1>1, <2>1, <2>2, <3>1
    <3>2. CASE i # len + 1
      <4>1. i \in 1..len /\ i \in 1..((len + 1) - 1)
        BY <1>1, <3>2
      <4>2. QED  BY <1>1, <1>2, <1>4, <2>1, <2>2, <4>1
    <3>3. QED  BY <3>1, <3>2
  <2>4. QED  BY <2>1, <2>2, <2>3 DEF RecentIsQueue
<1>5. QED  BY <1>3, <1>4

\* The button that is rendered with a living key, or without one.
LEMMA ReusedMeans ==
  ASSUME Inv, RecentIsQueue, NEW d \in Data, Reuse(d), NEW b,
         b = [data |-> d, payload |-> Payload(d, byData'),
              newer |-> IF d \in Long THEN Newer(d) ELSE 0]
  PROVE  b \in Button /\ Means(b)
<1>1. byData' = byData /\ Limit \in Nat \ {0}
  BY StoreAssumption DEF Reuse, storeVars
<1>2. b.data = d /\ b.payload = Payload(d, byData') /\ b.newer = IF d \in Long THEN Newer(d) ELSE 0
  OBVIOUS
<1>3. CASE d \notin Long
  <2>1. b.payload = d /\ b.newer = 0
    BY <1>2, <1>3 DEF Payload
  <2>2. b = [data |-> d, payload |-> d, newer |-> 0]
    BY <1>3 DEF Payload
  <2>3. QED  BY <1>1, <1>2, <1>3, <2>1, <2>2 DEF Button, Means
<1>4. CASE d \in Long
  <2>1. d \in DOMAIN byData
    BY <1>4 DEF Reuse
  <2> DEFINE k == byData[d]
             len == Len(Live)
             at == {j \in DOMAIN recent : recent[j] = d}
  <2>2. k \in Keys /\ k \in DOMAIN byKey /\ byKey[k] = d
    BY <2>1 DEF Inv, TypeOK, IndexesAgree
  <2>3. PICK i \in DOMAIN order : order[i] = k
    BY <2>2 DEF Inv, IndexesAgree
  <2>4. /\ len = Len(order) /\ len \in Nat /\ len <= Limit
        /\ DOMAIN order = 1..len /\ DOMAIN recent = 1..len
        /\ \A j \in 1..len : Live[j] = [key |-> order[j], data |-> byKey[order[j]]]
    BY LiveIsSeq, LenProperties DEF Inv, TypeOK, IndexesAgree, RecentIsQueue
  <2>5. Live[i] = [key |-> k, data |-> d] /\ recent[i] = d
    BY <2>2, <2>3, <2>4 DEF RecentIsQueue
  <2>6. at = {i}
    <3> SUFFICES ASSUME NEW j \in at  PROVE  j = i
      BY <2>3, <2>4, <2>5
    <3>0. j \in 1..len /\ recent[j] = d
      BY <2>4
    <3>1. j \in 1..len /\ byKey[order[j]] = d
      <4>1. recent[j] = Live[j].data
        BY <3>0 DEF RecentIsQueue
      <4>2. Live[j] = [key |-> order[j], data |-> byKey[order[j]]]
        BY <2>4, <3>0
      <4>3. QED  BY <3>0, <4>1, <4>2
    <3>2. order[j] \in DOMAIN byKey
      BY <2>4, <3>1 DEF Inv, TypeOK, IndexesAgree
    <3>3. order[j] = k
      BY <3>1, <3>2 DEF Inv, IndexesAgree
    <3>4. QED  BY <2>3, <2>4, <3>1, <3>3 DEF Inv, IndexesAgree
  <2>7. Newer(d) = len - i
    <3>1. i \in Nat /\ (CHOOSE l \in at : \A j \in at : j <= l) = i
      BY <2>3, <2>4, <2>6
    <3> HIDE DEF at
    <3>2. Newer(d) = IF at = {} THEN Limit ELSE Len(recent) - CHOOSE l \in at : \A j \in at : j <= l
      BY DEF Newer, at
    <3>3. QED  BY <2>6, <3>1, <3>2 DEF RecentIsQueue
  <2>8. b.payload = k /\ b.newer = len - i /\ b = [data |-> d, payload |-> k, newer |-> len - i]
    BY <1>1, <1>2, <1>4, <2>7 DEF Payload
  <2> HIDE DEF k, len, at
  <2>9. len - i \in 0..Limit /\ len - i < len /\ len - (len - i) = i
    BY <1>1, <2>3, <2>4
  <2>10. b \in Button
    BY <2>2, <2>8, <2>9 DEF Button
  <2>11. InQueue(b)
    BY <1>2, <2>5, <2>8, <2>9 DEF InQueue, len
  <2>12. \E n \in 1..MaxLen : b.payload = Prefix[b.data][n]
    BY <1>2, <2>2, <2>8 DEF Inv, KeysAreDigests
  <2>13. QED  BY <1>2, <1>4, <2>10, <2>11, <2>12 DEF Means
<1>5. QED  BY <1>3, <1>4

-----------------------------------------------------------------------------
(* The inductive invariant. *)

\* Each step of the keyboards leaves the store alone or is one of its own.
LEMMA KeyboardsStepStore ==
  ASSUME RowsTypeOK, [Next]_vars
  PROVE  [StoreNext]_storeVars
<1>1. ASSUME NEW h \in Handlers, Btn(h)  PROVE  StoreNext
  <2>1. job[h] \in {Idle} \cup Building /\ job[h].busy /\ job[h].todo # << >>
    BY <1>1 DEF RowsTypeOK, Btn, Busy
  <2>2. job[h].todo \in Seq(Data)
    <3>1. job[h] \in Building
      BY <2>1 DEF Idle
    <3>2. QED  BY <3>1 DEF Building
  <2>3. Head(job[h].todo) \in Data
    BY <2>1, <2>2, HeadTailProperties
  <2>4. Reuse(Head(job[h].todo)) \/ Mint(Head(job[h].todo))
    BY <1>1 DEF Btn
  <2>5. QED  BY <2>3, <2>4 DEF StoreNext, Shorten
<1>2. CASE Reboot
  BY <1>2 DEF Reboot, StoreNext
<1>3. CASE UNCHANGED storeVars
  BY <1>3
<1>4. \/ UNCHANGED storeVars \/ Reboot \/ \E h \in Handlers : Btn(h)
  BY DEF Next, vars, storeVars, Command, Tap, Edit, EditFails
<1>5. QED  BY <1>1, <1>2, <1>3, <1>4

LEMMA KeyboardsInitInv == Init => KeyboardsInv
<1> SUFFICES ASSUME Init  PROVE  KeyboardsInv
  OBVIOUS
<1>1. Inv /\ order = << >>
  BY InitInv DEF Init, StoreInit
<1>2. RowsTypeOK
  BY DEF Init, RowsTypeOK
<1>3. Len(Live) = 0 /\ Len(order) = 0
  BY <1>1, LiveIsSeq, EmptySeq
<1>4. RecentIsQueue
  <2>1. recent = << >> /\ recent \in Seq(Long) /\ Len(recent) = 0
    BY EmptySeq DEF Init
  <2>2. QED  BY <1>3, <2>1 DEF RecentIsQueue
<1>5. AllMean
  BY DEF Init, AllMean, Idle
<1>6. QED  BY <1>1, <1>2, <1>4, <1>5 DEF KeyboardsInv

\* What the store's state alone decides stays when the store stays.
LEMMA StoreStays ==
  ASSUME UNCHANGED storeVars
  PROVE  Live' = Live /\ \A b : Means(b)' <=> Means(b)
<1>1. Live' = Live
  BY DEF storeVars, Live
<1>2. QED  BY <1>1 DEF Means, InQueue

\* A handler has put one more button on its keyboard.
LEMMA PlacedIsTyped ==
  ASSUME NEW jobs \in [Handlers -> {Idle} \cup Building], NEW h \in Handlers,
         jobs[h].busy, jobs[h].todo # << >>, NEW d, NEW n, NEW b \in Button,
         b = [data |-> d, payload |-> Payload(d, byData'), newer |-> n]
  PROVE  LET u == Placed(h, d, n, jobs) IN
           /\ u \in [Handlers -> {Idle} \cup Building]
           /\ u[h].busy /\ u[h].done = jobs[h].done \cup {b}
           /\ \A g \in Handlers : g # h => u[g] = jobs[g]
<1> DEFINE u == Placed(h, d, n, jobs)
           e == [jobs[h] EXCEPT !.todo = Tail(@), !.done = @ \cup {b}]
<1>1. jobs[h] \in Building
  BY DEF Idle
<1>2. Tail(jobs[h].todo) \in Seq(Data)
  <2>1. jobs[h].todo \in Seq(Data)
    BY <1>1 DEF Building
  <2>2. QED  BY <2>1, HeadTailProperties
<1>3. e \in Building /\ e.busy /\ e.done = jobs[h].done \cup {b}
  BY <1>1, <1>2 DEF Building
<1>4. u = [jobs EXCEPT ![h] = e]
  BY <1>1 DEF Placed
<1> HIDE DEF u, e
<1>5. u \in [Handlers -> {Idle} \cup Building] /\ u[h] = e /\ \A g \in Handlers : g # h => u[g] = jobs[g]
  BY <1>3, <1>4
<1>6. QED  BY <1>3, <1>5 DEF u

\* One more binding is counted against the buttons in sight, and they keep their meaning.
LEMMA AgedMean ==
  ASSUME Inv, Inv', NEW d \in Data, Mint(d), NEW S \in SUBSET Button, \A b \in S : Means(b)
  PROVE  Aged(S) \subseteq Button /\ \A c \in Aged(S) : Means(c)'
<1> SUFFICES ASSUME NEW b \in S
             PROVE  LET c == [b EXCEPT !.newer = IF @ < Limit THEN @ + 1 ELSE @]
                    IN c \in Button /\ Means(c)'
  BY DEF Aged
<1> DEFINE c == [b EXCEPT !.newer = IF @ < Limit THEN @ + 1 ELSE @]
<1>1. b \in Button /\ b.newer \in 0..Limit /\ Limit \in Nat
  BY StoreAssumption DEF Button
<1>2. /\ c.data = b.data /\ c.payload = b.payload
      /\ c.newer = IF b.newer < Limit THEN b.newer + 1 ELSE b.newer
  BY <1>1 DEF Button
<1>3. c \in Button
  <2>1. (IF b.newer < Limit THEN b.newer + 1 ELSE b.newer) \in 0..Limit
    BY <1>1
  <2>2. QED  BY <1>1, <2>1 DEF Button
<1> HIDE DEF c
<1>4. Means(c)'
  BY <1>1, <1>2, <1>3, MintKeeps
<1>5. QED  BY <1>3, <1>4 DEF c

LEMMA ReuseKeeps ==
  ASSUME KeyboardsInv, Inv', NEW h \in Handlers, h \in Busy, job[h].todo # << >>,
         Reuse(Head(job[h].todo)),
         job' = Placed(h, Head(job[h].todo),
                       IF Head(job[h].todo) \in Long THEN Newer(Head(job[h].todo)) ELSE 0, job),
         UNCHANGED <<screen, recent>>
  PROVE  KeyboardsInv'
<1> DEFINE d == Head(job[h].todo)
           n == IF d \in Long THEN Newer(d) ELSE 0
<1>0. PICK b : b = [data |-> d, payload |-> Payload(d, byData'), newer |-> n]
  OBVIOUS
<1>1. job \in [Handlers -> {Idle} \cup Building] /\ job[h].busy /\ job[h].todo # << >>
  BY DEF KeyboardsInv, RowsTypeOK, Busy
<1>2. d \in Data
  <2>1. job[h].todo \in Seq(Data)
    <3>1. job[h] \in Building
      BY <1>1 DEF Idle
    <3>2. QED  BY <3>1 DEF Building
  <2>2. QED  BY <2>1, HeadTailProperties
<1>3. Reuse(d) /\ job' = Placed(h, d, n, job)
  OBVIOUS
<1> HIDE DEF d
<1>4. b \in Button /\ Means(b)
  BY <1>0, <1>2, <1>3, ReusedMeans DEF KeyboardsInv
<1> HIDE DEF n
<1>5. /\ job' \in [Handlers -> {Idle} \cup Building]
      /\ job'[h].done = job[h].done \cup {b}
      /\ \A g \in Handlers : g # h => job'[g] = job[g]
  BY <1>0, <1>1, <1>3, <1>4, PlacedIsTyped
<1>6. UNCHANGED storeVars
  BY <1>3 DEF Reuse
<1>7. Live' = Live /\ \A c : Means(c)' <=> Means(c)
  BY <1>6, StoreStays
<1>8. RowsTypeOK' /\ RecentIsQueue'
  BY <1>5, <1>7 DEF KeyboardsInv, RowsTypeOK, RecentIsQueue
<1>9. AllMean'
  <2>1. \A m \in Messages : \A c \in screen'[m] : Means(c)'
    BY <1>7 DEF KeyboardsInv, AllMean
  <2>2. ASSUME NEW g \in Handlers, job'[g].busy, NEW c \in job'[g].done  PROVE  Means(c)'
    <3>1. CASE g = h
      BY <1>1, <1>4, <1>5, <1>7, <2>2, <3>1 DEF KeyboardsInv, AllMean
    <3>2. CASE g # h
      BY <1>5, <1>7, <2>2, <3>2 DEF KeyboardsInv, AllMean
    <3>3. QED  BY <3>1, <3>2
  <2>3. QED  BY <2>1, <2>2 DEF AllMean
<1>10. QED  BY <1>8, <1>9 DEF KeyboardsInv

LEMMA MintKeepsAll ==
  ASSUME KeyboardsInv, Inv', NEW h \in Handlers, h \in Busy, job[h].todo # << >>,
         Mint(Head(job[h].todo)),
         job' = Placed(h, Head(job[h].todo), 0, [g \in Handlers |-> AgedJob(job[g])]),
         screen' = [m \in Messages |-> Aged(screen[m])],
         recent' = IF Len(recent) = Limit THEN Append(Tail(recent), Head(job[h].todo))
                                          ELSE Append(recent, Head(job[h].todo))
  PROVE  KeyboardsInv'
<1> DEFINE d == Head(job[h].todo)
           jobs == [g \in Handlers |-> AgedJob(job[g])]
<1>0. PICK b : b = [data |-> d, payload |-> Payload(d, byData'), newer |-> 0]
  OBVIOUS
<1>1. Inv /\ job \in [Handlers -> {Idle} \cup Building] /\ job[h].busy /\ job[h].todo # << >>
  BY DEF KeyboardsInv, RowsTypeOK, Busy
<1>2. d \in Data
  <2>1. job[h].todo \in Seq(Data)
    <3>1. job[h] \in Building
      BY <1>1 DEF Idle
    <3>2. QED  BY <3>1 DEF Building
  <2>2. QED  BY <2>1, HeadTailProperties
<1>3. /\ Mint(d) /\ job' = Placed(h, d, 0, jobs)
      /\ recent' = IF Len(recent) = Limit THEN Append(Tail(recent), d) ELSE Append(recent, d)
  OBVIOUS
<1> HIDE DEF d
<1>4. d \in Long /\ d \notin DOMAIN byData
  BY <1>3 DEF Mint
<1>5. b \in Button /\ Means(b)'
  <2>1. MintKey(d) \in Keys /\ Limit \in Nat
    BY <1>1, <1>4, MintedKeyIsNew, StoreAssumption
  <2>3. b.data = d /\ b.payload = Payload(d, byData') /\ b.newer = 0
    BY <1>0
  <2>4. Payload(d, byData') = MintKey(d)
    BY <1>1, <1>2, <1>3, MintedPayload
  <2>5. b \in Button
    BY <1>0, <1>2, <2>1, <2>4 DEF Button
  <2>6. QED  BY <1>1, <1>2, <1>3, <2>3, <2>5, MintedMeans
<1>6. ASSUME NEW g \in Handlers
      PROVE  /\ jobs[g] \in {Idle} \cup Building
             /\ jobs[g].busy = job[g].busy
             /\ jobs[g].busy => /\ jobs[g].todo = job[g].todo
                                /\ \A c \in jobs[g].done : Means(c)'
  <2>1. jobs[g] = AgedJob(job[g])
    OBVIOUS
  <2> HIDE DEF jobs
  <2>2. CASE job[g] = Idle
    BY <2>1, <2>2 DEF AgedJob, Idle
  <2>3. CASE job[g] \in Building
    <3> DEFINE old == job[g].done
    <3>1. old \in SUBSET Button /\ job[g].busy /\ \A c \in old : Means(c)
      BY <2>3 DEF Building, KeyboardsInv, AllMean
    <3>2. jobs[g] = [job[g] EXCEPT !.done = Aged(old)]
      BY <2>1, <3>1 DEF AgedJob
    <3> HIDE DEF old
    <3>3. Aged(old) \in SUBSET Button /\ \A c \in Aged(old) : Means(c)'
      BY <1>1, <1>2, <1>3, <3>1, AgedMean
    <3>4. /\ jobs[g] \in Building /\ jobs[g].busy = job[g].busy
          /\ jobs[g].todo = job[g].todo /\ jobs[g].done = Aged(old)
      BY <2>3, <3>2, <3>3 DEF Building
    <3>5. QED  BY <3>3, <3>4
  <2>4. QED  BY <1>1, <2>2, <2>3
<1>7. jobs \in [Handlers -> {Idle} \cup Building] /\ jobs[h].busy /\ jobs[h].todo # << >>
  BY <1>1, <1>6
<1> HIDE DEF jobs
<1>8. /\ job' \in [Handlers -> {Idle} \cup Building]
      /\ job'[h].done = jobs[h].done \cup {b}
      /\ \A g \in Handlers : g # h => job'[g] = jobs[g]
  BY <1>0, <1>3, <1>5, <1>7, PlacedIsTyped
<1>9. ASSUME NEW m \in Messages  PROVE  screen'[m] \in SUBSET Button /\ \A c \in screen'[m] : Means(c)'
  <2>1. screen[m] \in SUBSET Button /\ \A c \in screen[m] : Means(c)
    BY DEF KeyboardsInv, RowsTypeOK, AllMean
  <2>2. screen'[m] = Aged(screen[m])
    OBVIOUS
  <2>3. QED  BY <1>1, <1>2, <1>3, <2>1, <2>2, AgedMean
<1>10. RowsTypeOK'
  BY <1>8, <1>9 DEF RowsTypeOK
<1>11. AllMean'
  <2>1. ASSUME NEW g \in Handlers, job'[g].busy, NEW c \in job'[g].done  PROVE  Means(c)'
    <3>1. CASE g = h
      BY <1>5, <1>6, <1>7, <1>8, <2>1, <3>1
    <3>2. CASE g # h
      BY <1>6, <1>8, <2>1, <3>2
    <3>3. QED  BY <3>1, <3>2
  <2>2. QED  BY <1>9, <2>1 DEF AllMean
<1>12. RecentIsQueue'
  BY <1>1, <1>2, <1>3, <1>4, RecentGrows DEF KeyboardsInv
<1>13. QED  BY <1>10, <1>11, <1>12 DEF KeyboardsInv

\* A handler begins a keyboard: nothing is rendered yet.
LEMMA BeginKeeps ==
  ASSUME KeyboardsInv, Inv', NEW h \in Handlers, NEW m \in Messages, NEW menu \in Seq(Data),
         job' = [job EXCEPT ![h] = Job(m, menu)], UNCHANGED <<storeVars, screen, recent>>
  PROVE  KeyboardsInv'
<1>1. Job(m, menu) \in Building /\ Job(m, menu).done = {}
  BY DEF Job, Building
<1>2. job \in [Handlers -> {Idle} \cup Building]
  BY DEF KeyboardsInv, RowsTypeOK
<1>3. Live' = Live /\ \A c : Means(c)' <=> Means(c)
  BY StoreStays
<1>4. RowsTypeOK' /\ RecentIsQueue'
  BY <1>1, <1>2, <1>3 DEF KeyboardsInv, RowsTypeOK, RecentIsQueue
<1>5. \A g \in Handlers : job'[g] = IF g = h THEN Job(m, menu) ELSE job[g]
  BY <1>2
<1>6. AllMean'
  BY <1>1, <1>3, <1>5 DEF KeyboardsInv, AllMean
<1>7. QED  BY <1>4, <1>6 DEF KeyboardsInv

\* A handler is done with its keyboard, which is on its message or is lost.
LEMMA EndKeeps ==
  ASSUME KeyboardsInv, Inv', NEW h \in Handlers, h \in Busy, job' = [job EXCEPT ![h] = Idle],
         UNCHANGED <<storeVars, recent>>,
         \/ screen' = [screen EXCEPT ![job[h].msg] = job[h].done]
         \/ screen' = screen
  PROVE  KeyboardsInv'
<1>1. job \in [Handlers -> {Idle} \cup Building] /\ screen \in [Messages -> SUBSET Button]
  BY DEF KeyboardsInv, RowsTypeOK
<1>2. job[h].busy /\ job[h] \in Building
  BY <1>1 DEF Busy, Idle
<1>3. job[h].msg \in Messages /\ job[h].done \in SUBSET Button /\ \A c \in job[h].done : Means(c)
  BY <1>2 DEF Building, KeyboardsInv, AllMean
<1>4. Live' = Live /\ \A c : Means(c)' <=> Means(c)
  BY StoreStays
<1>5. RowsTypeOK' /\ RecentIsQueue'
  BY <1>1, <1>3, <1>4 DEF KeyboardsInv, RowsTypeOK, RecentIsQueue
<1>6. \A g \in Handlers : job'[g] = IF g = h THEN Idle ELSE job[g]
  BY <1>1
<1>7. \A m \in Messages : screen'[m] = screen[m] \/ screen'[m] = job[h].done
  BY <1>1
<1>8. AllMean'
  BY <1>3, <1>4, <1>6, <1>7 DEF KeyboardsInv, AllMean, Idle
<1>9. QED  BY <1>5, <1>8 DEF KeyboardsInv

\* After a restart a long button counts on nothing but its key.
LEMMA RebootKeeps ==
  ASSUME KeyboardsInv, Inv', Reboot
  PROVE  KeyboardsInv'
<1>1. Limit \in Nat \ {0} /\ screen \in [Messages -> SUBSET Button]
  BY StoreAssumption DEF KeyboardsInv, RowsTypeOK
<1>2. /\ order' = << >> /\ recent' = << >> /\ job' = [h \in Handlers |-> Idle]
      /\ screen' = [m \in Messages |->
           {[b EXCEPT !.newer = IF b.data \in Long THEN Limit ELSE 0] : b \in screen[m]}]
  BY DEF Reboot, Restart
<1>3. ASSUME NEW m \in Messages, NEW c \in screen'[m]  PROVE  c \in Button /\ Means(c)'
  <2>1. PICK b \in screen[m] : c = [b EXCEPT !.newer = IF b.data \in Long THEN Limit ELSE 0]
    BY <1>2, <1>3
  <2>2. b \in Button /\ Means(b)
    BY <1>1 DEF KeyboardsInv, AllMean
  <2>3. c \in Button
    BY <1>1, <2>1, <2>2 DEF Button
  <2>4. c.data = b.data /\ c.payload = b.payload /\ (b.data \in Long => c.newer = Limit)
    BY <2>1, <2>2 DEF Button
  <2>5. ~(Limit < Limit)
    BY <1>1
  <2>6. Means(c)'
    BY <2>2, <2>4, <2>5 DEF Means
  <2>7. QED  BY <2>3, <2>6
<1>4. RowsTypeOK'
  BY <1>2, <1>3 DEF RowsTypeOK
<1>5. RecentIsQueue'
  <2>1. Live' = << >>
    BY <1>2 DEF Live
  <2>2. Len(Live') = 0 /\ recent' \in Seq(Long) /\ Len(recent') = 0
    BY <1>2, <2>1, EmptySeq
  <2>3. QED  BY <2>2 DEF RecentIsQueue
<1>6. AllMean'
  BY <1>2, <1>3 DEF AllMean, Idle
<1>7. QED  BY <1>4, <1>5, <1>6 DEF KeyboardsInv

LEMMA KeyboardsNextInv == KeyboardsInv /\ [Next]_vars => KeyboardsInv'
<1> SUFFICES ASSUME KeyboardsInv, [Next]_vars  PROVE  KeyboardsInv'
  OBVIOUS
<1>1. Inv'
  BY KeyboardsStepStore, NextInv DEF KeyboardsInv
<1>2. ASSUME NEW h \in Handlers, NEW m \in Messages, NEW menu \in Menus, Command(h, m, menu)
      PROVE  KeyboardsInv'
  <2>1. menu \in Seq(Data)
    BY KeyboardAssumption
  <2>2. QED  BY <1>1, <1>2, <2>1, BeginKeeps DEF Command
<1>3. ASSUME NEW h \in Handlers, NEW m \in Messages, NEW menu \in Menus, NEW b \in screen[m],
             Tap(h, m, b, menu)
      PROVE  KeyboardsInv'
  <2>1. menu \in Seq(Data) /\ <<Home>> \in Seq(Data)
    BY KeyboardAssumption
  <2>2. PICK shown \in Seq(Data) : job' = [job EXCEPT ![h] = Job(m, shown)]
    BY <1>3, <2>1 DEF Tap
  <2>3. QED  BY <1>1, <1>3, <2>2, BeginKeeps DEF Tap
<1>4. ASSUME NEW h \in Handlers, Btn(h)  PROVE  KeyboardsInv'
  BY <1>1, <1>4, ReuseKeeps, MintKeepsAll DEF Btn
<1>5. ASSUME NEW h \in Handlers, Edit(h)  PROVE  KeyboardsInv'
  BY <1>1, <1>5, EndKeeps DEF Edit
<1>6. ASSUME NEW h \in Handlers, EditFails(h)  PROVE  KeyboardsInv'
  BY <1>1, <1>6, EndKeeps DEF EditFails
<1>7. CASE Reboot
  BY <1>1, <1>7, RebootKeeps
<1>8. CASE UNCHANGED vars
  <2>1. /\ UNCHANGED storeVars
        /\ job' = job /\ screen' = screen /\ recent' = recent
    BY <1>8 DEF vars, storeVars
  <2>2. Live' = Live /\ \A c : Means(c)' <=> Means(c)
    BY <2>1, StoreStays
  <2>3. QED  BY <1>1, <2>1, <2>2 DEF KeyboardsInv, RowsTypeOK, RecentIsQueue, AllMean
<1>9. QED  BY <1>2, <1>3, <1>4, <1>5, <1>6, <1>7, <1>8 DEF Next

LEMMA KeyboardsSpecInv == Spec => []KeyboardsInv
BY KeyboardsInitInv, KeyboardsNextInv, PTL DEF Spec

-----------------------------------------------------------------------------
(* What follows. *)

\* Whatever is rendered, tapped, edited or lost at the same time, the store under the
\* keyboards goes through what the store alone goes through: all that is proved of it
\* holds of the bot's.
THEOREM KeyboardsKeepTheStore == Spec => StoreSpec
<1>1. Init => StoreInit
  BY DEF Init
<1>2. KeyboardsInv /\ [Next]_vars => [StoreNext]_storeVars
  BY KeyboardsStepStore DEF KeyboardsInv
<1>3. QED  BY <1>1, <1>2, KeyboardsSpecInv, PTL DEF Spec, StoreSpec

\* A button in sight is one the invariant speaks of.
LEMMA ShownMeans ==
  ASSUME KeyboardsInv, NEW b \in Shown
  PROVE  b \in Button /\ Means(b)
<1>1. CASE b \in OnScreens
  <2>1. PICK m \in Messages : b \in screen[m]
    BY <1>1 DEF OnScreens
  <2>2. QED  BY <2>1 DEF KeyboardsInv, RowsTypeOK, AllMean
<1>2. CASE \E h \in Busy : b \in job[h].done
  <2>1. PICK h \in Busy : b \in job[h].done
    BY <1>2
  <2>2. h \in Handlers /\ job[h].busy /\ job[h] \in {Idle} \cup Building
    BY DEF Busy, KeyboardsInv, RowsTypeOK
  <2>3. job[h] \in Building
    BY <2>2 DEF Idle
  <2>4. QED  BY <2>1, <2>2, <2>3 DEF Building, KeyboardsInv, AllMean
<1>3. QED  BY <1>1, <1>2 DEF Shown

\* Type correctness of the keyboards and of the store under them.
THEOREM KeyboardsTypeCorrect == Spec => []KeyboardsTypeOK
<1>1. ASSUME KeyboardsInv  PROVE  KeyboardsTypeOK
  <2>1. Len(recent) <= Limit
    BY <1>1, LiveIsSeq DEF KeyboardsInv, RecentIsQueue, Inv, IndexesAgree
  <2>2. Shown \subseteq Button
    BY <1>1, ShownMeans
  <2>3. QED  BY <1>1, <2>1, <2>2 DEF KeyboardsInv, Inv, RecentIsQueue, KeyboardsTypeOK
<1>2. QED  BY <1>1, KeyboardsSpecInv, PTL

\* The capacity given to NewTokenStore is the life of a button: as long as fewer than
\* Limit bindings are newer than its own it resolves to what it stands for.
THEOREM ButtonsSurviveLimitMints == Spec => []SurvivesLimitMints
<1>1. ASSUME KeyboardsInv, NEW b \in Shown, b.data \notin Long \/ b.newer < Limit
      PROVE  Resolve(b.payload) = b.data
  <2>1. b \in Button /\ Means(b) /\ Inv
    BY <1>1, ShownMeans DEF KeyboardsInv
  <2>2. CASE b.data \notin Long
    <3>1. b.payload = b.data /\ b.data \in Data
      BY <2>1, <2>2 DEF Means, Button
    <3>2. QED  BY <3>1, StoreAssumption DEF Resolve
  <2>3. CASE b.data \in Long
    <3> DEFINE i == Len(Live) - b.newer
    <3>1. InQueue(b) /\ b.newer \in Nat
      BY <1>1, <2>1, <2>3, StoreAssumption DEF Means, Button
    <3>2. Len(Live) \in Nat /\ DOMAIN order = 1..Len(Live) /\ order \in Seq(Keys)
      BY <2>1, LiveIsSeq, LenProperties DEF Inv, TypeOK
    <3>3. i \in 1..Len(Live) /\ i \in 1..Len(order)
      BY <2>1, <3>1, <3>2, LiveIsSeq DEF InQueue
    <3>4. Live[i] = [key |-> b.payload, data |-> b.data]
      BY <3>1 DEF InQueue
    <3> HIDE DEF i
    <3>5. order[i] = b.payload /\ byKey[order[i]] = b.data
      BY <2>1, <3>3, <3>4, LiveIsSeq
    <3>6. b.payload \in Keys /\ b.payload \in DOMAIN byKey
      BY <2>1, <3>2, <3>3, <3>5 DEF Inv, IndexesAgree
    <3>7. QED  BY <3>5, <3>6 DEF Resolve
  <2>4. QED  BY <2>2, <2>3
<1>2. KeyboardsInv => SurvivesLimitMints
  BY <1>1 DEF SurvivesLimitMints
<1>3. QED  BY <1>2, KeyboardsSpecInv, PTL

\* Strings that share a candidate share the shortest one.
LEMMA SharedCandidate ==
  ASSUME NEW d \in Long, NEW e \in Long, NEW m \in 1..MaxLen, NEW n \in 1..MaxLen,
         Prefix[d][m] = Prefix[e][n]
  PROVE  Prefix[e][1] = Prefix[d][1]
<1>1. m = n
  BY StoreAssumption
<1>2. 1 \in 1..MaxLen /\ 1 <= n
  BY StoreAssumption
<1>3. Prefix[d][n] = Prefix[e][n]
  BY <1>1
<1>4. QED  BY <1>2, <1>3, PrefixAssumption

\* A tap acts on the button's own object or on none, however old the button and however
\* often the bot has restarted, unless two strings share their shortest digest prefix.
THEOREM MisroutedOnlyByCollision == Spec => []MisroutesOnlyOnCollision
<1>1. ASSUME KeyboardsInv, NEW b \in Shown
      PROVE  LET e == Resolve(b.payload)
             IN  e \in {b.data, Stale} \/ (e \in Long /\ Prefix[e][1] = Prefix[b.data][1])
  <2> DEFINE e == Resolve(b.payload)
  <2>1. b \in Button /\ Means(b) /\ Inv
    BY <1>1, ShownMeans DEF KeyboardsInv
  <2>2. CASE b.data \notin Long
    <3>1. b.payload = b.data /\ b.data \in Data
      BY <2>1, <2>2 DEF Means, Button
    <3>2. QED  BY <3>1, StoreAssumption DEF Resolve
  <2>3. CASE b.data \in Long /\ b.payload \notin DOMAIN byKey
    <3>1. b.payload \in Keys
      BY <2>1, <2>3, StoreAssumption DEF Means
    <3>2. QED  BY <2>3, <3>1 DEF Resolve
  <2>4. CASE b.data \in Long /\ b.payload \in DOMAIN byKey
    <3>1. b.payload \in Keys
      BY <2>1, <2>4 DEF Inv, TypeOK
    <3>2. e = byKey[b.payload] /\ e \in Long
      BY <2>1, <2>4, <3>1 DEF Resolve, Inv, TypeOK
    <3>3. PICK n \in 1..MaxLen : b.payload = Prefix[b.data][n]
      BY <2>1, <2>4 DEF Means
    <3>4. PICK l \in 1..MaxLen : b.payload = Prefix[e][l]
      BY <2>1, <2>4, <3>2 DEF Inv, KeysAreDigests
    <3> HIDE DEF e
    <3>5. Prefix[e][1] = Prefix[b.data][1]
      <4> DEFINE d == b.data
      <4>1. d \in Long /\ e \in Long /\ Prefix[d][n] = Prefix[e][l]
        BY <2>4, <3>2, <3>3, <3>4
      <4> HIDE DEF d
      <4>2. Prefix[e][1] = Prefix[d][1]
        BY <4>1, SharedCandidate
      <4>3. QED  BY <4>2 DEF d
    <3>6. QED  BY <3>2, <3>5 DEF e
  <2>5. QED  BY <2>2, <2>3, <2>4
<1>2. KeyboardsInv => MisroutesOnlyOnCollision
  BY <1>1 DEF MisroutesOnlyOnCollision
<1>3. QED  BY <1>2, KeyboardsSpecInv, PTL
=============================================================================
