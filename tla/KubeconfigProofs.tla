--------------------------- MODULE KubeconfigProofs ---------------------------
(***************************************************************************)
(* Theorems about Kubeconfig, for all finite sets of names, all clusters   *)
(* and users: the tellings of the contexts agree, the process is ahead of   *)
(* the file only after a failed save, and what it wrote it can start on.   *)
(***************************************************************************)
EXTENDS Kubeconfig, FiniteSetTheorems, SequenceTheorems, TLAPS

-----------------------------------------------------------------------------
(* Sequences. *)

\* What is left of a sequence without one of its elements.
LEMMA Removed ==
  ASSUME NEW S, NEW s \in Seq(S), NEW i \in 1..Len(s)
  PROVE  /\ RemoveAt(s, i) \in Seq(S)
         /\ Len(RemoveAt(s, i)) = Len(s) - 1
         /\ \A j \in 1..(Len(s) - 1) : RemoveAt(s, i)[j] = s[IF j < i THEN j ELSE j + 1]
<1> DEFINE a == SubSeq(s, 1, i - 1)
           b == SubSeq(s, i + 1, Len(s))
<1>0. Len(s) \in Nat /\ i \in Nat /\ 1 <= i /\ i <= Len(s)
  BY LenProperties
<1>1. a \in Seq(S) /\ Len(a) = i - 1 /\ \A j \in 1..(i - 1) : a[j] = s[j]
  BY <1>0, SubSeqProperties
<1>2. b \in Seq(S) /\ Len(b) = Len(s) - i /\ \A j \in 1..(Len(s) - i) : b[j] = s[i + j]
  BY <1>0, SubSeqProperties
<1>3. RemoveAt(s, i) = a \o b
  BY DEF RemoveAt
<1> HIDE DEF a, b
<1>4. /\ a \o b \in Seq(S) /\ Len(a \o b) = Len(s) - 1
      /\ \A j \in 1..(Len(s) - 1) : (a \o b)[j] = IF j <= i - 1 THEN a[j] ELSE b[j - (i - 1)]
  <2>1. /\ a \o b \in Seq(S) /\ Len(a \o b) = Len(a) + Len(b)
        /\ \A j \in 1..Len(a) + Len(b) : (a \o b)[j] = IF j <= Len(a) THEN a[j] ELSE b[j - Len(a)]
    BY <1>1, <1>2, ConcatProperties
  <2>2. Len(a) = i - 1 /\ Len(a) + Len(b) = Len(s) - 1
    BY <1>0, <1>1, <1>2
  <2>3. QED  BY <2>1, <2>2
<1>5. ASSUME NEW j \in 1..(Len(s) - 1)  PROVE  (a \o b)[j] = s[IF j < i THEN j ELSE j + 1]
  <2>1. CASE j < i
    BY <1>0, <1>1, <1>4, <2>1
  <2>2. CASE ~(j < i)
    <3>1. j - (i - 1) \in 1..(Len(s) - i) /\ i + (j - (i - 1)) = j + 1
      BY <1>0, <2>2
    <3>2. QED  BY <1>0, <1>2, <1>4, <2>2, <3>1
  <2>3. QED  BY <2>1, <2>2
<1>6. QED  BY <1>3, <1>4, <1>5

\* An order of a finite set has each of its members, once.
LEMMA OrderIsComplete ==
  ASSUME NEW S, IsFiniteSet(S), NEW order \in SetToSeqs(S)
  PROVE  /\ order \in Seq(S)
         /\ \A i, j \in DOMAIN order : order[i] = order[j] => i = j
         /\ \A x \in S : \E i \in DOMAIN order : order[i] = x
<1> DEFINE D == 1..Cardinality(S)
<1>1. Cardinality(S) \in Nat
  BY FS_CardinalityType
<1>2. order \in [D -> S] /\ \A i, j \in D : i # j => order[i] # order[j]
  BY DEF SetToSeqs
<1>3. order \in Seq(S) /\ DOMAIN order = D
  BY <1>1, <1>2
<1>4. IsFiniteSet(D) /\ Cardinality(D) = Cardinality(S)
  BY <1>1, FS_Interval
<1>5. order \in Injection(D, S)
  BY <1>2 DEF Injection, IsInjective
<1>6. order \in Surjection(D, S)
  BY <1>4, <1>5, FS_Injection
<1>7. QED  BY <1>2, <1>3, <1>6 DEF Surjection

-----------------------------------------------------------------------------
(* What the process holds. *)

Held == [raw : File, list : Seq(Entry), current : Names \cup {None}]

\* The tellings of the contexts agree, and every context has its cluster.  That the flag is
\* nowhere but at the current context is part of it; that it is there is not.
Well(k) ==
  /\ k \in Held
  /\ k.current = k.raw.current
  /\ \A i, j \in DOMAIN k.list : k.list[i].name = k.list[j].name => i = j
  /\ \A n \in Names : n \in In(k.raw) <=> \E i \in DOMAIN k.list : k.list[i].name = n
  /\ \A i \in DOMAIN k.list : k.list[i].link = k.raw.context[k.list[i].name]
  /\ \A i \in DOMAIN k.list : k.list[i].current => k.list[i].name = k.current
  /\ Parses(k.raw)

HasFlag(k) == \E i \in DOMAIN k.list : k.list[i].current

\* What was read from a file that parses.
LEMMA ParsedIsWell ==
  ASSUME NEW f \in File, Parses(f), NEW order \in SetToSeqs(In(f))
  PROVE  /\ Well(ParseKubeconfig(f, order))
         /\ f.current \in In(f) => HasFlag(ParseKubeconfig(f, order))
         /\ ParseKubeconfig(f, order).raw = f
<1> DEFINE k == ParseKubeconfig(f, order)
           flag(i) == order[i] = f.current
           list == [i \in DOMAIN order |->
                     [name |-> order[i], link |-> f.context[order[i]], current |-> flag(i)]]
<1>1. In(f) \subseteq Names /\ IsFiniteSet(In(f))
  BY KubeconfigAssumption, FS_Subset DEF In
<1>2. /\ order \in Seq(In(f))
      /\ \A i, j \in DOMAIN order : order[i] = order[j] => i = j
      /\ \A x \in In(f) : \E i \in DOMAIN order : order[i] = x
  BY <1>1, OrderIsComplete
<1>3. k.raw = f /\ k.list = list /\ k.current = f.current /\ k = [raw |-> f, list |-> list, current |-> f.current]
  BY DEF ParseKubeconfig
<1>4. ASSUME NEW i \in DOMAIN order
      PROVE  /\ order[i] \in In(f) /\ order[i] \in Names
             /\ f.context[order[i]] \in Link /\ flag(i) \in BOOLEAN
  <2>1. order[i] \in In(f)
    BY <1>2
  <2>2. flag(i) \in BOOLEAN
    BY Zenon
  <2> HIDE DEF flag
  <2>3. QED  BY <1>1, <2>1, <2>2 DEF In, File
<1> HIDE DEF flag
<1>5. ASSUME NEW i \in DOMAIN order
      PROVE  /\ list[i] \in Entry /\ list[i].name = order[i]
             /\ list[i].link = f.context[order[i]] /\ list[i].current = flag(i)
  BY <1>4 DEF Entry
<1>6. DOMAIN list = DOMAIN order
  OBVIOUS
<1> HIDE DEF list, k
<1>7. list \in Seq(Entry)
  <2>1. DOMAIN list = 1..Len(order) /\ Len(order) \in Nat /\ list = [i \in DOMAIN list |-> list[i]]
    BY <1>2, <1>6, LenProperties DEF list
  <2>2. QED  BY <1>5, <1>6, <2>1
<1>8. k \in Held
  BY <1>3, <1>7 DEF Held, File
<1>9. \A i \in DOMAIN list : list[i].current => list[i].name = f.current
  BY <1>5, <1>6 DEF flag
<1>10. Well(k)
  BY <1>1, <1>2, <1>3, <1>4, <1>5, <1>6, <1>8, <1>9 DEF Well
<1>11. ASSUME f.current \in In(f)  PROVE  HasFlag(k)
  <2>1. PICK i \in DOMAIN order : order[i] = f.current
    BY <1>2, <1>11
  <2>2. list[i].current
    BY <1>5, <2>1 DEF flag
  <2>3. QED  BY <1>3, <1>6, <2>2 DEF HasFlag
<1>12. QED  BY <1>3, <1>10, <1>11 DEF k

\* The file with another context current: its contexts are the same.
LEMMA RawSwitched ==
  ASSUME NEW f \in File, NEW n \in Names \cup {None}
  PROVE  LET g == [f EXCEPT !.current = n] IN
           /\ g \in File /\ g.current = n /\ g.context = f.context /\ g.clusters = f.clusters /\ g.users = f.users
           /\ In(g) = In(f) /\ (Parses(f) => Parses(g))
<1> DEFINE g == [f EXCEPT !.current = n]
<1>1. g \in File /\ g.current = n /\ g.context = f.context /\ g.clusters = f.clusters /\ g.users = f.users
  BY DEF File
<1> HIDE DEF g
<1>2. In(g) = In(f)
  BY <1>1 DEF In
<1>3. Parses(f) => Parses(g)
  BY <1>1, <1>2 DEF Parses
<1>4. QED  BY <1>1, <1>2, <1>3 DEF g

\* The file with one context set, or the context taken away.
LEMMA RawChanged ==
  ASSUME NEW f \in File, NEW n \in Names, NEW c \in Link \cup {None}
  PROVE  LET g == [f EXCEPT !.context[n] = c] IN
           /\ g \in File /\ g.current = f.current /\ g.clusters = f.clusters /\ g.users = f.users
           /\ \A m \in Names : g.context[m] = IF m = n THEN c ELSE f.context[m]
           /\ \A m \in Names : m \in In(g) <=> IF m = n THEN c # None ELSE m \in In(f)
           /\ Parses(f) /\ (c # None => c.cluster \in f.clusters) => Parses(g)
<1> DEFINE g == [f EXCEPT !.context[n] = c]
<1>1. /\ g \in File /\ g.current = f.current /\ g.clusters = f.clusters /\ g.users = f.users
      /\ \A m \in Names : g.context[m] = IF m = n THEN c ELSE f.context[m]
  BY DEF File
<1> HIDE DEF g
<1>2. \A m \in Names : m \in In(g) <=> IF m = n THEN c # None ELSE m \in In(f)
  BY <1>1 DEF In
<1>3. ASSUME Parses(f), (c # None => c.cluster \in f.clusters)  PROVE  Parses(g)
  <2> SUFFICES ASSUME NEW m \in In(g)  PROVE  g.context[m].cluster \in g.clusters
    BY DEF Parses
  <2>1. m \in Names /\ g.context[m] # None
    BY DEF In
  <2>2. CASE m = n
    BY <1>1, <1>3, <2>1, <2>2
  <2>3. CASE m # n
    BY <1>1, <1>2, <1>3, <2>1, <2>3 DEF Parses
  <2>4. QED  BY <2>2, <2>3
<1>4. QED  BY <1>1, <1>2, <1>3 DEF g

LEMMA SwitchedIsWell ==
  ASSUME NEW k, Well(k), NEW n \in Names, n \in In(k.raw)
  PROVE  /\ Well(Switched(k, n)) /\ HasFlag(Switched(k, n))
         /\ Switched(k, n).raw = [k.raw EXCEPT !.current = n]
<1> DEFINE flag(i) == k.list[i].name = n
           list == [i \in DOMAIN k.list |-> [k.list[i] EXCEPT !.current = flag(i)]]
           raw == [k.raw EXCEPT !.current = n]
           u == Switched(k, n)
<1>1. k \in Held /\ k.raw \in File /\ k.list \in Seq(Entry)
  BY DEF Well, Held
<1>2. u.raw = raw /\ u.list = list /\ u.current = n /\ u = [raw |-> raw, list |-> list, current |-> n]
  <2>1. DOMAIN k = {"raw", "list", "current"}
    BY <1>1 DEF Held
  <2>2. u.raw = raw
    BY <1>1 DEF Switched, Held
  <2>3. u.list = list
    BY <1>1 DEF Switched, Held
  <2>4. u.current = n
    BY <1>1 DEF Switched, Held
  <2>5. DOMAIN u = {"raw", "list", "current"} /\ u = [x \in DOMAIN u |-> u[x]]
    BY <1>1, <2>1 DEF Switched, Held
  <2> HIDE DEF u, raw, list
  <2>6. QED  BY <2>2, <2>3, <2>4, <2>5
<1>3. /\ raw \in File /\ raw.current = n /\ raw.context = k.raw.context
      /\ In(raw) = In(k.raw) /\ Parses(raw)
  BY <1>1, RawSwitched DEF Well
<1> HIDE DEF flag, raw, u
<1>4. ASSUME NEW i \in DOMAIN k.list
      PROVE  /\ list[i] \in Entry /\ list[i].name = k.list[i].name
             /\ list[i].link = k.list[i].link /\ list[i].current = flag(i)
  <2>1. k.list[i] \in Entry
    BY <1>1
  <2>2. flag(i) \in BOOLEAN
    BY Zenon DEF flag
  <2>3. QED  BY <2>1, <2>2 DEF Entry
<1>5. DOMAIN list = DOMAIN k.list
  OBVIOUS
<1> HIDE DEF list
<1>6. list \in Seq(Entry)
  <2>1. DOMAIN list = 1..Len(k.list) /\ Len(k.list) \in Nat /\ list = [i \in DOMAIN list |-> list[i]]
    BY <1>1, <1>5, LenProperties DEF list
  <2>2. QED  BY <1>4, <1>5, <2>1
<1>7. u \in Held
  BY <1>2, <1>3, <1>6 DEF Held
<1>8. \A i \in DOMAIN list : list[i].current => list[i].name = n
  BY <1>4, <1>5 DEF flag
<1>9. Well(u)
  BY <1>2, <1>3, <1>4, <1>5, <1>7, <1>8 DEF Well
<1>10. HasFlag(u)
  <2>1. PICK i \in DOMAIN k.list : k.list[i].name = n
    BY DEF Well
  <2>2. list[i].current
    BY <1>4, <2>1 DEF flag
  <2>3. QED  BY <1>2, <1>5, <2>2 DEF HasFlag
<1>11. QED  BY <1>2, <1>9, <1>10 DEF u, raw

LEMMA AddedIsWell ==
  ASSUME NEW k, Well(k), NEW n \in Names, n \notin In(k.raw), NEW c \in Link, c.cluster \in k.raw.clusters
  PROVE  LET u == [k EXCEPT !.raw.context[n] = c,
                            !.list = Append(@, [name |-> n, link |-> c, current |-> FALSE])] IN
           /\ Well(u) /\ (HasFlag(k) => HasFlag(u))
           /\ u.raw = [k.raw EXCEPT !.context[n] = c]
<1> DEFINE e == [name |-> n, link |-> c, current |-> FALSE]
           list == Append(k.list, e)
           raw == [k.raw EXCEPT !.context[n] = c]
           u == [k EXCEPT !.raw.context[n] = c, !.list = Append(@, e)]
<1>1. k \in Held /\ k.raw \in File /\ k.list \in Seq(Entry) /\ k.current = k.raw.current
  BY DEF Well, Held
<1>2. /\ u.raw = raw /\ u.list = list /\ u.current = k.current
      /\ u = [raw |-> raw, list |-> list, current |-> k.current]
  <2>1. u.raw = raw
    BY <1>1 DEF Held
  <2>2. u.list = list
    BY <1>1 DEF Held
  <2>3. u.current = k.current
    BY <1>1 DEF Held
  <2>4. DOMAIN u = {"raw", "list", "current"} /\ u = [x \in DOMAIN u |-> u[x]]
    BY <1>1 DEF Held
  <2> HIDE DEF u, raw, list
  <2>5. QED  BY <2>1, <2>2, <2>3, <2>4
<1>3. /\ raw \in File /\ raw.current = k.raw.current
      /\ \A m \in Names : raw.context[m] = IF m = n THEN c ELSE k.raw.context[m]
      /\ \A m \in Names : m \in In(raw) <=> m = n \/ m \in In(k.raw)
      /\ Parses(raw)
  <2>1. c # None /\ c \in Link \cup {None} /\ Parses(k.raw)
    BY KubeconfigAssumption DEF Well
  <2>2. /\ raw \in File /\ raw.current = k.raw.current
        /\ \A m \in Names : raw.context[m] = IF m = n THEN c ELSE k.raw.context[m]
        /\ \A m \in Names : m \in In(raw) <=> IF m = n THEN c # None ELSE m \in In(k.raw)
        /\ Parses(raw)
    <3>1. k.raw \in File /\ Parses(k.raw) /\ (c # None => c.cluster \in k.raw.clusters)
      BY <1>1, <2>1
    <3>2. QED  BY <2>1, <3>1, RawChanged
  <2> HIDE DEF raw
  <2>3. QED  BY <2>1, <2>2
<1>4. e \in Entry /\ e.name = n /\ e.link = c /\ ~e.current
  BY DEF Entry
<1> HIDE DEF e, raw, u
<1>5. /\ list \in Seq(Entry) /\ Len(list) = Len(k.list) + 1 /\ Len(k.list) \in Nat
      /\ DOMAIN k.list = 1..Len(k.list) /\ DOMAIN list = 1..(Len(k.list) + 1)
      /\ list[Len(k.list) + 1] = e /\ \A i \in 1..Len(k.list) : list[i] = k.list[i]
  BY <1>1, <1>4, LenProperties, AppendProperties
<1> HIDE DEF list
<1>6. \A i \in DOMAIN list : (i \in DOMAIN k.list /\ list[i] = k.list[i]) \/ (i = Len(k.list) + 1 /\ list[i] = e)
  <2> SUFFICES ASSUME NEW i \in DOMAIN list
               PROVE  (i \in DOMAIN k.list /\ list[i] = k.list[i]) \/ (i = Len(k.list) + 1 /\ list[i] = e)
    OBVIOUS
  <2>1. i \in 1..Len(k.list) \/ i = Len(k.list) + 1
    BY <1>5
  <2>2. CASE i \in 1..Len(k.list)
    BY <1>5, <2>2
  <2>3. CASE i = Len(k.list) + 1
    BY <1>5, <2>3
  <2>4. QED  BY <2>1, <2>2, <2>3
<1>7. \A i \in DOMAIN k.list : k.list[i].name \in Names /\ k.list[i].name # n
  <2>1. \A i \in DOMAIN k.list : k.list[i] \in Entry
    BY <1>1
  <2>2. \A i \in DOMAIN k.list : k.list[i].name \in Names
    BY <2>1 DEF Entry
  <2>3. QED  BY <2>2 DEF Well
<1>8. u \in Held
  BY <1>1, <1>2, <1>3, <1>5 DEF Held
<1>9. \A i, j \in DOMAIN list : list[i].name = list[j].name => i = j
  BY <1>4, <1>6, <1>7 DEF Well
<1>10. \A m \in Names : m \in In(raw) <=> \E i \in DOMAIN list : list[i].name = m
  BY <1>3, <1>4, <1>5, <1>6, <1>7 DEF Well
<1>11. \A i \in DOMAIN list : list[i].link = raw.context[list[i].name]
  BY <1>3, <1>4, <1>6, <1>7 DEF Well
<1>12. \A i \in DOMAIN list : list[i].current => list[i].name = k.current
  BY <1>4, <1>6 DEF Well
<1>13. Well(u)
  BY <1>1, <1>2, <1>3, <1>8, <1>9, <1>10, <1>11, <1>12 DEF Well
<1>14. HasFlag(k) => HasFlag(u)
  BY <1>2, <1>5 DEF HasFlag
<1>15. QED  BY <1>2, <1>13, <1>14 DEF u, e, raw

\* Well, but for where the flag is.
Sound(k) ==
  /\ k \in Held
  /\ k.current = k.raw.current
  /\ \A i, j \in DOMAIN k.list : k.list[i].name = k.list[j].name => i = j
  /\ \A n \in Names : n \in In(k.raw) <=> \E i \in DOMAIN k.list : k.list[i].name = n
  /\ \A i \in DOMAIN k.list : k.list[i].link = k.raw.context[k.list[i].name]
  /\ Parses(k.raw)

\* What is left without one context.
LEMMA WithoutIsSound ==
  ASSUME NEW k, Well(k), NEW n \in Names, n \in In(k.raw)
  PROVE  LET u == Without(k, n) IN
           /\ Sound(u) /\ u.current = k.current
           /\ u.raw = [k.raw EXCEPT !.context[n] = None]
           /\ \A i \in DOMAIN u.list :
                u.list[i].name # n /\ (u.list[i].current => u.list[i].name = k.current)
           /\ HasFlag(k) /\ k.current # n => HasFlag(u)
<1> DEFINE at == CHOOSE i \in DOMAIN k.list : k.list[i].name = n
           list == RemoveAt(k.list, at)
           raw == [k.raw EXCEPT !.context[n] = None]
           u == Without(k, n)
           len == Len(k.list)
<1>1. k \in Held /\ k.raw \in File /\ k.list \in Seq(Entry) /\ k.current = k.raw.current
  BY DEF Well, Held
<1>2. u.raw = raw /\ u.list = list /\ u.current = k.current /\ u = [raw |-> raw, list |-> list, current |-> k.current]
  <2>1. u.raw = raw
    BY <1>1 DEF Without, Held
  <2>2. u.list = list
    BY <1>1 DEF Without, Held
  <2>3. u.current = k.current
    BY <1>1 DEF Without, Held
  <2>4. DOMAIN u = {"raw", "list", "current"} /\ u = [x \in DOMAIN u |-> u[x]]
    <3>1. u = [k EXCEPT !.raw.context[n] = None, !.list = list]
      BY <1>1 DEF Without, Held
    <3> HIDE DEF list, u
    <3>2. QED  BY <1>1, <3>1 DEF Held
  <2> HIDE DEF u, raw, list
  <2>5. QED  BY <2>1, <2>2, <2>3, <2>4
<1>3. /\ raw \in File /\ raw.current = k.raw.current
      /\ \A m \in Names : raw.context[m] = IF m = n THEN None ELSE k.raw.context[m]
      /\ \A m \in Names : m \in In(raw) <=> m # n /\ m \in In(k.raw)
      /\ Parses(raw)
  <2>1. /\ raw \in File /\ raw.current = k.raw.current
        /\ \A m \in Names : raw.context[m] = IF m = n THEN None ELSE k.raw.context[m]
        /\ \A m \in Names : m \in In(raw) <=> IF m = n THEN None # None ELSE m \in In(k.raw)
        /\ Parses(raw)
    <3>1. k.raw \in File /\ Parses(k.raw) /\ (None # None => None.cluster \in k.raw.clusters)
      BY <1>1 DEF Well
    <3>2. QED  BY <3>1, RawChanged
  <2> HIDE DEF raw
  <2>2. QED  BY <2>1
<1>4. len \in Nat /\ DOMAIN k.list = 1..len /\ at \in 1..len /\ k.list[at].name = n
  <2>1. len \in Nat /\ DOMAIN k.list = 1..len
    BY <1>1, LenProperties
  <2>2. \E i \in DOMAIN k.list : k.list[i].name = n
    BY DEF Well
  <2>3. at \in DOMAIN k.list /\ k.list[at].name = n
    BY <2>2
  <2>4. QED  BY <2>1, <2>3
<1> HIDE DEF at, raw, u
<1>5. /\ list \in Seq(Entry) /\ DOMAIN list = 1..(len - 1)
      /\ \A j \in 1..(len - 1) : list[j] = k.list[IF j < at THEN j ELSE j + 1]
  <2>1. list \in Seq(Entry) /\ Len(list) = len - 1
        /\ \A j \in 1..(len - 1) : list[j] = k.list[IF j < at THEN j ELSE j + 1]
    BY <1>1, <1>4, Removed
  <2> HIDE DEF list
  <2>2. QED  BY <2>1, LenProperties
<1> HIDE DEF list, len
<1>6. \A j \in 1..(len - 1) : (IF j < at THEN j ELSE j + 1) \in (1..len) \ {at}
  BY <1>4
<1>7. ASSUME NEW i \in (1..len) \ {at}  PROVE  \E j \in 1..(len - 1) : list[j] = k.list[i]
  <2>1. CASE i < at
    <3>1. i \in 1..(len - 1)
      BY <1>4, <2>1
    <3>2. QED  BY <1>5, <2>1, <3>1
  <2>2. CASE ~(i < at)
    <3>1. i - 1 \in 1..(len - 1) /\ ~(i - 1 < at) /\ (i - 1) + 1 = i
      BY <1>4, <2>2
    <3>2. list[i - 1] = k.list[i]
      BY <1>5, <3>1
    <3>3. QED  BY <3>1, <3>2
  <2>3. QED  BY <2>1, <2>2
<1>8. \A i \in (1..len) \ {at} : k.list[i].name # n
  BY <1>4 DEF Well
<1>9. \A j \in DOMAIN list : \E i \in (1..len) \ {at} : list[j] = k.list[i]
  BY <1>5, <1>6
<1>10. \A i, j \in DOMAIN list : list[i].name = list[j].name => i = j
  <2> SUFFICES ASSUME NEW i \in 1..(len - 1), NEW j \in 1..(len - 1), list[i].name = list[j].name
               PROVE  i = j
    BY <1>5
  <2> DEFINE a == IF i < at THEN i ELSE i + 1
             b == IF j < at THEN j ELSE j + 1
  <2>1. a \in 1..len /\ b \in 1..len /\ list[i] = k.list[a] /\ list[j] = k.list[b]
    BY <1>5, <1>6
  <2>2. a = b => i = j
    BY <1>4
  <2> HIDE DEF a, b
  <2>3. a = b
    BY <1>4, <2>1 DEF Well
  <2>4. QED  BY <2>2, <2>3
<1>11. \A i \in 1..len : k.list[i].name \in Names
  <2>1. \A i \in DOMAIN k.list : k.list[i] \in Entry
    BY <1>1
  <2>2. QED  BY <1>4, <2>1 DEF Entry
<1>12. \A m \in Names : m \in In(raw) <=> \E j \in DOMAIN list : list[j].name = m
  <2>1. ASSUME NEW m \in In(raw), m \in Names  PROVE  \E j \in DOMAIN list : list[j].name = m
    <3>1. m # n /\ \E i \in 1..len : k.list[i].name = m
      BY <1>3, <1>4, <2>1 DEF Well
    <3>2. QED  BY <1>4, <1>5, <1>7, <3>1
  <2>2. ASSUME NEW j \in DOMAIN list  PROVE  list[j].name \in In(raw)
    BY <1>3, <1>4, <1>8, <1>9, <1>11 DEF Well
  <2>3. QED  BY <2>1, <2>2
<1>13. \A j \in DOMAIN list : list[j].link = raw.context[list[j].name]
  BY <1>3, <1>4, <1>8, <1>9, <1>11 DEF Well
<1>14. u \in Held
  BY <1>1, <1>2, <1>3, <1>5 DEF Held
<1>15. Sound(u)
  BY <1>1, <1>2, <1>3, <1>10, <1>12, <1>13, <1>14 DEF Sound
<1>16. \A j \in DOMAIN list : list[j].name # n /\ (list[j].current => list[j].name = k.current)
  BY <1>4, <1>8, <1>9 DEF Well
<1>17. ASSUME HasFlag(k), k.current # n  PROVE  HasFlag(u)
  <2>1. PICK i \in 1..len : k.list[i].current /\ k.list[i].name = k.current
    BY <1>4, <1>17 DEF HasFlag, Well
  <2>2. i # at
    BY <1>4, <1>17, <2>1
  <2>3. QED  BY <1>2, <1>5, <1>7, <2>1, <2>2 DEF HasFlag
<1>18. QED  BY <1>2, <1>15, <1>16, <1>17 DEF u, raw

\* What is left, with another context made current if the current one went.
LEMMA DeletedIsWell ==
  ASSUME NEW k, Well(k), NEW n \in Names, n \in In(k.raw)
  PROVE  LET u == Deleted(k, n) IN
           /\ Well(u)
           /\ k.current = n /\ u.list # <<>> => HasFlag(u)
           /\ k.current # n => /\ u.raw = [k.raw EXCEPT !.context[n] = None]
                               /\ HasFlag(k) => HasFlag(u)
<1> DEFINE w == Without(k, n)
           u == Deleted(k, n)
<1>1. /\ Sound(w) /\ w.current = k.current
      /\ w.raw = [k.raw EXCEPT !.context[n] = None]
      /\ \A i \in DOMAIN w.list :
           w.list[i].name # n /\ (w.list[i].current => w.list[i].name = k.current)
      /\ HasFlag(k) /\ k.current # n => HasFlag(w)
  BY WithoutIsSound
<1>2. u = IF k.current = n THEN Recurrent(w) ELSE w
  BY DEF Deleted
<1> HIDE DEF w, u
<1>3. CASE k.current # n
  <2>1. Well(w)
    BY <1>1 DEF Well, Sound
  <2>2. u = w
    BY <1>2, <1>3
  <2>3. QED  BY <1>1, <1>3, <2>1, <2>2 DEF u
<1>4. CASE k.current = n /\ w.list = <<>>
  <2> DEFINE raw == [w.raw EXCEPT !.current = None]
  <2>1. w \in Held /\ w.raw \in File /\ u = [w EXCEPT !.raw.current = None, !.current = None]
    BY <1>1, <1>2, <1>4 DEF Recurrent, Sound, Held
  <2>2. u.raw = raw
    BY <2>1 DEF Held
  <2>3. u.list = w.list /\ u.current = None
    BY <2>1 DEF Held
  <2>4. u \in Held
    BY <2>1 DEF Held, File
  <2>5. raw.current = None /\ raw.context = w.raw.context /\ In(raw) = In(w.raw) /\ Parses(raw)
    <3>1. w.raw \in File /\ None \in Names \cup {None} /\ Parses(w.raw)
      BY <1>1, <2>1 DEF Sound
    <3>2. QED  BY <3>1, RawSwitched
  <2> HIDE DEF raw
  <2>6. DOMAIN u.list = {}
    BY <1>4, <2>3
  <2>7. \A m \in Names : m \in In(u.raw) <=> \E i \in DOMAIN u.list : u.list[i].name = m
    BY <1>1, <2>2, <2>3, <2>5 DEF Sound
  <2>8. Well(u)
    BY <2>2, <2>3, <2>4, <2>5, <2>6, <2>7 DEF Well
  <2>9. QED  BY <1>4, <2>3, <2>8 DEF u
<1>5. CASE k.current = n /\ w.list # <<>>
  <2> DEFINE c == w.list[1].name
             raw == [w.raw EXCEPT !.current = c]
             list == [w.list EXCEPT ![1].current = TRUE]
  <2>1. w \in Held /\ w.raw \in File /\ w.list \in Seq(Entry)
    BY <1>1 DEF Sound, Held
  <2>2. /\ Len(w.list) \in Nat /\ DOMAIN w.list = 1..Len(w.list) /\ 1 \in DOMAIN w.list
    BY <1>5, <2>1, LenProperties, EmptySeq
  <2>3. \A i \in DOMAIN w.list : w.list[i] \in Entry
    BY <2>1
  <2>4. c \in Names
    BY <2>2, <2>3 DEF Entry
  <2>5. u = [w EXCEPT !.raw.current = c, !.current = c, !.list[1].current = TRUE]
    BY <1>2, <1>5 DEF Recurrent
  <2>6. /\ u.raw = raw /\ u.list = list /\ u.current = c
        /\ u = [raw |-> raw, list |-> list, current |-> c]
    <3> HIDE DEF c
    <3>1. u.raw = raw
      BY <2>1, <2>5 DEF Held
    <3>2. u.list = list
      BY <2>1, <2>5 DEF Held
    <3>3. u.current = c
      BY <2>1, <2>5 DEF Held
    <3>4. DOMAIN u = {"raw", "list", "current"} /\ u = [x \in DOMAIN u |-> u[x]]
      BY <2>1, <2>5 DEF Held
    <3> HIDE DEF raw, list
    <3>5. QED  BY <3>1, <3>2, <3>3, <3>4
  <2>7. /\ raw \in File /\ raw.current = c /\ raw.context = w.raw.context
        /\ In(raw) = In(w.raw) /\ Parses(raw)
    <3>1. w.raw \in File /\ c \in Names \cup {None} /\ Parses(w.raw)
      BY <1>1, <2>1, <2>4 DEF Sound
    <3> HIDE DEF c
    <3>2. QED  BY <3>1, RawSwitched
  <2>8. /\ DOMAIN list = DOMAIN w.list
        /\ \A i \in DOMAIN w.list :
             /\ list[i] \in Entry /\ list[i].name = w.list[i].name
             /\ list[i].link = w.list[i].link
        /\ list[1].current /\ \A i \in DOMAIN w.list : i # 1 => list[i] = w.list[i]
    <3>1. list = [i \in DOMAIN w.list |-> IF i = 1 THEN [w.list[1] EXCEPT !.current = TRUE] ELSE w.list[i]]
      BY <2>1, <2>2
    <3> DEFINE e == [w.list[1] EXCEPT !.current = TRUE]
    <3>2. e \in Entry /\ e.name = w.list[1].name /\ e.link = w.list[1].link /\ e.current
      BY <2>2, <2>3 DEF Entry
    <3> HIDE DEF e, list
    <3>3. QED  BY <2>2, <2>3, <3>1, <3>2 DEF e
  <2> HIDE DEF raw, list
  <2>9. list \in Seq(Entry)
    <3>1. list = [i \in DOMAIN list |-> list[i]]
      BY <2>1 DEF list
    <3>2. QED  BY <2>2, <2>8, <3>1
  <2>10. u \in Held
    BY <2>4, <2>6, <2>7, <2>9 DEF Held
  <2>11. \A i \in DOMAIN list : list[i].current => list[i].name = c
    <3> SUFFICES ASSUME NEW i \in DOMAIN w.list, list[i].current  PROVE  i = 1
      BY <2>8
    <3>1. i # 1 => w.list[i].current /\ w.list[i].name # n
      BY <1>1, <2>8
    <3>2. QED  BY <1>1, <1>5, <3>1
  <2>12. Well(u)
    BY <1>1, <2>6, <2>7, <2>8, <2>10, <2>11 DEF Well, Sound
  <2>13. HasFlag(u)
    BY <2>2, <2>6, <2>8 DEF HasFlag
  <2>14. QED  BY <1>5, <2>12, <2>13 DEF u
<1>6. QED  BY <1>3, <1>4, <1>5

-----------------------------------------------------------------------------
(* The inductive invariant. *)

StateTypeOK ==
  /\ disk \in File
  /\ context \in Names \cup {None}
  /\ unsaved \in BOOLEAN /\ edited \in BOOLEAN /\ unset \in BOOLEAN
  /\ persistent \in Names \cup {None}

Holds == mem # None => Well(mem) /\ (~unset => HasFlag(mem))

\* A choice made for good is remembered only while the file is known to hold it.
ChoiceIsSaved == persistent # None => ~unsaved /\ ~edited

Inv == StateTypeOK /\ Holds /\ ChoiceIsSaved /\ ComesBack /\ AheadOnlyAfterFailure

\* The loader's list and Raw have the same names.
LEMMA ListedIsIn ==
  ASSUME Well(mem), NEW n \in Names
  PROVE  n \in Listed <=> n \in In(mem.raw)
BY DEF Well, Listed

\* A torn file is a file.
LEMMA TornIsFile ==
  ASSUME NEW f \in File, NEW g \in Torn(f)
  PROVE  g \in File
<1> DEFINE none == [context |-> [n \in Names |-> None], clusters |-> {}, users |-> {}, current |-> None]
           contexts == [none EXCEPT !.clusters = f.clusters]
           rest == [f EXCEPT !.users = {}]
           kept(part) == [n \in Names |-> IF n \in part THEN f.context[n] ELSE None]
<1>1. none \in File /\ contexts \in File /\ rest \in File
  BY DEF File
<1>2. \A part \in SUBSET In(f) : kept(part) \in [Names -> Link \cup {None}]
  BY DEF File, In
<1>3. CASE \E part \in SUBSET f.clusters : g = [none EXCEPT !.clusters = part]
  BY <1>1, <1>3 DEF File
<1>4. CASE \E part \in SUBSET In(f) : g = [contexts EXCEPT !.context = kept(part)]
  <2> HIDE DEF kept, none, contexts
  <2>1. QED  BY <1>1, <1>2, <1>4 DEF File
<1>5. CASE \E part \in SUBSET f.users : g = [rest EXCEPT !.users = part]
  <2> HIDE DEF rest
  <2>1. QED  BY <1>1, <1>5 DEF File
<1>6. QED  BY <1>3, <1>4, <1>5 DEF Torn

\* Whatever the change, a save of sound contents keeps the invariant, be it whole, failed or
\* broken off.
LEMMA SaveKeeps ==
  ASSUME Inv, NEW k, Well(k), NEW lasts \in Names \cup {None}, NEW ctx \in Names \cup {None},
         Save(k, lasts, ctx), lasts # None => k.raw.current = lasts /\ Usable(k.raw, lasts),
         unset' \in BOOLEAN, ~unset' => HasFlag(k)
  PROVE  Inv'
<1>1. k.raw \in File /\ Parses(k.raw) /\ disk \in File
  BY DEF Well, Held, Inv, StateTypeOK
<1>2. CASE mem' = k /\ context' = ctx /\ Saved(k.raw, lasts)
  <2>1. disk' = k.raw /\ unsaved' = FALSE /\ edited' = FALSE /\ persistent' = lasts
    BY <1>2 DEF Saved
  <2>2. StateTypeOK'
    BY <1>1, <1>2, <2>1 DEF StateTypeOK
  <2>3. Holds' /\ ChoiceIsSaved' /\ AheadOnlyAfterFailure'
    BY <1>2, <2>1 DEF Holds, ChoiceIsSaved, AheadOnlyAfterFailure
  <2>4. ComesBack'
    BY <1>1, <2>1 DEF ComesBack, Parses, Usable, In
  <2>5. QED  BY <2>2, <2>3, <2>4 DEF Inv
<1>3. CASE mem' = k /\ context' = ctx /\ SaveFails(k.raw)
  <2>1. /\ unsaved' = TRUE /\ persistent' = None
        /\ \/ UNCHANGED <<disk, edited>>
           \/ disk' \in Torn(k.raw) /\ edited' = TRUE
    BY <1>3 DEF SaveFails
  <2>2. disk' \in File /\ edited' \in BOOLEAN
    BY <1>1, <2>1, TornIsFile DEF Inv, StateTypeOK
  <2>3. StateTypeOK'
    BY <1>3, <2>1, <2>2 DEF StateTypeOK
  <2>4. Holds' /\ ChoiceIsSaved' /\ AheadOnlyAfterFailure'
    BY <1>3, <2>1 DEF Holds, ChoiceIsSaved, AheadOnlyAfterFailure
  <2>5. ComesBack'
    BY <2>1 DEF Inv, ComesBack, Parses, In
  <2>6. QED  BY <2>3, <2>4, <2>5 DEF Inv
<1>4. CASE mem' = None /\ context' = None /\ SaveInterrupted(k.raw)
  <2>1. disk' \in Torn(k.raw) /\ edited' = TRUE /\ persistent' = None /\ unsaved' = unsaved
    BY <1>4 DEF SaveInterrupted
  <2>2. StateTypeOK'
    BY <1>1, <1>4, <2>1, TornIsFile DEF Inv, StateTypeOK
  <2>3. Holds' /\ ChoiceIsSaved' /\ AheadOnlyAfterFailure' /\ ComesBack'
    BY <1>4, <2>1 DEF Holds, ChoiceIsSaved, AheadOnlyAfterFailure, ComesBack
  <2>4. QED  BY <2>2, <2>3 DEF Inv
<1>5. QED  BY <1>2, <1>3, <1>4 DEF Save

LEMMA InitInv == Init => Inv
<1> SUFFICES ASSUME Init  PROVE  Inv
  OBVIOUS
<1>1. StateTypeOK /\ Holds /\ ChoiceIsSaved /\ AheadOnlyAfterFailure
  BY DEF Init, StateTypeOK, Holds, ChoiceIsSaved, AheadOnlyAfterFailure
<1>2. ASSUME NEW n \in In(disk)  PROVE  disk.context[n].cluster \in disk.clusters
  BY <1>2, KubeconfigAssumption DEF Init, File, In
<1>3. ComesBack
  BY <1>2 DEF Init, ComesBack, Parses
<1>4. QED  BY <1>1, <1>3 DEF Inv

LEMMA NewClientKeeps ==
  ASSUME Inv, NEW flag \in Names \cup {None}, NewClient(flag)
  PROVE  Inv'
<1>1. disk \in File /\ Parses(disk) /\ Usable(disk, IF flag # None THEN flag ELSE disk.current)
  BY DEF Inv, StateTypeOK, NewClient
<1>2. PICK order \in SetToSeqs(In(disk)) : mem' = ParseKubeconfig(disk, order)
  BY DEF NewClient
<1>3. Well(mem') /\ mem'.raw = disk /\ (disk.current \in In(disk) => HasFlag(mem'))
  BY <1>1, <1>2, ParsedIsWell
<1>4. /\ unsaved' = FALSE /\ edited' = FALSE /\ unset' = (disk.current \notin In(disk))
      /\ disk' = disk /\ persistent' = persistent
      /\ context' = IF flag # None THEN flag ELSE disk.current
  BY DEF NewClient
<1>5. unset' \in BOOLEAN
  BY <1>4, Zenon
<1>6. StateTypeOK'
  BY <1>1, <1>4, <1>5 DEF Inv, StateTypeOK, Usable, In
<1>7. Holds'
  BY <1>3, <1>4 DEF Holds
<1>8. ChoiceIsSaved'
  BY <1>4 DEF ChoiceIsSaved
<1>9. ComesBack'
  BY <1>1, <1>4 DEF Inv, ComesBack, Parses, Usable, In
<1>10. AheadOnlyAfterFailure'
  BY <1>3, <1>4 DEF AheadOnlyAfterFailure
<1>11. QED  BY <1>6, <1>7, <1>8, <1>9, <1>10 DEF Inv

\* Another context made current, for good or only in the file.
LEMMA SwitchContextKeeps ==
  ASSUME Inv, NEW n \in Names, NEW lasts \in {n, None}, NEW ctx \in Names \cup {None},
         SwitchContext(n, lasts, ctx), lasts = n => Usable(mem.raw, n)
  PROVE  Inv'
<1>1. Well(mem) /\ n \in In(mem.raw) /\ mem.raw \in File
  BY ListedIsIn DEF SwitchContext, GetContextByName, Inv, Holds, Well, Held
<1> DEFINE k == Switched(mem, n)
<1>2. Well(k) /\ HasFlag(k) /\ k.raw = [mem.raw EXCEPT !.current = n]
  BY <1>1, SwitchedIsWell
<1>3. /\ k.raw.current = n /\ In(k.raw) = In(mem.raw) /\ k.raw.context = mem.raw.context
      /\ k.raw.clusters = mem.raw.clusters /\ k.raw.users = mem.raw.users
  BY <1>1, <1>2, RawSwitched
<1>4. Save(k, lasts, ctx) /\ unset' = FALSE
  BY DEF SwitchContext
<1> HIDE DEF k
<1>5. lasts # None => k.raw.current = lasts /\ Usable(k.raw, lasts)
  BY <1>3 DEF Usable
<1>6. QED  BY <1>2, <1>4, <1>5, SaveKeeps

\* A choice made for good is on disk, and so in memory.
LEMMA ChoiceIsInMemory ==
  ASSUME Inv, mem # None, persistent # None
  PROVE  /\ persistent \in Names /\ disk = mem.raw
         /\ mem.raw.current = persistent /\ Usable(mem.raw, persistent)
BY DEF Inv, StateTypeOK, ChoiceIsSaved, ComesBack, AheadOnlyAfterFailure

\* What is not touched can still be used.
LEMMA UsableElsewhere ==
  ASSUME NEW f \in File, NEW n \in Names, NEW c \in Link \cup {None}, NEW m \in Names, m # n, Usable(f, m)
  PROVE  Usable([f EXCEPT !.context[n] = c], m)
<1> DEFINE g == [f EXCEPT !.context[n] = c]
<1>1. /\ g.clusters = f.clusters /\ g.users = f.users
      /\ \A l \in Names : g.context[l] = IF l = n THEN c ELSE f.context[l]
      /\ \A l \in Names : l \in In(g) <=> IF l = n THEN c # None ELSE l \in In(f)
  BY RawChanged
<1> HIDE DEF g
<1>2. Usable(g, m)
  BY <1>1 DEF Usable
<1>3. QED  BY <1>2 DEF g

LEMMA AddContextKeeps ==
  ASSUME Inv, NEW n \in Names, NEW c \in Link, AddContext(n, c)
  PROVE  Inv'
<1>1. /\ mem # None /\ n \notin Listed /\ c.cluster \in mem.raw.clusters
      /\ unset' = unset
  BY DEF AddContext, CanAdd
<1>2. Well(mem) /\ n \notin In(mem.raw) /\ (~unset => HasFlag(mem)) /\ mem.raw \in File
  BY <1>1, ListedIsIn DEF Inv, Holds, Well, Held
<1> DEFINE k == [mem EXCEPT !.raw.context[n] = c,
                            !.list = Append(@, [name |-> n, link |-> c, current |-> FALSE])]
<1>3. Well(k) /\ (HasFlag(mem) => HasFlag(k)) /\ k.raw = [mem.raw EXCEPT !.context[n] = c]
  BY <1>1, <1>2, AddedIsWell
<1>4. Save(k, persistent, context)
  BY DEF AddContext
<1> HIDE DEF k
<1>5. ASSUME persistent # None  PROVE  k.raw.current = persistent /\ Usable(k.raw, persistent)
  <2>1. persistent \in Names /\ mem.raw.current = persistent /\ Usable(mem.raw, persistent)
    BY <1>1, <1>5, ChoiceIsInMemory
  <2>2. persistent # n
    BY <1>2, <2>1 DEF Usable
  <2>3. Usable(k.raw, persistent)
    BY <1>2, <1>3, <2>1, <2>2, UsableElsewhere
  <2>4. k.raw.current = mem.raw.current
    BY <1>2, <1>3, RawChanged
  <2>5. QED  BY <2>1, <2>3, <2>4
<1>6. /\ unset' \in BOOLEAN /\ context \in Names \cup {None} /\ persistent \in Names \cup {None}
      /\ ~unset' => HasFlag(k)
  BY <1>1, <1>2, <1>3 DEF Inv, StateTypeOK
<1>7. QED  BY <1>3, <1>4, <1>5, <1>6, SaveKeeps

LEMMA DeleteContextKeeps ==
  ASSUME Inv, NEW n \in Names, DeleteContext(n)
  PROVE  Inv'
<1>1. mem # None /\ Well(mem) /\ n \in In(mem.raw) /\ (~unset => HasFlag(mem)) /\ mem.raw \in File
  BY ListedIsIn DEF DeleteContext, GetContextByName, Inv, Holds, Well, Held
<1> DEFINE k == Deleted(mem, n)
           lasts == IF persistent = n THEN None ELSE persistent
<1>2. /\ Well(k)
      /\ mem.current = n /\ k.list # <<>> => HasFlag(k)
      /\ mem.current # n => /\ k.raw = [mem.raw EXCEPT !.context[n] = None]
                            /\ HasFlag(mem) => HasFlag(k)
  BY <1>1, DeletedIsWell
<1>3. /\ Save(k, lasts, context)
      /\ unset' = (k.list = <<>> \/ (unset /\ mem.current # n))
  BY DEF DeleteContext
<1>4. lasts \in Names \cup {None} /\ context \in Names \cup {None}
  BY DEF Inv, StateTypeOK
<1>5. ASSUME lasts # None  PROVE  k.raw.current = lasts /\ Usable(k.raw, lasts)
  <2>1. lasts = persistent /\ persistent # n /\ lasts \in Names
    BY <1>4, <1>5
  <2> HIDE DEF k, lasts
  <2>2. mem.raw.current = lasts /\ Usable(mem.raw, lasts)
    BY <1>1, <1>5, <2>1, ChoiceIsInMemory
  <2>3. mem.current # n
    BY <1>1, <2>1, <2>2 DEF Well
  <2>4. None \in Link \cup {None} /\ k.raw = [mem.raw EXCEPT !.context[n] = None]
    BY <1>2, <2>3
  <2>5. k.raw.current = mem.raw.current
    BY <1>1, <2>4, RawChanged
  <2>6. Usable(k.raw, lasts)
    BY <1>1, <2>1, <2>2, <2>4, UsableElsewhere
  <2>7. QED  BY <2>2, <2>5, <2>6
<1> HIDE DEF k, lasts
<1>6. unset' \in BOOLEAN
  BY <1>3, Zenon
<1>7. ~unset' => HasFlag(k)
  BY <1>1, <1>2, <1>3
<1>8. QED  BY <1>2, <1>3, <1>4, <1>5, <1>6, <1>7, SaveKeeps

\* What kubectl writes is a file.
LEMMA KubectlKeeps ==
  ASSUME Inv, Kubectl
  PROVE  Inv'
<1>1. disk \in File
  BY DEF Inv, StateTypeOK
<1>2. /\ edited' = TRUE /\ persistent' = None
      /\ mem' = mem /\ context' = context /\ unsaved' = unsaved /\ unset' = unset
  BY DEF Kubectl
<1>3. disk' \in File
  <2>1. ASSUME NEW n \in Names, disk' = [disk EXCEPT !.current = n]  PROVE  disk' \in File
    BY <1>1, <2>1, RawSwitched
  <2>2. ASSUME NEW n \in Names, NEW c \in Link \cup {None}, disk' = [disk EXCEPT !.context[n] = c]
        PROVE  disk' \in File
    BY <1>1, <2>2, RawChanged
  <2>3. ASSUME NEW c \in Clusters, NEW set \in BOOLEAN,
               disk' = [disk EXCEPT !.clusters = IF set THEN @ \cup {c} ELSE @ \ {c}]
        PROVE  disk' \in File
    BY <1>1, <2>3 DEF File
  <2>4. ASSUME NEW u \in Users, NEW set \in BOOLEAN,
               disk' = [disk EXCEPT !.users = IF set THEN @ \cup {u} ELSE @ \ {u}]
        PROVE  disk' \in File
    BY <1>1, <2>4 DEF File
  <2>5. QED  BY <2>1, <2>2, <2>3, <2>4 DEF Kubectl
<1>4. StateTypeOK'
  BY <1>2, <1>3 DEF Inv, StateTypeOK
<1>5. Holds'
  BY <1>2 DEF Inv, Holds
<1>6. ChoiceIsSaved' /\ ComesBack' /\ AheadOnlyAfterFailure'
  BY <1>2 DEF ChoiceIsSaved, ComesBack, AheadOnlyAfterFailure
<1>7. QED  BY <1>4, <1>5, <1>6 DEF Inv

LEMMA NextInv == Inv /\ [Next]_vars => Inv'
<1> SUFFICES ASSUME Inv, [Next]_vars  PROVE  Inv'
  OBVIOUS
<1>1. CASE Dies
  <2>1. StateTypeOK'
    BY <1>1 DEF Dies, Inv, StateTypeOK
  <2>2. Holds' /\ ChoiceIsSaved' /\ AheadOnlyAfterFailure'
    BY <1>1 DEF Dies, Inv, Holds, ChoiceIsSaved, AheadOnlyAfterFailure
  <2>3. ComesBack'
    BY <1>1 DEF Dies, Inv, ComesBack, Parses, Usable, In
  <2>4. QED  BY <2>1, <2>2, <2>3 DEF Inv
<1>2. CASE Kubectl
  BY <1>2, KubectlKeeps
<1>3. ASSUME NEW flag \in Names \cup {None}, NewClient(flag)  PROVE  Inv'
  BY <1>3, NewClientKeeps
<1>4. ASSUME NEW n \in Names, UseContext(n)  PROVE  Inv'
  <2>1. StateTypeOK'
    BY <1>4 DEF UseContext, Inv, StateTypeOK
  <2>2. Holds' /\ ChoiceIsSaved' /\ AheadOnlyAfterFailure'
    BY <1>4 DEF UseContext, Inv, Holds, ChoiceIsSaved, AheadOnlyAfterFailure
  <2>3. ComesBack'
    BY <1>4 DEF UseContext, Inv, ComesBack, Parses, Usable, In
  <2>4. QED  BY <2>1, <2>2, <2>3 DEF Inv
<1>5. ASSUME NEW n \in Names, SwitchContextPersistent(n)  PROVE  Inv'
  <2> DEFINE lasts == IF edited \/ unsaved THEN None ELSE n
  <2>1. mem # None /\ Usable(disk, n) /\ SwitchContext(n, lasts, n)
    BY <1>5 DEF SwitchContextPersistent, CanUse, GetContextByName
  <2>2. (lasts = n /\ ~edited /\ ~unsaved) \/ lasts = None
    OBVIOUS
  <2>3. ~edited /\ ~unsaved => Usable(mem.raw, n)
    BY <2>1 DEF Inv, AheadOnlyAfterFailure
  <2>4. n # None
    BY KubeconfigAssumption
  <2> HIDE DEF lasts
  <2>5. QED  BY <2>1, <2>2, <2>3, <2>4, SwitchContextKeeps
<1>6. ASSUME NEW n \in Names, SwitchContext(n, None, context)  PROVE  Inv'
  <2>1. context \in Names \cup {None} /\ n # None
    BY KubeconfigAssumption DEF Inv, StateTypeOK
  <2>2. QED  BY <1>6, <2>1, SwitchContextKeeps
<1>7. ASSUME NEW n \in Names, DeleteContext(n)  PROVE  Inv'
  BY <1>7, DeleteContextKeeps
<1>8. ASSUME NEW n \in Names, NEW c \in Link, AddContext(n, c)  PROVE  Inv'
  BY <1>8, AddContextKeeps
<1>9. CASE UNCHANGED vars
  <2>1. StateTypeOK' /\ Holds' /\ ChoiceIsSaved' /\ AheadOnlyAfterFailure'
    BY <1>9 DEF vars, Inv, StateTypeOK, Holds, ChoiceIsSaved, AheadOnlyAfterFailure
  <2>2. ComesBack'
    BY <1>9 DEF vars, Inv, ComesBack, Parses, Usable, In
  <2>3. QED  BY <2>1, <2>2 DEF Inv
<1>10. QED  BY <1>1, <1>2, <1>3, <1>4, <1>5, <1>6, <1>7, <1>8, <1>9 DEF Next

LEMMA SpecInv == Spec => []Inv
BY InitInv, NextInv, PTL DEF Spec

-----------------------------------------------------------------------------
(* What follows. *)

\* A list in which no name is twice is not longer than there are names.
LEMMA ListIsBounded ==
  ASSUME NEW k, Well(k)
  PROVE  k \in Memory
<1> DEFINE len == Len(k.list)
           f == [i \in 1..len |-> k.list[i].name]
           D == 1..len
<1>1. k \in Held /\ k.list \in Seq(Entry) /\ len \in Nat /\ DOMAIN k.list = D
  BY LenProperties DEF Well, Held
<1>2. \A i \in D : k.list[i] \in Entry /\ k.list[i].name \in Names
  <2>1. \A i \in D : k.list[i] \in Entry
    BY <1>1
  <2>2. QED  BY <2>1 DEF Entry
<1>3. f \in Injection(D, Names)
  BY <1>1, <1>2 DEF Well, Injection, IsInjective
<1>4. IsFiniteSet(D) /\ Cardinality(D) = len
  <2>1. len \in Nat
    BY <1>1
  <2> HIDE DEF len
  <2>2. QED  BY <2>1, FS_Interval
<1>5. len <= Cardinality(Names) /\ Cardinality(Names) \in Nat
  BY <1>3, <1>4, KubeconfigAssumption, FS_Injection, FS_CardinalityType
<1> HIDE DEF f, len
<1>6. k.list \in BoundedSeq(Entry, Cardinality(Names))
  <2>1. k.list \in [1..len -> Entry] /\ len \in 0..Cardinality(Names)
    <3>1. k.list = [i \in D |-> k.list[i]]
      BY <1>1
    <3>2. QED  BY <1>1, <1>2, <1>5, <3>1
  <2>2. QED  BY <2>1 DEF BoundedSeq, SeqOf
<1>7. QED  BY <1>1, <1>6 DEF Held, Memory

\* Type correctness: in particular the process lists no more contexts than there are
\* names, so no context is listed twice.
THEOREM KubeconfigTypeCorrect == Spec => []TypeOK
<1>1. Inv => TypeOK
  BY ListIsBounded DEF Inv, StateTypeOK, Holds, TypeOK
<1>2. QED  BY <1>1, SpecInv, PTL

\* Raw, Contexts and CurrentContext tell the same of the contexts after every change,
\* whether it was saved or not.
THEOREM ContextsCohere == Spec => []Coherent
<1>1. ASSUME Inv, mem # None
      PROVE  /\ mem.current = mem.raw.current
             /\ IsInjective([i \in DOMAIN mem.list |-> mem.list[i].name])
             /\ Listed = In(mem.raw)
             /\ \A i \in DOMAIN mem.list : mem.list[i].link = mem.raw.context[mem.list[i].name]
             /\ Flagged \subseteq {mem.current}
             /\ ~unset => Flagged = {mem.current}
  <2>1. Well(mem) /\ (~unset => HasFlag(mem)) /\ mem.list \in Seq(Entry)
    BY <1>1 DEF Inv, Holds, Well, Held
  <2>2. \A i \in DOMAIN mem.list : mem.list[i].name \in Names
    <3>1. \A i \in DOMAIN mem.list : mem.list[i] \in Entry
      BY <2>1
    <3>2. QED  BY <3>1 DEF Entry
  <2>3. IsInjective([i \in DOMAIN mem.list |-> mem.list[i].name])
    BY <2>1 DEF Well, IsInjective
  <2>4. Listed = In(mem.raw)
    BY <2>1, <2>2, ListedIsIn DEF Listed, In
  <2>5. Flagged \subseteq {mem.current}
    BY <2>1 DEF Well, Flagged
  <2>6. ~unset => Flagged = {mem.current}
    BY <2>1, <2>5 DEF HasFlag, Flagged
  <2>7. QED  BY <2>1, <2>3, <2>4, <2>5, <2>6 DEF Well
<1>2. Inv => Coherent
  BY <1>1 DEF Coherent
<1>3. QED  BY <1>2, SpecInv, PTL

\* What the process says of the contexts is what the file says, unless a save has
\* failed or kubectl has written since.
THEOREM AheadOnlyAfterFailedSave == Spec => []AheadOnlyAfterFailure
<1>1. Inv => AheadOnlyAfterFailure
  BY DEF Inv
<1>2. QED  BY <1>1, SpecInv, PTL

\* What the process saves loads again, and a context switched to for good in a file that was
\* the process's own is the one the next process starts on, with its cluster and, if clientcmd
\* asks for it, its user.
THEOREM WhatIsWrittenComesBack == Spec => []ComesBack
<1>1. Inv => ComesBack
  BY DEF Inv
<1>2. QED  BY <1>1, SpecInv, PTL
=============================================================================
