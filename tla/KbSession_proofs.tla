--------------------------- MODULE KbSession_proofs ---------------------------
(***************************************************************************)
(* Theorems about KbSession, for any calls, any cues and any limits: what   *)
(* becomes of every failed call and every digest, that nothing is denied    *)
(* twice, that every correction is told once and by the calls it waited for,*)
(* that those calls are never cut away, and that what is posted fits.       *)
(***************************************************************************)
EXTENDS KbSession, FiniteSetTheorems, SequenceTheorems, WellFoundedInduction, TLAPS

-----------------------------------------------------------------------------
(* Sequences, by places.                                                     *)

(* Induction up to n, about a set.                                           *)
LEMMA UpTo ==
  ASSUME NEW n \in Nat, NEW Good, 0 \in Good, \A i \in 1..n : i - 1 \in Good => i \in Good
  PROVE  \A i \in 0..n : i \in Good
<1> DEFINE Bad == {i \in 0..n : i \notin Good}
<1> SUFFICES ASSUME Bad # {} PROVE FALSE
  OBVIOUS
<1>1. Bad \in SUBSET Nat
  OBVIOUS
<1>2. PICK i \in Bad : \A j \in Bad : <<j, i>> \notin OpToRel(<, Nat)
  BY <1>1, NatLessThanWellFounded, WFMin
<1>3. \A j \in Bad : ~(j < i)
  BY <1>1, <1>2 DEF OpToRel
<1>4. i \in 1..n /\ i - 1 \notin Bad
  BY <1>3
<1> QED BY <1>4

(* How f unrolls a step of V, from base, n times.                            *)
StepsOf(step, n, V) == step \in [(1..n) \X V -> V]
Unrolls(f, n, V, base, step) ==
  f \in [0..n -> V] /\ f[0] = base /\ \A i \in 1..n : f[i] = step[<<i, f[i - 1]>>]

(* A function whose every value comes from the one before exists.            *)
LEMMA Unrolled ==
  ASSUME NEW n \in Nat, NEW V, NEW base \in V, NEW step, StepsOf(step, n, V)
  PROVE  \E f : Unrolls(f, n, V, base, step)
<1> USE DEF StepsOf
<1> DEFINE Upto(m, f) == f[0] = base /\ \A i \in 1..m : f[i] = step[<<i, f[i - 1]>>]
           Good == {m \in 0..n : \E f \in [0..m -> V] : Upto(m, f)}
<1>1. 0 \in Good
  <2> DEFINE f == [i \in 0..0 |-> base]
  <2>1. f \in [0..0 -> V] /\ Upto(0, f)
    OBVIOUS
  <2> HIDE DEF f, Upto
  <2> QED BY <2>1
<1>2. ASSUME NEW m \in 1..n, m - 1 \in Good PROVE m \in Good
  <2>1. PICK f \in [0..(m - 1) -> V] : Upto(m - 1, f)
    BY <1>2
  <2> DEFINE g == [i \in 0..m |-> IF i < m THEN f[i] ELSE step[<<m, f[m - 1]>>]]
  <2>2. f[m - 1] \in V /\ step[<<m, f[m - 1]>>] \in V
    OBVIOUS
  <2>3. g \in [0..m -> V]
    BY <2>2
  <2>4. g[0] = base /\ g[m] = step[<<m, g[m - 1]>>]
    BY <2>1
  <2>5. ASSUME NEW i \in 1..(m - 1) PROVE g[i] = step[<<i, g[i - 1]>>]
    <3>1. g[i] = f[i] /\ g[i - 1] = f[i - 1]
      OBVIOUS
    <3> QED BY <2>1, <3>1
  <2>6. Upto(m, g)
    <3>1. \A i \in 1..m : i \in 1..(m - 1) \/ i = m
      OBVIOUS
    <3> HIDE DEF g
    <3> QED BY <2>4, <2>5, <3>1
  <2> HIDE DEF g, Upto
  <2> QED BY <2>3, <2>6
<1> HIDE DEF Good
<1>3. n \in Good
  BY <1>1, <1>2, UpTo
<1> QED BY <1>3 DEF Good, Unrolls

(* What is left of a sequence, place by place.                               *)
LEMMA WhereByPlace ==
  ASSUME NEW s, NEW keep, Len(s) \in Nat
  PROVE  \E upto : /\ Where(s, keep) = upto[Len(s)] /\ upto[0] = <<>>
                   /\ \A i \in 1..Len(s) :
                        upto[i] = IF i \in keep THEN Append(upto[i - 1], s[i])
                                  ELSE upto[i - 1]
<1> DEFINE n == Len(s)
           S == {s[i] : i \in 1..n}
           Turned(u) == [i \in 0..Len(s) |->
                         IF i = 0 THEN <<>>
                         ELSE IF i \in keep THEN Append(u[i - 1], s[i]) ELSE u[i - 1]]
           step == [p \in (1..n) \X Seq(S) |->
                      IF p[1] \in keep THEN Append(p[2], s[p[1]]) ELSE p[2]]
           upto == CHOOSE u : u = Turned(u)
<1>1. \E u : u = Turned(u)
  <2>1. step \in [(1..n) \X Seq(S) -> Seq(S)] /\ <<>> \in Seq(S)
    OBVIOUS
  <2>a. n \in Nat /\ StepsOf(step, n, Seq(S))
    BY <2>1 DEF StepsOf
  <2> HIDE DEF step, S, n, upto
  <2>b. PICK u : Unrolls(u, n, Seq(S), <<>>, step)
    BY <2>a, <2>1, Unrolled, Zenon
  <2>2. u \in [0..n -> Seq(S)] /\ u[0] = <<>> /\ \A i \in 1..n : u[i] = step[<<i, u[i - 1]>>]
    BY <2>b DEF Unrolls
  <2> USE DEF n
  <2>3. ASSUME NEW i \in 0..n PROVE u[i] = Turned(u)[i]
    <3>1. CASE i = 0
      BY <2>2, <3>1
    <3>2. CASE i \in 1..n
      <4>1. <<i, u[i - 1]>> \in (1..n) \X Seq(S)
        <5>1. i - 1 \in 0..n
          BY <2>a, <3>2
        <5> QED BY <2>2, <3>2, <5>1
      <4> QED BY <2>2, <3>2, <4>1 DEF step
    <3> QED BY <3>1, <3>2
  <2>4. u = Turned(u)
    <3>1. u = [i \in 0..n |-> u[i]]
      BY <2>2
    <3> QED BY <2>3, <3>1
  <2> QED BY <2>4
<1>2. upto = Turned(upto)
  BY <1>1, Zenon
<1>3. Where(s, keep) = upto[n]
  BY Zenon DEF Where
<1> HIDE DEF upto
<1>4. ASSUME NEW i \in 0..n
      PROVE  upto[i] = IF i = 0 THEN <<>>
                       ELSE IF i \in keep THEN Append(upto[i - 1], s[i]) ELSE upto[i - 1]
  <2>1. upto[i] = Turned(upto)[i]
    BY <1>2, Zenon
  <2> QED BY <2>1
<1>5. upto[0] = <<>>
  BY <1>4
<1>6. \A i \in 1..n : upto[i] = IF i \in keep THEN Append(upto[i - 1], s[i]) ELSE upto[i - 1]
  BY <1>4
<1> HIDE DEF Turned
<1> QED BY <1>3, <1>5, <1>6

(* The places kept of s, each with its place in what is left.                *)
Placing(g, left, s, kept) ==
  /\ g \in [kept -> 1..Len(left)]
  /\ \A k \in kept : left[g[k]] = s[k]
  /\ \A k, l \in kept : k < l => g[k] < g[l]
  /\ \A j \in 1..Len(left) : \E k \in kept : g[k] = j

(* What is left is the kept places, in their order.                          *)
LEMMA WherePlaces ==
  ASSUME NEW S, NEW s \in Seq(S), NEW keep
  PROVE  /\ Where(s, keep) \in Seq(S)
         /\ \E g : Placing(g, Where(s, keep), s, keep \cap 1..Len(s))
<1> DEFINE n == Len(s)
<1>a. Len(s) \in Nat
  OBVIOUS
<1>0. n \in Nat
  OBVIOUS
<1>1. PICK upto : /\ Where(s, keep) = upto[Len(s)] /\ upto[0] = <<>>
                  /\ \A i \in 1..Len(s) :
                       upto[i] = IF i \in keep THEN Append(upto[i - 1], s[i]) ELSE upto[i - 1]
  BY <1>a, WhereByPlace
<1> DEFINE Good == {i \in 0..n : /\ upto[i] \in Seq(S)
                                 /\ \E g : Placing(g, upto[i], s, keep \cap 1..i)}
<1>2. 0 \in Good
  <2>1. keep \cap 1..0 = {} /\ upto[0] = <<>> /\ <<>> \in Seq(S) /\ Len(<<>>) = 0
    BY <1>1
  <2>2. Placing([k \in {} |-> k], upto[0], s, keep \cap 1..0)
    BY <2>1 DEF Placing
  <2>3. \E g : Placing(g, upto[0], s, keep \cap 1..0)
    BY <2>2, Zenon
  <2>4. upto[0] \in Seq(S) /\ 0 \in 0..n
    BY <1>0, <2>1
  <2> QED BY <2>3, <2>4
<1>3. ASSUME NEW i \in 1..n, i - 1 \in Good PROVE i \in Good
  <2> DEFINE w == upto[i - 1]
  <2>1. w \in Seq(S) /\ s[i] \in S /\ i \in 0..n
    BY <1>0, <1>3
  <2>2. PICK g : Placing(g, w, s, keep \cap 1..(i - 1))
    BY <1>3
  <2>3. CASE i \notin keep
    <3>1. upto[i] = w /\ keep \cap 1..i = keep \cap 1..(i - 1)
      BY <1>0, <1>1, <2>3
    <3> QED BY <2>1, <2>2, <3>1
  <2>4. CASE i \in keep
    <3>1. upto[i] = Append(w, s[i])
      BY <1>1, <2>4
    <3> HIDE DEF w
    <3>2. /\ upto[i] \in Seq(S) /\ Len(w) \in Nat /\ Len(upto[i]) = Len(w) + 1
          /\ \A j \in 1..Len(w) : upto[i][j] = w[j]
          /\ upto[i][Len(w) + 1] = s[i]
      BY <2>1, <3>1
    <3> DEFINE K == keep \cap 1..(i - 1)
               h == [k \in K \cup {i} |-> IF k = i THEN Len(w) + 1 ELSE g[k]]
    <3>3. keep \cap 1..i = K \cup {i} /\ i \notin K /\ \A k \in K : k < i
      BY <1>0, <2>4
    <3>4. /\ \A k \in K : g[k] \in 1..Len(w) /\ w[g[k]] = s[k]
          /\ \A k, l \in K : k < l => g[k] < g[l]
          /\ \A j \in 1..Len(w) : \E k \in K : g[k] = j
      BY <2>2 DEF Placing
    <3>5. i \in Nat /\ \A k \in K : k \in Nat
      BY <1>0
    <3> HIDE DEF K
    <3>6. \A k \in K : h[k] = g[k] /\ h[k] \in 1..Len(w)
      BY <3>3, <3>4
    <3>7. h[i] = Len(w) + 1
      OBVIOUS
    <3>8. h \in [K \cup {i} -> 1..Len(upto[i])]
      BY <3>2, <3>4
    <3> HIDE DEF h
    <3>9. \A k \in K \cup {i} : upto[i][h[k]] = s[k]
      BY <3>2, <3>4, <3>6, <3>7
    <3>10. \A k, l \in K \cup {i} : k < l => h[k] < h[l]
      BY <3>2, <3>3, <3>4, <3>5, <3>6, <3>7
    <3>11. \A j \in 1..Len(upto[i]) : \E k \in K \cup {i} : h[k] = j
      <4> TAKE j \in 1..Len(upto[i])
      <4>1. CASE j = Len(w) + 1
        BY <3>7, <4>1
      <4>2. CASE j \in 1..Len(w)
        BY <3>4, <3>6, <4>2
      <4> QED BY <3>2, <4>1, <4>2
    <3>12. Placing(h, upto[i], s, keep \cap 1..i)
      BY <3>3, <3>8, <3>9, <3>10, <3>11 DEF Placing
    <3> QED BY <2>1, <3>2, <3>12
  <2> QED BY <2>3, <2>4
<1> HIDE DEF Good
<1>4. \A i \in 0..n : i \in Good
  BY <1>0, <1>2, <1>3, UpTo
<1>5. n \in Good
  BY <1>0, <1>4
<1> QED BY <1>1, <1>5 DEF Good

-----------------------------------------------------------------------------
(* What the digests hold.                                                    *)
Texts == [kind : {"text"}, id : {0}, size : Nat]
Tools == [kind : {"tool_call", "tool_result"}, id : Nat, size : Nat]
Corrections == [kind : {"correction"}, id : Nat, size : Nat, resolved : BOOLEAN, by : Seq(Nat)]
Items == Texts \cup Tools \cup Corrections

Requests ==
  [trigger : RefusedClaims \cup {"nudge", "gate_red"}, id : Nat, size : Nat, pending : Seq(Nat)]
Digests ==
  [fit : BOOLEAN, index : Nat, items : Seq(Items), final : BOOLEAN, truncated : BOOLEAN]
Buffers ==
  [items : Seq(Items), next : Nat, truncated : BOOLEAN, open : Seq(Requests),
   message : BOOLEAN, finished : BOOLEAN]

(* The items a group is never cut down by.                                   *)
Owed(group, open) ==
  {k \in 1..Len(group) :
     \/ group[k].kind = "correction"
     \/ /\ group[k].kind = "tool_call"
        /\ group[k].id \in Named(group) \cup Protected(open)}

(* Two sequences of one kind, one behind the other, place by place.          *)
LEMMA JoinedPlaces ==
  ASSUME NEW S, NEW s \in Seq(S), NEW t \in Seq(S)
  PROVE  /\ s \o t \in Seq(S) /\ Len(s \o t) = Len(s) + Len(t)
         /\ Len(s) \in Nat /\ Len(t) \in Nat
         /\ \A j \in 1..Len(s) : (s \o t)[j] = s[j]
         /\ \A j \in 1..Len(t) : (s \o t)[Len(s) + j] = t[j]
OBVIOUS

(* What neither of two sequences has, both together have not.                *)
LEMMA NeitherHas ==
  ASSUME NEW S, NEW s \in Seq(S), NEW t \in Seq(S), NEW bad,
         \A j \in 1..Len(s) : s[j] \notin bad, \A j \in 1..Len(t) : t[j] \notin bad
  PROVE  s \o t \in Seq(S) /\ \A j \in 1..Len(s \o t) : (s \o t)[j] \notin bad
<1>1. /\ s \o t \in Seq(S) /\ Len(s \o t) = Len(s) + Len(t)
      /\ Len(s) \in Nat /\ Len(t) \in Nat
      /\ \A j \in 1..Len(s) : (s \o t)[j] = s[j]
      /\ \A j \in 1..Len(t) : (s \o t)[Len(s) + j] = t[j]
  OBVIOUS
<1>2. ASSUME NEW j \in 1..Len(s \o t) PROVE (s \o t)[j] \notin bad
  <2>1. CASE j \in 1..Len(s)
    BY <1>1, <2>1
  <2>2. CASE j > Len(s)
    <3>1. j - Len(s) \in 1..Len(t) /\ Len(s) + (j - Len(s)) = j
      BY <1>1, <2>2
    <3>2. (s \o t)[j] = t[j - Len(s)]
      BY <1>1, <3>1
    <3> QED BY <3>1, <3>2
  <2> QED BY <1>1, <2>1, <2>2
<1> QED BY <1>1, <1>2

(* What may be dropped is none of these.                                     *)
LEMMA DroppableUnowed ==
  ASSUME NEW group \in Seq(Items), NEW open
  PROVE  /\ Droppable(group, open) \in Seq(Nat)
         /\ \A j \in 1..Len(Droppable(group, open)) :
              Droppable(group, open)[j] \notin Owed(group, open)
<1> DEFINE kept == Named(group) \cup Protected(open)
           text == {k \in DOMAIN group : group[k].kind = "text"}
           tool == {k \in DOMAIN group : /\ group[k].kind \in {"tool_call", "tool_result"}
                                         /\ group[k].id \notin kept}
           result == {k \in DOMAIN group : group[k].kind = "tool_result"} \ tool
           places == [k \in 1..Len(group) |-> k]
           owed == Owed(group, open)
<1>1. Len(group) \in Nat /\ DOMAIN group = 1..Len(group)
  OBVIOUS
<1>2. places \in Seq(Nat) /\ Len(places) = Len(group)
  BY <1>1
<1>3. /\ \A k \in text : k \notin owed
      /\ \A k \in tool : k \notin owed
      /\ \A k \in result : k \notin owed
  BY <1>1 DEF Owed
<1>4. Droppable(group, open)
        = Where(places, text) \o Where(places, tool) \o Where(places, result)
  BY DEF Droppable
<1> HIDE DEF text, tool, result, owed
<1>5. ASSUME NEW keep, \A k \in keep : k \notin owed
      PROVE  /\ Where(places, keep) \in Seq(Nat)
             /\ \A j \in 1..Len(Where(places, keep)) : Where(places, keep)[j] \notin owed
  <2> DEFINE w == Where(places, keep)
  <2> HIDE DEF w, places
  <2>1. /\ w \in Seq(Nat)
        /\ \E g : Placing(g, w, places, keep \cap 1..Len(places))
    BY <1>2, WherePlaces DEF w
  <2>2. PICK g : Placing(g, w, places, keep \cap 1..Len(places))
    BY <2>1
  <2>3. ASSUME NEW j \in 1..Len(w) PROVE w[j] \notin owed
    <3>1. PICK k \in keep \cap 1..Len(places) : g[k] = j
      BY <2>2 DEF Placing
    <3>2. w[j] = places[k]
      BY <2>2, <3>1 DEF Placing
    <3>3. places[k] = k
      BY <1>2, <3>1 DEF places
    <3> QED BY <1>5, <3>1, <3>2, <3>3
  <2> QED BY <2>1, <2>3 DEF w
<1> DEFINE a == Where(places, text)
           b == Where(places, tool)
           c == Where(places, result)
<1>6. /\ a \in Seq(Nat) /\ \A j \in 1..Len(a) : a[j] \notin owed
      /\ b \in Seq(Nat) /\ \A j \in 1..Len(b) : b[j] \notin owed
      /\ c \in Seq(Nat) /\ \A j \in 1..Len(c) : c[j] \notin owed
  BY <1>3, <1>5
<1>7. Droppable(group, open) = a \o b \o c
  BY <1>4
<1> HIDE DEF a, b, c
<1>8. a \o b \in Seq(Nat) /\ \A j \in 1..Len(a \o b) : (a \o b)[j] \notin owed
  BY <1>6, NeitherHas
<1>9. (a \o b) \o c \in Seq(Nat) /\ \A j \in 1..Len((a \o b) \o c) : ((a \o b) \o c)[j] \notin owed
  BY <1>6, <1>8, NeitherHas
<1> QED BY <1>7, <1>9 DEF owed

(* A group that was fitted is what was not dropped of it, and within limits. *)
LEMMA FitItemsKeeps ==
  ASSUME NEW group \in Seq(Items), NEW open, NEW index, NEW final,
         FitItems(group, open, index, final).fit
  PROVE  \E dropped : /\ dropped \cap Owed(group, open) = {}
                      /\ FitItems(group, open, index, final).items = Without(group, dropped)
                      /\ Fits(Without(group, dropped), index, final)
<1> DEFINE order == Droppable(group, open)
           left(n) == Without(group, {order[j] : j \in 1..n})
           enough == {n \in 1..Len(order) : Fits(left(n), index, final)}
           least == CHOOSE n \in enough : \A m \in enough : n <= m
<1>1. FitItems(group, open, index, final) =
        IF enough = {} THEN [fit |-> FALSE, items |-> group]
        ELSE [fit |-> TRUE, items |-> left(least)]
  BY Zenon DEF FitItems
<1>2. enough # {} /\ FitItems(group, open, index, final).items = left(least)
  <2> HIDE DEF enough, left, least
  <2> QED BY <1>1
<1>3. order \in Seq(Nat) /\ \A j \in 1..Len(order) : order[j] \notin Owed(group, open)
  BY DroppableUnowed
<1> HIDE DEF order
<1>4. least \in enough
  <2>1. enough \in SUBSET Nat
    BY <1>3
  <2> HIDE DEF enough
  <2>2. PICK i \in enough : \A j \in enough : <<j, i>> \notin OpToRel(<, Nat)
    BY <1>2, <2>1, NatLessThanWellFounded, WFMin
  <2>3. \A j \in enough : ~(j < i)
    BY <2>1, <2>2 DEF OpToRel
  <2>4. \A j \in enough : i <= j
    BY <2>1, <2>3
  <2> QED BY <2>4
<1> DEFINE dropped == {order[j] : j \in 1..least}
<1>5. least \in 1..Len(order) /\ Fits(left(least), index, final)
  BY <1>4
<1> HIDE DEF least
<1>6. dropped \cap Owed(group, open) = {}
  BY <1>3, <1>5
<1>7. left(least) = Without(group, dropped)
  OBVIOUS
<1> QED BY <1>2, <1>5, <1>6, <1>7

-----------------------------------------------------------------------------
IsSeq(s) == \E S : s \in Seq(S)

(* Two sequences, one behind the other.                                      *)
LEMMA ConcatIsSeq ==
  ASSUME NEW s, NEW t, IsSeq(s), IsSeq(t)
  PROVE  IsSeq(s \o t) /\ Len(s \o t) = Len(s) + Len(t)
<1>1. PICK S : s \in Seq(S)
  BY DEF IsSeq
<1>2. PICK T : t \in Seq(T)
  BY DEF IsSeq
<1>3. s \in Seq(S \cup T) /\ t \in Seq(S \cup T)
  BY <1>1, <1>2
<1>4. s \o t \in Seq(S \cup T) /\ Len(s \o t) = Len(s) + Len(t)
  BY <1>3
<1> QED BY <1>4 DEF IsSeq

(* No digest, or one, is a sequence.                                         *)
LEMMA ShortIsSeq == IsSeq(<<>>) /\ \A x : IsSeq(<<x>>)
<1>1. <<>> \in Seq({})
  OBVIOUS
<1>2. \A x : <<x>> \in Seq({x})
  OBVIOUS
<1> QED BY <1>1, <1>2 DEF IsSeq

(* A sequence has a place for each number up to its length.                  *)
LEMMA PlacesOfSeq ==
  ASSUME NEW s, IsSeq(s)
  PROVE  /\ Len(s) \in Nat /\ DOMAIN s = 1..Len(s)
         /\ IsFiniteSet(DOMAIN s) /\ Cardinality(DOMAIN s) = Len(s)
<1>1. PICK S : s \in Seq(S)
  BY DEF IsSeq
<1>2. Len(s) \in Nat /\ DOMAIN s = 1..Len(s)
  BY <1>1
<1>3. IsFiniteSet(1..Len(s)) /\ Cardinality(1..Len(s)) = Len(s)
  <2> DEFINE n == Len(s)
  <2>1. n \in Int /\ 1 \in Int /\ n \in Nat
    BY <1>2
  <2> HIDE DEF n
  <2>2. IsFiniteSet(1..n) /\ Cardinality(1..n) = IF 1 > n THEN 0 ELSE n - 1 + 1
    BY <2>1, FS_Interval
  <2>3. Cardinality(1..n) = n
    BY <2>1, <2>2
  <2> QED BY <2>2, <2>3 DEF n
<1> QED BY <1>2, <1>3

-----------------------------------------------------------------------------
(* What an operation of the digest buffer closes is a sequence of digests.   *)
LEMMA FitLoneOut == \A b, final : IsSeq(FitLone(b, final).out)
BY ShortIsSeq DEF FitLone, Close

(* The same of appending a group.                                            *)
LEMMA AppendOut == \A b, group, final : IsSeq(Append1(b, group, final).out)
<1> TAKE b, group, final
<1>1. IsSeq(Close(b, TRUE, FALSE).out)
  BY ShortIsSeq DEF Close
<1> QED BY <1>1, ShortIsSeq, FitLoneOut, ConcatIsSeq DEF Append1

(* Of a call.                                                                *)
LEMMA CallOut ==
  \A b, id, posted, size, resolving : IsSeq(Call(b, id, posted, size, resolving).out)
<1> TAKE b, id, posted, size, resolving
<1>1. CASE b.finished
  BY <1>1, ShortIsSeq DEF Call
<1>2. CASE ~b.finished
  <2>1. \E c, group : Call(b, id, posted, size, resolving) = Append1(c, group, FALSE)
    BY <1>2 DEF Call
  <2> QED BY <2>1, AppendOut
<1> QED BY <1>1, <1>2

(* Of a turn.                                                                *)
LEMMA TurnOut == \A b, sizes, spoke, passed : IsSeq(Turn(b, sizes, spoke, passed).out)
<1> TAKE b, sizes, spoke, passed
<1>1. IsSeq(Close(b, TRUE, FALSE).out)
  BY ShortIsSeq DEF Close
<1> QED BY <1>1, ShortIsSeq, AppendOut, ConcatIsSeq DEF Turn

(* And of the end.                                                           *)
LEMMA FinishOut == \A b : IsSeq(Finish(b).out)
<1> TAKE b
<1>1. \A c, fit, final : IsSeq(Close(c, fit, final).out)
  BY ShortIsSeq DEF Close
<1> QED BY <1>1, ShortIsSeq, AppendOut, ConcatIsSeq DEF Finish, Sealed

-----------------------------------------------------------------------------
(* A buffer that is open for the same corrections, and as far.               *)
Bears(b, c) ==
  c \in Buffers /\ c.open = b.open /\ c.message = b.message /\ c.finished = b.finished

LEMMA BearsOn == \A b, c, d : Bears(b, c) /\ Bears(c, d) => Bears(b, d)
BY DEF Bears

(* A digest that was closed, and the buffer behind it.                       *)
LEMMA ClosedTyped ==
  ASSUME NEW b \in Buffers, NEW fit \in BOOLEAN, NEW final \in BOOLEAN
  PROVE  /\ Closed(b, fit, final) \in Digests
         /\ Close(b, fit, final).out = <<Closed(b, fit, final)>>
         /\ Bears(b, Close(b, fit, final).buf)
         /\ Close(b, fit, final).buf.items = <<>>
         /\ Close(b, fit, final).buf.next = b.next + 1
         /\ Close(b, fit, final).buf.truncated = FALSE
<1>1. Closed(b, fit, final) \in Digests
  BY DEF Closed, Buffers, Digests
<1>2. Close(b, fit, final).out = <<Closed(b, fit, final)>>
  BY DEF Close
<1>3. Close(b, fit, final).buf =
        [items |-> <<>>, next |-> b.next + 1, truncated |-> FALSE, open |-> b.open,
         message |-> b.message, finished |-> b.finished]
  BY DEF Close, Buffers
<1>4. /\ b.next + 1 \in Nat /\ b.open \in Seq(Requests) /\ <<>> \in Seq(Items)
      /\ b.message \in BOOLEAN /\ b.finished \in BOOLEAN
  BY DEF Buffers
<1>5. Bears(b, Close(b, fit, final).buf)
  BY <1>3, <1>4 DEF Buffers, Bears
<1>6. /\ Close(b, fit, final).buf.items = <<>> /\ Close(b, fit, final).buf.next = b.next + 1
      /\ Close(b, fit, final).buf.truncated = FALSE
  BY <1>3
<1> QED BY <1>1, <1>2, <1>5, <1>6

(* What a group goes into: the digest as it is, or a new one.                *)
Ready(b, c, o) ==
  \/ c = b /\ o = <<>>
  \/ b.items # <<>> /\ c = Close(b, TRUE, FALSE).buf /\ o = Close(b, TRUE, FALSE).out

(* How it does: whole, cut down, or not at all.                              *)
Whole(c, o, group, final, r) ==
  /\ r.buf = [c EXCEPT !.items = @ \o group] /\ r.out = o
  /\ group # <<>> => Fits(c.items \o group, c.next, final)
Cut(c, o, group, final, r) ==
  /\ c.items = <<>> /\ group # <<>> /\ r.out = o
  /\ \E dropped : /\ dropped \cap Owed(group, c.open) = {}
                  /\ r.buf = [c EXCEPT !.items = Without(group, dropped), !.truncated = TRUE]
                  /\ Fits(Without(group, dropped), c.next, final)
Refused(c, o, group, r) ==
  /\ c.items = <<>> /\ group # <<>>
  /\ r.buf = Close([c EXCEPT !.items = group], FALSE, FALSE).buf
  /\ r.out = o \o Close([c EXCEPT !.items = group], FALSE, FALSE).out

Goes(c, o, group, final, r) ==
  Whole(c, o, group, final, r) \/ Cut(c, o, group, final, r) \/ Refused(c, o, group, r)

(* Every way Append1 can go.                                                 *)
LEMMA AppendCases ==
  ASSUME NEW b \in Buffers, NEW group \in Seq(Items), NEW final \in BOOLEAN
  PROVE  \E c, o : /\ Ready(b, c, o) /\ (group = <<>> => c = b)
                   /\ Goes(c, o, group, final, Append1(b, group, final))
<1> DEFINE closed == Close(b, TRUE, FALSE)
           onto(c) == [c EXCEPT !.items = @ \o group]
<1>a. ASSUME NEW c \in Buffers, c.items = <<>>, group # <<>>, NEW o \in Seq(Digests), NEW r,
             r.buf = FitLone(onto(c), final).buf, r.out = o \o FitLone(onto(c), final).out
      PROVE  Goes(c, o, group, final, r)
  <2> USE DEF Goes
  <2>1. /\ onto(c) = [c EXCEPT !.items = group] /\ onto(c).items = group
        /\ c.items \o group = group
        /\ onto(c).next = c.next /\ onto(c).open = c.open
    BY <1>a DEF Buffers
  <2>2. o \o <<>> = o
    OBVIOUS
  <2> DEFINE fitted == FitItems(group, c.open, c.next, final)
             lone == FitLone(onto(c), final)
  <2>3. lone = IF Fits(group, c.next, final) THEN [buf |-> onto(c), out |-> <<>>]
               ELSE IF fitted.fit
               THEN [buf |-> [onto(c) EXCEPT !.items = fitted.items, !.truncated = TRUE],
                     out |-> <<>>]
               ELSE Close(onto(c), FALSE, FALSE)
    <3> HIDE DEF onto
    <3> QED BY <2>1, Zenon DEF FitLone
  <2>a. r.buf = lone.buf /\ r.out = o \o lone.out
    BY <1>a
  <2> HIDE DEF lone
  <2>4. CASE Fits(group, c.next, final)
    <3> HIDE DEF onto
    <3>1. r.buf = onto(c) /\ r.out = o
      BY <2>a, <2>2, <2>3, <2>4
    <3> QED BY <2>1, <2>4, <3>1 DEF Whole, onto
  <2>5. CASE ~Fits(group, c.next, final) /\ fitted.fit
    <3>1. r.buf = [onto(c) EXCEPT !.items = fitted.items, !.truncated = TRUE] /\ r.out = o
      <4> HIDE DEF onto, fitted
      <4> QED BY <2>a, <2>2, <2>3, <2>5
    <3>2. PICK dropped : /\ dropped \cap Owed(group, c.open) = {}
                         /\ fitted.items = Without(group, dropped)
                         /\ Fits(Without(group, dropped), c.next, final)
      BY <2>5, FitItemsKeeps
    <3>3. r.buf = [c EXCEPT !.items = Without(group, dropped), !.truncated = TRUE]
      <4> HIDE DEF fitted
      <4> QED BY <2>1, <3>1, <3>2
    <3> QED BY <1>a, <3>1, <3>2, <3>3 DEF Cut
  <2>6. CASE ~Fits(group, c.next, final) /\ ~fitted.fit
    <3>1. lone = Close(onto(c), FALSE, FALSE)
      <4> HIDE DEF onto, fitted
      <4> QED BY <2>3, <2>6
    <3>2. onto(c) = [c EXCEPT !.items = group]
      BY <2>1
    <3> HIDE DEF onto
    <3> QED BY <1>a, <2>a, <3>1, <3>2 DEF Refused
  <2> QED BY <2>4, <2>5, <2>6
<1> DEFINE r == Append1(b, group, final)
           alone == FitLone(onto(closed.buf), final)
<1>1. r = IF group = <<>> THEN [buf |-> b, out |-> <<>>]
          ELSE IF b.items = <<>> THEN FitLone(onto(b), final)
          ELSE IF Fits(b.items \o group, b.next, final) THEN [buf |-> onto(b), out |-> <<>>]
          ELSE [buf |-> alone.buf, out |-> closed.out \o alone.out]
  BY Zenon DEF Append1
<1> HIDE DEF r
<1>2. CASE group = <<>>
  <2>1. r.buf = b /\ r.out = <<>>
    BY <1>1, <1>2
  <2>2. b = [b EXCEPT !.items = @ \o group]
    BY <1>2 DEF Buffers
  <2>3. Whole(b, <<>>, group, final, r) /\ Ready(b, b, <<>>)
    BY <1>2, <2>1, <2>2 DEF Whole, Ready
  <2> QED BY <2>3 DEF r, Goes
<1>3. CASE group # <<>> /\ b.items = <<>>
  <2>1. r = FitLone(onto(b), final)
    BY <1>1, <1>3
  <2>2. IsSeq(FitLone(onto(b), final).out)
    BY FitLoneOut
  <2>3. r.out = <<>> \o FitLone(onto(b), final).out
    <3> DEFINE t == FitLone(onto(b), final).out
    <3>1. IsSeq(t) /\ r.out = t
      BY <2>1, <2>2
    <3> HIDE DEF t
    <3>2. PICK T : t \in Seq(T)
      BY <3>1 DEF IsSeq
    <3>3. t = <<>> \o t
      BY <3>2
    <3> QED BY <3>1, <3>3 DEF t
  <2>4. Ready(b, b, <<>>) /\ <<>> \in Seq(Digests)
    BY DEF Ready
  <2> QED BY <1>3, <1>a, <2>1, <2>3, <2>4 DEF r
<1>4. CASE group # <<>> /\ b.items # <<>> /\ Fits(b.items \o group, b.next, final)
  <2>1. r.buf = onto(b) /\ r.out = <<>>
    BY <1>1, <1>4
  <2>2. Whole(b, <<>>, group, final, r) /\ Ready(b, b, <<>>)
    BY <1>4, <2>1 DEF Whole, Ready
  <2> QED BY <1>4, <2>2 DEF r, Goes
<1>5. CASE group # <<>> /\ b.items # <<>> /\ ~Fits(b.items \o group, b.next, final)
  <2>1. r.buf = alone.buf /\ r.out = closed.out \o alone.out
    BY <1>1, <1>5
  <2>2. closed.buf \in Buffers /\ closed.buf.items = <<>> /\ closed.out \in Seq(Digests)
    <3> DEFINE x == Closed(b, TRUE, FALSE)
    <3>1. /\ closed.buf \in Buffers /\ closed.buf.items = <<>>
          /\ x \in Digests /\ closed.out = <<x>>
      BY ClosedTyped DEF Bears
    <3> HIDE DEF x, closed
    <3> QED BY <3>1
  <2>3. Ready(b, closed.buf, closed.out)
    BY <1>5 DEF Ready
  <2> HIDE DEF closed
  <2> QED BY <1>5, <1>a, <2>1, <2>2, <2>3 DEF r
<1> QED BY <1>2, <1>3, <1>4, <1>5

(* The buffer a group goes into is one.                                      *)
LEMMA ReadyTyped ==
  ASSUME NEW b \in Buffers, NEW c, NEW o, Ready(b, c, o)
  PROVE  Bears(b, c) /\ o \in Seq(Digests) /\ c.next = b.next + Len(o)
<1>1. CASE c = b /\ o = <<>>
  BY <1>1 DEF Buffers, Bears
<1>2. CASE c = Close(b, TRUE, FALSE).buf /\ o = Close(b, TRUE, FALSE).out
  <2> DEFINE x == Closed(b, TRUE, FALSE)
  <2>1. Bears(b, c) /\ x \in Digests /\ o = <<x>> /\ c.next = b.next + 1
    BY <1>2, ClosedTyped
  <2> HIDE DEF x
  <2>2. o \in Seq(Digests) /\ Len(o) = 1
    BY <2>1
  <2> QED BY <2>1, <2>2
<1> QED BY <1>1, <1>2 DEF Ready

(* A buffer with other items.                                                *)
Refilled(c, items, d) ==
  \/ d = [c EXCEPT !.items = items]
  \/ d = [c EXCEPT !.items = items, !.truncated = TRUE]

LEMMA ItemsReplaced ==
  ASSUME NEW c \in Buffers, NEW items \in Seq(Items), NEW d, Refilled(c, items, d)
  PROVE  Bears(c, d) /\ d.items = items /\ d.next = c.next
BY DEF Buffers, Refilled, Bears

(* So is what a group leaves, and what it closes are digests.                *)
Leaves(c, o, r) ==
  /\ Bears(c, r.buf) /\ r.out \in Seq(Digests)
  /\ r.buf.next - Len(r.out) = c.next - Len(o)

LEMMA CasesTyped ==
  ASSUME NEW c \in Buffers, NEW o \in Seq(Digests), NEW group \in Seq(Items), NEW final, NEW r,
         Goes(c, o, group, final, r)
  PROVE  Leaves(c, o, r)
<1>0. c.items \in Seq(Items) /\ c.next \in Nat /\ Len(o) \in Nat
  BY DEF Buffers
<1>1. ASSUME NEW items \in Seq(Items), r.out = o, Refilled(c, items, r.buf)
      PROVE  Bears(c, r.buf) /\ r.out \in Seq(Digests) /\ r.buf.next = c.next
  <2>1. Bears(c, r.buf)
    BY <1>1, ItemsReplaced, Zenon
  <2>2. r.buf.next = c.next
    BY <1>1, ItemsReplaced, Zenon
  <2> QED BY <1>1, <2>1, <2>2
<1>2. CASE Whole(c, o, group, final, r)
  <2>1. c.items \o group \in Seq(Items)
    BY <1>0
  <2>2. r.buf = [c EXCEPT !.items = c.items \o group] /\ r.out = o
    BY <1>2 DEF Whole
  <2>3. Refilled(c, c.items \o group, r.buf)
    BY <2>2, Zenon DEF Refilled
  <2> QED BY <1>0, <1>1, <2>1, <2>2, <2>3 DEF Leaves
<1>3. CASE Cut(c, o, group, final, r)
  <2>1. PICK dropped :
          r.buf = [c EXCEPT !.items = Without(group, dropped), !.truncated = TRUE]
    BY <1>3 DEF Cut
  <2>2. Without(group, dropped) \in Seq(Items)
    BY WherePlaces DEF Without
  <2>3. r.out = o
    BY <1>3 DEF Cut
  <2>4. Refilled(c, Without(group, dropped), r.buf)
    BY <2>1, Zenon DEF Refilled
  <2> QED BY <1>0, <1>1, <2>2, <2>3, <2>4 DEF Leaves
<1>4. CASE Refused(c, o, group, r)
  <2> DEFINE d == [c EXCEPT !.items = group]
             x == Closed(d, FALSE, FALSE)
             e == Close(d, FALSE, FALSE).buf
  <2>1. Bears(c, d) /\ d.next = c.next
    BY DEF Buffers, Bears
  <2>2. r.buf = e /\ r.out = o \o Close(d, FALSE, FALSE).out
    BY <1>4 DEF Refused
  <2> HIDE DEF d
  <2>3. d \in Buffers
    BY <2>1 DEF Bears
  <2>4. /\ Bears(d, e) /\ x \in Digests /\ Close(d, FALSE, FALSE).out = <<x>>
        /\ e.next = d.next + 1
    BY <2>3, ClosedTyped
  <2> HIDE DEF x, e
  <2>5. r.out = o \o <<x>>
    BY <2>2, <2>4
  <2>6. r.out \in Seq(Digests) /\ Len(r.out) = Len(o) + 1
    BY <2>4, <2>5
  <2>7. e.next - Len(r.out) = c.next - Len(o)
    <3> DEFINE i == c.next
               j == Len(o)
    <3>1. e.next = i + 1 /\ Len(r.out) = j + 1 /\ i \in Nat /\ j \in Nat
      BY <1>0, <2>1, <2>4, <2>6
    <3> HIDE DEF i, j
    <3>2. e.next - Len(r.out) = i - j
      BY <3>1
    <3> QED BY <3>2 DEF i, j
  <2>8. Bears(c, e)
    BY <2>1, <2>4, BearsOn
  <2> QED BY <2>2, <2>6, <2>7, <2>8 DEF Leaves
<1> QED BY <1>2, <1>3, <1>4 DEF Goes

(* The same of Append1.                                                      *)
LEMMA AppendTyped ==
  ASSUME NEW b \in Buffers, NEW group \in Seq(Items), NEW final \in BOOLEAN
  PROVE  LET r == Append1(b, group, final)
         IN Bears(b, r.buf) /\ r.out \in Seq(Digests) /\ r.buf.next = b.next + Len(r.out)
<1> DEFINE r == Append1(b, group, final)
<1>1. PICK c, o : Ready(b, c, o) /\ Goes(c, o, group, final, r)
  BY AppendCases
<1> HIDE DEF r
<1>2. Bears(b, c) /\ o \in Seq(Digests) /\ c.next = b.next + Len(o)
  BY <1>1, ReadyTyped
<1>3. c \in Buffers
  BY <1>2 DEF Bears
<1>a. Leaves(c, o, r)
  BY <1>1, <1>2, <1>3, CasesTyped, Zenon
<1>4. Bears(c, r.buf) /\ r.out \in Seq(Digests) /\ r.buf.next - Len(r.out) = c.next - Len(o)
  BY <1>a DEF Leaves
<1>5. r.buf \in Buffers
  BY <1>4 DEF Bears
<1>6. r.buf.next \in Nat /\ b.next \in Nat /\ Len(o) \in Nat /\ Len(r.out) \in Nat
  BY <1>2, <1>4, <1>5 DEF Buffers
<1>7. r.buf.next = b.next + Len(r.out)
  BY <1>2, <1>4, <1>6
<1>8. Bears(b, r.buf)
  BY <1>2, <1>4, BearsOn
<1> QED BY <1>4, <1>7, <1>8 DEF r

-----------------------------------------------------------------------------
(* All the items there are, each at its digest and place.                    *)
Part(bd, b, d) == IF d <= Len(bd) THEN bd[d].items ELSE b.items
Spots(bd, b) == {p \in Nat \X Nat : /\ p[1] \in 1..(Len(bd) + 1)
                                    /\ p[2] \in 1..Len(Part(bd, b, p[1]))}
Content(bd, b) == [p \in Spots(bd, b) |-> Part(bd, b, p[1])[p[2]]]

Before(p, q) == p[1] < q[1] \/ (p[1] = q[1] /\ p[2] < q[2])

(* All that was there still is, and behind it some of a group, in its order. *)
GrownBy(old, new, group, f) ==
  /\ DOMAIN f \subseteq 1..Len(group)
  /\ DOMAIN new = DOMAIN old \cup {f[k] : k \in DOMAIN f}
  /\ \A p \in DOMAIN old : new[p] = old[p]
  /\ \A k \in DOMAIN f : new[f[k]] = group[k] /\ \A p \in DOMAIN old : Before(p, f[k])
  /\ \A k, l \in DOMAIN f : k < l => Before(f[k], f[l])

(* Closing a digest moves nothing.                                           *)
LEMMA ContentClosed ==
  ASSUME NEW bd \in Seq(Digests), NEW b \in Buffers, NEW fit \in BOOLEAN, NEW final \in BOOLEAN
  PROVE  Content(bd \o Close(b, fit, final).out, Close(b, fit, final).buf) = Content(bd, b)
<1> DEFINE c == Close(b, fit, final).buf
           x == Closed(b, fit, final)
           n == Len(bd)
           bd2 == bd \o <<x>>
<1>1. /\ Close(b, fit, final).out = <<x>> /\ x \in Digests /\ c \in Buffers /\ c.items = <<>>
  BY ClosedTyped DEF Bears
<1>2. x.items = b.items
  BY DEF Closed
<1> HIDE DEF c, x
<1>3. /\ bd2 \in Seq(Digests) /\ Len(bd2) = n + 1 /\ n \in Nat
      /\ \A d \in 1..n : bd2[d] = bd[d]
      /\ bd2[n + 1] = x
  BY <1>1
<1> HIDE DEF bd2, n
<1>4. \A d \in 1..(n + 1) : Part(bd2, c, d) = Part(bd, b, d)
  <2> TAKE d \in 1..(n + 1)
  <2>1. CASE d \in 1..n
    BY <1>3, <2>1 DEF Part, n
  <2>2. CASE d = n + 1
    BY <1>2, <1>3, <2>2 DEF Part, n
  <2> QED BY <1>3, <2>1, <2>2
<1>5. \A d \in 1..(Len(bd2) + 1) : d \in 1..(n + 1) \/ Part(bd2, c, d) = <<>>
  BY <1>1, <1>3 DEF Part
<1>6. Spots(bd2, c) = Spots(bd, b)
  <2>1. ASSUME NEW p \in Spots(bd2, c) PROVE p \in Spots(bd, b)
    <3>1. p \in Nat \X Nat /\ p[1] \in 1..(Len(bd2) + 1) /\ p[2] \in 1..Len(Part(bd2, c, p[1]))
      BY DEF Spots
    <3>2. p[1] \in 1..(n + 1)
      <4>1. Len(<<>>) = 0
        OBVIOUS
      <4> QED BY <1>5, <3>1, <4>1
    <3> QED BY <1>4, <3>1, <3>2 DEF Spots, n
  <2>2. ASSUME NEW p \in Spots(bd, b) PROVE p \in Spots(bd2, c)
    <3>1. p \in Nat \X Nat /\ p[1] \in 1..(n + 1) /\ p[2] \in 1..Len(Part(bd, b, p[1]))
      BY DEF Spots, n
    <3> QED BY <1>3, <1>4, <3>1 DEF Spots
  <2> QED BY <2>1, <2>2
<1>7. \A p \in Spots(bd, b) : Part(bd2, c, p[1])[p[2]] = Part(bd, b, p[1])[p[2]]
  BY <1>4 DEF Spots, n
<1> QED BY <1>1, <1>6, <1>7 DEF Content, bd2, c

(* Items that go behind those of the open digest.                            *)
Behind(bd, c, kept, g) == [k \in kept |-> <<Len(bd) + 1, Len(c.items) + g[k]>>]

LEMMA ContentGrows ==
  ASSUME NEW bd \in Seq(Digests), NEW c \in Buffers, NEW d \in Buffers,
         NEW group \in Seq(Items), NEW added \in Seq(Items), d.items = c.items \o added,
         NEW kept, kept \subseteq 1..Len(group), NEW g, Placing(g, added, group, kept)
  PROVE  GrownBy(Content(bd, c), Content(bd, d), group, Behind(bd, c, kept, g))
<1> DEFINE n == Len(bd)
           m == Len(c.items)
           f == [k \in kept |-> <<n + 1, m + g[k]>>]
<1>1. /\ n \in Nat /\ m \in Nat /\ c.items \in Seq(Items) /\ Len(added) \in Nat
  BY DEF Buffers
<1>2. /\ Len(d.items) = m + Len(added)
      /\ \A j \in 1..m : d.items[j] = c.items[j]
      /\ \A j \in 1..Len(added) : d.items[m + j] = added[j]
  <2> DEFINE s == c.items
             t == s \o added
  <2>1. d.items = t /\ s \in Seq(Items) /\ m = Len(s)
    BY <1>1
  <2>2. /\ Len(t) = Len(s) + Len(added)
        /\ \A j \in 1..Len(s) : t[j] = s[j]
        /\ \A j \in 1..Len(added) : t[Len(s) + j] = added[j]
    <3> HIDE DEF s
    <3> QED BY <2>1, JoinedPlaces
  <2> HIDE DEF t
  <2> QED BY <2>1, <2>2
<1>3. /\ \A k \in kept : g[k] \in 1..Len(added) /\ added[g[k]] = group[k]
      /\ \A k, l \in kept : k < l => g[k] < g[l]
      /\ \A j \in 1..Len(added) : \E k \in kept : g[k] = j
  BY DEF Placing
<1> HIDE DEF m, n
<1>4. /\ \A i \in 1..n : Part(bd, c, i) = Part(bd, d, i)
      /\ Part(bd, c, n + 1) = c.items /\ Part(bd, d, n + 1) = d.items
  BY <1>1 DEF Part, n
<1>5. ASSUME NEW p \in Spots(bd, c)
      PROVE  /\ p \in Spots(bd, d) /\ Part(bd, d, p[1])[p[2]] = Part(bd, c, p[1])[p[2]]
             /\ p[1] \in 1..(n + 1) /\ p[2] \in Nat /\ (p[1] = n + 1 => p[2] <= m)
  <2>1. /\ p \in Nat \X Nat /\ p[1] \in 1..(n + 1) /\ p[2] \in 1..Len(Part(bd, c, p[1]))
    BY DEF Spots, n
  <2>2. CASE p[1] \in 1..n
    BY <1>1, <1>4, <2>1, <2>2 DEF Spots, n
  <2>3. CASE p[1] = n + 1
    <3>1. p[2] \in 1..m
      BY <1>4, <2>1, <2>3 DEF m
    <3>2. p[2] \in 1..Len(d.items) /\ d.items[p[2]] = c.items[p[2]]
      BY <1>1, <1>2, <3>1
    <3> QED BY <1>1, <1>4, <2>1, <2>3, <3>1, <3>2 DEF Spots, n
  <2>4. p[1] \in 1..n \/ p[1] = n + 1
    <3> DEFINE i == p[1]
    <3>1. i \in 1..(n + 1)
      BY <2>1
    <3> HIDE DEF i
    <3>2. i \in 1..n \/ i = n + 1
      BY <1>1, <3>1
    <3> QED BY <3>2 DEF i
  <2> QED BY <2>2, <2>3, <2>4
<1>6. ASSUME NEW k \in kept
      PROVE  /\ f[k] \in Spots(bd, d) /\ Part(bd, d, f[k][1])[f[k][2]] = group[k]
             /\ f[k][1] = n + 1 /\ f[k][2] = m + g[k]
  <2>1. f[k] = <<n + 1, m + g[k]>> /\ g[k] \in 1..Len(added) /\ added[g[k]] = group[k]
    BY <1>3
  <2> HIDE DEF f
  <2> DEFINE j == g[k]
             q == f[k]
  <2>2. q = <<n + 1, m + j>> /\ j \in 1..Len(added) /\ added[j] = group[k]
    BY <2>1
  <2> HIDE DEF j, q
  <2>3. m + j \in 1..Len(d.items) /\ d.items[m + j] = group[k]
    <3> DEFINE a == Len(added)
    <3>1. a \in Nat /\ j \in 1..a /\ Len(d.items) = m + a
      BY <1>1, <1>2, <2>2
    <3>2. d.items[m + j] = added[j]
      BY <1>2, <2>2, Zenon
    <3> HIDE DEF a
    <3>3. m + j \in 1..(m + a)
      BY <1>1, <3>1
    <3> QED BY <2>2, <3>1, <3>2, <3>3
  <2>4. q \in Nat \X Nat /\ q[1] = n + 1 /\ q[2] = m + j
    BY <1>1, <2>2
  <2>5. n + 1 \in 1..(n + 1)
    BY <1>1
  <2>6. q[2] \in 1..Len(Part(bd, d, q[1])) /\ Part(bd, d, q[1])[q[2]] = group[k]
    BY <1>4, <2>3, <2>4
  <2>7. q \in Spots(bd, d)
    BY <2>4, <2>5, <2>6 DEF Spots, n
  <2> QED BY <2>4, <2>6, <2>7 DEF q, j
<1>7. ASSUME NEW p \in Spots(bd, d), p \notin Spots(bd, c)
      PROVE  \E k \in kept : p = f[k]
  <2>1. /\ p \in Nat \X Nat /\ p[1] \in 1..(n + 1) /\ p[2] \in 1..Len(Part(bd, d, p[1]))
    BY DEF Spots, n
  <2>2. p[1] = n + 1
    <3>1. ~(p[1] \in 1..n)
      BY <1>1, <1>4, <1>7, <2>1 DEF Spots, n
    <3> DEFINE i == p[1]
    <3>2. i \in 1..(n + 1) /\ ~(i \in 1..n)
      BY <2>1, <3>1
    <3> HIDE DEF i
    <3>3. i = n + 1
      BY <1>1, <3>2
    <3> QED BY <3>3 DEF i
  <2>3. p[2] \in 1..Len(d.items) /\ ~(p[2] \in 1..m)
    BY <1>1, <1>4, <1>7, <2>1, <2>2 DEF Spots, n, m
  <2>4. p[2] - m \in 1..Len(added)
    BY <1>1, <1>2, <2>3
  <2>5. PICK k \in kept : g[k] = p[2] - m
    BY <1>3, <2>4
  <2>6. p = <<p[1], p[2]>> /\ m + g[k] = p[2]
    BY <1>1, <2>1, <2>5
  <2> QED BY <2>2, <2>6
<1> DEFINE old == Content(bd, c)
           new == Content(bd, d)
<1>8. DOMAIN old = Spots(bd, c) /\ DOMAIN new = Spots(bd, d) /\ DOMAIN f = kept
  BY DEF Content
<1>9. /\ \A p \in Spots(bd, c) : old[p] = Part(bd, c, p[1])[p[2]]
      /\ \A p \in Spots(bd, d) : new[p] = Part(bd, d, p[1])[p[2]]
  BY DEF Content
<1> HIDE DEF f, old, new
<1>10. DOMAIN new = DOMAIN old \cup {f[k] : k \in DOMAIN f}
  <2>1. DOMAIN old \subseteq DOMAIN new
    BY <1>5, <1>8
  <2>2. \A k \in DOMAIN f : f[k] \in DOMAIN new
    BY <1>6, <1>8
  <2>3. \A p \in DOMAIN new : p \in DOMAIN old \/ \E k \in DOMAIN f : p = f[k]
    BY <1>7, <1>8
  <2> QED BY <2>1, <2>2, <2>3
<1>11. \A p \in DOMAIN old : new[p] = old[p]
  BY <1>5, <1>8, <1>9
<1>12. ASSUME NEW k \in DOMAIN f
       PROVE  new[f[k]] = group[k] /\ \A p \in DOMAIN old : Before(p, f[k])
  <2>1. new[f[k]] = group[k]
    BY <1>6, <1>8, <1>9
  <2>2. ASSUME NEW p \in DOMAIN old PROVE Before(p, f[k])
    <3>1. p[1] \in 1..(n + 1) /\ p[2] \in Nat /\ (p[1] = n + 1 => p[2] <= m)
      BY <1>5, <1>8
    <3>2. f[k][1] = n + 1 /\ f[k][2] = m + g[k] /\ g[k] \in 1..Len(added)
      BY <1>3, <1>6, <1>8
    <3> QED BY <1>1, <3>1, <3>2 DEF Before
  <2> QED BY <2>1, <2>2
<1>13. ASSUME NEW k \in DOMAIN f, NEW l \in DOMAIN f, k < l PROVE Before(f[k], f[l])
  <2>1. /\ f[k][1] = n + 1 /\ f[k][2] = m + g[k] /\ g[k] \in 1..Len(added)
        /\ f[l][1] = n + 1 /\ f[l][2] = m + g[l] /\ g[l] \in 1..Len(added)
        /\ g[k] < g[l]
    BY <1>3, <1>6, <1>8, <1>13
  <2> QED BY <1>1, <2>1 DEF Before
<1>14. GrownBy(old, new, group, f)
  BY <1>8, <1>10, <1>11, <1>12, <1>13 DEF GrownBy
<1> QED BY <1>14 DEF old, new, f, m, n, Behind

(* A whole group.                                                            *)
GrownWhole(old, new, group) == \E f : GrownBy(old, new, group, f) /\ DOMAIN f = 1..Len(group)

LEMMA ContentWhole ==
  ASSUME NEW bd \in Seq(Digests), NEW c \in Buffers, NEW d \in Buffers,
         NEW group \in Seq(Items), d.items = c.items \o group
  PROVE  GrownWhole(Content(bd, c), Content(bd, d), group)
<1> DEFINE kept == 1..Len(group)
           g == [k \in kept |-> k]
           f == [k \in kept |-> <<Len(bd) + 1, Len(c.items) + g[k]>>]
<1>1. Placing(g, group, group, kept)
  <2>1. Len(group) \in Nat
    OBVIOUS
  <2> QED BY <2>1 DEF Placing
<1> HIDE DEF g
<1>2. kept \subseteq 1..Len(group)
  OBVIOUS
<1>3. DOMAIN f = kept
  OBVIOUS
<1> HIDE DEF kept
<1>4. GrownBy(Content(bd, c), Content(bd, d), group, f)
  BY <1>1, <1>2, ContentGrows, Zenon DEF Behind
<1> HIDE DEF f
<1> QED BY <1>3, <1>4 DEF kept, GrownWhole

(* What the digests hold behind Append1: what they held, and behind it what  *)
(* the group was not cut down by, all it owes included.                      *)
LEMMA AppendGrows ==
  ASSUME NEW bd \in Seq(Digests), NEW b \in Buffers, NEW group \in Seq(Items),
         NEW final \in BOOLEAN
  PROVE  LET r == Append1(b, group, final)
         IN \E f : /\ GrownBy(Content(bd, b), Content(bd \o r.out, r.buf), group, f)
                   /\ Owed(group, b.open) \subseteq DOMAIN f
<1> DEFINE r == Append1(b, group, final)
<1>1. PICK c, o : Ready(b, c, o) /\ Goes(c, o, group, final, r)
  BY AppendCases
<1> HIDE DEF r
<1>2. Bears(b, c) /\ o \in Seq(Digests)
  BY <1>1, ReadyTyped
<1>3. c \in Buffers /\ c.open = b.open
  BY <1>2 DEF Bears
<1>4. Leaves(c, o, r)
  BY <1>1, <1>2, <1>3, CasesTyped, Zenon
<1>5. r.buf \in Buffers
  BY <1>4 DEF Leaves, Bears
<1>6. bd \o o \in Seq(Digests)
  BY <1>2
<1>7. Content(bd \o o, c) = Content(bd, b)
  <2>1. CASE c = b /\ o = <<>>
    <3>1. bd \o <<>> = bd
      OBVIOUS
    <3> QED BY <2>1, <3>1
  <2>2. CASE c = Close(b, TRUE, FALSE).buf /\ o = Close(b, TRUE, FALSE).out
    BY <2>2, ContentClosed
  <2> QED BY <1>1, <2>1, <2>2 DEF Ready
<1>8. Owed(group, b.open) \subseteq 1..Len(group)
  BY DEF Owed
<1>9. CASE Whole(c, o, group, final, r)
  <2>1. r.buf.items = c.items \o group /\ r.out = o
    BY <1>3, <1>9 DEF Whole, Buffers
  <2>2. PICK f : /\ GrownBy(Content(bd \o o, c), Content(bd \o o, r.buf), group, f)
                 /\ DOMAIN f = 1..Len(group)
    <3> DEFINE d == r.buf
               bo == bd \o o
    <3>1. d \in Buffers /\ d.items = c.items \o group /\ bo \in Seq(Digests)
      BY <1>5, <1>6, <2>1
    <3> HIDE DEF d, bo
    <3>2. GrownWhole(Content(bo, c), Content(bo, d), group)
      BY <1>3, <3>1, ContentWhole, Zenon
    <3> QED BY <3>2 DEF d, bo, GrownWhole
  <2> QED BY <1>7, <1>8, <2>1, <2>2 DEF r
<1>10. CASE Cut(c, o, group, final, r)
  <2>1. /\ c.items = <<>> /\ r.out = o
        /\ \E dropped : /\ dropped \cap Owed(group, c.open) = {}
                        /\ r.buf = [c EXCEPT !.items = Without(group, dropped),
                                             !.truncated = TRUE]
    BY <1>10 DEF Cut
  <2>2. PICK dropped : /\ dropped \cap Owed(group, c.open) = {}
                       /\ r.buf = [c EXCEPT !.items = Without(group, dropped),
                                            !.truncated = TRUE]
    BY <2>1
  <2> DEFINE added == Without(group, dropped)
             kept == (DOMAIN group \ dropped) \cap 1..Len(group)
  <2>3. added \in Seq(Items) /\ \E g : Placing(g, added, group, kept)
    BY WherePlaces DEF Without
  <2>4. r.buf.items = added
    BY <1>3, <2>2 DEF Buffers
  <2>5. kept \subseteq 1..Len(group) /\ Owed(group, b.open) \subseteq kept
    BY <1>3, <1>8, <2>2
  <2> HIDE DEF added, kept
  <2>6. PICK g : Placing(g, added, group, kept)
    BY <2>3
  <2>7. c.items \o added = added
    BY <2>1, <2>3
  <2> DEFINE f == [k \in kept |-> <<Len(bd \o o) + 1, Len(c.items) + g[k]>>]
  <2>8. GrownBy(Content(bd \o o, c), Content(bd \o o, r.buf), group, f)
    <3> DEFINE bo == bd \o o
               d == r.buf
    <3>1. bo \in Seq(Digests) /\ d \in Buffers /\ d.items = c.items \o added
      BY <1>5, <1>6, <2>4, <2>7
    <3>2. kept \subseteq 1..Len(group) /\ added \in Seq(Items)
      BY <2>3, <2>5
    <3> HIDE DEF bo, d
    <3>3. GrownBy(Content(bo, c), Content(bo, d), group, Behind(bo, c, kept, g))
      BY <1>3, <2>6, <3>1, <3>2, ContentGrows, Zenon
    <3> QED BY <3>3 DEF bo, d, Behind
  <2>9. DOMAIN f = kept
    OBVIOUS
  <2> HIDE DEF f
  <2> QED BY <1>7, <2>1, <2>5, <2>8, <2>9 DEF r
<1>11. CASE Refused(c, o, group, r)
  <2> DEFINE d == [c EXCEPT !.items = group]
             e == Close(d, FALSE, FALSE)
  <2>1. d \in Buffers /\ d.items = group
    BY <1>3 DEF Buffers
  <2>2. c.items = <<>> /\ r.buf = e.buf /\ r.out = o \o e.out
    BY <1>11 DEF Refused
  <2> HIDE DEF d
  <2>3. d.items = c.items \o group
    BY <2>1, <2>2
  <2>4. PICK f : /\ GrownBy(Content(bd \o o, c), Content(bd \o o, d), group, f)
                 /\ DOMAIN f = 1..Len(group)
    <3> DEFINE bo == bd \o o
    <3>1. bo \in Seq(Digests)
      BY <1>6
    <3> HIDE DEF bo
    <3>2. GrownWhole(Content(bo, c), Content(bo, d), group)
      BY <1>3, <2>1, <2>3, <3>1, ContentWhole, Zenon
    <3> QED BY <3>2 DEF bo, GrownWhole
  <2>5. Content((bd \o o) \o e.out, e.buf) = Content(bd \o o, d)
    BY <1>6, <2>1, ContentClosed
  <2>6. (bd \o o) \o e.out = bd \o r.out
    <3>1. e.out \in Seq(Digests)
      <4> DEFINE x == Closed(d, FALSE, FALSE)
      <4>1. e.out = <<x>> /\ x \in Digests
        BY <2>1, ClosedTyped
      <4> HIDE DEF x, e
      <4> QED BY <4>1
    <3> DEFINE t == e.out
    <3>2. t \in Seq(Digests) /\ r.out = o \o t
      BY <2>2, <3>1
    <3> HIDE DEF t
    <3>3. bd \in Seq(Digests) /\ o \in Seq(Digests) /\ t \in Seq(Digests)
      BY <1>2, <3>2
    <3>4. (bd \o o) \o t = bd \o (o \o t)
      BY <3>3, ConcatAssociative
    <3> QED BY <3>2, <3>4 DEF t
  <2> QED BY <1>7, <1>8, <2>2, <2>4, <2>5, <2>6 DEF r
<1> QED BY <1>1, <1>9, <1>10, <1>11 DEF Goes

-----------------------------------------------------------------------------
(* What the operations put into the digests.                                 *)

(* The calls a correction is resolved by are the last it waited for.         *)
LEMMA ResolvedPlaces ==
  ASSUME NEW c \in Requests
  PROVE  /\ ResolvedBy(c) \in Seq(Nat)
         /\ ToSet(ResolvedBy(c)) =
              {c.pending[i] : i \in {j \in 1..Len(c.pending) : j > Len(c.pending) - MaxResolvedBy}}
<1> DEFINE s == c.pending
           n == Len(s)
           a == IF n > MaxResolvedBy THEN n - MaxResolvedBy + 1 ELSE 1
           w == SubSeq(s, a, n)
<1>1. s \in Seq(Nat) /\ n \in Nat /\ MaxResolvedBy \in Nat
  BY BufferAssumption DEF Requests
<1>2. a \in Nat /\ a >= 1 /\ a <= n + 1
  BY <1>1
<1>3. \A j \in 1..n : j > n - MaxResolvedBy <=> j >= a
  BY <1>1
<1> HIDE DEF a, n
<1>4. w \in Seq(Nat) /\ Len(w) = n - a + 1 /\ \A i \in 1..(n - a + 1) : w[i] = s[a + i - 1]
  <2> HIDE DEF s
  <2>1. n = Len(s)
    BY DEF n
  <2> QED BY <1>1, <1>2, <2>1
<1>5. ResolvedBy(c) = w
  BY DEF ResolvedBy, a, n
<1> HIDE DEF w, s
<1>6. DOMAIN w = 1..(n - a + 1)
  BY <1>4
<1>7. ASSUME NEW x \in ToSet(w) PROVE \E j \in 1..n : j > n - MaxResolvedBy /\ s[j] = x
  <2>1. PICK i \in 1..(n - a + 1) : w[i] = x
    BY <1>6, <1>7 DEF ToSet
  <2>2. a + i - 1 \in 1..n /\ a + i - 1 >= a /\ s[a + i - 1] = x
    BY <1>1, <1>2, <1>4, <2>1
  <2> QED BY <1>3, <2>2
<1>8. ASSUME NEW j \in 1..n, j > n - MaxResolvedBy PROVE s[j] \in ToSet(w)
  <2>1. j >= a
    BY <1>3, <1>8
  <2>2. j - a + 1 \in 1..(n - a + 1) /\ a + (j - a + 1) - 1 = j
    BY <1>1, <1>2, <2>1
  <2>3. w[j - a + 1] = s[j]
    BY <1>4, <2>2
  <2> QED BY <1>6, <2>2, <2>3 DEF ToSet
<1>9. ToSet(w) = {s[i] : i \in {j \in 1..n : j > n - MaxResolvedBy}}
  BY <1>7, <1>8
<1> QED BY <1>4, <1>5, <1>9 DEF s, n

(* One more to wait for is named as well, or instead of an earlier one.      *)
LEMMA ResolvedByOneMore ==
  ASSUME NEW c \in Requests, NEW id \in Nat
  PROVE  /\ [c EXCEPT !.pending = Append(@, id)] \in Requests
         /\ ToSet(ResolvedBy([c EXCEPT !.pending = Append(@, id)]))
              \subseteq ToSet(ResolvedBy(c)) \cup {id}
<1> DEFINE d == [c EXCEPT !.pending = Append(@, id)]
           n == Len(c.pending)
<1>1. c.pending \in Seq(Nat) /\ n \in Nat /\ MaxResolvedBy \in Nat
  BY BufferAssumption DEF Requests
<1>2. d \in Requests /\ d.pending = Append(c.pending, id)
  <2>1. Append(c.pending, id) \in Seq(Nat)
    BY <1>1
  <2> QED BY <2>1 DEF Requests
<1> HIDE DEF d
<1>3. /\ Len(d.pending) = n + 1 /\ d.pending[n + 1] = id
      /\ \A i \in 1..n : d.pending[i] = c.pending[i]
  BY <1>1, <1>2
<1> HIDE DEF n
<1>4. ASSUME NEW x \in ToSet(ResolvedBy(d)) PROVE x \in ToSet(ResolvedBy(c)) \cup {id}
  <2>1. PICK i \in 1..(n + 1) : i > n + 1 - MaxResolvedBy /\ d.pending[i] = x
    <3> DEFINE t == d.pending
               m == MaxResolvedBy
    <3>1. ToSet(ResolvedBy(d)) = {t[i] : i \in {j \in 1..Len(t) : j > Len(t) - m}}
      BY <1>2, ResolvedPlaces
    <3>2. Len(t) = n + 1 /\ m \in Nat /\ n \in Nat
      BY <1>1, <1>3
    <3> HIDE DEF t, m
    <3>3. PICK i \in 1..Len(t) : i > Len(t) - m /\ t[i] = x
      BY <1>4, <3>1
    <3>4. i \in 1..(n + 1) /\ i > n + 1 - m /\ t[i] = x
      BY <3>2, <3>3
    <3> QED BY <3>4 DEF t, m
  <2>2. CASE i = n + 1
    BY <1>3, <2>1, <2>2
  <2>3. CASE i \in 1..n
    <3>1. i > n - MaxResolvedBy /\ c.pending[i] = x
      BY <1>1, <1>3, <2>1, <2>3
    <3> QED BY <2>3, <3>1, ResolvedPlaces DEF n
  <2> QED BY <1>1, <2>1, <2>2, <2>3
<1> QED BY <1>2, <1>4 DEF d

(* The open corrections, waiting for one more.                               *)
LEMMA WaitForTyped ==
  ASSUME NEW open \in Seq(Requests), NEW id \in Nat, NEW posted
  PROVE  /\ WaitFor(open, id, posted) \in Seq(Requests)
         /\ Len(WaitFor(open, id, posted)) = Len(open)
         /\ \A i \in 1..Len(open) :
              WaitFor(open, id, posted)[i] =
                IF posted THEN [open[i] EXCEPT !.pending = Append(@, id)] ELSE open[i]
<1>1. \A i \in 1..Len(open) : [open[i] EXCEPT !.pending = Append(@, id)] \in Requests
  <2> TAKE i \in 1..Len(open)
  <2>1. open[i] \in Requests
    OBVIOUS
  <2> QED BY <2>1, ResolvedByOneMore
<1> DEFINE w == [i \in 1..Len(open) |-> [open[i] EXCEPT !.pending = Append(@, id)]]
<1>2. Len(open) \in Nat
  OBVIOUS
<1>3. w \in Seq(Requests) /\ Len(w) = Len(open)
  BY <1>1, <1>2
<1>4. WaitFor(open, id, posted) = IF posted THEN w ELSE open
  BY DEF WaitFor
<1>5. \A i \in 1..Len(open) : w[i] = [open[i] EXCEPT !.pending = Append(@, id)]
  OBVIOUS
<1> HIDE DEF w
<1> QED BY <1>3, <1>4, <1>5

(* What is said of the open ones.                                            *)
LEMMA CorrectionItemsTyped ==
  ASSUME NEW open \in Seq(Requests), NEW resolved \in BOOLEAN
  PROVE  /\ CorrectionItems(open, resolved) \in Seq(Items)
         /\ Len(CorrectionItems(open, resolved)) = Len(open)
         /\ \A i \in 1..Len(open) :
              CorrectionItems(open, resolved)[i] = CorrectionItem(open[i], resolved)
<1>1. ASSUME NEW i \in 1..Len(open) PROVE CorrectionItem(open[i], resolved) \in Items
  <2>1. open[i] \in Requests
    OBVIOUS
  <2> DEFINE c == open[i]
  <2> HIDE DEF c
  <2>2. c \in Requests /\ ResolvedBy(c) \in Seq(Nat) /\ c.id \in Nat /\ c.size \in Nat
    BY <2>1, ResolvedPlaces DEF Requests, c
  <2>3. (IF resolved THEN ResolvedBy(c) ELSE <<>>) \in Seq(Nat)
    BY <2>2
  <2>4. CorrectionItem(c, resolved) \in Corrections
    <3> DEFINE by == IF resolved THEN ResolvedBy(c) ELSE <<>>
    <3> HIDE DEF by
    <3>1. CorrectionItem(c, resolved) = [kind |-> "correction", id |-> c.id, size |-> c.size,
                                         resolved |-> resolved, by |-> by]
      BY DEF CorrectionItem, by
    <3> QED BY <2>2, <2>3, <3>1 DEF Corrections, by
  <2> QED BY <2>4 DEF c, Items
<1>2. Len(open) \in Nat
  OBVIOUS
<1> QED BY <1>1, <1>2 DEF CorrectionItems

(* The item of a correction is of it.                                        *)
LEMMA CorrectionItemOf ==
  \A c, resolved : /\ CorrectionItem(c, resolved).kind = "correction"
                   /\ CorrectionItem(c, resolved).id = c.id
                   /\ CorrectionItem(c, resolved).resolved = resolved
                   /\ CorrectionItem(c, resolved).by = IF resolved THEN ResolvedBy(c) ELSE <<>>
BY DEF CorrectionItem

(* What an operation came to: the digests hold a group more, and the open    *)
(* corrections are these.                                                    *)
Does(bd, b, r, group, open) ==
  /\ r.buf \in Buffers /\ r.out \in Seq(Digests) /\ r.buf.next = b.next + Len(r.out)
  /\ r.buf.open = open /\ group \in Seq(Items)
  /\ \E f : /\ GrownBy(Content(bd, b), Content(bd \o r.out, r.buf), group, f)
            /\ Owed(group, open) \subseteq DOMAIN f

(* The contents are a matter of the items.                                   *)
LEMMA ContentOfItems ==
  ASSUME NEW bd, NEW b, NEW c, b.items = c.items
  PROVE  Content(bd, b) = Content(bd, c)
<1>1. \A d : Part(bd, b, d) = Part(bd, c, d)
  BY DEF Part
<1>2. Spots(bd, b) = Spots(bd, c)
  BY <1>1 DEF Spots
<1> QED BY <1>1, <1>2 DEF Content

(* A buffer that is finished, or waits for others.                           *)
LEMMA OpenReplaced ==
  ASSUME NEW b \in Buffers, NEW open \in Seq(Requests), NEW finished \in BOOLEAN
  PROVE  LET c == [b EXCEPT !.finished = finished, !.open = open]
         IN /\ c \in Buffers /\ c.items = b.items /\ c.next = b.next /\ c.open = open
            /\ c.truncated = b.truncated /\ c.message = b.message /\ c.finished = finished
BY DEF Buffers

(* Append1, on a buffer with the same items.                                 *)
LEMMA AppendDoes ==
  ASSUME NEW bd \in Seq(Digests), NEW b \in Buffers, NEW c \in Buffers,
         c.items = b.items, c.next = b.next,
         NEW group \in Seq(Items), NEW final \in BOOLEAN
  PROVE  /\ Does(bd, b, Append1(c, group, final), group, c.open)
         /\ Bears(c, Append1(c, group, final).buf)
<1> DEFINE r == Append1(c, group, final)
<1>1. Bears(c, r.buf) /\ r.out \in Seq(Digests) /\ r.buf.next = c.next + Len(r.out)
  BY AppendTyped
<1>2. \E f : /\ GrownBy(Content(bd, c), Content(bd \o r.out, r.buf), group, f)
             /\ Owed(group, c.open) \subseteq DOMAIN f
  BY AppendGrows
<1>3. Content(bd, c) = Content(bd, b)
  BY ContentOfItems
<1> HIDE DEF r
<1>4. Does(bd, b, r, group, c.open)
  BY <1>1, <1>2, <1>3 DEF Does, Bears
<1> QED BY <1>1, <1>4 DEF r

CallItems(id, posted, size) ==
  IF posted THEN << [kind |-> "tool_call", id |-> id, size |-> 1],
                    [kind |-> "tool_result", id |-> id, size |-> size] >>
            ELSE <<>>
CallGroup(b, id, posted, size, resolving) ==
  IF resolving THEN CallItems(id, posted, size) \o CorrectionItems(b.open, TRUE)
               ELSE CallItems(id, posted, size)
CallOpen(b, id, posted, resolving) ==
  IF resolving THEN <<>> ELSE WaitFor(b.open, id, posted)

(* The items of a call.                                                      *)
LEMMA CallItemsTyped ==
  ASSUME NEW id \in Nat, NEW posted \in BOOLEAN, NEW size \in Nat
  PROVE  /\ CallItems(id, posted, size) \in Seq(Items)
         /\ Len(CallItems(id, posted, size)) = IF posted THEN 2 ELSE 0
<1> DEFINE x == [kind |-> "tool_call", id |-> id, size |-> 1]
           y == [kind |-> "tool_result", id |-> id, size |-> size]
<1>1. x \in Items /\ y \in Items
  BY DEF Items, Tools
<1> HIDE DEF x, y
<1>2. <<x, y>> \in Seq(Items) /\ Len(<<x, y>>) = 2
  BY <1>1
<1>3. <<>> \in Seq(Items) /\ Len(<<>>) = 0
  OBVIOUS
<1>4. CallItems(id, posted, size) = IF posted THEN <<x, y>> ELSE <<>>
  BY DEF CallItems, x, y
<1> QED BY <1>2, <1>3, <1>4

(* A call.                                                                   *)
LEMMA CallDoes ==
  ASSUME NEW bd \in Seq(Digests), NEW b \in Buffers, ~b.finished, NEW id \in Nat,
         NEW posted \in BOOLEAN, NEW size \in Nat, NEW resolving \in BOOLEAN
  PROVE  LET r == Call(b, id, posted, size, resolving)
         IN /\ Does(bd, b, r, CallGroup(b, id, posted, size, resolving),
                    CallOpen(b, id, posted, resolving))
            /\ ~r.buf.finished
<1> DEFINE r == Call(b, id, posted, size, resolving)
           group == CallGroup(b, id, posted, size, resolving)
           open == CallOpen(b, id, posted, resolving)
           c == [b EXCEPT !.open = open]
<1>1. r = Append1(c, group, FALSE)
  BY DEF Call, CallGroup, CallOpen, CallItems
<1>2. b.open \in Seq(Requests)
  BY DEF Buffers
<1>3. open \in Seq(Requests)
  BY <1>2, WaitForTyped DEF CallOpen
<1>4. group \in Seq(Items)
  <2> DEFINE s == CallItems(id, posted, size)
             t == CorrectionItems(b.open, TRUE)
  <2>1. s \in Seq(Items) /\ t \in Seq(Items)
    BY <1>2, CallItemsTyped, CorrectionItemsTyped
  <2> HIDE DEF s, t
  <2>2. s \o t \in Seq(Items)
    BY <2>1
  <2> QED BY <2>1, <2>2 DEF CallGroup, s, t
<1> HIDE DEF r, group, open
<1>5. c \in Buffers /\ c.items = b.items /\ c.next = b.next /\ c.open = open /\ ~c.finished
  BY <1>3 DEF Buffers
<1> HIDE DEF c
<1>6. Does(bd, b, r, group, c.open) /\ Bears(c, r.buf)
  BY <1>1, <1>4, <1>5, AppendDoes
<1>7. ~r.buf.finished
  BY <1>5, <1>6 DEF Bears
<1> QED BY <1>5, <1>6, <1>7 DEF r, group, open

TurnTexts(sizes) == [i \in 1..Len(sizes) |-> [kind |-> "text", id |-> 0, size |-> sizes[i]]]

(* The texts of a turn.                                                      *)
LEMMA TurnTextsTyped ==
  ASSUME NEW sizes \in Seq(Nat)
  PROVE  /\ TurnTexts(sizes) \in Seq(Items) /\ Len(TurnTexts(sizes)) = Len(sizes)
         /\ \A i \in 1..Len(sizes) : /\ TurnTexts(sizes)[i].kind = "text"
                                     /\ TurnTexts(sizes)[i].id = 0
<1>1. Len(sizes) \in Nat
  OBVIOUS
<1>2. ASSUME NEW i \in 1..Len(sizes)
      PROVE  [kind |-> "text", id |-> 0, size |-> sizes[i]] \in Items
  <2>1. sizes[i] \in Nat
    OBVIOUS
  <2> QED BY <2>1 DEF Items, Texts
<1> QED BY <1>1, <1>2 DEF TurnTexts

(* A digest that was closed before an operation is one more it closes.       *)
LEMMA DoesBehind ==
  ASSUME NEW bd \in Seq(Digests), NEW b \in Buffers, NEW fit \in BOOLEAN, NEW r, NEW q,
         NEW group, NEW open, NEW final \in BOOLEAN,
         Does(bd \o Close(b, fit, final).out, Close(b, fit, final).buf, r, group, open),
         q.buf = r.buf, q.out = Close(b, fit, final).out \o r.out
  PROVE  Does(bd, b, q, group, open)
<1> DEFINE c == Close(b, fit, final)
           x == Closed(b, fit, final)
<1>1. c.out = <<x>> /\ x \in Digests /\ c.buf.next = b.next + 1 /\ b.next \in Nat
  BY ClosedTyped DEF Buffers
<1>2. Content(bd \o c.out, c.buf) = Content(bd, b)
  BY ContentClosed
<1> HIDE DEF c, x
<1>3. c.out \in Seq(Digests) /\ Len(c.out) = 1
  BY <1>1
<1> DEFINE o == c.out
           t == r.out
<1>4. Does(bd \o o, c.buf, r, group, open) /\ q.buf = r.buf /\ q.out = o \o t
  BY DEF c
<1>5. r.buf \in Buffers /\ t \in Seq(Digests) /\ r.buf.next = c.buf.next + Len(t)
      /\ r.buf.open = open /\ group \in Seq(Items)
  BY <1>4 DEF Does
<1>6. \E f : /\ GrownBy(Content(bd \o o, c.buf), Content((bd \o o) \o t, r.buf), group, f)
             /\ Owed(group, open) \subseteq DOMAIN f
  BY <1>4 DEF Does
<1> HIDE DEF o, t
<1>7. (bd \o o) \o t = bd \o (o \o t) /\ o \o t \in Seq(Digests) /\ Len(o \o t) = 1 + Len(t)
  <2>1. o \in Seq(Digests) /\ Len(o) = 1 /\ t \in Seq(Digests)
    BY <1>3, <1>5 DEF o
  <2>2. (bd \o o) \o t = bd \o (o \o t)
    BY <2>1, ConcatAssociative
  <2>3. o \o t \in Seq(Digests) /\ Len(o \o t) = 1 + Len(t)
    <3>1. Len(o \o t) = Len(o) + Len(t)
      BY <2>1, ConcatProperties
    <3>2. o \o t \in Seq(Digests)
      BY <2>1, ConcatProperties
    <3> QED BY <2>1, <3>1, <3>2
  <2> QED BY <2>2, <2>3
<1>8. q.buf.next = b.next + Len(q.out)
  BY <1>1, <1>4, <1>5, <1>7
<1>9. \E f : /\ GrownBy(Content(bd, b), Content(bd \o q.out, q.buf), group, f)
             /\ Owed(group, open) \subseteq DOMAIN f
  BY <1>2, <1>4, <1>6, <1>7 DEF o
<1> QED BY <1>4, <1>5, <1>7, <1>8, <1>9 DEF Does

(* A turn.                                                                   *)
LEMMA TurnDoes ==
  ASSUME NEW bd \in Seq(Digests), NEW b \in Buffers, ~b.finished, NEW sizes \in Seq(Nat),
         NEW spoke \in BOOLEAN, NEW passed \in BOOLEAN
  PROVE  LET r == Turn(b, sizes, spoke, passed)
         IN Does(bd, b, r, TurnTexts(sizes), b.open) /\ ~r.buf.finished
<1> DEFINE r == Turn(b, sizes, spoke, passed)
           closed == IF passed /\ b.items # <<>> THEN Close(b, TRUE, FALSE)
                     ELSE [buf |-> b, out |-> <<>>]
           c == [closed.buf EXCEPT !.message = @ \/ spoke]
           texts == TurnTexts(sizes)
           added == Append1(c, texts, FALSE)
<1>1. r.buf = added.buf /\ r.out = closed.out \o added.out
  BY DEF Turn, TurnTexts
<1>2. texts \in Seq(Items)
  BY TurnTextsTyped
<1> HIDE DEF r, texts
<1>3. CASE passed /\ b.items # <<>>
  <2> DEFINE d == Close(b, TRUE, FALSE)
             bo == bd \o d.out
  <2>1. closed = d
    BY <1>3
  <2>2. Bears(b, d.buf) /\ bo \in Seq(Digests)
    <3> DEFINE x == Closed(b, TRUE, FALSE)
    <3>1. Bears(b, d.buf) /\ d.out = <<x>> /\ x \in Digests
      BY ClosedTyped
    <3> HIDE DEF x, d
    <3> QED BY <3>1
  <2> DEFINE db == d.buf
  <2>3. db \in Buffers /\ db.open = b.open /\ ~db.finished
    BY <2>2 DEF Bears
  <2>4. c = [db EXCEPT !.message = @ \/ spoke]
    BY <2>1
  <2> HIDE DEF bo, closed, c, db
  <2>5. c \in Buffers /\ c.items = db.items /\ c.next = db.next /\ c.open = b.open /\ ~c.finished
    BY <2>3, <2>4 DEF Buffers
  <2>6. Does(bo, db, added, texts, c.open) /\ Bears(c, added.buf)
    BY <1>2, <2>2, <2>3, <2>5, AppendDoes
  <2> HIDE DEF added
  <2>7. Does(bd \o d.out, d.buf, added, texts, b.open)
    BY <2>5, <2>6 DEF bo, db
  <2>8. r.buf = added.buf /\ r.out = d.out \o added.out
    BY <1>1, <2>1 DEF added
  <2>9. Does(bd, b, r, texts, b.open)
    BY <2>7, <2>8, DoesBehind
  <2>10. ~r.buf.finished
    BY <2>5, <2>6, <2>8 DEF Bears
  <2> QED BY <2>9, <2>10 DEF r, texts
<1>4. CASE ~(passed /\ b.items # <<>>)
  <2>1. closed.buf = b /\ closed.out = <<>>
    BY <1>4
  <2> HIDE DEF closed
  <2>2. c = [b EXCEPT !.message = @ \/ spoke]
    BY <2>1
  <2> HIDE DEF c
  <2>3. c \in Buffers /\ c.items = b.items /\ c.next = b.next /\ c.open = b.open /\ ~c.finished
    BY <2>2 DEF Buffers
  <2>4. Does(bd, b, added, texts, c.open) /\ Bears(c, added.buf)
    BY <1>2, <2>3, AppendDoes
  <2> HIDE DEF added
  <2>5. added.out \in Seq(Digests)
    BY <2>4 DEF Does
  <2>6. r.buf = added.buf /\ r.out = added.out
    <3> DEFINE t == added.out
    <3>1. t \in Seq(Digests) /\ r.out = <<>> \o t
      BY <1>1, <2>1, <2>5
    <3> HIDE DEF t
    <3>2. r.out = t
      BY <3>1
    <3> QED BY <1>1, <3>2 DEF t
  <2>7. Does(bd, b, r, texts, b.open)
    BY <2>3, <2>4, <2>6 DEF Does
  <2>8. ~r.buf.finished
    BY <2>3, <2>4, <2>6 DEF Bears
  <2> QED BY <2>7, <2>8 DEF r, texts
<1> QED BY <1>3, <1>4

(* So is one that is closed after it.                                        *)
LEMMA DoesBefore ==
  ASSUME NEW bd \in Seq(Digests), NEW b \in Buffers, NEW fit \in BOOLEAN, NEW final \in BOOLEAN,
         NEW r, NEW q, NEW group, NEW open, Does(bd, b, r, group, open),
         q.buf = Close(r.buf, fit, final).buf, q.out = r.out \o Close(r.buf, fit, final).out
  PROVE  Does(bd, b, q, group, open)
<1> DEFINE c == r.buf
           e == Close(c, fit, final)
           x == Closed(c, fit, final)
           o == r.out
<1>1. c \in Buffers /\ o \in Seq(Digests) /\ c.next = b.next + Len(o) /\ c.open = open
      /\ group \in Seq(Items)
  BY DEF Does
<1>2. \E f : /\ GrownBy(Content(bd, b), Content(bd \o o, c), group, f)
             /\ Owed(group, open) \subseteq DOMAIN f
  BY DEF Does
<1>3. q.buf = e.buf /\ q.out = o \o e.out
  OBVIOUS
<1>4. bd \o o \in Seq(Digests)
  BY <1>1
<1> HIDE DEF c, o
<1>5. Content((bd \o o) \o e.out, e.buf) = Content(bd \o o, c)
  <2> DEFINE bo == bd \o o
  <2>1. bo \in Seq(Digests) /\ c \in Buffers
    BY <1>1, <1>4
  <2> HIDE DEF bo
  <2>2. Content(bo \o e.out, e.buf) = Content(bo, c)
    BY <2>1, ContentClosed, Zenon
  <2> QED BY <2>2 DEF bo
<1>6. e.out = <<x>> /\ x \in Digests /\ e.buf.next = c.next + 1 /\ Bears(c, e.buf)
  BY <1>1, ClosedTyped
<1> HIDE DEF e, x
<1> DEFINE t == e.out
<1>7. t \in Seq(Digests) /\ Len(t) = 1
  BY <1>6
<1> HIDE DEF t
<1>8. (bd \o o) \o t = bd \o (o \o t) /\ o \o t \in Seq(Digests) /\ Len(o \o t) = Len(o) + 1
  <2>1. (bd \o o) \o t = bd \o (o \o t)
    BY <1>1, <1>7, ConcatAssociative
  <2>2. o \o t \in Seq(Digests)
    BY <1>1, <1>7, ConcatProperties
  <2>3. Len(o \o t) = Len(o) + Len(t)
    BY <1>1, <1>7, ConcatProperties
  <2> QED BY <1>7, <2>1, <2>2, <2>3
<1>9. q.out = o \o t
  BY <1>3 DEF t
<1>10. q.buf.next = b.next + Len(q.out)
  <2> DEFINE i == b.next
             j == Len(o)
  <2>1. i \in Nat /\ j \in Nat /\ q.buf.next = i + j + 1 /\ Len(q.out) = j + 1
    BY <1>1, <1>3, <1>6, <1>8, <1>9 DEF Buffers
  <2> HIDE DEF i, j
  <2>2. q.buf.next = i + Len(q.out)
    BY <2>1
  <2> QED BY <2>2 DEF i
<1>11. q.buf \in Buffers /\ q.buf.open = open
  BY <1>1, <1>3, <1>6 DEF Bears
<1>12. \E f : /\ GrownBy(Content(bd, b), Content(bd \o q.out, q.buf), group, f)
              /\ Owed(group, open) \subseteq DOMAIN f
  BY <1>2, <1>3, <1>5, <1>8, <1>9 DEF t
<1>13. q.out \in Seq(Digests)
  BY <1>8, <1>9
<1> QED BY <1>1, <1>10, <1>11, <1>12, <1>13 DEF Does

(* The end.                                                                  *)
LEMMA FinishDoes ==
  ASSUME NEW bd \in Seq(Digests), NEW b \in Buffers, ~b.finished
  PROVE  LET r == Finish(b)
         IN Does(bd, b, r, CorrectionItems(b.open, FALSE), <<>>) /\ r.buf.finished
<1> DEFINE r == Finish(b)
           unresolved == CorrectionItems(b.open, FALSE)
           over == [b EXCEPT !.finished = TRUE, !.open = <<>>]
           full == b.items # <<>> /\ ~Fits(b.items \o unresolved, b.next, b.message)
           first == IF full THEN Close(over, TRUE, FALSE) ELSE [buf |-> over, out |-> <<>>]
           added == Append1(first.buf, unresolved, b.message)
           refused == \E d \in ToSet(added.out) : ~d.fit
           last == IF refused THEN [buf |-> added.buf, out |-> <<>>]
                   ELSE Close(added.buf, TRUE, b.message)
           m == [buf |-> added.buf, out |-> first.out \o added.out]
<1>1. r.buf = last.buf /\ r.out = m.out \o last.out
  BY DEF Finish, Sealed
<1>2. b.open \in Seq(Requests) /\ b.message \in BOOLEAN
  BY DEF Buffers
<1>3. unresolved \in Seq(Items)
  BY <1>2, CorrectionItemsTyped
<1>4. over \in Buffers /\ over.items = b.items /\ over.next = b.next /\ over.open = <<>>
      /\ over.finished
  <2>1. <<>> \in Seq(Requests)
    OBVIOUS
  <2> QED BY <2>1 DEF Buffers
<1> HIDE DEF r, unresolved, over, full
<1>5. Does(bd, over, m, unresolved, <<>>) /\ m.buf.finished
  <2>1. CASE full
    <3> DEFINE d == Close(over, TRUE, FALSE)
               bo == bd \o d.out
               db == d.buf
               x == Closed(over, TRUE, FALSE)
    <3>1. Bears(over, db) /\ d.out = <<x>> /\ x \in Digests
      BY <1>4, ClosedTyped
    <3>2. first = d
      BY <2>1
    <3> HIDE DEF d, first, x
    <3>3. bo \in Seq(Digests)
      BY <3>1
    <3> HIDE DEF bo
    <3>4. db \in Buffers /\ db.open = <<>> /\ db.finished
      BY <1>4, <3>1 DEF Bears
    <3> HIDE DEF db
    <3> DEFINE a == Append1(db, unresolved, b.message)
    <3>5. Does(bo, db, a, unresolved, db.open) /\ Bears(db, a.buf)
      BY <1>2, <1>3, <3>3, <3>4, AppendDoes
    <3>6. added = a
      BY <3>2 DEF db
    <3> HIDE DEF a, added
    <3>7. Does(bd \o d.out, d.buf, a, unresolved, <<>>)
      BY <3>4, <3>5 DEF bo, db
    <3>8. m.buf = a.buf /\ m.out = d.out \o a.out
      BY <3>2, <3>6
    <3> HIDE DEF m
    <3>9. Does(bd, over, m, unresolved, <<>>)
      BY <1>4, <3>7, <3>8, DoesBehind DEF d
    <3>10. m.buf.finished
      BY <3>4, <3>5, <3>8 DEF Bears
    <3> QED BY <3>9, <3>10
  <2>2. CASE ~full
    <3>1. first.buf = over /\ first.out = <<>>
      BY <2>2
    <3> HIDE DEF first
    <3> DEFINE a == Append1(over, unresolved, b.message)
    <3>2. Does(bd, over, a, unresolved, <<>>) /\ Bears(over, a.buf)
      BY <1>2, <1>3, <1>4, AppendDoes
    <3>3. added = a
      BY <3>1
    <3> HIDE DEF a, added
    <3>4. m.buf = a.buf /\ m.out = a.out
      <4> DEFINE t == a.out
      <4>1. t \in Seq(Digests) /\ m.out = <<>> \o t
        BY <3>1, <3>2, <3>3 DEF Does
      <4> HIDE DEF t
      <4>2. <<>> \o t = t
        BY <4>1
      <4> QED BY <3>3, <4>1, <4>2 DEF t
    <3> HIDE DEF m
    <3>5. Does(bd, over, m, unresolved, <<>>)
      BY <3>2, <3>4 DEF Does
    <3>6. m.buf.finished
      BY <1>4, <3>2, <3>4 DEF Bears
    <3> QED BY <3>5, <3>6
  <2> QED BY <2>1, <2>2
<1> HIDE DEF refused
<1>6. CASE refused
  <2>1. r.buf = m.buf /\ last.out = <<>> /\ r.out = m.out \o <<>>
    BY <1>1, <1>6
  <2> HIDE DEF m
  <2>2. m.out \in Seq(Digests)
    BY <1>5 DEF Does
  <2>3. r.out = m.out
    BY <2>1, <2>2
  <2>4. Content(bd, over) = Content(bd, b)
    BY <1>4, ContentOfItems
  <2>5. Does(bd, b, r, unresolved, <<>>) /\ r.buf.finished
    BY <1>4, <1>5, <2>1, <2>3, <2>4 DEF Does
  <2> QED BY <2>5 DEF r, unresolved
<1>7. CASE ~refused
  <2>1. last = Close(m.buf, TRUE, b.message)
    BY <1>7
  <2>2. r.buf = Close(m.buf, TRUE, b.message).buf
        /\ r.out = m.out \o Close(m.buf, TRUE, b.message).out
    BY <1>1, <2>1
  <2> HIDE DEF m
  <2>3. Does(bd, over, r, unresolved, <<>>) /\ r.buf.finished
    <3>1. Does(bd, over, m, unresolved, <<>>) /\ m.buf.finished
      BY <1>5
    <3> DEFINE said == b.message
    <3>2. /\ r.buf = Close(m.buf, TRUE, said).buf /\ r.out = m.out \o Close(m.buf, TRUE, said).out
          /\ said \in BOOLEAN /\ TRUE \in BOOLEAN
      BY <1>2, <2>2
    <3> HIDE DEF said
    <3>3. Does(bd, over, r, unresolved, <<>>)
      BY <1>4, <3>1, <3>2, DoesBefore
    <3>4. r.buf.finished = m.buf.finished
      <4>1. Bears(m.buf, r.buf)
        <5>1. m.buf \in Buffers
          BY <3>1 DEF Does
        <5> QED BY <3>2, <5>1, ClosedTyped
      <4> QED BY <4>1 DEF Bears
    <3> QED BY <3>1, <3>3, <3>4
  <2>4. Content(bd, over) = Content(bd, b)
    BY <1>4, ContentOfItems
  <2>5. Does(bd, b, r, unresolved, <<>>) /\ r.buf.finished
    BY <1>4, <2>3, <2>4 DEF Does
  <2> QED BY <2>5 DEF r, unresolved
<1> QED BY <1>6, <1>7

-----------------------------------------------------------------------------
Kinds(items, kind) == {items[i].id : i \in {j \in DOMAIN items : items[j].kind = kind}}
Matched(items) == Kinds(items, "tool_call") = Kinds(items, "tool_result")

(* A digest that is closed, by its index, and one behind which others come.  *)
Filed(d, n) ==
  /\ d.index = n
  /\ d.fit => Fits(d.items, d.index, d.final)
  /\ ~d.truncated => Matched(d.items)
Plain(d) == d.items # <<>> /\ ~d.final

Tidy(b) == Fits(b.items, b.next, FALSE) /\ (b.truncated \/ Matched(b.items))
Closes(b, out) == \A i \in 1..Len(out) : Filed(out[i], b.next + i - 1) /\ Plain(out[i])

LEMMA NothingFits ==
  \A n \in Nat, final \in BOOLEAN : Fits(<<>>, n, final) /\ Matched(<<>>)
<1> TAKE n \in Nat, final \in BOOLEAN
<1>1. Len(<<>>) = 0 /\ DOMAIN <<>> = {}
  OBVIOUS
<1>2. BodyLen(<<>>, n, final) = (IF n = 0 THEN PromptSize ELSE 0) + (IF final THEN FinalSize ELSE 0)
  BY BufferAssumption DEF BodyLen
<1>3. BodyLen(<<>>, n, final) <= MaxBytes
  BY <1>2, BufferAssumption
<1>4. Matched(<<>>)
  BY <1>1 DEF Matched, Kinds
<1> QED BY <1>1, <1>3, <1>4, BufferAssumption DEF Fits

LEMMA KindsOfBoth ==
  ASSUME NEW s \in Seq(Items), NEW t \in Seq(Items), NEW kind
  PROVE  Kinds(s \o t, kind) = Kinds(s, kind) \cup Kinds(t, kind)
<1> DEFINE u == s \o t
           m == Len(s)
           n == Len(t)
<1>1. /\ DOMAIN s = 1..m /\ DOMAIN t = 1..n /\ DOMAIN u = 1..(m + n)
      /\ \A i \in 1..m : u[i] = s[i]
  <2>1. /\ u \in Seq(Items) /\ Len(u) = m + n /\ \A i \in 1..m : u[i] = s[i]
    BY ConcatProperties
  <2> HIDE DEF u
  <2> QED BY <2>1
<1>2. \A j \in 1..n : u[m + j] = t[j]
  <2> TAKE j \in 1..n
  <2>1. m + j \in m + 1..m + n /\ (m + j) - m = j
    OBVIOUS
  <2>2. \A i \in m + 1..m + n : u[i] = t[i - m]
    BY ConcatProperties
  <2> HIDE DEF u, m
  <2> QED BY <2>1, <2>2
<1>3. m \in Nat /\ n \in Nat
  OBVIOUS
<1> HIDE DEF u, m, n
<1>4. ASSUME NEW x \in Kinds(u, kind) PROVE x \in Kinds(s, kind) \cup Kinds(t, kind)
  <2>1. PICK i \in 1..(m + n) : u[i].kind = kind /\ u[i].id = x
    BY <1>1, <1>4 DEF Kinds
  <2>2. CASE i \in 1..m
    BY <1>1, <2>1, <2>2 DEF Kinds
  <2>3. CASE i \notin 1..m
    <3>1. i - m \in 1..n /\ m + (i - m) = i
      BY <1>3, <2>1, <2>3
    <3>2. u[i] = t[i - m]
      BY <1>2, <3>1
    <3> QED BY <1>1, <2>1, <3>1, <3>2 DEF Kinds
  <2> QED BY <2>2, <2>3
<1>5. ASSUME NEW x \in Kinds(s, kind) PROVE x \in Kinds(u, kind)
  <2>1. PICK i \in 1..m : s[i].kind = kind /\ s[i].id = x
    BY <1>1, <1>5 DEF Kinds
  <2>2. i \in 1..(m + n) /\ u[i] = s[i]
    BY <1>1, <1>3
  <2> QED BY <1>1, <2>1, <2>2 DEF Kinds
<1>6. ASSUME NEW x \in Kinds(t, kind) PROVE x \in Kinds(u, kind)
  <2>1. PICK j \in 1..n : t[j].kind = kind /\ t[j].id = x
    BY <1>1, <1>6 DEF Kinds
  <2>2. m + j \in 1..(m + n) /\ u[m + j] = t[j]
    BY <1>2, <1>3
  <2> QED BY <1>1, <2>1, <2>2 DEF Kinds
<1>7. Kinds(u, kind) = Kinds(s, kind) \cup Kinds(t, kind)
  BY <1>4, <1>5, <1>6
<1> QED BY <1>7 DEF u

LEMMA MatchedBoth ==
  \A s, t \in Seq(Items) : Matched(s) /\ Matched(t) => Matched(s \o t)
<1> TAKE s, t \in Seq(Items)
<1> DEFINE u == s \o t
<1>1. /\ Kinds(u, "tool_call") = Kinds(s, "tool_call") \cup Kinds(t, "tool_call")
      /\ Kinds(u, "tool_result") = Kinds(s, "tool_result") \cup Kinds(t, "tool_result")
  BY KindsOfBoth
<1> HIDE DEF u
<1> QED BY <1>1 DEF Matched, u

(* Where there is no call there is no result.                                *)
LEMMA MatchedNone ==
  ASSUME NEW items, \A i \in DOMAIN items : items[i].kind \in {"text", "correction"}
  PROVE  Matched(items)
<1>1. \A i \in DOMAIN items : items[i].kind # "tool_call" /\ items[i].kind # "tool_result"
  <2> TAKE i \in DOMAIN items
  <2>1. items[i].kind = "text" \/ items[i].kind = "correction"
    OBVIOUS
  <2> QED BY <2>1
<1> QED BY <1>1 DEF Matched, Kinds

LEMMA MatchedGroups ==
  /\ \A sizes \in Seq(Nat) : Matched(TurnTexts(sizes))
  /\ \A open \in Seq(Requests), resolved \in BOOLEAN : Matched(CorrectionItems(open, resolved))
  /\ \A id \in Nat, posted \in BOOLEAN, size \in Nat : Matched(CallItems(id, posted, size))
<1>1. ASSUME NEW sizes \in Seq(Nat) PROVE Matched(TurnTexts(sizes))
  <2> DEFINE s == TurnTexts(sizes)
  <2>1. s \in Seq(Items) /\ Len(s) = Len(sizes) /\ \A i \in 1..Len(sizes) : s[i].kind = "text"
    BY TurnTextsTyped
  <2> HIDE DEF s
  <2>2. \A i \in DOMAIN s : s[i].kind \in {"text", "correction"}
    BY <2>1
  <2>3. Matched(s)
    BY <2>2, MatchedNone
  <2> QED BY <2>3 DEF s
<1>2. ASSUME NEW open \in Seq(Requests), NEW resolved \in BOOLEAN
      PROVE  Matched(CorrectionItems(open, resolved))
  <2> DEFINE s == CorrectionItems(open, resolved)
  <2>1. /\ s \in Seq(Items) /\ Len(s) = Len(open)
        /\ \A i \in 1..Len(open) : s[i] = CorrectionItem(open[i], resolved)
    BY CorrectionItemsTyped
  <2> HIDE DEF s
  <2>2. \A i \in DOMAIN s : s[i].kind \in {"text", "correction"}
    BY <2>1, CorrectionItemOf
  <2>3. Matched(s)
    BY <2>2, MatchedNone
  <2> QED BY <2>3 DEF s
<1>3. ASSUME NEW id \in Nat, NEW posted \in BOOLEAN, NEW size \in Nat
      PROVE  Matched(CallItems(id, posted, size))
  <2> DEFINE x == [kind |-> "tool_call", id |-> id, size |-> 1]
             y == [kind |-> "tool_result", id |-> id, size |-> size]
             s == CallItems(id, posted, size)
  <2>1. x.kind = "tool_call" /\ y.kind = "tool_result" /\ x.id = id /\ y.id = id
    OBVIOUS
  <2>2. s = IF posted THEN <<x, y>> ELSE <<>>
    BY DEF CallItems
  <2> HIDE DEF x, y, s
  <2>3. CASE posted
    <3>1. DOMAIN s = {1, 2} /\ s[1] = x /\ s[2] = y
      BY <2>2, <2>3
    <3>2. Kinds(s, "tool_call") = {id} /\ Kinds(s, "tool_result") = {id}
      BY <2>1, <3>1 DEF Kinds
    <3> QED BY <3>2 DEF Matched, s
  <2>4. CASE ~posted
    BY <2>2, <2>4, NothingFits DEF s
  <2> QED BY <2>3, <2>4
<1> QED BY <1>1, <1>2, <1>3

(* What a group goes into is tidy, and what was closed for it is posted.     *)
LEMMA ReadyFares ==
  ASSUME NEW b \in Buffers, Tidy(b), NEW c, NEW o, Ready(b, c, o)
  PROVE  Tidy(c) /\ Closes(b, o) /\ \A i \in 1..Len(o) : o[i].fit
<1>1. CASE c = b /\ o = <<>>
  <2>1. Len(o) = 0
    BY <1>1
  <2> QED BY <1>1, <2>1 DEF Closes
<1>2. CASE b.items # <<>> /\ c = Close(b, TRUE, FALSE).buf /\ o = Close(b, TRUE, FALSE).out
  <2> DEFINE x == Closed(b, TRUE, FALSE)
  <2>1. /\ o = <<x>> /\ c.items = <<>> /\ c.next = b.next + 1 /\ c.truncated = FALSE
        /\ b.next \in Nat
    BY <1>2, ClosedTyped DEF Buffers
  <2>2. /\ x.fit = TRUE /\ x.index = b.next /\ x.items = b.items /\ x.final = FALSE
        /\ x.truncated = b.truncated
    BY DEF Closed
  <2> HIDE DEF x
  <2>3. Filed(x, b.next) /\ Plain(x) /\ x.fit
    BY <1>2, <2>2 DEF Filed, Plain, Tidy
  <2>4. Len(o) = 1 /\ o[1] = x /\ b.next + 1 - 1 = b.next
    BY <2>1
  <2>5. Closes(b, o) /\ \A i \in 1..Len(o) : o[i].fit
    BY <2>3, <2>4 DEF Closes
  <2>6. Tidy(c)
    <3> DEFINE n == b.next + 1
    <3>1. n \in Nat /\ FALSE \in BOOLEAN
      BY <2>1
    <3> HIDE DEF n
    <3>2. Fits(<<>>, n, FALSE) /\ Matched(<<>>)
      BY <3>1, NothingFits, Zenon
    <3> QED BY <2>1, <3>2 DEF Tidy, n
  <2> QED BY <2>5, <2>6
<1> QED BY <1>1, <1>2 DEF Ready

(* One more closed.                                                          *)
LEMMA ClosesMore ==
  ASSUME NEW b \in Buffers, NEW o \in Seq(Digests), NEW x \in Digests, Closes(b, o),
         Filed(x, b.next + Len(o)), Plain(x)
  PROVE  Closes(b, o \o <<x>>)
<1> DEFINE t == o \o <<x>>
           n == Len(o)
<1>1. Len(t) = n + 1 /\ n \in Nat /\ \A i \in 1..n : t[i] = o[i]
  OBVIOUS
<1>2. t[n + 1] = x
  OBVIOUS
<1> HIDE DEF t, n
<1>3. b.next \in Nat /\ b.next + (n + 1) - 1 = b.next + n
  BY <1>1 DEF Buffers
<1>4. ASSUME NEW i \in 1..Len(t) PROVE Filed(t[i], b.next + i - 1) /\ Plain(t[i])
  <2>1. CASE i \in 1..n
    BY <1>1, <2>1 DEF Closes, n
  <2>2. CASE i = n + 1
    BY <1>2, <1>3, <2>2 DEF n
  <2> QED BY <1>1, <2>1, <2>2
<1> QED BY <1>4 DEF Closes, t

(* How Append1 leaves the buffer: tidy, with what it closed in order, a      *)
(* digest discarded only when it is empty behind it, and what is open is     *)
(* within the limits it was given the group for.                             *)
Fares(b, r, group, final) ==
  /\ Closes(b, r.out) /\ (r.buf.truncated \/ Matched(r.buf.items))
  /\ (\E i \in 1..Len(r.out) : ~r.out[i].fit) => r.buf.items = <<>>
  /\ group # <<>> \/ Fits(b.items, b.next, final) => Fits(r.buf.items, r.buf.next, final)

LEMMA AppendFares ==
  ASSUME NEW b \in Buffers, Tidy(b), NEW group \in Seq(Items), Matched(group),
         NEW final \in BOOLEAN
  PROVE  Fares(b, Append1(b, group, final), group, final)
<1> DEFINE r == Append1(b, group, final)
<1>1. PICK c, o : /\ Ready(b, c, o) /\ (group = <<>> => c = b)
                  /\ Goes(c, o, group, final, r)
  BY AppendCases
<1> HIDE DEF r
<1>2. /\ c \in Buffers /\ o \in Seq(Digests) /\ c.next = b.next + Len(o) /\ c.next \in Nat
      /\ c.items \in Seq(Items)
  BY <1>1, ReadyTyped DEF Bears, Buffers
<1>3. Tidy(c) /\ Closes(b, o) /\ \A i \in 1..Len(o) : o[i].fit
  BY <1>1, ReadyFares
<1>4. CASE Whole(c, o, group, final, r)
  <2> DEFINE items == c.items \o group
  <2>1. r.buf = [c EXCEPT !.items = items] /\ r.out = o
    BY <1>4 DEF Whole
  <2>2. group # <<>> => Fits(items, c.next, final)
    BY <1>4 DEF Whole
  <2>3. items \in Seq(Items) /\ (group = <<>> => items = c.items)
    BY <1>2
  <2>4. Matched(c.items) => Matched(items)
    BY <1>2, MatchedBoth
  <2> HIDE DEF items
  <2>5. r.buf.items = items /\ r.buf.next = c.next /\ r.buf.truncated = c.truncated
    BY <1>2, <2>1 DEF Buffers
  <2>6. r.buf.truncated \/ Matched(r.buf.items)
    BY <1>3, <2>4, <2>5 DEF Tidy
  <2>7. group # <<>> \/ Fits(b.items, b.next, final) => Fits(r.buf.items, r.buf.next, final)
    BY <1>1, <2>2, <2>3, <2>5
  <2> QED BY <1>3, <2>1, <2>6, <2>7 DEF Fares, r
<1>5. CASE Cut(c, o, group, final, r)
  <2>1. PICK dropped :
          /\ r.buf = [c EXCEPT !.items = Without(group, dropped), !.truncated = TRUE]
          /\ Fits(Without(group, dropped), c.next, final)
    BY <1>5 DEF Cut
  <2> DEFINE items == Without(group, dropped)
  <2> HIDE DEF items
  <2>2. r.buf.items = items /\ r.buf.next = c.next /\ r.buf.truncated = TRUE
    BY <1>2, <2>1 DEF Buffers, items
  <2>3. r.out = o /\ Fits(r.buf.items, r.buf.next, final)
    BY <1>5, <2>1, <2>2 DEF Cut, items
  <2> QED BY <1>3, <2>2, <2>3 DEF Fares, r
<1>6. CASE Refused(c, o, group, r)
  <2> DEFINE d == [c EXCEPT !.items = group]
             x == Closed(d, FALSE, FALSE)
             e == Close(d, FALSE, FALSE).buf
  <2>1. d \in Buffers /\ d.items = group /\ d.next = c.next
    BY <1>2 DEF Buffers
  <2>2. group # <<>> /\ r.buf = e /\ r.out = o \o Close(d, FALSE, FALSE).out
    BY <1>6 DEF Refused
  <2> HIDE DEF d
  <2>3. /\ e \in Buffers /\ x \in Digests /\ Close(d, FALSE, FALSE).out = <<x>>
        /\ e.items = <<>> /\ e.next = d.next + 1 /\ e.truncated = FALSE
    BY <2>1, ClosedTyped DEF Bears
  <2>4. x.fit = FALSE /\ x.index = c.next /\ x.items = group /\ x.final = FALSE
    BY <2>1 DEF Closed
  <2> HIDE DEF x, e
  <2>5. Filed(x, b.next + Len(o)) /\ Plain(x)
    BY <1>2, <2>2, <2>4 DEF Filed, Plain
  <2>6. Closes(b, r.out)
    BY <1>2, <1>3, <2>2, <2>3, <2>5, ClosesMore
  <2>7. e.next \in Nat
    BY <2>3 DEF Buffers
  <2>8. Fits(r.buf.items, r.buf.next, final) /\ Matched(r.buf.items) /\ r.buf.items = <<>>
    BY <2>2, <2>3, <2>7, NothingFits
  <2> QED BY <2>6, <2>8 DEF Fares, r
<1> QED BY <1>1, <1>4, <1>5, <1>6 DEF Goes

(* A buffer that was tidy is, and what was closed was in order.              *)
Tidies(b, r) == Tidy(b) => Closes(b, r.out) /\ Tidy(r.buf)

LEMMA AppendTidies ==
  ASSUME NEW b \in Buffers, NEW c \in Buffers, c.items = b.items, c.next = b.next,
         c.truncated = b.truncated, NEW group \in Seq(Items), Matched(group)
  PROVE  Tidies(b, Append1(c, group, FALSE))
<1> DEFINE r == Append1(c, group, FALSE)
<1> SUFFICES ASSUME Tidy(b) PROVE Closes(b, r.out) /\ Tidy(r.buf)
  BY DEF Tidies
<1>1. Tidy(c)
  BY DEF Tidy
<1>2. Fares(c, r, group, FALSE)
  BY <1>1, AppendFares
<1> HIDE DEF r
<1>3. Closes(b, r.out)
  BY <1>2 DEF Fares, Closes
<1>4. Tidy(r.buf)
  BY <1>1, <1>2 DEF Fares, Tidy
<1> QED BY <1>3, <1>4

(* A call and a turn.                                                        *)
LEMMA CallTidies ==
  ASSUME NEW b \in Buffers, ~b.finished, NEW id \in Nat, NEW posted \in BOOLEAN,
         NEW size \in Nat, NEW resolving \in BOOLEAN
  PROVE  Tidies(b, Call(b, id, posted, size, resolving))
<1> DEFINE r == Call(b, id, posted, size, resolving)
           group == CallGroup(b, id, posted, size, resolving)
           open == CallOpen(b, id, posted, resolving)
           c == [b EXCEPT !.open = open]
           s == CallItems(id, posted, size)
           t == CorrectionItems(b.open, TRUE)
<1>1. r = Append1(c, group, FALSE)
  BY DEF Call, CallGroup, CallOpen, CallItems
<1>2. b.open \in Seq(Requests)
  BY DEF Buffers
<1>3. open \in Seq(Requests)
  BY <1>2, WaitForTyped DEF CallOpen
<1>4. s \in Seq(Items) /\ t \in Seq(Items) /\ Matched(s) /\ Matched(t)
  BY <1>2, CallItemsTyped, CorrectionItemsTyped, MatchedGroups
<1>5. group = IF resolving THEN s \o t ELSE s
  BY DEF CallGroup
<1> HIDE DEF r, s, t, group, open
<1>6. group \in Seq(Items) /\ Matched(group)
  <2>1. s \o t \in Seq(Items) /\ Matched(s \o t)
    BY <1>4, MatchedBoth
  <2> QED BY <1>4, <1>5, <2>1
<1>7. c \in Buffers /\ c.items = b.items /\ c.next = b.next /\ c.truncated = b.truncated
  BY <1>3 DEF Buffers
<1> HIDE DEF c
<1>8. Tidies(b, r)
  BY <1>1, <1>6, <1>7, AppendTidies
<1> QED BY <1>8 DEF r

(* What was closed before.                                                   *)
LEMMA ClosesBehind ==
  ASSUME NEW b \in Buffers, NEW c \in Buffers, NEW o \in Seq(Digests), NEW t \in Seq(Digests),
         c.next = b.next + Len(o), Closes(b, o), Closes(c, t)
  PROVE  Closes(b, o \o t)
<1> DEFINE u == o \o t
           m == Len(o)
           n == Len(t)
<1>1. /\ Len(u) = m + n /\ m \in Nat /\ n \in Nat
      /\ \A i \in 1..m : u[i] = o[i]
      /\ \A i \in m + 1..m + n : u[i] = t[i - m]
  BY ConcatProperties
<1> HIDE DEF u
<1>2. b.next \in Nat
  BY DEF Buffers
<1>3. ASSUME NEW i \in 1..Len(u) PROVE Filed(u[i], b.next + i - 1) /\ Plain(u[i])
  <2>1. CASE i \in 1..m
    BY <1>1, <2>1 DEF Closes
  <2>2. CASE i \notin 1..m
    <3>1. i \in m + 1..m + n /\ i - m \in 1..n
      BY <1>1, <1>3, <2>2
    <3>2. Filed(t[i - m], c.next + (i - m) - 1) /\ Plain(t[i - m])
      BY <3>1 DEF Closes
    <3>3. c.next + (i - m) - 1 = b.next + i - 1
      BY <1>1, <1>2, <3>1
    <3> QED BY <1>1, <3>1, <3>2, <3>3
  <2> QED BY <2>1, <2>2
<1> QED BY <1>3 DEF Closes, u

LEMMA TurnTidies ==
  ASSUME NEW b \in Buffers, ~b.finished, NEW sizes \in Seq(Nat),
         NEW spoke \in BOOLEAN, NEW passed \in BOOLEAN
  PROVE  Tidies(b, Turn(b, sizes, spoke, passed))
<1> DEFINE r == Turn(b, sizes, spoke, passed)
           full == passed /\ b.items # <<>>
           first == IF full THEN Close(b, TRUE, FALSE) ELSE [buf |-> b, out |-> <<>>]
           d == first.buf
           o == first.out
           c == [d EXCEPT !.message = @ \/ spoke]
           texts == TurnTexts(sizes)
           added == Append1(c, texts, FALSE)
<1> SUFFICES ASSUME Tidy(b) PROVE Closes(b, r.out) /\ Tidy(r.buf)
  BY DEF Tidies
<1>1. r.buf = added.buf /\ r.out = o \o added.out
  BY DEF Turn, TurnTexts
<1>2. Ready(b, d, o)
  BY DEF Ready
<1> HIDE DEF r, d, o
<1>3. d \in Buffers /\ o \in Seq(Digests) /\ d.next = b.next + Len(o)
  BY <1>2, ReadyTyped DEF Bears
<1>4. Tidy(d) /\ Closes(b, o)
  BY <1>2, ReadyFares
<1>5. /\ c \in Buffers /\ c.items = d.items /\ c.next = d.next /\ c.truncated = d.truncated
  BY <1>3 DEF Buffers
<1> HIDE DEF c
<1>6. texts \in Seq(Items) /\ Matched(texts)
  BY TurnTextsTyped, MatchedGroups
<1> HIDE DEF texts
<1>7. Tidies(d, added) /\ added.out \in Seq(Digests)
  BY <1>3, <1>5, <1>6, AppendTidies, AppendTyped
<1> HIDE DEF added
<1>8. Closes(d, added.out) /\ Tidy(added.buf)
  BY <1>4, <1>7 DEF Tidies
<1> QED BY <1>1, <1>3, <1>4, <1>7, <1>8, ClosesBehind

(* The end: what is closed is in order, only the last may be empty or have   *)
(* the final message.                                                        *)
ClosesLast(b, out) ==
  \A i \in 1..Len(out) : Filed(out[i], b.next + i - 1) /\ (i = Len(out) \/ Plain(out[i]))

Ends(b, r) == Tidy(b) => ClosesLast(b, r.out) /\ Tidy(r.buf)

LEMMA LastMore ==
  ASSUME NEW b \in Buffers, NEW o \in Seq(Digests), NEW x \in Digests, Closes(b, o),
         Filed(x, b.next + Len(o))
  PROVE  ClosesLast(b, o \o <<x>>)
<1> DEFINE t == o \o <<x>>
           n == Len(o)
<1>1. Len(t) = n + 1 /\ n \in Nat /\ \A i \in 1..n : t[i] = o[i]
  OBVIOUS
<1>2. t[n + 1] = x
  OBVIOUS
<1> HIDE DEF t, n
<1>3. b.next \in Nat /\ b.next + (n + 1) - 1 = b.next + n
  BY <1>1 DEF Buffers
<1>4. ASSUME NEW i \in 1..Len(t)
      PROVE  Filed(t[i], b.next + i - 1) /\ (i = Len(t) \/ Plain(t[i]))
  <2>1. CASE i \in 1..n
    BY <1>1, <2>1 DEF Closes, n
  <2>2. CASE i = n + 1
    BY <1>1, <1>2, <1>3, <2>2 DEF n
  <2> QED BY <1>1, <2>1, <2>2
<1> QED BY <1>4 DEF ClosesLast, t

LEMMA FinishEnds ==
  ASSUME NEW b \in Buffers, ~b.finished
  PROVE  Ends(b, Finish(b))
<1> DEFINE r == Finish(b)
           unresolved == CorrectionItems(b.open, FALSE)
           over == [b EXCEPT !.finished = TRUE, !.open = <<>>]
           said == b.message
           full == b.items # <<>> /\ ~Fits(b.items \o unresolved, b.next, said)
           first == IF full THEN Close(over, TRUE, FALSE) ELSE [buf |-> over, out |-> <<>>]
           d == first.buf
           o == first.out
           added == Append1(d, unresolved, said)
           a == added.buf
           t == added.out
           refused == \E e \in ToSet(t) : ~e.fit
           last == IF refused THEN [buf |-> a, out |-> <<>>] ELSE Close(a, TRUE, said)
<1> SUFFICES ASSUME Tidy(b) PROVE ClosesLast(b, r.out) /\ Tidy(r.buf)
  BY DEF Ends
<1>1. r.buf = last.buf /\ r.out = o \o t \o last.out
  BY DEF Finish, Sealed
<1>2. b.open \in Seq(Requests) /\ said \in BOOLEAN /\ b.items \in Seq(Items)
  BY DEF Buffers
<1>3. unresolved \in Seq(Items) /\ Matched(unresolved)
  BY <1>2, CorrectionItemsTyped, MatchedGroups
<1>4. /\ over \in Buffers /\ over.items = b.items /\ over.next = b.next
      /\ over.truncated = b.truncated
  <2>1. <<>> \in Seq(Requests)
    OBVIOUS
  <2> QED BY <2>1 DEF Buffers
<1> HIDE DEF r, unresolved, over, said
<1>5. Ready(over, d, o)
  BY <1>4 DEF Ready
<1>6. d \in Buffers /\ o \in Seq(Digests) /\ d.next = b.next + Len(o)
  <2> HIDE DEF d, o
  <2>1. Bears(over, d) /\ o \in Seq(Digests) /\ d.next = over.next + Len(o)
    BY <1>4, <1>5, ReadyTyped
  <2> QED BY <1>4, <2>1 DEF Bears
<1>7. Tidy(over)
  BY <1>4 DEF Tidy
<1>8. Tidy(d) /\ Closes(over, o)
  BY <1>4, <1>5, <1>7, ReadyFares
<1>9. Closes(b, o)
  BY <1>4, <1>8 DEF Closes
<1>10. d.items = <<>> \/ (d = over /\ ~full)
  BY <1>4, ClosedTyped
<1>11. unresolved # <<>> \/ Fits(d.items, d.next, said)
  <2>1. CASE unresolved = <<>> /\ d.items # <<>>
    <3>1. d.items = b.items /\ d.next = b.next /\ ~full
      BY <1>4, <1>10, <2>1
    <3>2. b.items \o unresolved = b.items
      BY <1>2, <2>1
    <3> QED BY <2>1, <3>1, <3>2
  <2>2. CASE d.items = <<>>
    <3>1. d.next \in Nat
      BY <1>6 DEF Buffers
    <3> HIDE DEF d
    <3> QED BY <1>2, <2>2, <3>1, NothingFits
  <2> QED BY <2>1, <2>2
<1> HIDE DEF first, d, o, full
<1>12. Fares(d, added, unresolved, said)
  BY <1>2, <1>3, <1>6, <1>8, AppendFares
<1>13. a \in Buffers /\ t \in Seq(Digests) /\ a.next = d.next + Len(t)
  BY <1>2, <1>3, <1>6, AppendTyped DEF Bears
<1> HIDE DEF added
<1>14. /\ Closes(d, t) /\ (a.truncated \/ Matched(a.items))
       /\ (\E i \in 1..Len(t) : ~t[i].fit) => a.items = <<>>
       /\ Fits(a.items, a.next, said)
  BY <1>11, <1>12 DEF Fares
<1> HIDE DEF a, t
<1> DEFINE u == o \o t
<1>15. Closes(b, u) /\ u \in Seq(Digests) /\ Len(u) = Len(o) + Len(t)
  BY <1>6, <1>9, <1>13, <1>14, ClosesBehind
<1>16. r.out = u \o last.out
  BY <1>1
<1>17. a.next \in Nat /\ b.next \in Nat /\ Len(o) \in Nat /\ Len(t) \in Nat
       /\ a.next = b.next + Len(u)
  BY <1>6, <1>13, <1>15 DEF Buffers
<1> HIDE DEF u
<1>18. CASE refused
  <2>1. r.buf = a /\ r.out = u \o <<>>
    BY <1>1, <1>16, <1>18
  <2>2. a.items = <<>>
    BY <1>13, <1>14, <1>18 DEF ToSet
  <2>3. Tidy(r.buf)
    BY <1>17, <2>1, <2>2, NothingFits DEF Tidy
  <2>4. r.out = u
    BY <1>15, <2>1
  <2> QED BY <1>15, <2>3, <2>4 DEF Closes, ClosesLast
<1>19. CASE ~refused
  <2> DEFINE x == Closed(a, TRUE, said)
             c == Close(a, TRUE, said)
  <2>1. r.buf = c.buf /\ r.out = u \o c.out
    BY <1>1, <1>16, <1>19
  <2>2. /\ c.out = <<x>> /\ x \in Digests /\ c.buf \in Buffers /\ c.buf.items = <<>>
        /\ c.buf.next = a.next + 1
    BY <1>2, <1>13, ClosedTyped DEF Bears
  <2>3. /\ x.fit = TRUE /\ x.index = a.next /\ x.items = a.items /\ x.final = said
        /\ x.truncated = a.truncated
    BY DEF Closed
  <2> HIDE DEF x, c
  <2>4. Filed(x, b.next + Len(u))
    BY <1>14, <1>17, <2>3 DEF Filed
  <2>5. ClosesLast(b, r.out)
    BY <1>15, <2>1, <2>2, <2>4, LastMore
  <2>6. Tidy(r.buf)
    <3>1. c.buf.next \in Nat
      BY <2>2 DEF Buffers
    <3> QED BY <2>1, <2>2, <3>1, NothingFits DEF Tidy
  <2> QED BY <2>5, <2>6
<1> QED BY <1>18, <1>19

-----------------------------------------------------------------------------
USE SessionAssumption

Failures == {i \in DOMAIN log : log[i].failed}

(* Until the flush, every failed call is a post or was over the cap, and     *)
(* every digest a post or did not fit; behind it the report says so.         *)
Accounts ==
  /\ IsSeq(log) /\ IsSeq(bodies)
  /\ started \in Nat /\ capped \in Nat /\ digests \in Nat /\ unfittable \in Nat
  /\ phase \in {"running", "flushing", "over"}
  /\ phase # "over" =>
       /\ stats = NoFlush /\ events = started
       /\ started + capped = Cardinality(Failures)
       /\ digests + unfittable = Len(bodies)
  /\ phase = "over" =>
       \/ stats = NoFlush
       \/ /\ stats.sent + stats.failed + stats.capped = Cardinality(Failures)
          /\ stats.digestsSent + stats.digestsFailed = Len(bodies)

(* Nothing failed and nothing was closed.                                    *)
LEMMA AccountsInit == Init => Accounts
<1> SUFFICES ASSUME Init PROVE Accounts
  OBVIOUS
<1>1. DOMAIN log = {} /\ Failures = {}
  BY DEF Init, Failures
<1>2. IsSeq(log) /\ IsSeq(bodies) /\ Len(bodies) = 0
  BY ShortIsSeq DEF Init
<1> QED BY <1>1, <1>2, FS_EmptySet DEF Init, Accounts

(* Closed digests are posts or did not fit.                                  *)
LEMMA DigestsPosted ==
  ASSUME Accounts, NEW out, IsSeq(out), PostDigests(out)
  PROVE  /\ IsSeq(bodies') /\ digests' \in Nat /\ unfittable' \in Nat
         /\ digests + unfittable = Len(bodies) => digests' + unfittable' = Len(bodies')
<1> DEFINE fit == {i \in DOMAIN out : out[i].fit}
           unfit == {i \in DOMAIN out : ~out[i].fit}
<1>1. IsFiniteSet(DOMAIN out) /\ Cardinality(DOMAIN out) = Len(out)
  BY PlacesOfSeq
<1>2. IsFiniteSet(fit) /\ IsFiniteSet(unfit)
  BY <1>1, FS_Subset
<1>3. fit \cup unfit = DOMAIN out /\ fit \cap unfit = {}
  OBVIOUS
<1>4. /\ digests' = digests + Cardinality(fit) /\ unfittable' = unfittable + Cardinality(unfit)
      /\ bodies' = bodies \o out
  BY DEF PostDigests
<1> HIDE DEF fit, unfit
<1>5. Cardinality(fit) \in Nat /\ Cardinality(unfit) \in Nat
  BY <1>2, FS_CardinalityType
<1>6. Cardinality(fit) + Cardinality(unfit) = Len(out)
  <2>1. Cardinality(fit \cup unfit) =
          Cardinality(fit) + Cardinality(unfit) - Cardinality(fit \cap unfit)
    BY <1>2, FS_Union
  <2>2. Cardinality(fit \cap unfit) = 0
    BY <1>3, FS_EmptySet
  <2> QED BY <1>1, <1>3, <1>5, <2>1, <2>2
<1>7. IsSeq(bodies') /\ Len(bodies') = Len(bodies) + Len(out)
  BY <1>4, ConcatIsSeq DEF Accounts
<1>8. Len(bodies) \in Nat /\ Len(out) \in Nat
  BY PlacesOfSeq DEF Accounts
<1>9. digests \in Nat /\ unfittable \in Nat
  BY DEF Accounts
<1>10. digests' \in Nat /\ unfittable' \in Nat
  <2> HIDE DEF Accounts
  <2> QED BY <1>4, <1>5, <1>9
<1>11. ASSUME digests + unfittable = Len(bodies)
       PROVE  digests' + unfittable' = Len(bodies')
  <2> DEFINE f == Cardinality(fit)
             u == Cardinality(unfit)
             n == Len(out)
             m == Len(bodies)
             k == Len(bodies')
  <2>1. /\ digests' = digests + f /\ unfittable' = unfittable + u /\ k = m + n
        /\ f + u = n /\ digests + unfittable = m
        /\ f \in Nat /\ u \in Nat /\ n \in Nat /\ m \in Nat
    BY <1>4, <1>5, <1>6, <1>7, <1>8, <1>11
  <2> HIDE DEF f, u, n, m, k
  <2>2. digests' + unfittable' = k
    BY <1>9, <2>1
  <2> QED BY <2>2 DEF k
<1> QED BY <1>7, <1>10, <1>11

(* What the run does next is behind what it did.                             *)
LEMMA LogGrows ==
  ASSUME Accounts, NEW entry, Log(entry)
  PROVE  /\ IsSeq(log') /\ phase = "running"
         /\ Cardinality(Failures') =
              IF entry.failed THEN Cardinality(Failures) + 1 ELSE Cardinality(Failures)
         /\ Cardinality(Failures) \in Nat
<1>1. PICK S : log \in Seq(S)
  BY DEF Accounts, IsSeq
<1>2. log' = Append(log, entry) /\ phase = "running"
  BY DEF Log
<1>3. log \in Seq(S \cup {entry})
  BY <1>1
<1>4. /\ log' \in Seq(S \cup {entry}) /\ Len(log') = Len(log) + 1 /\ Len(log) \in Nat
      /\ DOMAIN log' = 1..(Len(log) + 1) /\ DOMAIN log = 1..Len(log)
      /\ \A i \in 1..Len(log) : log'[i] = log[i]
      /\ log'[Len(log) + 1] = entry
  BY <1>2, <1>3
<1>5. IsFiniteSet(Failures)
  <2>1. IsFiniteSet(DOMAIN log)
    BY PlacesOfSeq DEF Accounts
  <2> QED BY <2>1, FS_Subset DEF Failures
<1>6. CASE entry.failed
  <2>1. Failures' = Failures \cup {Len(log) + 1} /\ Len(log) + 1 \notin Failures
    BY <1>4, <1>6 DEF Failures
  <2> QED BY <1>2, <1>4, <1>5, <1>6, <2>1, FS_AddElement, FS_CardinalityType DEF IsSeq
<1>7. CASE ~entry.failed
  <2>1. Failures' = Failures
    BY <1>4, <1>7 DEF Failures
  <2> QED BY <1>2, <1>4, <1>5, <1>7, <2>1, FS_CardinalityType DEF IsSeq
<1> QED BY <1>6, <1>7

(* A step of the run that is no failure.                                     *)
LEMMA AccountsStep ==
  ASSUME Accounts, NEW entry, Log(entry), ~entry.failed,
         UNCHANGED <<phase, events, started, capped, stats>>,
         \/ UNCHANGED <<bodies, digests, unfittable>>
         \/ \E out : IsSeq(out) /\ PostDigests(out)
  PROVE  Accounts'
<1>1. /\ IsSeq(log') /\ phase = "running" /\ Cardinality(Failures') = Cardinality(Failures)
  BY LogGrows
<1>2. /\ IsSeq(bodies') /\ digests' \in Nat /\ unfittable' \in Nat
      /\ digests' + unfittable' = Len(bodies')
  BY <1>1, DigestsPosted DEF Accounts
<1> QED BY <1>1, <1>2 DEF Accounts

(* A call that was run, failed or not.                                       *)
LEMMA AccountsCall ==
  ASSUME Accounts, NEW c \in Calls, NEW error \in BOOLEAN, RunCall(c, error)
  PROVE  Accounts'
<1> DEFINE posted == c \in PostedCalls
           resolving == c \in CheckCalls /\ ~error
           asks == IF c \in CheckCalls /\ error THEN "gate_red" ELSE "none"
           out == Call(buf, Now, posted, IF error THEN ErrorSize ELSE 1, resolving).out
           entry == Step("call", c, posted, resolving, error /\ c \in EventCalls, asks)
<1>1. Log(entry) /\ PostDigests(out) /\ Event(c, error) /\ UNCHANGED <<phase, stats>>
  BY DEF RunCall
<1>2. IsSeq(out)
  BY CallOut
<1>3. entry.failed = (error /\ c \in EventCalls)
  BY DEF Step
<1> HIDE DEF out, entry
<1>4. /\ IsSeq(log') /\ phase = "running" /\ Cardinality(Failures) \in Nat
      /\ Cardinality(Failures') =
           IF entry.failed THEN Cardinality(Failures) + 1 ELSE Cardinality(Failures)
  BY <1>1, LogGrows
<1>5. /\ IsSeq(bodies') /\ digests' \in Nat /\ unfittable' \in Nat
      /\ digests' + unfittable' = Len(bodies')
  BY <1>1, <1>2, <1>4, DigestsPosted DEF Accounts
<1>6. /\ started' \in Nat /\ capped' \in Nat /\ events' = started'
      /\ started' + capped' = Cardinality(Failures')
  <2>1. /\ started \in Nat /\ capped \in Nat /\ events = started
        /\ started + capped = Cardinality(Failures)
    BY <1>4 DEF Accounts
  <2>2. CASE ~(error /\ c \in EventCalls)
    <3>1. UNCHANGED <<events, started, capped>> /\ Cardinality(Failures') = Cardinality(Failures)
      BY <1>1, <1>3, <1>4, <2>2 DEF Event
    <3> QED BY <2>1, <3>1
  <2>3. CASE error /\ c \in EventCalls
    <3>1. Cardinality(Failures') = Cardinality(Failures) + 1
      BY <1>3, <1>4, <2>3
    <3>2. \/ capped' = capped + 1 /\ UNCHANGED <<events, started>>
          \/ started' = started + 1 /\ events' = events + 1 /\ UNCHANGED capped
      BY <1>1, <2>3 DEF Event
    <3> QED BY <1>4, <2>1, <3>1, <3>2
  <2> QED BY <2>2, <2>3
<1> QED BY <1>1, <1>4, <1>5, <1>6 DEF Accounts

(* The flush closes the last digest, and then counts the posts or is cut off. *)
LEMMA AccountsFlush ==
  /\ Accounts
  /\ Flush \/ FlushCutOff \/ \E a \in 0..events, t \in 0..digests : FlushReturns(a, t)
  => Accounts'
<1>1. ASSUME Accounts, Flush PROVE Accounts'
  <2>1. IsSeq(Finish(buf).out) /\ PostDigests(Finish(buf).out)
    BY <1>1, FinishOut DEF Flush
  <2>2. /\ phase = "running" /\ phase' = "flushing"
        /\ UNCHANGED <<events, started, capped, stats, log>>
    BY <1>1 DEF Flush
  <2>3. /\ IsSeq(bodies') /\ digests' \in Nat /\ unfittable' \in Nat
        /\ digests' + unfittable' = Len(bodies')
    BY <1>1, <2>1, <2>2, DigestsPosted DEF Accounts
  <2> QED BY <1>1, <2>2, <2>3 DEF Accounts, Failures
<1>2. ASSUME Accounts, FlushCutOff PROVE Accounts'
  BY <1>2 DEF Accounts, FlushCutOff, Failures
<1>3. ASSUME Accounts, NEW a \in 0..events, NEW t \in 0..digests, FlushReturns(a, t)
      PROVE  Accounts'
  <2>1. /\ phase = "flushing" /\ phase' = "over" /\ digests' = 0
        /\ UNCHANGED <<started, capped, unfittable, log, bodies>>
    BY <1>3 DEF FlushReturns
  <2>2. /\ events = started /\ started + capped = Cardinality(Failures)
        /\ digests + unfittable = Len(bodies)
        /\ started \in Nat /\ capped \in Nat /\ digests \in Nat /\ unfittable \in Nat
    BY <1>3, <2>1 DEF Accounts
  <2>3. /\ stats'.sent = a /\ stats'.failed = events - a /\ stats'.capped = capped
        /\ stats'.digestsSent = t /\ stats'.digestsFailed = unfittable + digests - t
    BY <1>3 DEF FlushReturns
  <2>4. /\ stats'.sent + stats'.failed + stats'.capped = Cardinality(Failures')
        /\ stats'.digestsSent + stats'.digestsFailed = Len(bodies')
    BY <2>1, <2>2, <2>3 DEF Failures
  <2> QED BY <1>3, <2>1, <2>2, <2>4 DEF Accounts
<1> QED BY <1>1, <1>2, <1>3

(* Every step keeps the accounts.                                            *)
LEMMA AccountsNext == Accounts /\ [Next]_vars => Accounts'
<1> SUFFICES ASSUME Accounts, [Next]_vars PROVE Accounts'
  OBVIOUS
<1>1. ASSUME NEW c \in Calls, DenyCall(c) PROVE Accounts'
  BY <1>1, AccountsStep DEF DenyCall, Step, posts
<1>2. ASSUME NEW accepted \in BOOLEAN, NEW resolving \in BOOLEAN, NEW asks,
             FinishCall(accepted, resolving, asks)
      PROVE  Accounts'
  BY <1>2, AccountsStep, CallOut DEF FinishCall, Step
<1>3. CASE Nudge
  BY <1>3, AccountsStep DEF Nudge, Step, posts
<1>4. ASSUME NEW sizes, NEW spoke, NEW passed, ModelTurn(sizes, spoke, passed)
      PROVE  Accounts'
  BY <1>4, AccountsStep, TurnOut DEF ModelTurn, Step
<1>5. CASE UNCHANGED vars
  BY <1>5 DEF vars, posts, Accounts, Failures
<1> QED BY <1>1, <1>2, <1>3, <1>4, <1>5, AccountsCall, AccountsFlush DEF Next, Over

(* Whatever the run does, however the posts are answered, and whether the    *)
(* flush gets through or is cut off: each failed call was sent, failed or    *)
(* capped, each digest sent or failed, once, or nothing at all is reported.  *)
THEOREM AlwaysSettled == Spec => []Settled
<1>1. Accounts => Settled
  BY DEF Accounts, Settled, Failures
<1> QED BY <1>1, AccountsInit, AccountsNext, PTL DEF Spec
-----------------------------------------------------------------------------
(* What a step of the run is, for its digests.                               *)
Acts ==
  [what : {"denied", "call", "nudge", "turn"}, call : Calls \cup {NoEntry},
   posted : BOOLEAN, resolving : BOOLEAN, failed : BOOLEAN,
   asks : RefusedClaims \cup {"nudge", "gate_red", "none"}]

Typed ==
  /\ buf \in Buffers /\ bodies \in Seq(Digests) /\ log \in Seq(Acts)
  /\ buf.next = Len(bodies)
  /\ phase = "running" <=> ~buf.finished
  /\ phase # "running" => buf.open = <<>>

(* It did one thing: a group went in, and maybe a correction was opened.     *)
GroupOf(e, group) ==
  \/ \E size \in Nat : group = CallGroup(buf, Now, e.posted, size, e.resolving)
  \/ ~e.posted /\ ~e.resolving /\ \E sizes \in Seq(Nat) : group = TurnTexts(sizes)

Took(e, r, group) ==
  /\ e \in Acts /\ phase = "running" /\ phase' = "running" /\ log' = Append(log, e)
  /\ Does(bodies, buf, r, group, CallOpen(buf, Now, e.posted, e.resolving))
  /\ ~r.buf.finished /\ Tidies(buf, r) /\ GroupOf(e, group)
  /\ e.resolving => e.asks = "none"
  /\ bodies' = bodies \o r.out /\ buf' = Ask(r.buf, e.asks)

(* A denial is known to MemoryRunState, and nothing else changes that.       *)
Remembers(e) ==
  IF e.what = "denied"
  THEN /\ ~e.posted /\ ~e.resolving /\ e.asks = "none" /\ e.call \in Calls /\ Denied(e.call)
       /\ deny' = [entries |-> deny.entries \cup {EntryOf[e.call]},
                   calls |-> deny.calls \cup {e.call}, count |-> deny.count + 1]
  ELSE UNCHANGED deny

Ended(r) ==
  /\ phase = "running" /\ phase' = "flushing" /\ UNCHANGED <<log, deny>>
  /\ Does(bodies, buf, r, CorrectionItems(buf.open, FALSE), <<>>) /\ r.buf.finished
  /\ Ends(buf, r)
  /\ bodies' = bodies \o r.out /\ buf' = r.buf

Rested ==
  /\ (phase = "running") = (phase' = "running")
  /\ UNCHANGED <<buf, bodies, log, deny>>

(* A correction is open for one of its trigger, or is opened.                *)
Opening(b, trigger, id) ==
  Append(b.open, [trigger |-> trigger, id |-> id, size |-> CorrectionSize, pending |-> <<>>])

LEMMA AskTyped ==
  ASSUME NEW b \in Buffers, ~b.finished, Now \in Nat,
         NEW trigger \in RefusedClaims \cup {"nudge", "gate_red", "none"}
  PROVE  /\ Ask(b, trigger) \in Buffers /\ Ask(b, trigger).items = b.items
         /\ Ask(b, trigger).next = b.next /\ ~Ask(b, trigger).finished
         /\ Ask(b, trigger).truncated = b.truncated
         /\ Ask(b, trigger).open = IF trigger = "none" \/ Folds(b, trigger) THEN b.open
                                   ELSE Opening(b, trigger, Now)
         /\ trigger # "none" => Opening(b, trigger, Now) \in Seq(Requests)
<1>1. CASE trigger = "none" \/ Folds(b, trigger)
  <2>1. Ask(b, trigger) = b
    BY <1>1 DEF Ask, Correction
  <2>2. trigger # "none" => Opening(b, trigger, Now) \in Seq(Requests)
    BY DEF Opening, Buffers, Requests
  <2> QED BY <1>1, <2>1, <2>2
<1>2. CASE ~(trigger = "none" \/ Folds(b, trigger))
  <2> DEFINE x == [trigger |-> trigger, id |-> Now, size |-> CorrectionSize, pending |-> <<>>]
             open == Append(b.open, x)
  <2>1. x \in Requests
    BY <1>2 DEF Requests
  <2>2. b.open \in Seq(Requests)
    BY DEF Buffers
  <2>3. Ask(b, trigger) = [b EXCEPT !.open = open] /\ open = Opening(b, trigger, Now)
    BY <1>2 DEF Ask, Correction, Opening
  <2> HIDE DEF x
  <2>4. open \in Seq(Requests)
    BY <2>1, <2>2
  <2> HIDE DEF open
  <2>5. LET c == [b EXCEPT !.open = open]
        IN /\ c \in Buffers /\ c.items = b.items /\ c.next = b.next /\ c.open = open
           /\ c.truncated = b.truncated /\ ~c.finished
    BY <2>4 DEF Buffers
  <2> QED BY <1>2, <2>3, <2>4, <2>5
<1> QED BY <1>1, <1>2

(* The result of the steps that only the buffer's message tells apart.       *)
LEMMA DoesOfItems ==
  ASSUME NEW bd, NEW b, NEW c, b.items = c.items, b.next = c.next,
         NEW r, NEW group, NEW open, Does(bd, b, r, group, open)
  PROVE  Does(bd, c, r, group, open)
BY ContentOfItems DEF Does

(* The types are kept.                                                       *)
LEMMA TookTyped ==
  ASSUME Typed, NEW e, NEW r, NEW group, Took(e, r, group)
  PROVE  Typed' /\ r.buf \in Buffers /\ Content(bodies', buf') = Content(bodies \o r.out, r.buf)
<1>1. /\ r.buf \in Buffers /\ r.out \in Seq(Digests) /\ r.buf.next = buf.next + Len(r.out)
  BY DEF Took, Does
<1>2. /\ e \in Acts /\ phase' = "running" /\ log' = Append(log, e) /\ ~r.buf.finished
      /\ bodies' = bodies \o r.out /\ buf' = Ask(r.buf, e.asks)
  BY DEF Took
<1>3. e.asks \in RefusedClaims \cup {"nudge", "gate_red", "none"} /\ Now \in Nat
  BY <1>2 DEF Acts, Typed, Now
<1>4. /\ buf' \in Buffers /\ buf'.items = r.buf.items /\ buf'.next = r.buf.next /\ ~buf'.finished
  BY <1>1, <1>2, <1>3, AskTyped
<1>5. log' \in Seq(Acts)
  BY <1>2 DEF Typed
<1>6. bodies' \in Seq(Digests) /\ buf'.next = Len(bodies')
  <2> DEFINE o == r.out
  <2>1. o \in Seq(Digests) /\ bodies' = bodies \o o /\ bodies \in Seq(Digests)
        /\ buf'.next = Len(bodies) + Len(o)
    BY <1>1, <1>2, <1>4 DEF Typed
  <2> HIDE DEF o
  <2> QED BY <2>1
<1>7. Content(bodies', buf') = Content(bodies', r.buf)
  BY <1>4, ContentOfItems
<1> QED BY <1>1, <1>2, <1>4, <1>5, <1>6, <1>7 DEF Typed

(* The types are kept to the end.                                            *)
LEMMA EndedTyped ==
  ASSUME Typed, NEW r, Ended(r)
  PROVE  Typed'
<1>1. /\ r.buf \in Buffers /\ r.out \in Seq(Digests) /\ r.buf.next = buf.next + Len(r.out)
      /\ r.buf.open = <<>>
  BY DEF Ended, Does
<1>2. /\ phase' = "flushing" /\ log' = log /\ r.buf.finished
      /\ bodies' = bodies \o r.out /\ buf' = r.buf
  BY DEF Ended
<1>3. bodies' \in Seq(Digests) /\ buf'.next = Len(bodies')
  <2> DEFINE o == r.out
  <2>1. o \in Seq(Digests) /\ bodies' = bodies \o o /\ bodies \in Seq(Digests)
        /\ buf'.next = Len(bodies) + Len(o)
    BY <1>1, <1>2 DEF Typed
  <2> HIDE DEF o
  <2> QED BY <2>1
<1> QED BY <1>1, <1>2, <1>3 DEF Typed

(* A step without a call puts nothing in.                                    *)
LEMMA NothingPut ==
  ASSUME Typed
  PROVE  LET r == [buf |-> buf, out |-> <<>>]
         IN /\ Does(bodies, buf, r, <<>>, CallOpen(buf, Now, FALSE, FALSE))
            /\ <<>> = CallGroup(buf, Now, FALSE, 0, FALSE)
            /\ bodies \o r.out = bodies /\ Tidies(buf, r)
<1> DEFINE r == Append1(buf, <<>>, FALSE)
<1>1. r = [buf |-> buf, out |-> <<>>]
  BY DEF Append1
<1>2. <<>> \in Seq(Items) /\ bodies \o <<>> = bodies
  BY DEF Typed
<1>3. Does(bodies, buf, r, <<>>, buf.open)
  BY <1>2, AppendDoes DEF Typed
<1>4. CallOpen(buf, Now, FALSE, FALSE) = buf.open
  BY DEF CallOpen, WaitFor
<1>5. <<>> = CallGroup(buf, Now, FALSE, 0, FALSE)
  BY DEF CallGroup, CallItems
<1> HIDE DEF r
<1>6. Tidies(buf, r)
  <2>1. r.buf = buf /\ Len(r.out) = 0
    BY <1>1
  <2> QED BY <2>1 DEF Tidies, Closes
<1> QED BY <1>1, <1>2, <1>3, <1>4, <1>5, <1>6

(* A call that was run and a finish.                                         *)
LEMMA CallTaken ==
  ASSUME Typed, phase = "running", phase' = "running", NEW b \in Buffers,
         b.items = buf.items, b.next = buf.next, b.open = buf.open, ~b.finished,
         b.truncated = buf.truncated,
         NEW e \in Acts, log' = Append(log, e), NEW size \in Nat, e.resolving => e.asks = "none",
         bodies' = bodies \o Call(b, Now, e.posted, size, e.resolving).out,
         buf' = Ask(Call(b, Now, e.posted, size, e.resolving).buf, e.asks)
  PROVE  \E r, group : Took(e, r, group)
<1> DEFINE r == Call(b, Now, e.posted, size, e.resolving)
           group == CallGroup(b, Now, e.posted, size, e.resolving)
<1>1. bodies \in Seq(Digests) /\ Now \in Nat /\ e.posted \in BOOLEAN /\ e.resolving \in BOOLEAN
  BY DEF Typed, Now, Acts
<1>2. Does(bodies, b, r, group, CallOpen(b, Now, e.posted, e.resolving)) /\ ~r.buf.finished
  BY <1>1, CallDoes
<1>3. /\ CallOpen(b, Now, e.posted, e.resolving) = CallOpen(buf, Now, e.posted, e.resolving)
      /\ group = CallGroup(buf, Now, e.posted, size, e.resolving)
  BY DEF CallOpen, CallGroup
<1> HIDE DEF r, group
<1>4. Does(bodies, buf, r, group, CallOpen(buf, Now, e.posted, e.resolving))
  BY <1>2, <1>3, DoesOfItems
<1>5. GroupOf(e, group)
  BY <1>3 DEF GroupOf
<1>6. Tidies(buf, r)
  <2>1. Tidies(b, r)
    BY <1>1, CallTidies DEF r
  <2> QED BY <2>1 DEF Tidies, Tidy, Closes
<1>7. Took(e, r, group)
  BY <1>2, <1>4, <1>5, <1>6 DEF Took, r
<1> QED BY <1>7

(* Every step is one of three.                                               *)
LEMMA StepsTaken ==
  ASSUME Typed, [Next]_vars
  PROVE  \/ Rested
         \/ \E r : Ended(r)
         \/ \E e, r, group : Took(e, r, group) /\ Remembers(e)
<1> DEFINE Goal == \/ Rested
                   \/ \E r : Ended(r)
                   \/ \E e, r, group : Took(e, r, group) /\ Remembers(e)
<1> SUFFICES Goal
  OBVIOUS
<1>1. ASSUME NEW c \in Calls, DenyCall(c) PROVE Goal
  <2> DEFINE e == Step("denied", c, FALSE, FALSE, FALSE, "none")
             r == [buf |-> buf, out |-> <<>>]
  <2>1. e \in Acts /\ e.posted = FALSE /\ e.resolving = FALSE /\ e.asks = "none"
        /\ e.what = "denied" /\ e.call = c
    BY DEF Step, Acts
  <2>2. /\ phase = "running" /\ phase' = "running" /\ log' = Append(log, e)
        /\ UNCHANGED <<buf, bodies>>
    BY <1>1 DEF DenyCall, Log
  <2>3. Remembers(e)
    BY <1>1, <2>1 DEF DenyCall, Remembers
  <2> HIDE DEF e
  <2>4. GroupOf(e, <<>>) /\ Does(bodies, buf, r, <<>>, CallOpen(buf, Now, e.posted, e.resolving))
        /\ bodies' = bodies \o r.out /\ Tidies(buf, r)
    BY <2>1, <2>2, NothingPut DEF GroupOf
  <2>5. ~r.buf.finished /\ buf' = Ask(r.buf, e.asks)
    BY <2>1, <2>2 DEF Ask, Typed
  <2>6. Took(e, r, <<>>)
    BY <2>1, <2>2, <2>4, <2>5 DEF Took
  <2> QED BY <2>3, <2>6
<1>2. CASE Nudge
  <2> DEFINE e == Step("nudge", NoEntry, FALSE, FALSE, FALSE, "nudge")
             r == [buf |-> buf, out |-> <<>>]
  <2>1. e \in Acts /\ e.posted = FALSE /\ e.resolving = FALSE /\ e.asks = "nudge"
        /\ e.what = "nudge"
    BY DEF Step, Acts
  <2>2. /\ phase = "running" /\ phase' = "running" /\ log' = Append(log, e)
        /\ UNCHANGED <<bodies, deny>> /\ buf' = Ask(buf, "nudge")
    BY <1>2 DEF Nudge, Log
  <2>3. Remembers(e)
    BY <2>1, <2>2 DEF Remembers
  <2> HIDE DEF e
  <2>4. GroupOf(e, <<>>) /\ Does(bodies, buf, r, <<>>, CallOpen(buf, Now, e.posted, e.resolving))
        /\ bodies' = bodies \o r.out /\ Tidies(buf, r)
    BY <2>1, <2>2, NothingPut DEF GroupOf
  <2>5. ~r.buf.finished /\ buf' = Ask(r.buf, e.asks)
    BY <2>1, <2>2 DEF Typed
  <2>6. Took(e, r, <<>>)
    BY <2>1, <2>2, <2>4, <2>5 DEF Took
  <2> QED BY <2>3, <2>6
<1>3. ASSUME NEW c \in Calls, NEW error \in BOOLEAN, RunCall(c, error) PROVE Goal
  <2> DEFINE posted == c \in PostedCalls
             resolving == c \in CheckCalls /\ ~error
             asks == IF c \in CheckCalls /\ error THEN "gate_red" ELSE "none"
             size == IF error THEN ErrorSize ELSE 1
             e == Step("call", c, posted, resolving, error /\ c \in EventCalls, asks)
  <2>1. e \in Acts /\ e.posted = posted /\ e.resolving = resolving /\ e.asks = asks
        /\ e.what = "call"
    BY DEF Step, Acts
  <2>2. /\ phase = "running" /\ phase' = "running" /\ log' = Append(log, e)
        /\ bodies' = bodies \o Call(buf, Now, posted, size, resolving).out
        /\ buf' = Ask(Call(buf, Now, posted, size, resolving).buf, asks)
        /\ UNCHANGED deny
    BY <1>3 DEF RunCall, Log, PostDigests
  <2>3. size \in Nat
    OBVIOUS
  <2>a. resolving => asks = "none"
    OBVIOUS
  <2> HIDE DEF e, posted, resolving, asks, size
  <2>4. buf \in Buffers /\ ~buf.finished
    BY <2>2 DEF Typed
  <2>5. \E r, group : Took(e, r, group)
    BY <2>1, <2>2, <2>3, <2>4, <2>a, CallTaken
  <2>6. Remembers(e)
    BY <2>1, <2>2 DEF Remembers
  <2> QED BY <2>5, <2>6
<1>4. ASSUME NEW accepted \in BOOLEAN, NEW resolving \in BOOLEAN,
             NEW asks \in RefusedClaims \cup {"none"}, resolving => asks = "none",
             FinishCall(accepted, resolving, asks)
      PROVE  Goal
  <2> DEFINE b == [buf EXCEPT !.message = @ \/ accepted]
             size == IF accepted THEN 1 ELSE ErrorSize
             e == Step("call", NoEntry, FinishPosted, resolving, FALSE, asks)
  <2>1. e \in Acts /\ e.posted = FinishPosted /\ e.resolving = resolving /\ e.asks = asks
        /\ e.what = "call"
    BY DEF Step, Acts
  <2>2. /\ phase = "running" /\ phase' = "running" /\ log' = Append(log, e)
        /\ bodies' = bodies \o Call(b, Now, FinishPosted, size, resolving).out
        /\ buf' = Ask(Call(b, Now, FinishPosted, size, resolving).buf, asks)
        /\ UNCHANGED deny
    BY <1>4 DEF FinishCall, Log, PostDigests
  <2>3. size \in Nat
    OBVIOUS
  <2>4. /\ b \in Buffers /\ b.items = buf.items /\ b.next = buf.next /\ b.open = buf.open
        /\ ~b.finished /\ b.truncated = buf.truncated
    BY <2>2 DEF Typed, Buffers
  <2> HIDE DEF e, size, b
  <2>5. \E r, group : Took(e, r, group)
    BY <1>4, <2>1, <2>2, <2>3, <2>4, CallTaken
  <2>6. Remembers(e)
    BY <2>1, <2>2 DEF Remembers
  <2> QED BY <2>5, <2>6
<1>5. ASSUME NEW turn \in TextGroups, NEW passed \in BOOLEAN,
             ModelTurn(turn.sizes, turn.spoke, passed)
      PROVE  Goal
  <2> DEFINE e == Step("turn", NoEntry, FALSE, FALSE, FALSE, "none")
             sizes == turn.sizes
             r == Turn(buf, sizes, turn.spoke, passed)
             group == TurnTexts(sizes)
  <2>1. e \in Acts /\ e.posted = FALSE /\ e.resolving = FALSE /\ e.asks = "none"
        /\ e.what = "turn"
    BY DEF Step, Acts
  <2>2. /\ phase = "running" /\ phase' = "running" /\ log' = Append(log, e)
        /\ bodies' = bodies \o r.out /\ buf' = r.buf /\ UNCHANGED deny
    BY <1>5 DEF ModelTurn, Log, PostDigests
  <2>3. sizes \in Seq(Nat) /\ turn.spoke \in BOOLEAN
    OBVIOUS
  <2>4. buf \in Buffers /\ ~buf.finished /\ bodies \in Seq(Digests)
    BY <2>2 DEF Typed
  <2>5. Does(bodies, buf, r, group, buf.open) /\ ~r.buf.finished /\ Tidies(buf, r)
    BY <2>3, <2>4, TurnDoes, TurnTidies
  <2>6. GroupOf(e, group)
    BY <2>1, <2>3 DEF GroupOf
  <2> HIDE DEF e, r, group
  <2>7. CallOpen(buf, Now, e.posted, e.resolving) = buf.open
    BY <2>1 DEF CallOpen, WaitFor
  <2>8. buf' = Ask(r.buf, e.asks)
    BY <2>1, <2>2 DEF Ask
  <2>9. Took(e, r, group)
    BY <2>1, <2>2, <2>5, <2>6, <2>7, <2>8 DEF Took
  <2>10. Remembers(e)
    BY <2>1, <2>2 DEF Remembers
  <2> QED BY <2>9, <2>10
<1>6. CASE Flush
  <2> DEFINE r == Finish(buf)
  <2>1. /\ phase = "running" /\ phase' = "flushing" /\ UNCHANGED <<log, deny>>
        /\ bodies' = bodies \o r.out /\ buf' = r.buf
    BY <1>6 DEF Flush, PostDigests
  <2>2. Does(bodies, buf, r, CorrectionItems(buf.open, FALSE), <<>>) /\ r.buf.finished
        /\ Ends(buf, r)
    BY <2>1, FinishDoes, FinishEnds DEF Typed
  <2> HIDE DEF r
  <2>3. Ended(r)
    BY <2>1, <2>2 DEF Ended
  <2> QED BY <2>3
<1>7. CASE FlushCutOff
  BY <1>7 DEF FlushCutOff, Rested
<1>8. ASSUME NEW a, NEW t, FlushReturns(a, t) PROVE Goal
  BY <1>8 DEF FlushReturns, Rested
<1>9. CASE UNCHANGED vars
  BY <1>9 DEF vars, Rested
<1> HIDE DEF Goal
<1>10. Goal
  <2>1. CASE \E asks \in RefusedClaims \cup {"none"} : FinishCall(FALSE, FALSE, asks)
    BY <1>4, <2>1
  <2>2. CASE \E resolving \in BOOLEAN : FinishCall(TRUE, resolving, "none")
    BY <1>4, <2>2
  <2>3. CASE \E c \in Calls : DenyCall(c) \/ \E error \in BOOLEAN : RunCall(c, error)
    BY <1>1, <1>3, <2>3
  <2>4. CASE \E turn \in TextGroups, passed \in BOOLEAN :
               ModelTurn(turn.sizes, turn.spoke, passed)
    BY <1>5, <2>4
  <2>5. CASE \E a \in 0..events, t \in 0..digests : FlushReturns(a, t)
    BY <1>8, <2>5
  <2>6. CASE Over
    <3>1. UNCHANGED vars
      BY <2>6 DEF Over
    <3> QED BY <1>9, <3>1
  <2>7. CASE UNCHANGED vars
    BY <1>9, <2>7
  <2>8. Next \/ UNCHANGED vars
    OBVIOUS
  <2> QED BY <1>2, <1>6, <1>7, <2>8, <2>7, <2>1, <2>2, <2>3, <2>4, <2>5, <2>6 DEF Next
<1> QED BY <1>10

LEMMA TypedInit == Init => Typed
<1> SUFFICES ASSUME Init PROVE Typed
  OBVIOUS
<1>1. /\ buf = [items |-> <<>>, next |-> 0, truncated |-> FALSE, open |-> <<>>,
                message |-> FALSE, finished |-> FALSE]
      /\ bodies = <<>> /\ log = <<>> /\ phase = "running"
  BY DEF Init, Empty
<1>2. <<>> \in Seq(Items) /\ <<>> \in Seq(Requests) /\ <<>> \in Seq(Digests) /\ <<>> \in Seq(Acts)
  OBVIOUS
<1>3. buf \in Buffers
  BY <1>1, <1>2 DEF Buffers
<1>4. buf.next = 0 /\ buf.finished = FALSE
  BY <1>1
<1>5. Len(bodies) = 0
  BY <1>1
<1> QED BY <1>1, <1>2, <1>3, <1>4, <1>5 DEF Typed

LEMMA TypedNext == Typed /\ [Next]_vars => Typed'
<1> SUFFICES ASSUME Typed, [Next]_vars PROVE Typed'
  OBVIOUS
<1>1. CASE Rested
  BY <1>1 DEF Rested, Typed
<1>2. ASSUME NEW r, Ended(r) PROVE Typed'
  BY <1>2, EndedTyped
<1>3. ASSUME NEW e, NEW r, NEW group, Took(e, r, group) PROVE Typed'
  BY <1>3, TookTyped
<1> QED BY <1>1, <1>2, <1>3, StepsTaken

LEMMA ModeKept == [Next]_vars => mode' = mode
BY DEF Next, vars, DenyCall, RunCall, FinishCall, Nudge, ModelTurn, Flush, FlushReturns,
       FlushCutOff, Over

(* What is in the digests now, and that no call denied is behind it.         *)
Held == Content(bodies, buf)

LEMMA HeldPlaces ==
  ASSUME Typed
  PROVE  /\ DOMAIN Held = Placed
         /\ \A p \in Placed : /\ Held[p] = ItemAt(p) /\ ItemAt(p) \in Items
                              /\ p[1] \in Nat /\ p[2] \in Nat
<1> DEFINE n == Len(bodies)
<1>1. n \in Nat /\ bodies \in Seq(Digests) /\ buf \in Buffers
  BY DEF Typed
<1>2. \A d \in 1..(n + 1) : Digest(d) \in Seq(Items) /\ Digest(d) = Part(bodies, buf, d)
  <2> TAKE d \in 1..(n + 1)
  <2>1. Digest(d) = Part(bodies, buf, d)
    BY DEF Digest, Part
  <2>2. CASE d <= n
    <3>1. bodies[d] \in Digests
      BY <1>1, <2>2
    <3> QED BY <2>1, <2>2, <3>1 DEF Part, Digests
  <2>3. CASE ~(d <= n)
    BY <1>1, <2>1, <2>3 DEF Part, Buffers
  <2> QED BY <2>1, <2>2, <2>3
<1> HIDE DEF n
<1>3. \A d \in 1..(n + 1) : DOMAIN Digest(d) = 1..Len(Part(bodies, buf, d))
  BY <1>2
<1>4. Placed = UNION {{d} \X DOMAIN Digest(d) : d \in 1..(n + 1)}
  BY DEF Placed, n
<1>5. ASSUME NEW p \in Placed
      PROVE  /\ p \in Spots(bodies, buf) /\ ItemAt(p) = Part(bodies, buf, p[1])[p[2]]
             /\ ItemAt(p) \in Items /\ p[1] \in Nat /\ p[2] \in Nat
  <2>1. PICK d \in 1..(n + 1) : p \in {d} \X DOMAIN Digest(d)
    BY <1>4, <1>5
  <2>2. p = <<p[1], p[2]>> /\ p[1] = d /\ p[2] \in 1..Len(Part(bodies, buf, d))
    BY <1>3, <2>1
  <2>3. p[1] \in Nat /\ p[2] \in Nat
    BY <1>1, <1>2, <2>2
  <2>4. p \in Nat \X Nat
    BY <2>2, <2>3
  <2>5. p \in Spots(bodies, buf)
    BY <2>1, <2>2, <2>4 DEF Spots, n
  <2>6. ItemAt(p) = Part(bodies, buf, p[1])[p[2]] /\ ItemAt(p) \in Items
    BY <1>2, <2>1, <2>2 DEF ItemAt
  <2> QED BY <2>3, <2>5, <2>6
<1>6. ASSUME NEW p \in Spots(bodies, buf) PROVE p \in Placed
  <2>1. /\ p \in Nat \X Nat /\ p[1] \in 1..(n + 1)
        /\ p[2] \in 1..Len(Part(bodies, buf, p[1]))
    BY <1>6 DEF Spots, n
  <2>2. p = <<p[1], p[2]>>
    BY <2>1
  <2> DEFINE d == p[1]
             j == p[2]
  <2>3. p = <<d, j>> /\ d \in 1..(n + 1) /\ j \in DOMAIN Digest(d)
    BY <1>3, <2>1, <2>2
  <2> HIDE DEF d, j
  <2>4. p \in {d} \X DOMAIN Digest(d)
    BY <2>3
  <2> QED BY <1>4, <2>3, <2>4
<1>7. Spots(bodies, buf) = Placed
  BY <1>5, <1>6
<1> QED BY <1>5, <1>7 DEF Held, Content

(* What a step puts in: texts, a call and its result, what it resolves.      *)
Stems(e, k, item) ==
  \/ item.kind = "text" /\ item.id = 0
  \/ /\ e.posted /\ k \in 1..2 /\ item.id = Now
     /\ item.kind = IF k = 1 THEN "tool_call" ELSE "tool_result"
  \/ e.resolving /\ \E i \in 1..Len(buf.open) : /\ item = CorrectionItem(buf.open[i], TRUE)
                                                /\ k = i + IF e.posted THEN 2 ELSE 0

LEMMA GroupStems ==
  ASSUME Typed, NEW e \in Acts, NEW group, GroupOf(e, group), NEW k \in 1..Len(group)
  PROVE  Stems(e, k, group[k])
<1>0. e.posted \in BOOLEAN /\ e.resolving \in BOOLEAN /\ buf.open \in Seq(Requests) /\ Now \in Nat
  BY DEF Typed, Acts, Buffers, Now
<1>1. CASE \E sizes \in Seq(Nat) : group = TurnTexts(sizes)
  <2>1. group[k].kind = "text" /\ group[k].id = 0
    BY <1>1, TurnTextsTyped
  <2> QED BY <2>1 DEF Stems
<1>2. ASSUME NEW size \in Nat, group = CallGroup(buf, Now, e.posted, size, e.resolving)
      PROVE  Stems(e, k, group[k])
  <2> DEFINE s == CallItems(Now, e.posted, size)
             t == CorrectionItems(buf.open, TRUE)
             m == IF e.posted THEN 2 ELSE 0
             x == [kind |-> "tool_call", id |-> Now, size |-> 1]
             y == [kind |-> "tool_result", id |-> Now, size |-> size]
  <2>1. s \in Seq(Items) /\ Len(s) = m
    BY <1>0, CallItemsTyped
  <2>2. /\ t \in Seq(Items) /\ Len(t) = Len(buf.open)
        /\ \A i \in 1..Len(buf.open) : t[i] = CorrectionItem(buf.open[i], TRUE)
    BY <1>0, CorrectionItemsTyped
  <2>3. group = IF e.resolving THEN s \o t ELSE s
    BY <1>2 DEF CallGroup
  <2>4. s = IF e.posted THEN <<x, y>> ELSE <<>>
    BY DEF CallItems
  <2>5. x.kind = "tool_call" /\ y.kind = "tool_result" /\ x.id = Now /\ y.id = Now
    OBVIOUS
  <2> HIDE DEF s, t, m, x, y
  <2>6. m \in Nat /\ Len(buf.open) \in Nat
    BY <1>0 DEF m
  <2>7. CASE k <= m
    <3>1. k \in 1..m /\ group[k] = s[k]
      BY <2>1, <2>2, <2>3, <2>6, <2>7
    <3>2. e.posted /\ k \in 1..2
      BY <1>0, <3>1 DEF m
    <3>3. group[k] = IF k = 1 THEN x ELSE y
      BY <2>4, <3>1, <3>2
    <3> QED BY <2>5, <3>2, <3>3 DEF Stems
  <2>8. CASE k > m
    <3>1. e.resolving /\ group = s \o t
      BY <1>0, <2>1, <2>3, <2>6, <2>8
    <3>2. PICK i \in 1..Len(t) : k = i + m
      <4>1. Len(group) = m + Len(t)
        <5>1. s \in Seq(Items) /\ t \in Seq(Items)
          BY <2>1, <2>2
        <5>2. Len(s \o t) = Len(s) + Len(t)
          BY <5>1, ConcatProperties
        <5> QED BY <2>1, <3>1, <5>2
      <4>2. k - m \in 1..Len(t) /\ k = (k - m) + m
        BY <2>2, <2>6, <2>8, <4>1
      <4> QED BY <4>2
    <3>3. group[k] = t[i]
      BY <2>1, <2>2, <2>6, <3>1, <3>2
    <3>4. i \in 1..Len(buf.open) /\ group[k] = CorrectionItem(buf.open[i], TRUE)
      BY <2>2, <3>2, <3>3
    <3> QED BY <3>1, <3>2, <3>4 DEF Stems, m
  <2> QED BY <2>6, <2>7, <2>8
<1> QED BY <1>1, <1>2 DEF GroupOf

(* A step adds to what is held, and to what is open.                         *)
LEMMA TookHeld ==
  ASSUME Typed, NEW e, NEW r, NEW group, Took(e, r, group)
  PROVE  \E f : /\ GrownBy(Held, Held', group, f)
                /\ Owed(group, CallOpen(buf, Now, e.posted, e.resolving)) \subseteq DOMAIN f
<1>1. \E f : /\ GrownBy(Content(bodies, buf), Content(bodies \o r.out, r.buf), group, f)
             /\ Owed(group, CallOpen(buf, Now, e.posted, e.resolving)) \subseteq DOMAIN f
  BY DEF Took, Does
<1>2. Content(bodies', buf') = Content(bodies \o r.out, r.buf)
  BY TookTyped
<1> QED BY <1>1, <1>2 DEF Held

LEMMA EndedHeld ==
  ASSUME Typed, NEW r, Ended(r)
  PROVE  \E f : /\ GrownBy(Held, Held', CorrectionItems(buf.open, FALSE), f)
                /\ Owed(CorrectionItems(buf.open, FALSE), <<>>) \subseteq DOMAIN f
BY DEF Ended, Does, Held

(* The corrections that are open behind a step: those that were, maybe with  *)
(* its call to name, and one that it asked for.                              *)

LEMMA TookOpen ==
  ASSUME Typed, NEW e, NEW r, NEW group, Took(e, r, group)
  PROVE  LET open == CallOpen(buf, Now, e.posted, e.resolving)
         IN /\ open \in Seq(Requests) /\ buf'.open \in Seq(Requests)
            /\ buf'.open =
                 IF e.asks = "none" \/ \E i \in 1..Len(open) : open[i].trigger = e.asks THEN open
                 ELSE Append(open, [trigger |-> e.asks, id |-> Now, size |-> CorrectionSize,
                                    pending |-> <<>>])
<1> DEFINE open == CallOpen(buf, Now, e.posted, e.resolving)
<1>1. /\ e \in Acts /\ r.buf \in Buffers /\ ~r.buf.finished /\ r.buf.open = open
      /\ buf' = Ask(r.buf, e.asks) /\ Now \in Nat
  BY DEF Took, Does, Typed, Now
<1> HIDE DEF open
<1>2. open \in Seq(Requests)
  BY <1>1 DEF Buffers
<1>3. /\ buf' \in Buffers
      /\ buf'.open = IF e.asks = "none" \/ Folds(r.buf, e.asks) THEN open
                     ELSE Opening(r.buf, e.asks, Now)
  <2>1. e.asks \in RefusedClaims \cup {"nudge", "gate_red", "none"}
    BY <1>1 DEF Acts
  <2> QED BY <1>1, <2>1, AskTyped
<1>4. Folds(r.buf, e.asks) <=> \E i \in 1..Len(open) : open[i].trigger = e.asks
  BY <1>1, <1>2 DEF Folds, ToSet
<1>5. Opening(r.buf, e.asks, Now) =
        Append(open, [trigger |-> e.asks, id |-> Now, size |-> CorrectionSize, pending |-> <<>>])
  BY <1>1 DEF Opening
<1>6. buf'.open \in Seq(Requests)
  BY <1>3 DEF Buffers
<1> QED BY <1>2, <1>3, <1>4, <1>5, <1>6 DEF open

-----------------------------------------------------------------------------
DeniedLog == {i \in DOMAIN log : log[i].what = "denied"}
Ran(l, id) == id = 0 \/ (id \in 1..Len(l) /\ l[id].what # "denied")

(* The denials are the ones MemoryRunState counts, each of an entry of its   *)
(* own; and what is held or open is of something that was run.               *)
Denials ==
  /\ IsFiniteSet(DeniedLog) /\ deny.count = Cardinality(DeniedLog) /\ deny.count <= MaxDenies
  /\ mode # "deny_once" => DeniedLog = {}
  /\ \A i \in DeniedLog : EntryOf[log[i].call] \in deny.entries
  /\ \A i, j \in DeniedLog : i # j => EntryOf[log[i].call] # EntryOf[log[j].call]

OfRun ==
  /\ \A p \in DOMAIN Held : Ran(log, Held[p].id)
  /\ \A i \in 1..Len(buf.open) : Ran(log, buf.open[i].id)

(* A denial is counted, and is of an entry that was not denied before.       *)
LEMMA DenialsNext ==
  ASSUME Typed, Denials, [Next]_vars
  PROVE  Denials'
<1>0. mode' = mode
  BY ModeKept
<1>1. CASE Rested \/ \E r : Ended(r)
  <2>1. UNCHANGED <<log, deny>>
    BY <1>1 DEF Rested, Ended
  <2> QED BY <1>0, <2>1 DEF Denials, DeniedLog
<1>2. ASSUME NEW e, NEW r, NEW group, Took(e, r, group), Remembers(e) PROVE Denials'
  <2>1. log \in Seq(Acts) /\ e \in Acts /\ log' = Append(log, e) /\ Now = Len(log) + 1 /\ Now \in Nat
    BY <1>2 DEF Took, Typed, Now
  <2>2. /\ DOMAIN log = 1..Len(log) /\ DOMAIN log' = 1..Now
        /\ \A i \in 1..Len(log) : log'[i] = log[i] /\ i # Now /\ i \in 1..Now
        /\ log'[Now] = e /\ Now \in 1..Now /\ \A i \in 1..Now : i = Now \/ i \in 1..Len(log)
    BY <2>1
  <2>3. CASE e.what = "denied"
    <3>1. DeniedLog' = DeniedLog \cup {Now} /\ Now \notin DeniedLog
      BY <2>2, <2>3 DEF DeniedLog
    <3>2. /\ Denied(e.call) /\ deny'.count = deny.count + 1
          /\ deny'.entries = deny.entries \cup {EntryOf[e.call]}
      BY <1>2, <2>3 DEF Remembers
    <3>3. /\ IsFiniteSet(DeniedLog') /\ Cardinality(DeniedLog') = Cardinality(DeniedLog) + 1
      BY <3>1, FS_AddElement DEF Denials
    <3>4. Cardinality(DeniedLog) \in Nat
      BY FS_CardinalityType DEF Denials
    <3>5. deny'.count <= MaxDenies
      <4> DEFINE n == deny.count
      <4>1. n \in Nat /\ n < MaxDenies /\ deny'.count = n + 1 /\ MaxDenies \in Nat
        BY <3>2, <3>4 DEF Denials, Denied
      <4> HIDE DEF n
      <4> QED BY <4>1
    <3>6. mode' = "deny_once"
      BY <1>0, <3>2 DEF Denied
    <3>7. \A i \in DeniedLog : log'[i].call = log[i].call
      BY <2>2 DEF DeniedLog
    <3>8. \A i \in DeniedLog : EntryOf[log[i].call] # EntryOf[e.call]
      BY <3>2 DEF Denials, Denied
    <3>9. log'[Now].call = e.call
      BY <2>2
    <3>10. \A i \in DeniedLog' : EntryOf[log'[i].call] \in deny'.entries
      BY <3>1, <3>2, <3>7, <3>9 DEF Denials
    <3>11. \A i, j \in DeniedLog' : i # j => EntryOf[log'[i].call] # EntryOf[log'[j].call]
      BY <3>1, <3>7, <3>8, <3>9 DEF Denials
    <3>12. deny'.count = Cardinality(DeniedLog')
      BY <3>2, <3>3 DEF Denials
    <3> QED BY <3>3, <3>5, <3>6, <3>10, <3>11, <3>12 DEF Denials
  <2>4. CASE e.what # "denied"
    <3>1. DeniedLog' = DeniedLog /\ UNCHANGED deny
      BY <1>2, <2>2, <2>4 DEF DeniedLog, Remembers
    <3>2. \A i \in DeniedLog : log'[i].call = log[i].call
      BY <2>2 DEF DeniedLog
    <3>3. /\ \A i \in DeniedLog' : EntryOf[log'[i].call] \in deny'.entries
          /\ \A i, j \in DeniedLog' : i # j => EntryOf[log'[i].call] # EntryOf[log'[j].call]
      BY <3>1, <3>2 DEF Denials
    <3>4. /\ IsFiniteSet(DeniedLog') /\ deny'.count = Cardinality(DeniedLog')
          /\ deny'.count <= MaxDenies
      BY <3>1 DEF Denials
    <3>5. mode' # "deny_once" => DeniedLog' = {}
      BY <1>0, <3>1 DEF Denials
    <3> QED BY <3>3, <3>4, <3>5 DEF Denials
  <2> QED BY <2>3, <2>4
<1> QED BY <1>1, <1>2, StepsTaken

(* What waits behind a call is what waited before it, for the call as well.   *)
LEMMA CallOpenWaits ==
  ASSUME Typed, NEW e \in Acts
  PROVE  LET open == CallOpen(buf, Now, e.posted, e.resolving)
         IN \A i \in 1..Len(open) :
              /\ i \in 1..Len(buf.open)
              /\ open[i] = IF e.posted THEN [buf.open[i] EXCEPT !.pending = Append(@, Now)]
                           ELSE buf.open[i]
<1> DEFINE open == CallOpen(buf, Now, e.posted, e.resolving)
<1>0. buf.open \in Seq(Requests) /\ Now \in Nat
  BY DEF Typed, Buffers, Now
<1>1. CASE e.resolving
  <2>1. open = <<>>
    BY <1>1 DEF CallOpen
  <2>2. Len(open) = 0
    BY <2>1
  <2> HIDE DEF open
  <2> QED BY <2>2 DEF open
<1>2. CASE ~e.resolving
  <2> DEFINE was == buf.open
             n == Now
             posted == e.posted
             w == WaitFor(was, n, posted)
  <2>1. was \in Seq(Requests) /\ n \in Nat /\ open = w
    BY <1>0, <1>2 DEF CallOpen
  <2> HIDE DEF was, n, posted, open
  <2>2. Len(w) = Len(was)
    BY <2>1, WaitForTyped
  <2>3. \A i \in 1..Len(was) :
          w[i] = IF posted THEN [was[i] EXCEPT !.pending = Append(@, n)] ELSE was[i]
    BY DEF w, WaitFor
  <2> HIDE DEF w
  <2> QED BY <2>1, <2>2, <2>3 DEF open, was, n, posted
<1> QED BY <1>1, <1>2

LEMMA CallOpenIds ==
  ASSUME Typed, NEW e \in Acts
  PROVE  LET open == CallOpen(buf, Now, e.posted, e.resolving)
         IN \A i \in 1..Len(open) : i \in 1..Len(buf.open) /\ open[i].id = buf.open[i].id
<1> DEFINE open == CallOpen(buf, Now, e.posted, e.resolving)
<1>1. ASSUME NEW i \in 1..Len(open)
      PROVE  i \in 1..Len(buf.open) /\ open[i].id = buf.open[i].id
  <2>1. /\ i \in 1..Len(buf.open)
        /\ open[i] = IF e.posted THEN [buf.open[i] EXCEPT !.pending = Append(@, Now)]
                     ELSE buf.open[i]
    BY <1>1, CallOpenWaits
  <2> HIDE DEF open
  <2> DEFINE c == buf.open[i]
  <2>2. c \in Requests
    BY <2>1 DEF Typed, Buffers
  <2>3. [c EXCEPT !.pending = Append(@, Now)].id = c.id
    BY <2>2 DEF Requests
  <2> HIDE DEF c
  <2>4. open[i].id = c.id
    BY <2>1, <2>3 DEF c
  <2> QED BY <2>1, <2>4 DEF c
<1> QED BY <1>1

(* Nothing that was not run comes to be held, or open.                        *)
LEMMA OfRunNext ==
  ASSUME Typed, OfRun, [Next]_vars
  PROVE  OfRun'
<1>1. CASE Rested
  BY <1>1 DEF Rested, OfRun, Ran, Held
<1>2. ASSUME NEW r, Ended(r) PROVE OfRun'
  <2> DEFINE group == CorrectionItems(buf.open, FALSE)
  <2>1. PICK f : GrownBy(Held, Held', group, f)
    BY <1>2, EndedHeld
  <2>2. UNCHANGED log /\ buf'.open = <<>> /\ buf.open \in Seq(Requests)
    BY <1>2, EndedTyped DEF Ended, Typed, Buffers
  <2>3. \A id : Ran(log', id) <=> Ran(log, id)
    BY <2>2 DEF Ran
  <2>4. \A k \in DOMAIN f : Ran(log, group[k].id)
    <3> TAKE k \in DOMAIN f
    <3>1. k \in 1..Len(group)
      BY <2>1 DEF GrownBy
    <3>2. k \in 1..Len(buf.open) /\ group[k] = CorrectionItem(buf.open[k], FALSE)
      BY <2>2, <3>1, CorrectionItemsTyped
    <3> HIDE DEF group
    <3>3. group[k].id = buf.open[k].id
      BY <3>2 DEF CorrectionItem
    <3> QED BY <3>2, <3>3 DEF OfRun
  <2> HIDE DEF group
  <2>5. \A p \in DOMAIN Held' : Ran(log, Held'[p].id)
    BY <2>1, <2>4 DEF GrownBy, OfRun
  <2>6. \A i \in 1..Len(buf'.open) : FALSE
    BY <2>2
  <2> QED BY <2>3, <2>5, <2>6 DEF OfRun
<1>3. ASSUME NEW e, NEW r, NEW group, Took(e, r, group), Remembers(e) PROVE OfRun'
  <2>1. log \in Seq(Acts) /\ e \in Acts /\ log' = Append(log, e) /\ Now = Len(log) + 1 /\ Now \in Nat
    BY <1>3 DEF Took, Typed, Now
  <2>2. /\ DOMAIN log = 1..Len(log) /\ DOMAIN log' = 1..Now /\ Len(log') = Now
        /\ \A i \in 1..Len(log) : log'[i] = log[i] /\ i # Now /\ i \in 1..Now
        /\ log'[Now] = e /\ Now \in 1..Now
    BY <2>1
  <2>3. \A id : Ran(log, id) => Ran(log', id)
    BY <2>2 DEF Ran
  <2>4. e.what # "denied" => Ran(log', Now)
    BY <2>2 DEF Ran
  <2>5. e.posted \/ e.resolving \/ e.asks # "none" => Ran(log', Now)
    BY <1>3, <2>4 DEF Remembers
  <2>6. PICK f : GrownBy(Held, Held', group, f)
    BY <1>3, TookHeld
  <2>7. \A k \in DOMAIN f : Ran(log', group[k].id)
    <3> TAKE k \in DOMAIN f
    <3>1. k \in 1..Len(group) /\ GroupOf(e, group)
      BY <1>3, <2>6 DEF GrownBy, Took
    <3>2. Stems(e, k, group[k])
      BY <2>1, <3>1, GroupStems
    <3> DEFINE x == group[k]
    <3> HIDE DEF x
    <3>3. x.id = 0 => Ran(log', x.id)
      BY DEF Ran
    <3>4. e.posted /\ x.id = Now => Ran(log', x.id)
      BY <2>5
    <3>5. ASSUME NEW i \in 1..Len(buf.open), x = CorrectionItem(buf.open[i], TRUE)
          PROVE  Ran(log', x.id)
      <4>1. x.id = buf.open[i].id
        BY <3>5, CorrectionItemOf
      <4> QED BY <2>3, <4>1 DEF OfRun
    <3>6. Ran(log', x.id)
      BY <3>2, <3>3, <3>4, <3>5 DEF Stems, x
    <3> QED BY <3>6 DEF x
  <2>8. \A p \in DOMAIN Held' : Ran(log', Held'[p].id)
    BY <2>3, <2>6, <2>7 DEF GrownBy, OfRun
  <2>9. \A i \in 1..Len(buf'.open) : Ran(log', buf'.open[i].id)
    <3> DEFINE open == CallOpen(buf, Now, e.posted, e.resolving)
               new == buf'.open
    <3>1. /\ open \in Seq(Requests) /\ new \in Seq(Requests)
          /\ new = IF e.asks = "none" \/ \E i \in 1..Len(open) : open[i].trigger = e.asks THEN open
                   ELSE Append(open, [trigger |-> e.asks, id |-> Now, size |-> CorrectionSize,
                                      pending |-> <<>>])
      BY <1>3, TookOpen
    <3>2. \A i \in 1..Len(open) : i \in 1..Len(buf.open) /\ open[i].id = buf.open[i].id
      BY <2>1, CallOpenIds
    <3> HIDE DEF open, new
    <3>3. \A i \in 1..Len(open) : Ran(log', open[i].id)
      BY <2>3, <3>2 DEF OfRun
    <3>4. \A i \in 1..Len(new) : Ran(log', new[i].id)
      BY <2>5, <3>1, <3>3
    <3> QED BY <3>4 DEF new
  <2> QED BY <2>8, <2>9 DEF OfRun
<1> QED BY <1>1, <1>2, <1>3, StepsTaken

(* Nothing was done, and nothing is held.                                    *)
LEMMA NothingHeld ==
  Init => log = <<>> /\ buf.open = <<>> /\ bodies = <<>> /\ DOMAIN Held = {}
<1> SUFFICES ASSUME Init PROVE log = <<>> /\ buf.open = <<>> /\ bodies = <<>> /\ DOMAIN Held = {}
  OBVIOUS
<1>1. bodies = <<>> /\ buf.items = <<>> /\ buf.open = <<>> /\ log = <<>>
  BY DEF Init, Empty
<1>2. Len(bodies) = 0 /\ Len(buf.items) = 0
  BY <1>1
<1>3. \A p : p \notin Spots(bodies, buf)
  BY <1>1, <1>2 DEF Spots, Part
<1>4. DOMAIN Held = Spots(bodies, buf)
  BY DEF Held, Content
<1> QED BY <1>1, <1>3, <1>4

LEMMA DenialsInit == Init => Denials /\ OfRun
<1> SUFFICES ASSUME Init PROVE Denials /\ OfRun
  OBVIOUS
<1>1. log = <<>> /\ buf.open = <<>> /\ DOMAIN Held = {}
  BY NothingHeld
<1>2. deny.count = 0
  BY DEF Init
<1>3. DeniedLog = {}
  BY <1>1 DEF DeniedLog
<1>4. IsFiniteSet(DeniedLog) /\ Cardinality(DeniedLog) = 0
  BY <1>3, FS_EmptySet
<1>5. Len(buf.open) = 0
  BY <1>1
<1>6. Denials
  BY <1>2, <1>3, <1>4 DEF Denials
<1> QED BY <1>1, <1>5, <1>6 DEF OfRun

(* However the calls come, no more than the cap are denied in a run, none of *)
(* them for an entry that denied before, none outside deny_once; and a call  *)
(* that was denied, so not run, is in no digest and behind no correction.    *)
THEOREM DeniedOnceCorrect == Spec => []DeniedOnce
<1>1. Init => Typed /\ Denials /\ OfRun
  BY TypedInit, DenialsInit
<1>2. (Typed /\ Denials /\ OfRun) /\ [Next]_vars => (Typed /\ Denials /\ OfRun)'
  BY TypedNext, DenialsNext, OfRunNext
<1>3. Typed /\ Denials /\ OfRun => DeniedOnce
  <2> SUFFICES ASSUME Typed, Denials, OfRun PROVE DeniedOnce
    OBVIOUS
  <2>1. DOMAIN log = 1..Len(log)
    BY DEF Typed
  <2>2. Cardinality(DeniedLog) <= MaxDenies
    BY DEF Denials
  <2>3. \A p \in Placed : ItemAt(p).id \notin DeniedLog
    <3> TAKE p \in Placed
    <3>1. Ran(log, ItemAt(p).id)
      BY HeldPlaces DEF OfRun
    <3> QED BY <2>1, <3>1 DEF Ran, DeniedLog
  <2> QED BY <2>2, <2>3 DEF DeniedOnce, Denials, DeniedLog
<1> QED BY <1>1, <1>2, <1>3, PTL DEF Spec

-----------------------------------------------------------------------------
HasCall(h, id) == \E q \in DOMAIN h : h[q].kind = "tool_call" /\ h[q].id = id

(* What a correction names, or would if it were resolved now, is held.       *)
Names(h) ==
  \A p \in DOMAIN h : h[p].kind = "correction" =>
    \A id \in ToSet(h[p].by) :
      \E q \in DOMAIN h : h[q].kind = "tool_call" /\ h[q].id = id /\ q[1] <= p[1]

NamedHeld ==
  /\ Names(Held)
  /\ \A i \in 1..Len(buf.open) : \A id \in ToSet(ResolvedBy(buf.open[i])) : HasCall(Held, id)

(* A call the knowledge base has a name for leads its group.                 *)
LEMMA CallLeads ==
  ASSUME Typed, NEW e \in Acts, e.posted, NEW group, GroupOf(e, group)
  PROVE  1 \in 1..Len(group) /\ group[1].kind = "tool_call" /\ group[1].id = Now
<1>0. e.posted = TRUE /\ buf.open \in Seq(Requests) /\ Now \in Nat
  BY DEF Typed, Acts, Buffers, Now
<1>1. PICK size \in Nat : group = CallGroup(buf, Now, e.posted, size, e.resolving)
  BY DEF GroupOf
<1> DEFINE s == CallItems(Now, TRUE, size)
           t == CorrectionItems(buf.open, TRUE)
           x == [kind |-> "tool_call", id |-> Now, size |-> 1]
           y == [kind |-> "tool_result", id |-> Now, size |-> size]
<1>2. s \in Seq(Items) /\ t \in Seq(Items)
  BY <1>0, CallItemsTyped, CorrectionItemsTyped
<1>3. s = <<x, y>> /\ x.kind = "tool_call" /\ x.id = Now
  BY DEF CallItems
<1>4. group = IF e.resolving THEN s \o t ELSE s
  BY <1>0, <1>1 DEF CallGroup
<1> HIDE DEF s, t, x, y
<1>5. Len(s) = 2 /\ s[1] = x
  BY <1>3
<1>a. Len(t) \in Nat
  BY <1>2
<1>b. Len(s \o t) = Len(s) + Len(t) /\ \A i \in 1..Len(s) : (s \o t)[i] = s[i]
  BY <1>2, ConcatProperties
<1>c. (s \o t)[1] = x /\ Len(s \o t) >= 2
  BY <1>5, <1>a, <1>b
<1>6. Len(group) \in Nat /\ Len(group) >= 2 /\ group[1] = x
  BY <1>4, <1>5, <1>a, <1>b, <1>c
<1> QED BY <1>3, <1>6

(* What is named is still, when more is held.                                *)
LEMMA NamesGrow ==
  ASSUME NEW old, NEW new, NEW group, NEW f, GrownBy(old, new, group, f), Names(old),
         \A p \in DOMAIN new : p[1] \in Nat /\ p[2] \in Nat,
         \A k \in DOMAIN f : group[k].kind = "correction" =>
                             \A id \in ToSet(group[k].by) : HasCall(old, id)
  PROVE  Names(new)
<1> SUFFICES ASSUME NEW p \in DOMAIN new, new[p].kind = "correction", NEW id \in ToSet(new[p].by)
             PROVE  \E q \in DOMAIN new : new[q].kind = "tool_call" /\ new[q].id = id /\ q[1] <= p[1]
  BY DEF Names
<1>1. /\ DOMAIN new = DOMAIN old \cup {f[k] : k \in DOMAIN f}
      /\ \A q \in DOMAIN old : new[q] = old[q]
      /\ \A k \in DOMAIN f : new[f[k]] = group[k] /\ \A q \in DOMAIN old : Before(q, f[k])
  BY DEF GrownBy
<1>2. CASE p \in DOMAIN old
  <2>1. old[p].kind = "correction" /\ id \in ToSet(old[p].by)
    BY <1>1, <1>2
  <2>2. PICK q \in DOMAIN old : old[q].kind = "tool_call" /\ old[q].id = id /\ q[1] <= p[1]
    BY <1>2, <2>1 DEF Names
  <2>3. q \in DOMAIN new /\ new[q] = old[q]
    BY <1>1
  <2> QED BY <2>2, <2>3
<1>3. ASSUME NEW k \in DOMAIN f, p = f[k]
      PROVE  \E q \in DOMAIN new : new[q].kind = "tool_call" /\ new[q].id = id /\ q[1] <= p[1]
  <2>a. new[p] = group[k]
    BY <1>1, <1>3
  <2>b. group[k].kind = "correction" /\ id \in ToSet(group[k].by)
    BY <2>a
  <2>c. HasCall(old, id)
    BY <2>b
  <2>1. PICK q \in DOMAIN old : old[q].kind = "tool_call" /\ old[q].id = id
    BY <2>c DEF HasCall
  <2>2. Before(q, p) /\ q \in DOMAIN new /\ new[q] = old[q]
    BY <1>1, <1>3
  <2>3. q[1] <= p[1]
    BY <2>2 DEF Before
  <2> QED BY <2>1, <2>2, <2>3
<1> QED BY <1>1, <1>2, <1>3

LEMMA NamedHeldNext ==
  ASSUME Typed, NamedHeld, [Next]_vars
  PROVE  NamedHeld'
<1>1. CASE Rested
  BY <1>1 DEF Rested, NamedHeld, Held
<1>2. ASSUME NEW r, Ended(r) PROVE NamedHeld'
  <2> DEFINE group == CorrectionItems(buf.open, FALSE)
  <2>1. PICK f : GrownBy(Held, Held', group, f)
    BY <1>2, EndedHeld
  <2>2. buf'.open = <<>> /\ buf.open \in Seq(Requests)
    BY <1>2, EndedTyped DEF Ended, Typed, Buffers
  <2>3. \A k \in DOMAIN f : group[k].by = <<>>
    <3> TAKE k \in DOMAIN f
    <3>1. k \in 1..Len(group)
      BY <2>1 DEF GrownBy
    <3>2. k \in 1..Len(buf.open) /\ group[k] = CorrectionItem(buf.open[k], FALSE)
      BY <2>2, <3>1, CorrectionItemsTyped
    <3> HIDE DEF group
    <3> QED BY <3>2 DEF CorrectionItem
  <2> HIDE DEF group
  <2>4. \A k \in DOMAIN f : group[k].kind = "correction" =>
                            \A id \in ToSet(group[k].by) : HasCall(Held, id)
    BY <2>3 DEF ToSet
  <2>5. \A i \in 1..Len(buf'.open) : FALSE
    BY <2>2
  <2>6. \A p \in DOMAIN Held' : p[1] \in Nat /\ p[2] \in Nat
    BY DEF Held, Content, Spots
  <2>7. Names(Held)
    BY DEF NamedHeld
  <2>8. Names(Held')
    BY <2>1, <2>4, <2>6, <2>7, NamesGrow
  <2> QED BY <2>5, <2>8 DEF NamedHeld
<1>3. ASSUME NEW e, NEW r, NEW group, Took(e, r, group) PROVE NamedHeld'
  <2> DEFINE open == CallOpen(buf, Now, e.posted, e.resolving)
             new == buf'.open
  <2>1. PICK f : GrownBy(Held, Held', group, f) /\ Owed(group, open) \subseteq DOMAIN f
    BY <1>3, TookHeld
  <2>2. e \in Acts /\ GroupOf(e, group)
    BY <1>3 DEF Took
  <2>3. \A k \in DOMAIN f : group[k].kind = "correction" =>
                            \A id \in ToSet(group[k].by) : HasCall(Held, id)
    <3> SUFFICES ASSUME NEW k \in DOMAIN f, group[k].kind = "correction",
                        NEW id \in ToSet(group[k].by)
                 PROVE  HasCall(Held, id)
      OBVIOUS
    <3>1. k \in 1..Len(group)
      BY <2>1 DEF GrownBy
    <3>2. Stems(e, k, group[k])
      BY <2>2, <3>1, GroupStems
    <3>3. PICK i \in 1..Len(buf.open) : group[k] = CorrectionItem(buf.open[i], TRUE)
      BY <3>2 DEF Stems
    <3>4. group[k].by = ResolvedBy(buf.open[i])
      BY <3>3 DEF CorrectionItem
    <3> QED BY <3>4 DEF NamedHeld
  <2>4. \A id : HasCall(Held, id) => HasCall(Held', id)
    BY <2>1 DEF GrownBy, HasCall
  <2>5. /\ open \in Seq(Requests) /\ new \in Seq(Requests)
        /\ new = IF e.asks = "none" \/ \E i \in 1..Len(open) : open[i].trigger = e.asks THEN open
                 ELSE Append(open, [trigger |-> e.asks, id |-> Now, size |-> CorrectionSize,
                                    pending |-> <<>>])
    BY <1>3, TookOpen
  <2>6. \A i \in 1..Len(open) : \A id \in ToSet(ResolvedBy(open[i])) : HasCall(Held', id)
    <3> SUFFICES ASSUME NEW i \in 1..Len(open), NEW id \in ToSet(ResolvedBy(open[i]))
                 PROVE  HasCall(Held', id)
      OBVIOUS
    <3>1. /\ i \in 1..Len(buf.open)
          /\ open[i] = IF e.posted THEN [buf.open[i] EXCEPT !.pending = Append(@, Now)]
                       ELSE buf.open[i]
      BY <2>2, CallOpenWaits
    <3>2. buf.open[i] \in Requests /\ Now \in Nat
      <4>1. buf.open \in Seq(Requests) /\ log \in Seq(Acts)
        BY DEF Typed, Buffers
      <4> QED BY <3>1, <4>1 DEF Now
    <3>3. CASE ~(e.posted /\ id = Now)
      <4> DEFINE c == buf.open[i]
      <4>1. id \in ToSet(ResolvedBy(c))
        <5>1. CASE ~e.posted
          BY <3>1, <5>1
        <5>2. CASE e.posted /\ id # Now
          <6> HIDE DEF c, open
          <6>1. c \in Requests /\ open[i] = [c EXCEPT !.pending = Append(@, Now)]
            BY <3>1, <3>2, <5>2 DEF c
          <6>2. ToSet(ResolvedBy([c EXCEPT !.pending = Append(@, Now)]))
                  \subseteq ToSet(ResolvedBy(c)) \cup {Now}
            BY <3>2, <6>1, ResolvedByOneMore
          <6> QED BY <5>2, <6>1, <6>2
        <5> QED BY <3>3, <5>1, <5>2
      <4>2. HasCall(Held, id)
        BY <3>1, <4>1 DEF NamedHeld
      <4> QED BY <2>4, <4>2
    <3>4. CASE e.posted /\ id = Now
      <4>1. 1 \in 1..Len(group) /\ group[1].kind = "tool_call" /\ group[1].id = Now
        BY <2>2, <3>4, CallLeads
      <4> HIDE DEF open
      <4>2. Now \in Protected(open)
        BY <2>5, <3>4 DEF Protected, ToSet
      <4>3. 1 \in Owed(group, open)
        BY <4>1, <4>2 DEF Owed
      <4>4. 1 \in DOMAIN f
        BY <2>1, <4>3 DEF open
      <4>5. f[1] \in DOMAIN Held' /\ Held'[f[1]] = group[1]
        BY <2>1, <4>4 DEF GrownBy
      <4> QED BY <3>4, <4>1, <4>5 DEF HasCall
    <3> QED BY <3>3, <3>4
  <2> HIDE DEF open
  <2>7. \A i \in 1..Len(new) : \A id \in ToSet(ResolvedBy(new[i])) : HasCall(Held', id)
    <3> HIDE DEF new
    <3> DEFINE x == [trigger |-> e.asks, id |-> Now, size |-> CorrectionSize, pending |-> <<>>]
    <3>1. CASE new = open
      BY <2>6, <3>1
    <3>2. CASE new = Append(open, x)
      <4>1. x.pending = <<>>
        OBVIOUS
      <4> HIDE DEF x
      <4>2. /\ Len(new) = Len(open) + 1 /\ new[Len(open) + 1] = x
            /\ \A i \in 1..Len(open) : new[i] = open[i]
        BY <2>5, <3>2
      <4>3. x \in Requests
        BY <2>5, <3>2, <4>2
      <4>4. ToSet(ResolvedBy(x)) = {}
        <5>1. Len(x.pending) = 0
          BY <4>1
        <5> QED BY <4>3, <5>1, ResolvedPlaces
      <4>5. \A i \in 1..Len(new) : i \in 1..Len(open) \/ new[i] = x
        BY <2>5, <4>2
      <4> QED BY <2>6, <4>2, <4>4, <4>5
    <3> QED BY <2>5, <3>1, <3>2
  <2>8. \A p \in DOMAIN Held' : p[1] \in Nat /\ p[2] \in Nat
    BY DEF Held, Content, Spots
  <2>9. Names(Held)
    BY DEF NamedHeld
  <2>10. Names(Held')
    BY <2>1, <2>3, <2>8, <2>9, NamesGrow
  <2> QED BY <2>7, <2>10 DEF NamedHeld, new
<1> QED BY <1>1, <1>2, <1>3, StepsTaken

(* However the groups are cut down and the digests closed, a call that a     *)
(* correction names was not taken: it is in a digest, at or before the       *)
(* correction's.                                                             *)
THEOREM NamesKeptCorrect == Spec => []NamesKept
<1>1. Init => Typed /\ NamedHeld
  <2> SUFFICES ASSUME Init PROVE NamedHeld
    BY TypedInit
  <2>1. buf.open = <<>> /\ DOMAIN Held = {}
    BY NothingHeld
  <2>2. Len(buf.open) = 0
    BY <2>1
  <2> QED BY <2>1, <2>2 DEF NamedHeld, Names
<1>2. (Typed /\ NamedHeld) /\ [Next]_vars => (Typed /\ NamedHeld)'
  BY TypedNext, NamedHeldNext
<1>3. Typed /\ NamedHeld => NamesKept
  <2> SUFFICES ASSUME Typed, NamedHeld PROVE NamesKept
    OBVIOUS
  <2>1. DOMAIN Held = Placed /\ \A p \in Placed : Held[p] = ItemAt(p)
    BY HeldPlaces
  <2>2. Names(Held)
    BY DEF NamedHeld
  <2> HIDE DEF NamedHeld
  <2>3. ASSUME NEW p \in OfKind("correction"), NEW id \in ToSet(ItemAt(p).by)
        PROVE  \E q \in OfKind("tool_call") : ItemAt(q).id = id /\ q[1] <= p[1]
    <3>1. p \in DOMAIN Held /\ Held[p].kind = "correction" /\ id \in ToSet(Held[p].by)
      BY <2>1, <2>3 DEF OfKind
    <3>2. PICK q \in DOMAIN Held : Held[q].kind = "tool_call" /\ Held[q].id = id /\ q[1] <= p[1]
      BY <2>2, <3>1 DEF Names
    <3> QED BY <2>1, <3>2 DEF OfKind
  <2> QED BY <2>3 DEF NamesKept
<1> QED BY <1>1, <1>2, <1>3, PTL DEF Spec

-----------------------------------------------------------------------------
InOrder(h) ==
  \A p, q \in DOMAIN h :
    h[p].kind = "tool_call" /\ h[q].kind = "tool_call" /\ h[p].id < h[q].id => Before(p, q)

(* Every digest is in its place and within the limits, and only the last of  *)
(* a run that ended may be empty or have the final message.                  *)
Fitting ==
  /\ Tidy(buf) /\ InOrder(Held)
  /\ \A d \in 1..Len(bodies) :
       Filed(bodies[d], d - 1) /\ (Plain(bodies[d]) \/ (d = Len(bodies) /\ buf.finished))

LEMMA FiledOn ==
  ASSUME Typed, NEW out \in Seq(Digests),
         \A d \in 1..Len(bodies) : Filed(bodies[d], d - 1) /\ Plain(bodies[d]),
         \A i \in 1..Len(out) : Filed(out[i], buf.next + i - 1)
  PROVE  LET new == bodies \o out
         IN \A d \in 1..Len(new) :
              /\ Filed(new[d], d - 1)
              /\ Plain(new[d]) \/ \E i \in 1..Len(out) : /\ new[d] = out[i]
                                                         /\ d = Len(new) <=> i = Len(out)
<1> DEFINE new == bodies \o out
           m == Len(bodies)
           n == Len(out)
<1>1. bodies \in Seq(Digests) /\ buf.next = m /\ m \in Nat /\ n \in Nat
  BY DEF Typed
<1>2. /\ Len(new) = m + n
      /\ \A i \in 1..m : new[i] = bodies[i]
      /\ \A i \in m + 1..m + n : new[i] = out[i - m]
  BY <1>1, ConcatProperties
<1> HIDE DEF new
<1>3. ASSUME NEW d \in 1..Len(new)
      PROVE  /\ Filed(new[d], d - 1)
             /\ Plain(new[d]) \/ \E i \in 1..n : new[d] = out[i] /\ (d = Len(new) <=> i = n)
  <2>1. CASE d \in 1..m
    BY <1>2, <2>1
  <2>2. CASE d \notin 1..m
    <3>1. d \in m + 1..m + n /\ d - m \in 1..n /\ (d = m + n <=> d - m = n)
      BY <1>1, <1>2, <1>3, <2>2
    <3>2. Filed(out[d - m], m + (d - m) - 1)
      BY <1>1, <3>1
    <3>3. m + (d - m) - 1 = d - 1
      BY <1>1, <3>1
    <3> HIDE DEF m, n
    <3> QED BY <1>2, <3>1, <3>2, <3>3
  <2> QED BY <2>1, <2>2
<1> QED BY <1>3 DEF new

(* A call comes behind all that were before it.                              *)
LEMMA InOrderNext ==
  ASSUME Typed, OfRun, InOrder(Held), NEW e, NEW r, NEW group, Took(e, r, group)
  PROVE  InOrder(Held')
<1>1. PICK f : GrownBy(Held, Held', group, f)
  BY TookHeld
<1>2. e \in Acts /\ GroupOf(e, group) /\ Now \in Nat /\ Now = Len(log) + 1 /\ Len(log) \in Nat
  BY DEF Took, Typed, Now
<1> DEFINE old == Held
           new == Held'
<1>3. \A p \in DOMAIN old : old[p].id < Now
  BY <1>2 DEF OfRun, Ran
<1>4. \A k \in DOMAIN f : group[k].kind = "tool_call" => k = 1 /\ group[k].id = Now
  <2> SUFFICES ASSUME NEW k \in DOMAIN f, group[k].kind = "tool_call"
               PROVE  k = 1 /\ group[k].id = Now
    OBVIOUS
  <2>1. k \in 1..Len(group)
    BY <1>1 DEF GrownBy
  <2>2. Stems(e, k, group[k])
    BY <1>2, <2>1, GroupStems
  <2> DEFINE x == group[k]
  <2> HIDE DEF x
  <2>3. x.kind = "tool_call"
    BY DEF x
  <2>4. \A i : x # CorrectionItem(buf.open[i], TRUE)
    BY <2>3 DEF CorrectionItem
  <2>5. k = 1 /\ x.id = Now
    BY <2>2, <2>3, <2>4 DEF Stems, x
  <2> QED BY <2>5 DEF x
<1>5. /\ DOMAIN new = DOMAIN old \cup {f[k] : k \in DOMAIN f}
      /\ \A p \in DOMAIN old : new[p] = old[p]
      /\ \A k \in DOMAIN f : new[f[k]] = group[k] /\ \A p \in DOMAIN old : Before(p, f[k])
  BY <1>1 DEF GrownBy
<1>6. \A p, q \in DOMAIN old : old[p].kind = "tool_call" /\ old[q].kind = "tool_call"
                               /\ old[p].id < old[q].id => Before(p, q)
  BY DEF InOrder
<1> HIDE DEF old, new
<1>7. ASSUME NEW p \in DOMAIN new, NEW q \in DOMAIN new, new[p].kind = "tool_call",
             new[q].kind = "tool_call", new[p].id < new[q].id
      PROVE  Before(p, q)
  <2>1. CASE p \in DOMAIN old /\ q \in DOMAIN old
    BY <1>5, <1>6, <1>7, <2>1
  <2>2. ASSUME NEW k \in DOMAIN f, q = f[k], p \in DOMAIN old PROVE Before(p, q)
    BY <1>5, <2>2
  <2>3. ASSUME NEW k \in DOMAIN f, p = f[k], q \in DOMAIN old PROVE FALSE
    <3>1. new[p].id = Now
      BY <1>4, <1>5, <1>7, <2>3
    <3>2. new[q] = old[q] /\ old[q].id < Now
      BY <1>3, <1>5, <2>3
    <3>3. new[q].id < Now /\ Now < new[q].id
      BY <1>7, <3>1, <3>2
    <3>4. new[q].id \in Int
      BY <1>2, <2>3, <3>2 DEF OfRun, Ran, old
    <3> QED BY <1>2, <3>3, <3>4
  <2>4. ASSUME NEW k \in DOMAIN f, NEW l \in DOMAIN f, p = f[k], q = f[l] PROVE FALSE
    <3>1. new[p].id = Now /\ new[q].id = Now
      BY <1>4, <1>5, <1>7, <2>4
    <3> QED BY <1>2, <1>7, <3>1
  <2> QED BY <1>5, <2>1, <2>2, <2>3, <2>4
<1> QED BY <1>7 DEF InOrder, new

LEMMA FittingNext ==
  ASSUME Typed, OfRun, Fitting, [Next]_vars
  PROVE  Fitting'
<1>1. CASE Rested
  <2>1. UNCHANGED <<buf, bodies>> /\ Held' = Held
    BY <1>1 DEF Rested, Held
  <2>2. Tidy(buf)' /\ InOrder(Held)'
    BY <2>1 DEF Fitting
  <2> QED BY <2>1, <2>2 DEF Fitting
<1>2. ASSUME NEW r, Ended(r) PROVE Fitting'
  <2> DEFINE group == CorrectionItems(buf.open, FALSE)
             out == r.out
             new == bodies \o out
  <2>1. /\ ~buf.finished /\ buf'.finished /\ Ends(buf, r) /\ bodies' = new /\ buf' = r.buf
        /\ out \in Seq(Digests) /\ buf.open \in Seq(Requests)
    BY <1>2 DEF Ended, Typed, Does, Buffers
  <2>2. ClosesLast(buf, out) /\ Tidy(buf')
    BY <2>1 DEF Ends, Fitting
  <2> HIDE DEF out
  <2>3. \A d \in 1..Len(bodies) : Filed(bodies[d], d - 1) /\ Plain(bodies[d])
    BY <2>1 DEF Fitting
  <2>4. \A i \in 1..Len(out) : /\ Filed(out[i], buf.next + i - 1)
                               /\ i = Len(out) \/ Plain(out[i])
    BY <2>2 DEF ClosesLast
  <2>5. \A d \in 1..Len(new) :
          /\ Filed(new[d], d - 1)
          /\ Plain(new[d]) \/ \E i \in 1..Len(out) : /\ new[d] = out[i]
                                                     /\ d = Len(new) <=> i = Len(out)
    BY <2>1, <2>3, <2>4, FiledOn
  <2> HIDE DEF new
  <2>6. \A d \in 1..Len(bodies') :
          Filed(bodies'[d], d - 1) /\ (Plain(bodies'[d]) \/ d = Len(bodies'))
    BY <2>1, <2>4, <2>5
  <2>7. PICK f : GrownBy(Held, Held', group, f)
    BY <1>2, EndedHeld
  <2>8. \A k \in DOMAIN f : group[k].kind = "correction"
    <3> TAKE k \in DOMAIN f
    <3>1. k \in 1..Len(group)
      BY <2>7 DEF GrownBy
    <3>2. k \in 1..Len(buf.open) /\ group[k] = CorrectionItem(buf.open[k], FALSE)
      BY <2>1, <3>1, CorrectionItemsTyped
    <3> HIDE DEF group
    <3> QED BY <3>2 DEF CorrectionItem
  <2> HIDE DEF group
  <2>9. \A k \in DOMAIN f : group[k].kind # "tool_call"
    BY <2>8
  <2>10. InOrder(Held')
    <3> DEFINE h == Held'
               old == Held
    <3>1. /\ DOMAIN h = DOMAIN old \cup {f[k] : k \in DOMAIN f}
          /\ \A p \in DOMAIN old : h[p] = old[p]
          /\ \A k \in DOMAIN f : h[f[k]] = group[k]
      BY <2>7 DEF GrownBy
    <3>2. InOrder(old)
      BY DEF Fitting
    <3> HIDE DEF h, old
    <3>3. \A p \in DOMAIN h : h[p].kind = "tool_call" => p \in DOMAIN old
      BY <2>9, <3>1
    <3>4. InOrder(h)
      BY <3>1, <3>2, <3>3 DEF InOrder
    <3> QED BY <3>4 DEF h
  <2> QED BY <2>1, <2>2, <2>6, <2>10 DEF Fitting
<1>3. ASSUME NEW e, NEW r, NEW group, Took(e, r, group) PROVE Fitting'
  <2> DEFINE out == r.out
             new == bodies \o out
  <2>1. /\ ~buf.finished /\ Tidies(buf, r) /\ bodies' = new /\ buf' = Ask(r.buf, e.asks)
        /\ out \in Seq(Digests) /\ r.buf \in Buffers /\ ~r.buf.finished /\ e \in Acts
        /\ Now \in Nat
    BY <1>3 DEF Took, Typed, Does, Now
  <2>2. Closes(buf, out) /\ Tidy(r.buf)
    BY <2>1 DEF Tidies, Fitting
  <2> HIDE DEF out
  <2>3. \A d \in 1..Len(bodies) : Filed(bodies[d], d - 1) /\ Plain(bodies[d])
    BY <2>1 DEF Fitting
  <2>4. \A i \in 1..Len(out) : Filed(out[i], buf.next + i - 1) /\ Plain(out[i])
    BY <2>2 DEF Closes
  <2>5. \A d \in 1..Len(new) :
          /\ Filed(new[d], d - 1)
          /\ Plain(new[d]) \/ \E i \in 1..Len(out) : /\ new[d] = out[i]
                                                     /\ d = Len(new) <=> i = Len(out)
    BY <2>1, <2>3, <2>4, FiledOn
  <2> HIDE DEF new
  <2>6. \A d \in 1..Len(bodies') : Filed(bodies'[d], d - 1) /\ Plain(bodies'[d])
    BY <2>1, <2>4, <2>5
  <2>7. Tidy(buf')
    <3>1. e.asks \in RefusedClaims \cup {"nudge", "gate_red", "none"}
      BY <2>1 DEF Acts
    <3>2. /\ buf'.items = r.buf.items /\ buf'.next = r.buf.next
          /\ buf'.truncated = r.buf.truncated
      BY <2>1, <3>1, AskTyped
    <3> QED BY <2>2, <3>2 DEF Tidy
  <2>8. InOrder(Held')
    BY <1>3, InOrderNext DEF Fitting
  <2> QED BY <2>6, <2>7, <2>8 DEF Fitting
<1> QED BY <1>1, <1>2, <1>3, StepsTaken

(* What is posted is within the limits and so is the open digest, the        *)
(* indexes have no gap, nothing follows the final message, calls stay in     *)
(* their order, and a digest that is not told to be cut has every result.    *)
THEOREM BodiesFitCorrect == Spec => []BodiesFit
<1>1. Init => Typed /\ OfRun /\ Fitting
  <2> SUFFICES ASSUME Init PROVE Fitting
    BY TypedInit, DenialsInit
  <2>1. bodies = <<>> /\ DOMAIN Held = {} /\ buf.items = <<>> /\ buf.next = 0
    BY NothingHeld DEF Init, Empty
  <2>2. Len(bodies) = 0
    BY <2>1
  <2>3. Tidy(buf)
    <3>1. 0 \in Nat /\ FALSE \in BOOLEAN
      OBVIOUS
    <3>2. Fits(<<>>, 0, FALSE) /\ Matched(<<>>)
      BY <3>1, NothingFits, Zenon
    <3> QED BY <2>1, <3>2 DEF Tidy
  <2>4. InOrder(Held)
    BY <2>1 DEF InOrder
  <2> QED BY <2>2, <2>3, <2>4 DEF Fitting
<1>2. (Typed /\ OfRun /\ Fitting) /\ [Next]_vars => (Typed /\ OfRun /\ Fitting)'
  BY TypedNext, OfRunNext, FittingNext
<1>3. Typed /\ Fitting => BodiesFit
  <2> SUFFICES ASSUME Typed, Fitting PROVE BodiesFit
    OBVIOUS
  <2>1. DOMAIN bodies = 1..Len(bodies)
    BY DEF Typed
  <2>2. ASSUME NEW d \in DOMAIN bodies
        PROVE  /\ bodies[d].index = d - 1
               /\ bodies[d].fit => Fits(bodies[d].items, bodies[d].index, bodies[d].final)
               /\ (bodies[d].items = <<>> \/ bodies[d].final) => d = Len(bodies) /\ buf.finished
               /\ ~bodies[d].truncated =>
                    Kinds(bodies[d].items, "tool_call") = Kinds(bodies[d].items, "tool_result")
    <3> DEFINE b == bodies[d]
    <3>1. Filed(b, d - 1) /\ (Plain(b) \/ (d = Len(bodies) /\ buf.finished))
      BY <2>1, <2>2 DEF Fitting
    <3> HIDE DEF b
    <3>2. /\ b.index = d - 1
          /\ b.fit => Fits(b.items, b.index, b.final)
          /\ (b.items = <<>> \/ b.final) => d = Len(bodies) /\ buf.finished
          /\ ~b.truncated => Kinds(b.items, "tool_call") = Kinds(b.items, "tool_result")
      BY <3>1 DEF Filed, Plain, Matched
    <3> QED BY <3>2 DEF b
  <2>3. Fits(buf.items, buf.next, FALSE)
    BY DEF Fitting, Tidy
  <2>4. ASSUME NEW p \in OfKind("tool_call"), NEW q \in OfKind("tool_call"),
               ItemAt(p).id < ItemAt(q).id
        PROVE  p[1] < q[1] \/ (p[1] = q[1] /\ p[2] < q[2])
    <3>1. /\ p \in DOMAIN Held /\ Held[p] = ItemAt(p) /\ q \in DOMAIN Held /\ Held[q] = ItemAt(q)
          /\ ItemAt(p).kind = "tool_call" /\ ItemAt(q).kind = "tool_call"
      BY HeldPlaces DEF OfKind
    <3>2. Before(p, q)
      BY <2>4, <3>1 DEF Fitting, InOrder
    <3> QED BY <3>2 DEF Before
  <2> QED BY <2>2, <2>3, <2>4 DEF BodiesFit, Kinds
<1> QED BY <1>1, <1>2, <1>3, PTL DEF Spec

-----------------------------------------------------------------------------
(* One more place of a sequence is kept behind the others, or is not.        *)
LEMMA WhereOneMore ==
  ASSUME NEW s, NEW t, Len(s) \in Nat, Len(t) = Len(s) + 1, \A i \in 1..Len(s) : t[i] = s[i],
         NEW kept, NEW keep, \A i \in 1..Len(s) : i \in kept <=> i \in keep
  PROVE  Where(t, keep) = IF Len(t) \in keep THEN Append(Where(s, kept), t[Len(t)])
                          ELSE Where(s, kept)
<1> DEFINE n == Len(s)
           m == Len(t)
<1>1. PICK u : /\ Where(s, kept) = u[n] /\ u[0] = <<>>
               /\ \A i \in 1..n : u[i] = IF i \in kept THEN Append(u[i - 1], s[i]) ELSE u[i - 1]
  BY WhereByPlace
<1>2. PICK v : /\ Where(t, keep) = v[m] /\ v[0] = <<>>
               /\ \A i \in 1..m : v[i] = IF i \in keep THEN Append(v[i - 1], t[i]) ELSE v[i - 1]
  BY WhereByPlace
<1> DEFINE Good == {i \in 0..n : u[i] = v[i]}
<1>3. n \in Nat /\ m = n + 1
  OBVIOUS
<1>4. 0 \in Good
  BY <1>1, <1>2, <1>3
<1>5. ASSUME NEW i \in 1..n, i - 1 \in Good PROVE i \in Good
  <2>1. i \in 1..m /\ i \in 0..n /\ t[i] = s[i] /\ (i \in kept <=> i \in keep)
        /\ u[i - 1] = v[i - 1]
    BY <1>3, <1>5
  <2>2. u[i] = v[i]
    BY <1>1, <1>2, <1>5, <2>1
  <2> QED BY <2>1, <2>2
<1> HIDE DEF Good
<1>a. \A i \in 0..n : i \in Good
  BY <1>3, <1>4, <1>5, UpTo
<1>6. n \in Good
  BY <1>3, <1>a
<1>7. u[n] = v[n]
  BY <1>6 DEF Good
<1>8. m \in 1..m /\ m - 1 = n
  BY <1>3
<1>9. v[m] = IF m \in keep THEN Append(v[n], t[m]) ELSE v[n]
  BY <1>2, <1>8
<1> QED BY <1>1, <1>2, <1>7, <1>9

LEMMA WhereNone ==
  ASSUME NEW s, Len(s) \in Nat, NEW keep, \A i \in 1..Len(s) : i \notin keep
  PROVE  Where(s, keep) = <<>>
<1> DEFINE n == Len(s)
<1>1. PICK u : /\ Where(s, keep) = u[n] /\ u[0] = <<>>
               /\ \A i \in 1..n : u[i] = IF i \in keep THEN Append(u[i - 1], s[i]) ELSE u[i - 1]
  BY WhereByPlace
<1> DEFINE Good == {i \in 0..n : u[i] = <<>>}
<1>2. 0 \in Good /\ n \in Nat
  BY <1>1
<1>3. \A i \in 1..n : i - 1 \in Good => i \in Good
  BY <1>1, <1>2
<1> HIDE DEF Good
<1>a. \A i \in 0..n : i \in Good
  BY <1>2, <1>3, UpTo
<1>4. n \in Good
  BY <1>2, <1>a
<1> QED BY <1>1, <1>4 DEF Good

(* What the run's own log says of a correction, of any log l: the calls that *)
(* resolve what was asked at n, whether it was folded into an earlier one,   *)
(* and the calls it would name.                                              *)
After(l, n) == {k \in DOMAIN l : k > n /\ l[k].resolving}
Asked(l, n) ==
  /\ l[n].asks # "none"
  /\ \A m \in 1..(n - 1) : l[m].asks = l[n].asks => \E k \in After(l, m) : k < n
Since(l, n, k) ==
  Where([j \in 1..(k - 1) |-> j], {j \in (n + 1)..(k - 1) : l[j].posted})

LEMMA OfLog ==
  \A n : /\ Resolvers(n) = After(log, n) /\ (Opened(n) <=> Asked(log, n))
         /\ \A k : Between(n, k) = Since(log, n, k)
BY DEF Resolvers, After, Opened, Asked, Between, Since

LEMMA SinceMore ==
  ASSUME NEW l, NEW n \in Nat, NEW k \in Nat, n < k
  PROVE  Since(l, n, k + 1) = IF l[k].posted THEN Append(Since(l, n, k), k) ELSE Since(l, n, k)
<1> DEFINE s == [j \in 1..(k - 1) |-> j]
           t == [j \in 1..k |-> j]
           kept == {j \in (n + 1)..(k - 1) : l[j].posted}
           keep == {j \in (n + 1)..k : l[j].posted}
<1>1. Len(s) = k - 1 /\ Len(t) = k /\ k - 1 \in Nat /\ Len(t) = Len(s) + 1
  OBVIOUS
<1>2. \A i \in 1..Len(s) : t[i] = s[i] /\ (i \in kept <=> i \in keep)
  BY <1>1
<1>3. t[k] = k /\ (k \in keep <=> l[k].posted)
  BY <1>1
<1>4. Since(l, n, k) = Where(s, kept) /\ Since(l, n, k + 1) = Where(t, keep)
  <2>1. k + 1 - 1 = k
    OBVIOUS
  <2> QED BY <2>1 DEF Since
<1> HIDE DEF s, t, kept, keep
<1>5. Where(t, keep) = IF Len(t) \in keep THEN Append(Where(s, kept), t[Len(t)])
                       ELSE Where(s, kept)
  BY <1>1, <1>2, WhereOneMore
<1> QED BY <1>1, <1>3, <1>4, <1>5

LEMMA SinceNone ==
  ASSUME NEW l, NEW n \in Nat
  PROVE  Since(l, n, n + 1) = <<>>
<1> DEFINE s == [j \in 1..n |-> j]
           keep == {j \in (n + 1)..n : l[j].posted}
<1>1. Len(s) = n /\ n + 1 - 1 = n
  OBVIOUS
<1>2. keep = {}
  OBVIOUS
<1>3. Since(l, n, n + 1) = Where(s, keep)
  BY <1>1 DEF Since
<1> HIDE DEF s, keep
<1>4. Where(s, keep) = <<>>
  BY <1>1, <1>2, WhereNone
<1> QED BY <1>3, <1>4

(* What one more entry of the log changes of it: it may resolve what was     *)
(* asked before it.                                                          *)
Lengthens(l, e, m) ==
  /\ \A n \in 1..Len(l) :
       /\ After(m, n) = After(l, n) \cup (IF e.resolving THEN {Len(l) + 1} ELSE {})
       /\ Asked(m, n) <=> Asked(l, n)
       /\ \A k \in 1..(Len(l) + 1) : Since(m, n, k) = Since(l, n, k)
  /\ After(m, Len(l) + 1) = {}
  /\ Asked(m, Len(l) + 1) <=>
       /\ e.asks # "none"
       /\ \A j \in 1..Len(l) : l[j].asks = e.asks => \E k \in After(m, j) : k < Len(l) + 1

LEMMA LogOn ==
  ASSUME NEW l \in Seq(Acts), NEW e \in Acts, NEW m, m = Append(l, e)
  PROVE  Lengthens(l, e, m)
<1> DEFINE N == Len(l) + 1
<1>1. /\ Len(l) \in Nat /\ DOMAIN l = 1..Len(l) /\ DOMAIN m = 1..N /\ m[N] = e
      /\ \A i \in 1..Len(l) : m[i] = l[i]
  OBVIOUS
<1>2. N \in Nat /\ Len(l) = N - 1
  BY <1>1
<1> HIDE DEF N
<1>3. ASSUME NEW n \in 1..Len(l)
      PROVE  After(m, n) = After(l, n) \cup (IF e.resolving THEN {N} ELSE {})
  <2>1. \A k : k \in After(m, n) <=> k \in 1..N /\ k > n /\ m[k].resolving
    BY <1>1 DEF After
  <2>2. \A k : k \in After(l, n) <=> k \in 1..Len(l) /\ k > n /\ m[k].resolving
    BY <1>1 DEF After
  <2>3. \A k : k \in 1..N <=> k \in 1..Len(l) \/ k = N
    BY <1>1, <1>2
  <2>4. N > n
    BY <1>2
  <2>5. m[N].resolving = e.resolving /\ e.resolving \in BOOLEAN
    BY <1>1 DEF Acts
  <2>6. \A k : k \in After(m, n) <=> k \in After(l, n) \/ (k = N /\ e.resolving)
    BY <2>1, <2>2, <2>3, <2>4, <2>5
  <2> QED BY <2>5, <2>6
<1>4. After(m, N) = {}
  BY <1>1, <1>2 DEF After
<1>5. ASSUME NEW n \in 1..Len(l) PROVE Asked(m, n) <=> Asked(l, n)
  <2>1. m[n] = l[n] /\ \A j \in 1..(n - 1) : j \in 1..Len(l) /\ m[j] = l[j]
    BY <1>1
  <2>2. ASSUME NEW j \in 1..(n - 1)
        PROVE  (\E k \in After(m, j) : k < n) <=> (\E k \in After(l, j) : k < n)
    <3>1. After(m, j) = After(l, j) \cup (IF e.resolving THEN {N} ELSE {})
      BY <1>3, <2>1
    <3>2. ~(N < n)
      BY <1>2
    <3> QED BY <3>1, <3>2
  <2> QED BY <2>1, <2>2 DEF Asked
<1>6. ASSUME NEW n \in 1..Len(l), NEW k \in 1..N PROVE Since(m, n, k) = Since(l, n, k)
  <2>1. \A j \in (n + 1)..(k - 1) : m[j] = l[j]
    BY <1>1, <1>2
  <2>2. {j \in (n + 1)..(k - 1) : m[j].posted} = {j \in (n + 1)..(k - 1) : l[j].posted}
    BY <2>1
  <2> QED BY <2>2, Zenon DEF Since
<1>7. Asked(m, N) <=>
        /\ e.asks # "none"
        /\ \A j \in 1..Len(l) : l[j].asks = e.asks => \E k \in After(m, j) : k < N
  <2>1. N - 1 = Len(l) /\ m[N] = e /\ \A j \in 1..Len(l) : m[j] = l[j]
    BY <1>1, <1>2
  <2> QED BY <2>1 DEF Asked
<1> QED BY <1>3, <1>4, <1>5, <1>6, <1>7 DEF N, Lengthens

LEMMA AfterOn ==
  ASSUME NEW l \in Seq(Acts), NEW e \in Acts, NEW n \in 1..Len(l)
  PROVE  After(Append(l, e), n) = After(l, n) \cup (IF e.resolving THEN {Len(l) + 1} ELSE {})
<1>1. Lengthens(l, e, Append(l, e))
  BY LogOn
<1> QED BY <1>1 DEF Lengthens

LEMMA AskedOn ==
  ASSUME NEW l \in Seq(Acts), NEW e \in Acts, NEW n \in 1..Len(l)
  PROVE  Asked(Append(l, e), n) <=> Asked(l, n)
<1>1. Lengthens(l, e, Append(l, e))
  BY LogOn
<1> QED BY <1>1 DEF Lengthens

LEMMA SinceOn ==
  ASSUME NEW l \in Seq(Acts), NEW e \in Acts, NEW n \in 1..Len(l), NEW k \in 1..(Len(l) + 1)
  PROVE  Since(Append(l, e), n, k) = Since(l, n, k)
<1>1. Lengthens(l, e, Append(l, e))
  BY LogOn
<1> QED BY <1>1 DEF Lengthens

LEMMA AfterLast ==
  ASSUME NEW l \in Seq(Acts), NEW e \in Acts
  PROVE  After(Append(l, e), Len(l) + 1) = {}
<1>1. Lengthens(l, e, Append(l, e))
  BY LogOn
<1> QED BY <1>1 DEF Lengthens

LEMMA AskedLast ==
  ASSUME NEW l \in Seq(Acts), NEW e \in Acts
  PROVE  LET m == Append(l, e)
         IN Asked(m, Len(l) + 1) <=>
              /\ e.asks # "none"
              /\ \A j \in 1..Len(l) : l[j].asks = e.asks => \E k \in After(m, j) : k < Len(l) + 1
<1>1. Lengthens(l, e, Append(l, e))
  BY LogOn
<1> QED BY <1>1 DEF Lengthens

(* What resolves asks for nothing itself.                                    *)
Answering(l) == \A k \in 1..Len(l) : l[k].resolving => l[k].asks = "none"

(* Where a trigger was asked and not resolved, the first of it was not       *)
(* folded.                                                                   *)
LEMMA FirstAsked ==
  ASSUME NEW l \in Seq(Acts), Answering(l), NEW j \in 1..Len(l), l[j].asks # "none",
         After(l, j) = {}
  PROVE  \E n \in 1..Len(l) : l[n].asks = l[j].asks /\ Asked(l, n) /\ After(l, n) = {}
<1> DEFINE Unanswered == {i \in 1..Len(l) : l[i].asks = l[j].asks /\ After(l, i) = {}}
<1>1. Unanswered \in SUBSET Nat /\ j \in Unanswered
  OBVIOUS
<1>2. \A i : i \in Unanswered <=> i \in 1..Len(l) /\ l[i].asks = l[j].asks /\ After(l, i) = {}
  OBVIOUS
<1>3. DOMAIN l = 1..Len(l) /\ Len(l) \in Nat
  OBVIOUS
<1> HIDE DEF Unanswered
<1>4. PICK n \in Unanswered : \A i \in Unanswered : <<i, n>> \notin OpToRel(<, Nat)
  BY <1>1, NatLessThanWellFounded, WFMin
<1>5. \A i \in Unanswered : ~(i < n)
  BY <1>1, <1>4 DEF OpToRel
<1>6. n \in 1..Len(l) /\ l[n].asks = l[j].asks /\ After(l, n) = {}
  BY <1>2
<1>7. ASSUME NEW i \in 1..(n - 1), l[i].asks = l[n].asks PROVE \E k \in After(l, i) : k < n
  <2>1. i \in 1..Len(l) /\ i < n
    BY <1>3, <1>6
  <2>2. After(l, i) # {}
    BY <1>2, <1>5, <1>6, <1>7, <2>1
  <2>3. PICK k : k \in After(l, i)
    BY <2>2
  <2>4. k \in 1..Len(l) /\ l[k].resolving
    BY <1>3, <2>3 DEF After
  <2>5. k # n
    BY <1>6, <2>4 DEF Answering
  <2>6. ~(k > n)
    BY <1>3, <1>6, <2>4 DEF After
  <2>7. k < n
    BY <1>6, <2>4, <2>5, <2>6
  <2> QED BY <2>3, <2>7
<1>8. Asked(l, n)
  BY <1>6, <1>7 DEF Asked
<1> QED BY <1>6, <1>8

(* The open corrections are those that were asked for, not folded and not    *)
(* resolved, each waiting for the calls since.                               *)
Awaits(l, c) ==
  /\ c.id \in 1..Len(l) /\ Asked(l, c.id) /\ After(l, c.id) = {}
  /\ l[c.id].asks = c.trigger /\ c.pending = Since(l, c.id, Len(l) + 1)

Waiting(l, open) ==
  /\ \A i \in 1..Len(open) : Awaits(l, open[i])
  /\ \A n \in 1..Len(l) : Asked(l, n) /\ After(l, n) = {} =>
       \E i \in 1..Len(open) : open[i].id = n
  /\ \A i, j \in 1..Len(open) : open[i].id = open[j].id => i = j

GoesOn(m, c, d) == Awaits(m, d) /\ d.id = c.id /\ d.trigger = c.trigger

(* A correction that waits goes on waiting where a step does not resolve.    *)
LEMMA AwaitsOn ==
  ASSUME NEW l \in Seq(Acts), NEW e \in Acts, ~e.resolving, NEW m, m = Append(l, e),
         NEW c \in Requests, Awaits(l, c), NEW d,
         d = IF e.posted THEN [c EXCEPT !.pending = Append(@, Len(l) + 1)] ELSE c
  PROVE  GoesOn(m, c, d)
<1> DEFINE N == Len(l) + 1
           n == c.id
<1>1. N \in Nat /\ Len(m) = N /\ m[N] = e /\ \A i \in 1..Len(l) : m[i] = l[i]
  OBVIOUS
<1>2. n \in 1..Len(l) /\ Asked(l, n) /\ After(l, n) = {} /\ l[n].asks = c.trigger
      /\ c.pending = Since(l, n, N)
  BY DEF Awaits
<1>3. /\ d.id = c.id /\ d.trigger = c.trigger
      /\ d.pending = IF e.posted THEN Append(c.pending, N) ELSE c.pending
  BY DEF Requests
<1>4. After(m, n) = {} /\ Asked(m, n) /\ Since(m, n, N) = Since(l, n, N)
  <2>1. N \in 1..N
    BY <1>1
  <2>2. After(m, n) = {}
    BY <1>2, AfterOn
  <2>3. Asked(m, n)
    BY <1>2, AskedOn
  <2>4. Since(m, n, N) = Since(l, n, N)
    BY <1>2, <2>1, SinceOn
  <2> QED BY <2>2, <2>3, <2>4
<1> HIDE DEF N
<1>5. n \in Nat /\ n < N /\ n \in 1..N
  BY <1>1, <1>2 DEF N
<1>6. Since(m, n, N + 1) = IF m[N].posted THEN Append(Since(m, n, N), N) ELSE Since(m, n, N)
  <2>1. n \in Nat /\ N \in Nat /\ n < N
    BY <1>1, <1>5
  <2> HIDE DEF n
  <2> QED BY <2>1, SinceMore
<1>7. d.pending = Since(m, n, N + 1)
  BY <1>1, <1>2, <1>3, <1>4, <1>6
<1>8. m[n] = l[n]
  BY <1>1, <1>2
<1> QED BY <1>1, <1>2, <1>3, <1>4, <1>5, <1>7, <1>8 DEF Awaits, GoesOn

(* A step that resolves leaves none to wait.                                 *)
LEMMA WaitingResolved ==
  ASSUME NEW l \in Seq(Acts), NEW e \in Acts, e.resolving, e.asks = "none",
         NEW m, m = Append(l, e)
  PROVE  Waiting(m, <<>>)
<1> DEFINE N == Len(l) + 1
<1>1. N \in Nat /\ Len(m) = N /\ Len(l) = N - 1
  OBVIOUS
<1>2. \A n \in 1..Len(l) : N \in After(m, n)
  BY AfterOn
<1>3. ~Asked(m, N)
  BY AskedLast
<1> HIDE DEF N
<1>4. \A n \in 1..Len(m) : n \in 1..Len(l) \/ n = N
  BY <1>1
<1>5. \A n \in 1..Len(m) : ~(Asked(m, n) /\ After(m, n) = {})
  BY <1>2, <1>3, <1>4
<1>6. Len(<<>>) = 0
  OBVIOUS
<1> QED BY <1>5, <1>6 DEF Waiting

(* One that does not may open one.                                           *)
LEMMA WaitingOn ==
  ASSUME NEW l \in Seq(Acts), Answering(l), NEW e \in Acts, ~e.resolving,
         NEW m, m = Append(l, e),
         NEW open \in Seq(Requests), Waiting(l, open),
         NEW waits \in Seq(Requests), Len(waits) = Len(open),
         \A i \in 1..Len(open) :
           waits[i] = IF e.posted THEN [open[i] EXCEPT !.pending = Append(@, Len(l) + 1)]
                      ELSE open[i],
         NEW x, e.asks # "none" => x \in Requests,
         x.trigger = e.asks, x.id = Len(l) + 1, x.pending = <<>>,
         NEW new,
         new = IF e.asks = "none" \/ \E i \in 1..Len(waits) : waits[i].trigger = e.asks
               THEN waits ELSE Append(waits, x)
  PROVE  Waiting(m, new)
<1> DEFINE N == Len(l) + 1
           folds == \E i \in 1..Len(waits) : waits[i].trigger = e.asks
<1>1. N \in Nat /\ Len(m) = N /\ Len(l) = N - 1 /\ m[N] = e /\ \A i \in 1..Len(l) : m[i] = l[i]
  OBVIOUS
<1>2. ASSUME NEW i \in 1..Len(waits)
      PROVE  /\ Awaits(m, waits[i]) /\ waits[i].id = open[i].id
             /\ waits[i].trigger = open[i].trigger /\ waits[i].id \in 1..Len(l)
  <2>1. open[i] \in Requests /\ Awaits(l, open[i])
    BY DEF Waiting
  <2>2. waits[i] = IF e.posted THEN [open[i] EXCEPT !.pending = Append(@, Len(l) + 1)]
                   ELSE open[i]
    OBVIOUS
  <2>3. Awaits(m, waits[i]) /\ waits[i].id = open[i].id /\ waits[i].trigger = open[i].trigger
    <3> DEFINE c == open[i]
               d == waits[i]
    <3>1. c \in Requests /\ Awaits(l, c)
      BY <2>1
    <3>2. d = IF e.posted THEN [c EXCEPT !.pending = Append(@, Len(l) + 1)] ELSE c
      BY <2>2
    <3> HIDE DEF c, d
    <3>3. GoesOn(m, c, d)
      BY <3>1, <3>2, AwaitsOn, Zenon
    <3> QED BY <3>3 DEF c, d, GoesOn
  <2> QED BY <2>1, <2>3 DEF Awaits
<1>3. \A n \in 1..Len(l) : Asked(m, n) /\ After(m, n) = {} =>
                             \E i \in 1..Len(waits) : waits[i].id = n
  <2> SUFFICES ASSUME NEW n \in 1..Len(l), Asked(m, n), After(m, n) = {}
               PROVE  \E i \in 1..Len(waits) : waits[i].id = n
    OBVIOUS
  <2>1. Asked(l, n)
    BY AskedOn
  <2>a. After(l, n) = {}
    BY AfterOn
  <2>2. PICK i \in 1..Len(open) : open[i].id = n
    BY <2>1, <2>a DEF Waiting
  <2> QED BY <1>2, <2>2
<1>4. \A i, j \in 1..Len(waits) : waits[i].id = waits[j].id => i = j
  BY <1>2 DEF Waiting
<1>5. Asked(m, N) => e.asks # "none" /\ ~folds
  <2> SUFFICES ASSUME Asked(m, N), NEW i \in 1..Len(waits), waits[i].trigger = e.asks PROVE FALSE
    BY AskedLast
  <2>1. Awaits(l, open[i]) /\ open[i].trigger = e.asks
    BY <1>2 DEF Waiting
  <2> DEFINE j == open[i].id
  <2>2. j \in 1..Len(l) /\ l[j].asks = e.asks /\ After(l, j) = {}
    BY <2>1 DEF Awaits
  <2> HIDE DEF j
  <2>3. After(m, j) = {}
    BY <2>2, AfterOn
  <2>4. \E k \in After(m, j) : k < Len(l) + 1
    BY <2>2, AskedLast
  <2> QED BY <2>3, <2>4
<1>6. e.asks # "none" /\ ~folds => Asked(m, N) /\ After(m, N) = {}
  <2> SUFFICES ASSUME e.asks # "none", ~folds PROVE Asked(m, N) /\ After(m, N) = {}
    OBVIOUS
  <2>1. ASSUME NEW j \in 1..Len(l), l[j].asks = e.asks PROVE \E k \in After(m, j) : k < N
    <3>1. After(l, j) # {}
      <4> SUFFICES ASSUME After(l, j) = {} PROVE FALSE
        OBVIOUS
      <4>1. PICK n \in 1..Len(l) : l[n].asks = l[j].asks /\ Asked(l, n) /\ After(l, n) = {}
        BY <2>1, FirstAsked
      <4>2. PICK i \in 1..Len(open) : open[i].id = n
        BY <4>1 DEF Waiting
      <4>3. Awaits(l, open[i]) /\ i \in 1..Len(waits)
        BY DEF Waiting
      <4>4. waits[i].trigger = e.asks
        BY <1>2, <2>1, <4>1, <4>2, <4>3 DEF Awaits
      <4> QED BY <4>3, <4>4
    <3>2. PICK k : k \in After(l, j)
      BY <3>1
    <3>3. k \in 1..Len(l) /\ k \in After(m, j)
      <4>1. k \in 1..Len(l)
        BY <3>2 DEF After
      <4>2. After(m, j) = After(l, j) \cup (IF e.resolving THEN {Len(l) + 1} ELSE {})
        BY AfterOn
      <4> QED BY <3>2, <4>1, <4>2
    <3> QED BY <1>1, <3>3
  <2>2. Asked(m, N)
    BY <2>1, AskedLast
  <2>3. After(m, N) = {}
    BY AfterLast
  <2> QED BY <2>2, <2>3
<1> HIDE DEF N, folds
<1>7. \A n \in 1..Len(m) : n \in 1..Len(l) \/ n = N
  BY <1>1
<1>8. CASE e.asks = "none" \/ folds
  <2>1. new = waits /\ ~Asked(m, N)
    BY <1>5, <1>8 DEF folds
  <2>2. \A i \in 1..Len(new) : Awaits(m, new[i])
    BY <1>2, <2>1
  <2>3. \A n \in 1..Len(m) : Asked(m, n) /\ After(m, n) = {} =>
          \E i \in 1..Len(new) : new[i].id = n
    BY <1>3, <1>7, <2>1
  <2> QED BY <1>4, <2>1, <2>2, <2>3 DEF Waiting
<1>9. CASE ~(e.asks = "none" \/ folds)
  <2>1. new = Append(waits, x) /\ x \in Requests /\ Asked(m, N) /\ After(m, N) = {}
    BY <1>6, <1>9 DEF folds
  <2> DEFINE w == Len(waits)
  <2>2. /\ w \in Nat /\ Len(new) = w + 1 /\ new[w + 1] = x
        /\ \A i \in 1..w : new[i] = waits[i]
    BY <2>1
  <2> HIDE DEF w
  <2>3. \A i \in 1..Len(new) : i = w + 1 \/ i \in 1..w
    BY <2>2
  <2>4. x.id = N /\ N \notin 1..Len(l) /\ w = Len(waits)
    BY <1>1 DEF N, w
  <2>5. Awaits(m, x)
    <3>1. Since(m, N, N + 1) = <<>>
      BY <1>1, SinceNone
    <3>2. N \in 1..Len(m) /\ m[N].asks = x.trigger
      BY <1>1
    <3> QED BY <1>1, <2>1, <2>4, <3>1, <3>2 DEF Awaits
  <2>6. \A i \in 1..Len(new) : Awaits(m, new[i])
    BY <1>2, <2>2, <2>3, <2>4, <2>5
  <2>7. \A n \in 1..Len(m) : Asked(m, n) /\ After(m, n) = {} =>
          \E i \in 1..Len(new) : new[i].id = n
    <3> SUFFICES ASSUME NEW n \in 1..Len(m), Asked(m, n), After(m, n) = {}
                 PROVE  \E i \in 1..Len(new) : new[i].id = n
      OBVIOUS
    <3>1. CASE n = N
      <4>1. w + 1 \in 1..Len(new) /\ new[w + 1].id = n
        BY <2>2, <2>4, <3>1
      <4> QED BY <4>1
    <3>2. CASE n \in 1..Len(l)
      <4>1. PICK i \in 1..w : waits[i].id = n
        BY <1>3, <2>4, <3>2
      <4>2. i \in 1..Len(new)
        BY <2>2
      <4>3. new[i].id = n
        BY <2>2, <4>1
      <4> QED BY <4>2, <4>3
    <3> QED BY <1>7, <3>1, <3>2
  <2>8. \A i, j \in 1..Len(new) : new[i].id = new[j].id => i = j
    <3> SUFFICES ASSUME NEW i \in 1..Len(new), NEW j \in 1..Len(new), new[i].id = new[j].id
                 PROVE  i = j
      OBVIOUS
    <3>1. \A k \in 1..w : new[k].id \in 1..Len(l)
      BY <1>2, <2>2, <2>4
    <3>2. new[w + 1].id = N
      BY <2>2, <2>4
    <3>3. CASE i \in 1..w /\ j \in 1..w
      BY <1>4, <2>2, <2>4, <3>3
    <3>4. CASE i = w + 1 /\ j = w + 1
      BY <3>4
    <3>5. ~(i = w + 1 /\ j \in 1..w) /\ ~(j = w + 1 /\ i \in 1..w)
      BY <2>4, <3>1, <3>2
    <3> QED BY <2>3, <3>3, <3>4, <3>5
  <2> QED BY <2>6, <2>7, <2>8 DEF Waiting
<1> QED BY <1>8, <1>9

-----------------------------------------------------------------------------
(* Where a correction is told, and how.                                      *)
ToldIn(h, n) == {p \in DOMAIN h : h[p].kind = "correction" /\ h[p].id = n}
Resolved(h, n, by) == \E p : ToldIn(h, n) = {p} /\ h[p].resolved /\ h[p].by = by
LeftOpen(h, n) == \E p : ToldIn(h, n) = {p} /\ ~h[p].resolved
FirstOf(S) == CHOOSE r \in S : \A q \in S : r <= q

Tells(l, h, running, n) ==
  IF ~Asked(l, n) THEN ToldIn(h, n) = {}
  ELSE IF After(l, n) # {}
  THEN Resolved(h, n, LastOf(Since(l, n, FirstOf(After(l, n))), MaxResolvedBy))
  ELSE IF running THEN ToldIn(h, n) = {} ELSE LeftOpen(h, n)

Telling(l, h, running) == \A n \in 1..Len(l) : Tells(l, h, running, n)

(* What a group does not tell of is told as before.                          *)
Stays(old, new, n) ==
  /\ ToldIn(new, n) = ToldIn(old, n)
  /\ \A by : Resolved(old, n, by) => Resolved(new, n, by)
  /\ LeftOpen(old, n) => LeftOpen(new, n)

LEMMA ToldStays ==
  ASSUME NEW old, NEW new, NEW group, NEW f, GrownBy(old, new, group, f), NEW n,
         \A k \in DOMAIN f : ~(group[k].kind = "correction" /\ group[k].id = n)
  PROVE  Stays(old, new, n)
<1>1. /\ DOMAIN new = DOMAIN old \cup {f[k] : k \in DOMAIN f}
      /\ \A p \in DOMAIN old : new[p] = old[p]
      /\ \A k \in DOMAIN f : new[f[k]] = group[k]
  BY DEF GrownBy
<1>2. ToldIn(new, n) = ToldIn(old, n)
  BY <1>1 DEF ToldIn
<1>3. \A p \in ToldIn(old, n) : new[p] = old[p]
  BY <1>1 DEF ToldIn
<1>4. ASSUME NEW by, Resolved(old, n, by) PROVE Resolved(new, n, by)
  <2>1. PICK p : ToldIn(old, n) = {p} /\ old[p].resolved /\ old[p].by = by
    BY <1>4 DEF Resolved
  <2>2. new[p] = old[p]
    BY <1>3, <2>1
  <2> QED BY <1>2, <2>1, <2>2 DEF Resolved
<1>5. ASSUME LeftOpen(old, n) PROVE LeftOpen(new, n)
  <2>1. PICK p : ToldIn(old, n) = {p} /\ ~old[p].resolved
    BY <1>5 DEF LeftOpen
  <2>2. new[p] = old[p]
    BY <1>3, <2>1
  <2> QED BY <1>2, <2>1, <2>2 DEF LeftOpen
<1> QED BY <1>2, <1>4, <1>5 DEF Stays

(* What it tells of for the first time is told once.                         *)
ToldAt(h, n, p, item) == ToldIn(h, n) = {p} /\ h[p] = item

LEMMA ToldOnce ==
  ASSUME NEW old, NEW new, NEW group, NEW f, GrownBy(old, new, group, f), NEW n,
         ToldIn(old, n) = {}, NEW k \in DOMAIN f, group[k].kind = "correction", group[k].id = n,
         \A j \in DOMAIN f : group[j].kind = "correction" /\ group[j].id = n => j = k
  PROVE  ToldAt(new, n, f[k], group[k])
<1>1. /\ DOMAIN new = DOMAIN old \cup {f[j] : j \in DOMAIN f}
      /\ \A p \in DOMAIN old : new[p] = old[p]
      /\ \A j \in DOMAIN f : new[f[j]] = group[j]
  BY DEF GrownBy
<1>2. f[k] \in ToldIn(new, n)
  BY <1>1 DEF ToldIn
<1>3. ASSUME NEW p \in ToldIn(new, n) PROVE p = f[k]
  <2>1. p \in DOMAIN new /\ new[p].kind = "correction" /\ new[p].id = n
    BY <1>3 DEF ToldIn
  <2>2. p \notin DOMAIN old
    BY <1>1, <2>1 DEF ToldIn
  <2>3. PICK j \in DOMAIN f : p = f[j]
    BY <1>1, <2>1, <2>2
  <2>4. j = k
    BY <1>1, <2>1, <2>3
  <2> QED BY <2>3, <2>4
<1> QED BY <1>1, <1>2, <1>3 DEF ToldAt

(* A call that resolves brings all that was open.                            *)
LEMMA GroupTells ==
  ASSUME Typed, NEW e \in Acts, e.resolving, NEW group, GroupOf(e, group),
         NEW i \in 1..Len(buf.open)
  PROVE  \E k \in 1..Len(group) : /\ group[k] = CorrectionItem(buf.open[i], TRUE)
                                  /\ k = i + IF e.posted THEN 2 ELSE 0
<1>0. /\ e.posted \in BOOLEAN /\ e.resolving = TRUE /\ buf.open \in Seq(Requests) /\ Now \in Nat
      /\ Len(buf.open) \in Nat
  BY DEF Typed, Acts, Buffers, Now
<1>1. PICK size \in Nat : group = CallGroup(buf, Now, e.posted, size, e.resolving)
  BY <1>0 DEF GroupOf
<1> DEFINE s == CallItems(Now, e.posted, size)
           t == CorrectionItems(buf.open, TRUE)
           m == IF e.posted THEN 2 ELSE 0
<1>2. s \in Seq(Items) /\ Len(s) = m
  <2> DEFINE posted == e.posted
             id == Now
  <2>1. posted \in BOOLEAN /\ id \in Nat
    BY <1>0
  <2> HIDE DEF posted, id
  <2>2. CallItems(id, posted, size) \in Seq(Items)
    BY <2>1, CallItemsTyped
  <2>3. Len(CallItems(id, posted, size)) = IF posted THEN 2 ELSE 0
    BY <2>1 DEF CallItems
  <2> QED BY <2>2, <2>3 DEF id, posted
<1>3. /\ t \in Seq(Items) /\ Len(t) = Len(buf.open) /\ t[i] = CorrectionItem(buf.open[i], TRUE)
  BY <1>0, CorrectionItemsTyped
<1>4. group = s \o t
  BY <1>0, <1>1 DEF CallGroup
<1> HIDE DEF s, t
<1>5. m \in Nat
  BY <1>0
<1>6. /\ Len(s \o t) = Len(s) + Len(t)
      /\ \A j \in Len(s) + 1..Len(s) + Len(t) : (s \o t)[j] = t[j - Len(s)]
  <2>1. s \in Seq(Items) /\ t \in Seq(Items)
    BY <1>2, <1>3
  <2>2. Len(s \o t) = Len(s) + Len(t)
    BY <2>1, ConcatProperties
  <2>3. \A j \in Len(s) + 1..Len(s) + Len(t) : (s \o t)[j] = t[j - Len(s)]
    BY <2>1, ConcatProperties
  <2> QED BY <2>2, <2>3
<1> HIDE DEF m
<1>7. i + m \in (m + 1)..(m + Len(t)) /\ (i + m) - m = i /\ i + m \in 1..(m + Len(t))
  BY <1>0, <1>3, <1>5
<1>8. group[i + m] = t[i] /\ i + m \in 1..Len(group)
  BY <1>2, <1>4, <1>6, <1>7
<1> QED BY <1>3, <1>8 DEF m

(* A step of the run leaves what waits true of its log.                      *)
LEMMA WaitingTook ==
  ASSUME Typed, Answering(log), Waiting(log, buf.open),
         NEW e, NEW r, NEW group, Took(e, r, group)
  PROVE  Answering(log') /\ Waiting(log', buf'.open)
<1> DEFINE l == log
           m == log'
           open == buf.open
           waits == CallOpen(buf, Now, e.posted, e.resolving)
           x == [trigger |-> e.asks, id |-> Now, size |-> CorrectionSize, pending |-> <<>>]
           new == buf'.open
<1>1. /\ l \in Seq(Acts) /\ e \in Acts /\ m = Append(l, e) /\ Now = Len(l) + 1
      /\ e.resolving => e.asks = "none"
      /\ open \in Seq(Requests) /\ e.resolving \in BOOLEAN
  BY DEF Took, Typed, Now, Acts, Buffers
<1>2. /\ waits \in Seq(Requests)
      /\ new = IF e.asks = "none" \/ \E i \in 1..Len(waits) : waits[i].trigger = e.asks
               THEN waits ELSE Append(waits, x)
  BY TookOpen
<1>3. Answering(l) /\ Waiting(l, open)
  OBVIOUS
<1>4. /\ e.asks # "none" => x \in Requests
      /\ x.trigger = e.asks /\ x.id = Len(l) + 1 /\ x.pending = <<>>
  <2>1. /\ Len(l) + 1 \in Nat /\ <<>> \in Seq(Nat) /\ CorrectionSize \in Nat
        /\ e.asks \in RefusedClaims \cup {"nudge", "gate_red", "none"}
    BY <1>1, SessionAssumption DEF Acts
  <2> QED BY <1>1, <2>1 DEF Requests
<1>5. ~e.resolving =>
        /\ Len(waits) = Len(open)
        /\ \A i \in 1..Len(open) :
             waits[i] = IF e.posted THEN [open[i] EXCEPT !.pending = Append(@, Len(l) + 1)]
                        ELSE open[i]
  <2> SUFFICES ASSUME ~e.resolving
               PROVE  /\ Len(waits) = Len(open)
                      /\ \A i \in 1..Len(open) :
                           waits[i] = IF e.posted
                                      THEN [open[i] EXCEPT !.pending = Append(@, Len(l) + 1)]
                                      ELSE open[i]
    OBVIOUS
  <2> DEFINE n == Now
             posted == e.posted
             w == WaitFor(open, n, posted)
  <2>1. waits = w /\ n = Len(l) + 1
    BY <1>1 DEF CallOpen
  <2>a. n \in Nat /\ open \in Seq(Requests)
    BY <1>1
  <2> HIDE DEF n, posted, open, waits
  <2>2. Len(w) = Len(open)
    BY <2>a, WaitForTyped
  <2>3. \A i \in 1..Len(open) :
          w[i] = IF posted THEN [open[i] EXCEPT !.pending = Append(@, n)] ELSE open[i]
    BY DEF w, WaitFor
  <2> HIDE DEF w
  <2> QED BY <2>1, <2>2, <2>3 DEF posted
<1>6. e.resolving => new = <<>>
  BY <1>1, <1>2 DEF CallOpen
<1> HIDE DEF l, m, open, waits, x, new
<1>7. Answering(m)
  <2>1. \A k \in 1..Len(m) : m[k] = e \/ (k \in 1..Len(l) /\ m[k] = l[k])
    BY <1>1
  <2> QED BY <1>1, <1>3, <2>1 DEF Answering
<1>8. Waiting(m, new)
  <2>1. CASE e.resolving
    <3>1. Waiting(m, <<>>)
      BY <1>1, <2>1, WaitingResolved
    <3> QED BY <1>6, <2>1, <3>1
  <2>2. CASE ~e.resolving
    BY <1>1, <1>2, <1>3, <1>4, <1>5, <2>2, WaitingOn
  <2> QED BY <2>1, <2>2
<1> QED BY <1>7, <1>8 DEF l, m, open, new

(* The first of them, and it stays the first when a later one comes.         *)
LEMMA FirstOfIs ==
  ASSUME NEW S \in SUBSET Nat, S # {}
  PROVE  FirstOf(S) \in S /\ \A q \in S : FirstOf(S) <= q
<1>1. PICK n \in S : \A i \in S : <<i, n>> \notin OpToRel(<, Nat)
  BY NatLessThanWellFounded, WFMin
<1>2. \A i \in S : ~(i < n)
  BY <1>1 DEF OpToRel
<1>3. \A i \in S : n <= i
  BY <1>2
<1> QED BY <1>3 DEF FirstOf

LEMMA FirstOfOnly ==
  ASSUME NEW S \in SUBSET Nat, NEW n \in S, \A q \in S : n <= q
  PROVE  FirstOf(S) = n
<1> DEFINE k == FirstOf(S)
<1>1. k \in S /\ \A q \in S : k <= q
  BY FirstOfIs
<1> HIDE DEF k
<1>2. k \in Nat /\ n \in Nat /\ k <= n /\ n <= k
  BY <1>1
<1>3. k = n
  BY <1>2
<1> QED BY <1>3 DEF k

LEMMA FirstOfMore ==
  ASSUME NEW S \in SUBSET Nat, S # {}, NEW N \in Nat, \A q \in S : q < N
  PROVE  FirstOf(S \cup {N}) = FirstOf(S)
<1> DEFINE n == FirstOf(S)
<1>1. n \in S /\ \A q \in S : n <= q
  BY FirstOfIs
<1> HIDE DEF n
<1>2. \A q \in S \cup {N} : n <= q
  BY <1>1
<1>3. FirstOf(S \cup {N}) = n
  BY <1>1, <1>2, FirstOfOnly
<1> QED BY <1>3 DEF n

(* At the end of the run what is open is told as unresolved.                 *)
LEMMA TellingEnded ==
  ASSUME Typed, Waiting(log, buf.open), Telling(log, Held, TRUE), NEW r, Ended(r)
  PROVE  Telling(log', Held', FALSE)
<1> DEFINE l == log
           old == Held
           new == Held'
           open == buf.open
           group == CorrectionItems(open, FALSE)
<1>1. log' = l /\ l \in Seq(Acts) /\ open \in Seq(Requests)
  BY DEF Ended, Typed, Buffers
<1>2. PICK f : GrownBy(old, new, group, f) /\ Owed(group, <<>>) \subseteq DOMAIN f
  BY EndedHeld
<1>3. /\ Len(group) = Len(open)
      /\ \A k \in 1..Len(open) : group[k] = CorrectionItem(open[k], FALSE)
  BY <1>1, CorrectionItemsTyped
<1>4. Waiting(l, open) /\ Telling(l, old, TRUE)
  OBVIOUS
<1> HIDE DEF l, old, new, open, group
<1>5. \A k \in 1..Len(open) : /\ group[k].kind = "correction" /\ group[k].id = open[k].id
                              /\ group[k].resolved = FALSE
  <2> TAKE k \in 1..Len(open)
  <2> DEFINE c == open[k]
             x == group[k]
  <2>1. x = CorrectionItem(c, FALSE)
    BY <1>3
  <2> HIDE DEF c, x
  <2>2. x.kind = "correction" /\ x.id = c.id /\ x.resolved = FALSE
    BY <2>1 DEF CorrectionItem
  <2> QED BY <2>2 DEF c, x
<1>6. DOMAIN f = 1..Len(open)
  <2>1. DOMAIN f \subseteq 1..Len(open)
    BY <1>2, <1>3 DEF GrownBy
  <2>2. \A k \in 1..Len(open) : k \in Owed(group, <<>>)
    BY <1>3, <1>5 DEF Owed
  <2> QED BY <1>2, <2>1, <2>2
<1>7. ASSUME NEW n \in 1..Len(l) PROVE Tells(l, new, FALSE, n)
  <2>1. Tells(l, old, TRUE, n)
    BY <1>4 DEF Telling
  <2>2. CASE Asked(l, n) /\ After(l, n) = {}
    <3>1. ToldIn(old, n) = {}
      BY <2>1, <2>2 DEF Tells
    <3>2. PICK i \in 1..Len(open) : open[i].id = n
      BY <1>4, <2>2 DEF Waiting
    <3>3. \A j \in DOMAIN f : group[j].id = n => j = i
      BY <1>4, <1>5, <1>6, <3>2 DEF Waiting
    <3>4. i \in DOMAIN f /\ group[i].kind = "correction" /\ group[i].id = n
          /\ group[i].resolved = FALSE
      BY <1>5, <1>6, <3>2
    <3>a. GrownBy(old, new, group, f)
      BY <1>2
    <3>b. \A j \in DOMAIN f : group[j].kind = "correction" /\ group[j].id = n => j = i
      BY <3>3
    <3>5. ToldAt(new, n, f[i], group[i])
      BY <3>1, <3>4, <3>a, <3>b, ToldOnce, Zenon
    <3>6. LeftOpen(new, n)
      BY <3>4, <3>5 DEF LeftOpen, ToldAt
    <3> QED BY <2>2, <3>6 DEF Tells
  <2>3. CASE ~(Asked(l, n) /\ After(l, n) = {})
    <3>1. \A k \in DOMAIN f : group[k].id # n
      <4> TAKE k \in DOMAIN f
      <4>1. group[k].id = open[k].id /\ Awaits(l, open[k])
        BY <1>4, <1>5, <1>6 DEF Waiting
      <4> QED BY <2>3, <4>1 DEF Awaits
    <3>2. Stays(old, new, n)
      BY <1>2, <3>1, ToldStays
    <3> QED BY <2>1, <2>3, <3>2 DEF Tells, Stays
  <2> QED BY <2>2, <2>3
<1>8. Telling(l, new, FALSE)
  BY <1>7 DEF Telling
<1> QED BY <1>1, <1>8 DEF new

(* While it runs, what a call resolves is told as resolved by the calls it   *)
(* waited for, and nothing else is told of.                                  *)
LEMMA TellingTook ==
  ASSUME Typed, OfRun, Waiting(log, buf.open), Telling(log, Held, TRUE),
         NEW e, NEW r, NEW group, Took(e, r, group)
  PROVE  Telling(log', Held', TRUE)
<1> DEFINE l == log
           m == log'
           N == Now
           old == Held
           new == Held'
           open == buf.open
           off == IF e.posted THEN 2 ELSE 0
<1>1. /\ l \in Seq(Acts) /\ e \in Acts /\ m = Append(l, e) /\ N = Len(l) + 1
      /\ e.resolving \in BOOLEAN /\ open \in Seq(Requests) /\ GroupOf(e, group)
  BY DEF Took, Typed, Now, Acts, Buffers
<1>2. PICK f : /\ GrownBy(old, new, group, f)
               /\ Owed(group, CallOpen(buf, Now, e.posted, e.resolving)) \subseteq DOMAIN f
  BY TookHeld
<1>3. ASSUME NEW k \in DOMAIN f, group[k].kind = "correction"
      PROVE  e.resolving /\ \E i \in 1..Len(open) : group[k].id = open[i].id /\ k = i + off
  <2>1. k \in 1..Len(group)
    BY <1>2 DEF GrownBy
  <2> DEFINE x == group[k]
  <2>2. Stems(e, k, x)
    BY <1>1, <2>1, GroupStems
  <2> HIDE DEF x
  <2>3. x.kind = "correction"
    BY <1>3 DEF x
  <2>4. e.resolving /\ \E i \in 1..Len(open) : x = CorrectionItem(open[i], TRUE) /\ k = i + off
    BY <2>2, <2>3 DEF Stems
  <2>5. \A i : x = CorrectionItem(open[i], TRUE) => x.id = open[i].id
    BY DEF CorrectionItem
  <2> QED BY <2>4, <2>5 DEF x
<1>4. ASSUME NEW i \in 1..Len(open), e.resolving
      PROVE  \E k \in DOMAIN f : group[k] = CorrectionItem(open[i], TRUE) /\ k = i + off
  <2>1. PICK k \in 1..Len(group) : group[k] = CorrectionItem(open[i], TRUE) /\ k = i + off
    BY <1>1, <1>4, GroupTells
  <2>2. group[k].kind = "correction"
    BY <2>1 DEF CorrectionItem
  <2>3. k \in DOMAIN f
    BY <1>2, <2>2 DEF Owed
  <2> QED BY <2>1, <2>3
<1>5. ToldIn(old, N) = {}
  <2>1. \A p \in DOMAIN old : Ran(l, old[p].id)
    BY DEF OfRun
  <2>2. ~Ran(l, N)
    BY <1>1 DEF Ran
  <2> QED BY <2>1, <2>2 DEF ToldIn
<1>6. Waiting(l, open) /\ Telling(l, old, TRUE)
  OBVIOUS
<1> HIDE DEF l, m, N, old, new, open
<1>7. N \in Nat /\ Len(m) = N /\ Len(l) = N - 1 /\ N \in 1..N
  BY <1>1
<1>8. ASSUME NEW n, ~e.resolving \/ ~(\E i \in 1..Len(open) : open[i].id = n)
      PROVE  Stays(old, new, n)
  <2>1. \A k \in DOMAIN f : ~(group[k].kind = "correction" /\ group[k].id = n)
    BY <1>3, <1>8
  <2> QED BY <1>2, <2>1, ToldStays
<1>9. \A i \in 1..Len(open) : /\ open[i].id \in 1..Len(l) /\ Asked(l, open[i].id)
                              /\ After(l, open[i].id) = {} /\ open[i].id # N
  <2> TAKE i \in 1..Len(open)
  <2>1. Awaits(l, open[i])
    BY <1>6 DEF Waiting
  <2> DEFINE n == open[i].id
  <2>2. n \in 1..Len(l) /\ Asked(l, n) /\ After(l, n) = {}
    BY <2>1 DEF Awaits
  <2> HIDE DEF n
  <2>3. n # N
    BY <1>7, <2>2
  <2> QED BY <2>2, <2>3 DEF n
<1>10. Tells(m, new, TRUE, N)
  <2>1. After(m, N) = {}
    BY <1>1, AfterLast
  <2>2. ToldIn(new, N) = {}
    BY <1>5, <1>8, <1>9 DEF Stays
  <2> QED BY <2>1, <2>2 DEF Tells
<1>11. ASSUME NEW n \in 1..Len(l) PROVE Tells(m, new, TRUE, n)
  <2>1. Tells(l, old, TRUE, n)
    BY <1>6 DEF Telling
  <2>2. /\ After(m, n) = After(l, n) \cup (IF e.resolving THEN {N} ELSE {})
        /\ Asked(m, n) <=> Asked(l, n)
        /\ \A k \in 1..N : Since(m, n, k) = Since(l, n, k)
    <3>1. Lengthens(l, e, m)
      BY <1>1, LogOn
    <3> QED BY <1>1, <3>1 DEF Lengthens
  <2>3. After(l, n) \in SUBSET Nat /\ \A k \in After(l, n) : k \in 1..N /\ k < N
    <3>1. DOMAIN l = 1..Len(l)
      BY <1>1
    <3> QED BY <1>7, <3>1 DEF After
  <2>4. CASE ~Asked(l, n)
    <3>1. Stays(old, new, n)
      BY <1>8, <1>9, <2>4
    <3> QED BY <2>1, <2>2, <2>4, <3>1 DEF Tells, Stays
  <2>5. CASE Asked(l, n) /\ After(l, n) # {}
    <3>1. Stays(old, new, n)
      BY <1>8, <1>9, <2>5
    <3>2. FirstOf(After(m, n)) = FirstOf(After(l, n))
      BY <1>7, <2>2, <2>3, <2>5, FirstOfMore
    <3> DEFINE k == FirstOf(After(l, n))
    <3>3. k \in 1..N
      BY <2>3, <2>5, FirstOfIs
    <3> HIDE DEF k
    <3>4. Since(m, n, k) = Since(l, n, k) /\ FirstOf(After(m, n)) = k
      BY <2>2, <3>2, <3>3 DEF k
    <3>5. Resolved(old, n, LastOf(Since(l, n, k), MaxResolvedBy))
      BY <2>1, <2>5 DEF Tells, k
    <3>6. Resolved(new, n, LastOf(Since(m, n, k), MaxResolvedBy))
      BY <3>1, <3>4, <3>5 DEF Stays
    <3>7. After(m, n) # {}
      BY <2>2, <2>5
    <3> QED BY <2>2, <2>5, <3>4, <3>6, <3>7 DEF Tells
  <2>6. CASE Asked(l, n) /\ After(l, n) = {} /\ ~e.resolving
    <3>1. Stays(old, new, n)
      BY <1>8, <2>6
    <3>2. After(m, n) = {}
      BY <2>2, <2>6
    <3> QED BY <2>1, <2>2, <2>6, <3>1, <3>2 DEF Tells, Stays
  <2>7. CASE Asked(l, n) /\ After(l, n) = {} /\ e.resolving
    <3>1. After(m, n) = {N} /\ FirstOf({N}) = N
      <4>1. After(m, n) = {N}
        BY <2>2, <2>7
      <4>2. {N} \in SUBSET Nat /\ N \in {N} /\ \A q \in {N} : N <= q
        BY <1>7
      <4>3. FirstOf({N}) = N
        BY <4>2, FirstOfOnly
      <4> QED BY <4>1, <4>3
    <3>2. PICK i \in 1..Len(open) : open[i].id = n
      BY <1>6, <2>7 DEF Waiting
    <3>3. PICK k \in DOMAIN f : group[k] = CorrectionItem(open[i], TRUE) /\ k = i + off
      BY <1>4, <2>7, <3>2
    <3> DEFINE c == open[i]
               x == group[k]
    <3>4. Awaits(l, c) /\ c.id = n /\ x = CorrectionItem(c, TRUE)
      BY <1>6, <3>2, <3>3 DEF Waiting
    <3> HIDE DEF c, x
    <3>5. x.kind = "correction" /\ x.id = n /\ x.resolved /\ x.by = ResolvedBy(c)
      BY <3>4 DEF CorrectionItem
    <3>6. \A j \in DOMAIN f : group[j].kind = "correction" /\ group[j].id = n => j = k
      <4> TAKE j \in DOMAIN f
      <4> HAVE group[j].kind = "correction" /\ group[j].id = n
      <4>1. PICK a \in 1..Len(open) : group[j].id = open[a].id /\ j = a + off
        BY <1>3
      <4>2. a = i
        BY <1>6, <3>2, <4>1 DEF Waiting
      <4> QED BY <3>3, <4>1, <4>2
    <3>7. ToldAt(new, n, f[k], x)
      <4>1. ToldIn(old, n) = {}
        BY <2>1, <2>7 DEF Tells
      <4>2. group[k].kind = "correction" /\ group[k].id = n
        BY <3>5 DEF x
      <4>3. GrownBy(old, new, group, f)
        BY <1>2
      <4>4. ToldAt(new, n, f[k], group[k])
        BY <3>6, <4>1, <4>2, <4>3, ToldOnce, Zenon
      <4> QED BY <4>4 DEF x
    <3>8. ResolvedBy(c) = LastOf(Since(m, n, N), MaxResolvedBy)
      <4>1. c.pending = Since(l, n, N) /\ Since(l, n, N) = Since(m, n, N)
        BY <1>1, <1>7, <2>2, <3>4 DEF Awaits
      <4> QED BY <4>1 DEF ResolvedBy, LastOf
    <3>9. Resolved(new, n, LastOf(Since(m, n, N), MaxResolvedBy))
      BY <3>5, <3>7, <3>8 DEF Resolved, ToldAt
    <3> QED BY <2>2, <2>7, <3>1, <3>9 DEF Tells
  <2> QED BY <2>4, <2>5, <2>6, <2>7
<1>12. \A n \in 1..Len(m) : n \in 1..Len(l) \/ n = N
  BY <1>7
<1>13. Telling(m, new, TRUE)
  BY <1>10, <1>11, <1>12 DEF Telling
<1> QED BY <1>13 DEF m, new

(* What the run's log says of its corrections, what waits and what was told. *)
Told ==
  /\ Answering(log) /\ (phase = "running" => Waiting(log, buf.open))
  /\ Telling(log, Held, phase = "running")

LEMMA ToldNext ==
  ASSUME Typed, OfRun, Told, [Next]_vars
  PROVE  Told'
<1>1. CASE Rested
  <2>1. /\ UNCHANGED <<log, buf, bodies>> /\ Held' = Held
        /\ (phase = "running") = (phase' = "running")
    BY <1>1 DEF Rested, Held
  <2> DEFINE h == Held'
             running == phase' = "running"
  <2>2. log' = log /\ buf' = buf /\ h = Held /\ running = (phase = "running")
    BY <2>1
  <2>3. Telling(log, h, running)
    BY <2>2, Zenon DEF Told
  <2> QED BY <2>2, <2>3 DEF Told
<1>2. ASSUME NEW r, Ended(r) PROVE Told'
  <2>1. phase = "running" /\ phase' # "running" /\ log' = log
    BY <1>2 DEF Ended
  <2>2. Waiting(log, buf.open) /\ Telling(log, Held, TRUE)
    <3> DEFINE running == phase = "running"
    <3>1. running = TRUE /\ Telling(log, Held, running)
      BY <2>1 DEF Told
    <3> HIDE DEF running
    <3>2. Telling(log, Held, TRUE)
      BY <3>1
    <3> QED BY <2>1, <3>2 DEF Told
  <2>3. Telling(log', Held', FALSE)
    BY <1>2, <2>2, TellingEnded
  <2>4. Telling(log', Held', phase' = "running")
    <3> DEFINE running == phase' = "running"
    <3>1. running = FALSE
      BY <2>1
    <3> HIDE DEF running
    <3>2. Telling(log', Held', running)
      BY <2>3, <3>1
    <3> QED BY <3>2 DEF running
  <2> QED BY <2>1, <2>4 DEF Told
<1>3. ASSUME NEW e, NEW r, NEW group, Took(e, r, group) PROVE Told'
  <2>1. phase = "running" /\ phase' = "running"
    BY <1>3 DEF Took
  <2>2. Answering(log) /\ Waiting(log, buf.open) /\ Telling(log, Held, TRUE)
    <3> DEFINE running == phase = "running"
    <3>1. running = TRUE /\ Telling(log, Held, running)
      BY <2>1 DEF Told
    <3> HIDE DEF running
    <3>2. Telling(log, Held, TRUE)
      BY <3>1
    <3> QED BY <2>1, <3>2 DEF Told
  <2>3. Answering(log') /\ Waiting(log', buf'.open)
    BY <1>3, <2>2, WaitingTook
  <2>4. Telling(log', Held', TRUE)
    BY <1>3, <2>2, TellingTook
  <2>5. Telling(log', Held', phase' = "running")
    <3> DEFINE running == phase' = "running"
    <3>1. running = TRUE
      BY <2>1
    <3> HIDE DEF running
    <3>2. Telling(log', Held', running)
      BY <2>4, <3>1
    <3> QED BY <3>2 DEF running
  <2> QED BY <2>3, <2>5 DEF Told
<1> QED BY <1>1, <1>2, <1>3, StepsTaken

(* However a trigger is repeated, the digests are closed or a group is cut   *)
(* down, every correction that was asked for and not folded is told once: as *)
(* resolved by the first call that resolves, naming the last of the posted   *)
(* calls between, or as unresolved at the end of the run.                    *)
THEOREM CorrectionsToldCorrect == Spec => []CorrectionsTold
<1>1. Init => Typed /\ OfRun /\ Told
  <2> SUFFICES ASSUME Init PROVE Told
    BY TypedInit, DenialsInit
  <2>1. log = <<>> /\ buf.open = <<>>
    BY NothingHeld
  <2>2. Len(log) = 0 /\ Len(buf.open) = 0
    BY <2>1
  <2>3. Answering(log) /\ Waiting(log, buf.open)
    BY <2>2 DEF Answering, Waiting
  <2>4. \A h, running : Telling(log, h, running)
    BY <2>2 DEF Telling
  <2> QED BY <2>3, <2>4 DEF Told
<1>2. (Typed /\ OfRun /\ Told) /\ [Next]_vars => (Typed /\ OfRun /\ Told)'
  BY TypedNext, OfRunNext, ToldNext
<1>3. Typed /\ Told => CorrectionsTold
  <2> SUFFICES ASSUME Typed, Told, NEW n \in DOMAIN log
               PROVE  LET told(k) == {p \in OfKind("correction") : ItemAt(p).id = k}
                      IN  IF ~Opened(n) THEN told(n) = {}
                          ELSE IF Resolvers(n) # {}
                          THEN LET k == CHOOSE r \in Resolvers(n) : \A q \in Resolvers(n) : r <= q
                               IN \E p \in told(n) :
                                     /\ told(n) = {p} /\ ItemAt(p).resolved
                                     /\ ItemAt(p).by = LastOf(Between(n, k), MaxResolvedBy)
                          ELSE IF phase = "running" THEN told(n) = {}
                          ELSE \E p \in told(n) : told(n) = {p} /\ ~ItemAt(p).resolved
    BY DEF CorrectionsTold
  <2> DEFINE told == {p \in OfKind("correction") : ItemAt(p).id = n}
             k == FirstOf(Resolvers(n))
             by == LastOf(Between(n, k), MaxResolvedBy)
  <2>1. told = ToldIn(Held, n) /\ \A p \in told : Held[p] = ItemAt(p)
    BY HeldPlaces DEF ToldIn, OfKind
  <2>2. /\ Resolvers(n) = After(log, n) /\ (Opened(n) <=> Asked(log, n))
        /\ Between(n, k) = Since(log, n, k)
    BY OfLog
  <2>3. Tells(log, Held, phase = "running", n)
    <3>1. n \in 1..Len(log)
      BY DEF Typed
    <3> QED BY <3>1 DEF Told, Telling
  <2>4. k = CHOOSE r \in Resolvers(n) : \A q \in Resolvers(n) : r <= q
    BY Zenon DEF FirstOf
  <2>5. ~Opened(n) => told = {}
    BY <2>1, <2>2, <2>3 DEF Tells
  <2>6. Opened(n) /\ Resolvers(n) # {} =>
          \E p \in told : told = {p} /\ ItemAt(p).resolved /\ ItemAt(p).by = by
    <3> SUFFICES ASSUME Opened(n), Resolvers(n) # {}
                 PROVE  \E p \in told : told = {p} /\ ItemAt(p).resolved /\ ItemAt(p).by = by
      OBVIOUS
    <3>1. Resolved(Held, n, by)
      BY <2>2, <2>3, Zenon DEF Tells
    <3>2. PICK p : ToldIn(Held, n) = {p} /\ Held[p].resolved /\ Held[p].by = by
      BY <3>1 DEF Resolved
    <3> HIDE DEF told, by
    <3> QED BY <2>1, <3>2
  <2>7. Opened(n) /\ Resolvers(n) = {} /\ phase = "running" => told = {}
    BY <2>1, <2>2, <2>3 DEF Tells
  <2>8. Opened(n) /\ Resolvers(n) = {} /\ phase # "running" =>
          \E p \in told : told = {p} /\ ~ItemAt(p).resolved
    <3> SUFFICES ASSUME Opened(n), Resolvers(n) = {}, phase # "running"
                 PROVE  \E p \in told : told = {p} /\ ~ItemAt(p).resolved
      OBVIOUS
    <3>1. LeftOpen(Held, n)
      BY <2>2, <2>3 DEF Tells
    <3>2. PICK p : ToldIn(Held, n) = {p} /\ ~Held[p].resolved
      BY <3>1 DEF LeftOpen
    <3> HIDE DEF told
    <3> QED BY <2>1, <3>2
  <2> HIDE DEF told, k
  <2> QED BY <2>4, <2>5, <2>6, <2>7, <2>8 DEF told
<1> QED BY <1>1, <1>2, <1>3, PTL DEF Spec
=============================================================================
