-------------------------- MODULE SomnusUnit_proofs --------------------------
(***************************************************************************)
(* Theorems about SomnusUnit, for any project, any answers of the model and *)
(* the KB, and any other writers: what the nightly driver relies on, what   *)
(* the report says of the writes and the KB holds of what it says, what is  *)
(* answered when a unit is Ready, when nothing may be written at all, and   *)
(* what the decline ledger gains.                                           *)
(***************************************************************************)
EXTENDS SomnusUnit, WellFoundedInduction, TLAPS

-----------------------------------------------------------------------------
(* Sequences, by places.                                                     *)

(* Induction up to n, about a set.                                           *)
LEMMA UpTo ==
  ASSUME NEW n \in Nat, NEW Good, 0 \in Good, \A i \in 1..n : i - 1 \in Good => i \in Good
  PROVE  \A i \in 0..n : i \in Good
<1> DEFINE Bad == {i \in 0..n : i \notin Good}
<1> SUFFICES ASSUME Bad # {} PROVE FALSE
  OBVIOUS
<1>1. Bad \in SUBSET Nat
  OBVIOUS
<1>2. PICK i \in Bad : \A j \in Bad : <<j, i>> \notin OpToRel(<, Nat)
  BY <1>1, NatLessThanWellFounded, WFMin
<1>3. \A j \in Bad : ~(j < i)
  BY <1>1, <1>2 DEF OpToRel
<1>4. i \in 1..n /\ i - 1 \notin Bad
  BY <1>3
<1> QED BY <1>4

(* How f unrolls a step of V, from base, n times.                            *)
StepsOf(step, n, V) == step \in [(1..n) \X V -> V]
Unrolls(f, n, V, base, step) ==
  f \in [0..n -> V] /\ f[0] = base /\ \A i \in 1..n : f[i] = step[<<i, f[i - 1]>>]

(* A function whose every value comes from the one before exists.            *)
LEMMA Unrolled ==
  ASSUME NEW n \in Nat, NEW V, NEW base \in V, NEW step, StepsOf(step, n, V)
  PROVE  \E f : Unrolls(f, n, V, base, step)
<1> USE DEF StepsOf
<1> DEFINE Upto(m, f) == f[0] = base /\ \A i \in 1..m : f[i] = step[<<i, f[i - 1]>>]
           Good == {m \in 0..n : \E f \in [0..m -> V] : Upto(m, f)}
<1>1. 0 \in Good
  <2> DEFINE f == [i \in 0..0 |-> base]
  <2>1. f \in [0..0 -> V] /\ Upto(0, f)
    OBVIOUS
  <2> HIDE DEF f, Upto
  <2> QED BY <2>1
<1>2. ASSUME NEW m \in 1..n, m - 1 \in Good PROVE m \in Good
  <2>1. PICK f \in [0..(m - 1) -> V] : Upto(m - 1, f)
    BY <1>2
  <2> DEFINE g == [i \in 0..m |-> IF i < m THEN f[i] ELSE step[<<m, f[m - 1]>>]]
  <2>2. f[m - 1] \in V /\ step[<<m, f[m - 1]>>] \in V
    OBVIOUS
  <2>3. g \in [0..m -> V]
    BY <2>2
  <2>4. g[0] = base /\ g[m] = step[<<m, g[m - 1]>>]
    BY <2>1
  <2>5. ASSUME NEW i \in 1..(m - 1) PROVE g[i] = step[<<i, g[i - 1]>>]
    <3>1. g[i] = f[i] /\ g[i - 1] = f[i - 1]
      OBVIOUS
    <3> QED BY <2>1, <3>1
  <2>6. Upto(m, g)
    <3>1. \A i \in 1..m : i \in 1..(m - 1) \/ i = m
      OBVIOUS
    <3> HIDE DEF g
    <3> QED BY <2>4, <2>5, <3>1
  <2> HIDE DEF g, Upto
  <2> QED BY <2>3, <2>6
<1> HIDE DEF Good
<1>3. n \in Good
  BY <1>1, <1>2, UpTo
<1> QED BY <1>3 DEF Good, Unrolls

(* What is left of a sequence, place by place.                               *)
LEMMA WhereByPlace ==
  ASSUME NEW s, NEW keep, Len(s) \in Nat
  PROVE  \E upto : /\ Where(s, keep) = upto[Len(s)] /\ upto[0] = <<>>
                   /\ \A i \in 1..Len(s) :
                        upto[i] = IF i \in keep THEN Append(upto[i - 1], s[i])
                                  ELSE upto[i - 1]
<1> DEFINE n == Len(s)
           S == {s[i] : i \in 1..n}
           Turned(u) == [i \in 0..Len(s) |->
                         IF i = 0 THEN <<>>
                         ELSE IF i \in keep THEN Append(u[i - 1], s[i]) ELSE u[i - 1]]
           step == [p \in (1..n) \X Seq(S) |->
                      IF p[1] \in keep THEN Append(p[2], s[p[1]]) ELSE p[2]]
           upto == CHOOSE u : u = Turned(u)
<1>1. \E u : u = Turned(u)
  <2>1. step \in [(1..n) \X Seq(S) -> Seq(S)] /\ <<>> \in Seq(S)
    OBVIOUS
  <2>a. n \in Nat /\ StepsOf(step, n, Seq(S))
    BY <2>1 DEF StepsOf
  <2> HIDE DEF step, S, n, upto
  <2>b. PICK u : Unrolls(u, n, Seq(S), <<>>, step)
    BY <2>a, <2>1, Unrolled, Zenon
  <2>2. u \in [0..n -> Seq(S)] /\ u[0] = <<>> /\ \A i \in 1..n : u[i] = step[<<i, u[i - 1]>>]
    BY <2>b DEF Unrolls
  <2> USE DEF n
  <2>3. ASSUME NEW i \in 0..n PROVE u[i] = Turned(u)[i]
    <3>1. CASE i = 0
      BY <2>2, <3>1
    <3>2. CASE i \in 1..n
      <4>1. <<i, u[i - 1]>> \in (1..n) \X Seq(S)
        <5>1. i - 1 \in 0..n
          BY <2>a, <3>2
        <5> QED BY <2>2, <3>2, <5>1
      <4> QED BY <2>2, <3>2, <4>1 DEF step
    <3> QED BY <3>1, <3>2
  <2>4. u = Turned(u)
    <3>1. u = [i \in 0..n |-> u[i]]
      BY <2>2
    <3> QED BY <2>3, <3>1
  <2> QED BY <2>4
<1>2. upto = Turned(upto)
  BY <1>1, Zenon
<1>3. Where(s, keep) = upto[n]
  BY Zenon DEF Where
<1> HIDE DEF upto
<1>4. ASSUME NEW i \in 0..n
      PROVE  upto[i] = IF i = 0 THEN <<>>
                       ELSE IF i \in keep THEN Append(upto[i - 1], s[i]) ELSE upto[i - 1]
  <2>1. upto[i] = Turned(upto)[i]
    BY <1>2, Zenon
  <2> QED BY <2>1
<1>5. upto[0] = <<>>
  BY <1>4
<1>6. \A i \in 1..n : upto[i] = IF i \in keep THEN Append(upto[i - 1], s[i]) ELSE upto[i - 1]
  BY <1>4
<1> HIDE DEF Turned
<1> QED BY <1>3, <1>5, <1>6

(* What is left is of what the places kept hold.                             *)
LEMMA WhereIn ==
  ASSUME NEW s, NEW keep, NEW S, Len(s) \in Nat, \A i \in keep \cap (1..Len(s)) : s[i] \in S
  PROVE  Where(s, keep) \in Seq(S)
<1>1. PICK upto : /\ Where(s, keep) = upto[Len(s)] /\ upto[0] = <<>>
                  /\ \A i \in 1..Len(s) :
                       upto[i] = IF i \in keep THEN Append(upto[i - 1], s[i])
                                 ELSE upto[i - 1]
  BY WhereByPlace
<1> DEFINE Good == {i \in 0..Len(s) : upto[i] \in Seq(S)}
<1>2. 0 \in Good
  <2>1. <<>> \in Seq(S)
    OBVIOUS
  <2>2. upto[0] = <<>>
    BY <1>1, Zenon
  <2>3. upto[0] \in Seq(S)
    BY <2>1, <2>2, Zenon
  <2>4. 0 \in 0..Len(s)
    OBVIOUS
  <2> QED BY <2>3, <2>4, Zenon
<1>3. ASSUME NEW i \in 1..Len(s), i - 1 \in Good PROVE i \in Good
  <2>1. upto[i] = IF i \in keep THEN Append(upto[i - 1], s[i]) ELSE upto[i - 1]
    BY <1>1
  <2>2. upto[i - 1] \in Seq(S) /\ (i \in keep => s[i] \in S)
    BY <1>3
  <2>3. upto[i] \in Seq(S)
    BY <2>1, <2>2
  <2> QED BY <2>3
<1> HIDE DEF Good
<1>4. \A i \in 1..Len(s) : i - 1 \in Good => i \in Good
  BY <1>3
<1>5. \A i \in 0..Len(s) : i \in Good
  BY <1>2, <1>4, UpTo
<1>6. Len(s) \in Good
  BY <1>5
<1> QED BY <1>1, <1>6 DEF Good

(* Flattening sequences of a set gives one of that set.                      *)
LEMMA FlattenIn ==
  ASSUME NEW S, NEW seqs \in Seq(Seq(S))
  PROVE  FlattenSeq(seqs) \in Seq(S)
<1> DEFINE n == Len(seqs)
           Turned(f) == [i \in 1..Len(seqs) |-> IF i = 1 THEN seqs[i] ELSE f[i - 1] \o seqs[i]]
           flatten == CHOOSE f : f = Turned(f)
           step == [p \in (1..n) \X Seq(S) |-> p[2] \o seqs[p[1]]]
<1>1. CASE n = 0
  BY <1>1 DEF FlattenSeq
<1>2. CASE n # 0
  <2>1. \E f : f = Turned(f)
    <3>1. step \in [(1..n) \X Seq(S) -> Seq(S)] /\ <<>> \in Seq(S) /\ n \in Nat
      OBVIOUS
    <3> HIDE DEF step
    <3>a. StepsOf(step, n, Seq(S))
      BY <3>1 DEF StepsOf
    <3>b. PICK u : Unrolls(u, n, Seq(S), <<>>, step)
      BY <3>1, <3>a, Unrolled, Zenon
    <3>2. u \in [0..n -> Seq(S)] /\ u[0] = <<>> /\ \A i \in 1..n : u[i] = step[<<i, u[i - 1]>>]
      BY <3>b DEF Unrolls
    <3> DEFINE f == [i \in 1..n |-> u[i]]
    <3>3. ASSUME NEW i \in 1..n PROVE f[i] = Turned(f)[i]
      <4>1. <<i, u[i - 1]>> \in (1..n) \X Seq(S) /\ u[i - 1] \in Seq(S) /\ seqs[i] \in Seq(S)
        <5>1. i - 1 \in 0..n /\ seqs[i] \in Seq(S)
          BY <3>1
        <5> QED BY <3>2, <5>1
      <4>2. u[i] = u[i - 1] \o seqs[i]
        BY <3>2, <4>1 DEF step
      <4>3. ASSUME i = 1 PROVE u[i] = seqs[i]
        <5>1. u[i] = <<>> \o seqs[i]
          BY <3>2, <4>2, <4>3, i - 1 = 0
        <5> QED BY <4>1, <5>1
      <4>4. Turned(f)[i] = IF i = 1 THEN seqs[i] ELSE f[i - 1] \o seqs[i]
        OBVIOUS
      <4>5. f[i] = u[i]
        OBVIOUS
      <4>6. i # 1 => f[i - 1] = u[i - 1]
        OBVIOUS
      <4> HIDE DEF f, Turned
      <4> QED BY <4>2, <4>3, <4>4, <4>5, <4>6
    <3>4. f = Turned(f)
      BY <3>3
    <3> QED BY <3>4
  <2>2. flatten = Turned(flatten)
    BY <2>1, Zenon
  <2>3. FlattenSeq(seqs) = flatten[n]
    BY <1>2, Zenon DEF FlattenSeq
  <2> HIDE DEF flatten
  <2> DEFINE Good == {0} \cup {i \in 1..n : flatten[i] \in Seq(S)}
  <2>4. ASSUME NEW i \in 1..n, i - 1 \in Good PROVE i \in Good
    <3>1. flatten[i] = IF i = 1 THEN seqs[i] ELSE flatten[i - 1] \o seqs[i]
      BY <2>2
    <3>2. seqs[i] \in Seq(S) /\ (i # 1 => flatten[i - 1] \in Seq(S))
      BY <2>4
    <3>3. flatten[i] \in Seq(S)
      BY <3>1, <3>2
    <3> QED BY <3>3
  <2> HIDE DEF Good
  <2>5. 0 \in Good
    BY DEF Good
  <2>6. n \in Good
    <3>1. n \in Nat /\ n \in 0..n /\ \A i \in 1..n : i - 1 \in Good => i \in Good
      BY <2>4
    <3>2. \A i \in 0..n : i \in Good
      BY <2>5, <3>1, UpTo
    <3> QED BY <3>1, <3>2
  <2> QED BY <1>2, <2>3, <2>6 DEF Good
<1> QED BY <1>1, <1>2

-----------------------------------------------------------------------------
(* What is composed.                                                         *)

Edit == AddOp \cup StrikeOp

(* An edit of a body makes a body.                                           *)
LEMMA EditedIn ==
  ASSUME NEW b \in Body, NEW o \in Edit
  PROVE  Edited(b, o) \in Body
BY DEF Edited, Body, Edit, AddOp, StrikeOp

(* The chain of a map's edits: its own edits, each with the body after it.   *)
LEMMA ChainIn ==
  ASSUME NEW m, NEW base \in Body, NEW ops \in Seq(Op)
  PROVE  Chain(m, base, ops) \in Seq([edit : {o \in Edit : o.map = m}, after : Body])
<1> DEFINE Own == {o \in Edit : o.map = m}
           edits == Where(ops, {i \in DOMAIN ops : IsEdit(ops[i]) /\ ops[i].map = m})
           n == Len(edits)
           Turned(b) == [i \in 0..Len(edits) |-> IF i = 0 THEN base ELSE Edited(b[i - 1], edits[i])]
           body == CHOOSE b : b = Turned(b)
           step == [p \in (1..n) \X Body |-> Edited(p[2], edits[p[1]])]
<1>1. edits \in Seq(Own)
  <2>1. ASSUME NEW i \in 1..Len(ops), IsEdit(ops[i]), ops[i].map = m PROVE ops[i] \in Own
    <3>1. ops[i] \in Op
      OBVIOUS
    <3> QED BY <2>1, <3>1 DEF IsEdit, Op, AddOp, StrikeOp, CreateOp, DeclineOp, Edit
  <2> HIDE DEF Own
  <2> QED BY <2>1, WhereIn
<1> HIDE DEF edits, Own
<1>2. n \in Nat /\ \A i \in 1..n : edits[i] \in Own
  BY <1>1
<1>3. \E b : b = Turned(b)
  <2>1. StepsOf(step, n, Body)
    BY <1>2, EditedIn DEF Own, StepsOf
  <2> HIDE DEF step
  <2>2. PICK u : Unrolls(u, n, Body, base, step)
    BY <1>2, <2>1, Unrolled, Zenon
  <2>3. u \in [0..n -> Body] /\ u[0] = base /\ \A i \in 1..n : u[i] = step[<<i, u[i - 1]>>]
    BY <2>2 DEF Unrolls
  <2>4. ASSUME NEW i \in 0..n PROVE u[i] = Turned(u)[i]
    <3>1. CASE i = 0
      BY <2>3, <3>1
    <3>2. CASE i \in 1..n
      <4>1. i - 1 \in 0..n
        BY <1>2, <3>2
      <4>2. <<i, u[i - 1]>> \in (1..n) \X Body
        BY <2>3, <3>2, <4>1
      <4>3. u[i] = Edited(u[i - 1], edits[i])
        BY <2>3, <3>2, <4>2 DEF step
      <4> QED BY <3>2, <4>3
    <3> QED BY <3>1, <3>2
  <2>5. u = [i \in 0..n |-> u[i]]
    BY <2>3
  <2>6. u = Turned(u)
    BY <2>4, <2>5
  <2> QED BY <2>6
<1>4. body = Turned(body)
  BY <1>3, Zenon
<1>5. Chain(m, base, ops) =
        IF \A i \in DOMAIN edits : CanEdit(body[i - 1], edits[i])
        THEN [i \in DOMAIN edits |-> [edit |-> edits[i], after |-> body[i]]] ELSE <<>>
  BY Zenon DEF Chain, edits
<1> HIDE DEF body
<1>6. \A i \in 0..n : body[i] \in Body
  <2> DEFINE Good == {i \in 0..n : body[i] \in Body}
  <2>1. 0 \in Good
    BY <1>2, <1>4
  <2>2. ASSUME NEW i \in 1..n, i - 1 \in Good PROVE i \in Good
    <3>1. body[i] = Edited(body[i - 1], edits[i])
      <4>1. body[i] = Turned(body)[i]
        BY <1>4
      <4> QED BY <4>1
    <3> QED BY <1>2, <2>2, <3>1, EditedIn DEF Own
  <2> HIDE DEF Good
  <2>3. \A i \in 0..n : i \in Good
    BY <1>2, <2>1, <2>2, UpTo
  <2> QED BY <2>3 DEF Good
<1> HIDE DEF Turned
<1>7. DOMAIN edits = 1..n
  BY <1>1
<1>8. ASSUME NEW i \in 1..n PROVE [edit |-> edits[i], after |-> body[i]] \in [edit : Own, after : Body]
  BY <1>2, <1>6
<1>9. [i \in DOMAIN edits |-> [edit |-> edits[i], after |-> body[i]]] \in Seq([edit : Own, after : Body])
  BY <1>2, <1>7, <1>8
<1>10. Chain(m, base, ops) \in Seq([edit : Own, after : Body])
  BY <1>5, <1>9
<1> QED BY <1>10 DEF Own

(* What is composed for a cluster: bodies, of old maps or of its fresh one.  *)
LEMMA ComposedIn ==
  ASSUME NEW k, NEW ops \in Seq(Op), NEW in, \A m \in Owned : in[m] \in Body
  PROVE  Composed(k, ops, in) \in Seq([map : OldMaps \cup {Fresh(k)}, body : Body])
<1> DEFINE Item == [map : OldMaps \cup {Fresh(k)}, body : Body]
           chain == [m \in Owned |-> Chain(m, in[m], ops)]
           creates == Where(ops, {i \in DOMAIN ops : ops[i].op = "create_map"})
           edited == Where(ops, {i \in Touches(ops) : chain[ops[i].map] # <<>>})
           Chained == {o \in Edit : o.map \in Owned /\ chain[o.map] # <<>>}
           minted == [i \in DOMAIN creates |-> [map |-> Fresh(k), body |-> CreatedBody(creates[i])]]
           changed == [i \in DOMAIN edited |->
                         [map |-> edited[i].map, body |-> Last(chain[edited[i].map]).after]]
<1>1. creates \in Seq(CreateOp)
  <2>1. ASSUME NEW i \in 1..Len(ops), ops[i].op = "create_map" PROVE ops[i] \in CreateOp
    <3>1. ops[i] \in Op
      OBVIOUS
    <3> QED BY <2>1, <3>1 DEF Op, AddOp, StrikeOp, CreateOp, DeclineOp
  <2> QED BY <2>1, WhereIn
<1>2. edited \in Seq(Chained)
  <2>1. ASSUME NEW i \in 1..Len(ops), i \in Touches(ops), chain[ops[i].map] # <<>>
        PROVE  ops[i] \in Chained
    <3>1. ops[i] \in Op /\ IsEdit(ops[i]) /\ ops[i].map \in Owned
      BY <2>1 DEF Touches
    <3>2. ops[i] \in Edit
      BY <3>1 DEF IsEdit, Op, AddOp, StrikeOp, CreateOp, DeclineOp, Edit
    <3> HIDE DEF chain
    <3> QED BY <2>1, <3>1, <3>2
  <2> HIDE DEF Chained, chain
  <2> QED BY <2>1, WhereIn
<1>3. ASSUME NEW o \in Chained PROVE o.map \in OldMaps /\ Last(chain[o.map]).after \in Body
  <2>1. o.map \in Owned /\ chain[o.map] = Chain(o.map, in[o.map], ops) /\ chain[o.map] # <<>>
    OBVIOUS
  <2> DEFINE Links == [edit : {e \in Edit : e.map = o.map}, after : Body]
  <2>2. chain[o.map] \in Seq(Links)
    BY <2>1, ChainIn
  <2>3. ASSUME NEW T, NEW s \in Seq(T), s # <<>> PROVE Last(s) \in T
    BY <2>3 DEF Last
  <2>4. Last(chain[o.map]) \in Links
    <3> HIDE DEF Links, chain
    <3> QED BY <2>1, <2>2, <2>3
  <2> HIDE DEF chain
  <2>5. Last(chain[o.map]).after \in Body
    BY <2>4
  <2> QED BY <2>1, <2>5, MapOpsAssumption
<1>4. minted \in Seq(Item)
  <2> HIDE DEF creates
  <2>1. \A i \in DOMAIN creates : creates[i] \in CreateOp
    BY <1>1
  <2>2. ASSUME NEW o \in CreateOp PROVE [map |-> Fresh(k), body |-> CreatedBody(o)] \in Item
    BY DEF CreateOp, CreatedBody, Body
  <2>3. Len(creates) \in Nat /\ DOMAIN creates = 1..Len(creates)
    BY <1>1
  <2> HIDE DEF Item
  <2> QED BY <2>1, <2>2, <2>3
<1>5. changed \in Seq(Item)
  <2> HIDE DEF edited, Chained, chain
  <2>1. \A i \in DOMAIN edited : edited[i] \in Chained
    BY <1>2
  <2>2. ASSUME NEW o \in Chained
        PROVE  [map |-> o.map, body |-> Last(chain[o.map]).after] \in Item
    BY <1>3
  <2>3. Len(edited) \in Nat /\ DOMAIN edited = 1..Len(edited)
    BY <1>2
  <2> HIDE DEF Item
  <2> QED BY <2>1, <2>2, <2>3
<1>6. Composed(k, ops, in) = minted \o changed
  BY Zenon DEF Composed
<1> HIDE DEF minted, changed, Item
<1>7. minted \o changed \in Seq(Item)
  BY <1>4, <1>5
<1> QED BY <1>6, <1>7, Zenon DEF Item

-----------------------------------------------------------------------------
USE MapOpsAssumption, UnitAssumption

Outcome == {"Ready", "UnknownProject", "NotEligible", "Unauthorized",
            "NotMachinePrincipal", "Aborted"}

(* The outcomes of the contract, written out.                                *)
LEMMA OutcomesAre == Contract!Outcomes = Outcome
BY DEF Contract!Outcomes, Contract!Ordinary, Contract!ConfigFaults, Outcome

ReportFields ==
  {"outcome", "kept", "declined", "applied", "skipped", "capped", "change", "usage"}

BeforePay == {"start", "fetch", "ledger", "rung1"}
BeforeRung2 == BeforePay \cup {"parse"}
BeforeApply == BeforeRung2 \cup {"rung2", "decline", "gate"}

RecordKept == [parsed : BOOLEAN, refused : BOOLEAN, ops : Seq(Op)]

(* The unit's own books: what it paid is what its report says until the wall *)
(* clock takes the report, and a rung-2 turn is paid for at most once a      *)
(* cluster, up to the cap.                                                   *)
Books ==
  /\ DOMAIN report = ReportFields /\ report.outcome \in Outcome
  /\ turns \in Nat /\ paid \in Nat
  /\ records \in Seq(RecordKept) /\ Len(records) <= MaxClusters
  /\ pc \in BeforePay => turns = 0 /\ paid = 0
  /\ pc \in BeforeRung2 => records = <<>>
  /\ turns <= 1 + Len(records)
  /\ pc # "done" => report.usage = paid /\ ~cut

(* A unit that starts has paid for nothing.                                  *)
LEMMA BooksInit == Init => Books
<1> SUFFICES ASSUME Init PROVE Books
  OBVIOUS
<1>1. records = <<>> /\ records \in Seq(RecordKept) /\ Len(records) = 0
  BY DEF Init
<1>2. DOMAIN report = ReportFields /\ report.outcome = "Ready" /\ report.usage = 0
  BY DEF Init, EmptyReport, ReportFields
<1> QED BY <1>1, <1>2 DEF Init, Books, Outcome

-----------------------------------------------------------------------------
(* What a step can be to the driver: nothing, the end, or a turn.            *)
Quiet == pc # "done" /\ pc' # "done" /\ report'.usage = report.usage /\ UNCHANGED bill
Ended ==
  /\ pc # "done" /\ pc' = "done" /\ UNCHANGED bill
  /\ report'.usage = paid \/ (report'.usage = 0 /\ report'.outcome = "Aborted")
Paid ==
  /\ pc \in {"rung1", "rung2"} /\ pc' # "done" /\ turns < MaxClusters + 1
  /\ ~Contract!Breached(CostBefore + paid)
  /\ \E c \in TurnCosts : Pay(c) /\ report'.usage = report.usage + c
Aside == pc' = pc /\ UNCHANGED <<bill, report>>

(* A step that does not touch the records of rung 2 keeps the books if it is *)
(* none of the turns and does not go back.                                   *)
LEMMA BooksFrame ==
  ASSUME Books, UNCHANGED records, Quiet \/ Ended,
         DOMAIN report' = ReportFields, report'.outcome \in Outcome,
         pc' \in BeforePay => pc \in BeforePay, pc' \in BeforeRung2 => pc \in BeforeRung2,
         pc' # "done" => ~cut'
  PROVE  Books'
<1>1. turns' = turns /\ paid' = paid
  BY DEF Quiet, Ended, bill
<1>2. pc' # "done" => report'.usage = paid'
  BY <1>1 DEF Quiet, Ended, Books
<1>3. Len(records') <= MaxClusters /\ turns' <= 1 + Len(records')
  BY <1>1 DEF Books
<1> QED BY <1>1, <1>2, <1>3 DEF Books

(* Reading the project and the ledger.                                       *)
LEMMA BooksRead ==
  Books /\ (Baseline \/ Fetch \/ Ledger) => Books' /\ (Quiet \/ Ended)
<1> SUFFICES ASSUME Books, Baseline \/ Fetch \/ Ledger
             PROVE  Books' /\ (Quiet \/ Ended)
  OBVIOUS
<1>1. /\ DOMAIN report = ReportFields /\ report.outcome \in Outcome
      /\ pc # "done" => report.usage = paid /\ ~cut
  BY DEF Books
<1> USE DEF bill, ReportFields, Goto, Finish
<1>2. /\ Quiet \/ Ended
      /\ DOMAIN report' = ReportFields /\ report'.outcome \in Outcome
      /\ records' = records /\ cut' = cut
      /\ pc' \in BeforePay \cup {"observe", "done"} /\ pc \in BeforePay
  <2>1. CASE Baseline
    BY <1>1, <2>1 DEF Baseline, Quiet, Ended, BeforePay, Outcome
  <2>2. CASE Fetch
    BY <1>1, <2>2, OutcomesAre DEF Fetch, Quiet, Ended, BeforePay
  <2>3. CASE Ledger
    BY <1>1, <2>3 DEF Ledger, Quiet, Ended, BeforePay, plan, Outcome
  <2> QED BY <2>1, <2>2, <2>3
<1>3. pc # "done"
  BY <1>2 DEF BeforePay
<1> QED BY <1>1, <1>2, <1>3, BooksFrame DEF BeforeRung2

(* The clustering turn.                                                      *)
LEMMA BooksRung1 == Books /\ Rung1 => Books' /\ (Quiet \/ Ended \/ Paid)
<1> SUFFICES ASSUME Books, Rung1 PROVE Books' /\ (Quiet \/ Ended \/ Paid)
  OBVIOUS
<1>1. /\ DOMAIN report = ReportFields /\ report.outcome \in Outcome /\ records = <<>>
      /\ report.usage = paid /\ ~cut /\ turns = 0 /\ paid = 0 /\ pc = "rung1"
  BY DEF Books, Rung1, BeforePay, BeforeRung2
<1>2. records' = records /\ cut' = cut
  BY DEF Rung1
<1>3. CASE Finish("Aborted") /\ UNCHANGED bill
  <2>1. Ended /\ DOMAIN report' = ReportFields /\ report'.outcome \in Outcome
    BY <1>1, <1>3 DEF Finish, Ended, ReportFields, Outcome
  <2> QED BY <1>1, <1>2, <1>3, <2>1, BooksFrame DEF Finish, BeforePay, BeforeRung2
<1>4. CASE ~(Finish("Aborted") /\ UNCHANGED bill)
  <2>1. ~Contract!Breached(CostBefore) /\ pc' = "parse"
    BY <1>4 DEF Rung1
  <2>2. PICK c \in TurnCosts : Pay(c) /\ report' = [report EXCEPT !.usage = @ + c]
    BY <1>4 DEF Rung1
  <2>3. /\ turns' = 1 /\ paid' = c /\ report'.usage = c /\ c \in Nat
        /\ DOMAIN report' = ReportFields /\ report'.outcome = report.outcome
    BY <1>1, <2>2 DEF Pay, ReportFields
  <2>4. records' = <<>> /\ Len(records') = 0 /\ records' \in Seq(RecordKept)
    BY <1>1, <1>2
  <2>5. Books'
    BY <1>1, <1>2, <2>1, <2>3, <2>4 DEF Books, BeforePay
  <2>6. CostBefore + paid = CostBefore /\ turns < MaxClusters + 1
    BY <1>1
  <2>7. Paid
    BY <1>1, <2>1, <2>2, <2>3, <2>6 DEF Paid
  <2> QED BY <2>5, <2>7
<1> QED BY <1>3, <1>4

(* What rung 2 keeps of an answer is a record.                               *)
LEMMA RecordIsKept ==
  ASSUME NEW c, NEW a \in OpAnswers
  PROVE  Record(c, a) \in RecordKept
<1>1. Admitted(c, clusters) \in BOOLEAN /\ ValidOps(c, ApplyVerdict(Admitted(c, clusters), a)) \in BOOLEAN
  BY DEF Admitted, ValidOps
<1>2. ASSUME a # Unparsable PROVE ApplyVerdict(Admitted(c, clusters), a) \in Seq(Op)
  <2>1. a \in Seq(Op) /\ Len(a) \in Nat /\ \A i \in 1..Len(a) : a[i] \in Op
    BY <1>2
  <2>2. Where(a, {i \in DOMAIN a : a[i].op # "create_map"}) \in Seq(Op)
    BY <2>1, WhereIn
  <2> QED BY <2>1, <2>2 DEF ApplyVerdict
<1>3. <<>> \in Seq(Op)
  OBVIOUS
<1> QED BY <1>1, <1>2, <1>3 DEF Record, RecordKept

(* A turn for a cluster.                                                     *)
LEMMA BooksRung2 == Books /\ Rung2 => Books' /\ (Quiet \/ Paid)
<1> SUFFICES ASSUME Books, Rung2 PROVE Books' /\ (Quiet \/ Paid)
  OBVIOUS
<1>1. /\ DOMAIN report = ReportFields /\ report.outcome \in Outcome
      /\ records \in Seq(RecordKept) /\ turns \in Nat /\ paid \in Nat
      /\ turns <= 1 + Len(records)
      /\ report.usage = paid /\ ~cut /\ pc = "rung2" /\ pc' = "rung2" /\ cut' = cut
  BY DEF Books, Rung2
<1>2. Len(records) + 1 <= MaxClusters /\ ~Contract!Breached(CostBefore + paid)
  BY <1>1 DEF Rung2, AtCap, Spent
<1>3. CASE UNCHANGED <<report, bill>>
  <2>1. PICK r \in RecordKept : records' = Append(records, r)
    <3>1. [parsed |-> FALSE, refused |-> FALSE, ops |-> <<>>] \in RecordKept
      BY DEF RecordKept
    <3> QED BY <3>1, RecordIsKept DEF Rung2
  <2>2. records' \in Seq(RecordKept) /\ Len(records') = Len(records) + 1
    BY <1>1, <2>1
  <2>3. Books'
    BY <1>1, <1>2, <1>3, <2>2 DEF Books, BeforeRung2, BeforePay, bill
  <2>4. Quiet
    BY <1>1, <1>3 DEF Quiet
  <2> QED BY <2>3, <2>4
<1>4. CASE ~UNCHANGED <<report, bill>>
  <2>1. PICK c \in TurnCosts, a \in OpAnswers :
          /\ Pay(c) /\ report' = [report EXCEPT !.usage = @ + c]
          /\ records' = Append(records, Record(clusters[Len(records) + 1], a))
    BY <1>4 DEF Rung2
  <2>2. records' \in Seq(RecordKept) /\ Len(records') = Len(records) + 1
    BY <1>1, <2>1, RecordIsKept
  <2>3. /\ turns' = turns + 1 /\ paid' = paid + c /\ report'.usage = paid + c /\ c \in Nat
        /\ DOMAIN report' = ReportFields /\ report'.outcome = report.outcome
    BY <1>1, <2>1 DEF Pay, ReportFields
  <2>4. Books'
    BY <1>1, <1>2, <2>2, <2>3 DEF Books, BeforeRung2, BeforePay
  <2>5. turns < MaxClusters + 1
    BY <1>1, <1>2
  <2>6. Paid
    BY <1>1, <1>2, <2>1, <2>3, <2>5 DEF Paid
  <2> QED BY <2>4, <2>6
<1> QED BY <1>3, <1>4

(* From the end of rung 2 to the first request.                              *)
LEMMA BooksPlan ==
  Books /\ (Parse \/ Rung2Done \/ Decline \/ Compose \/ Gate \/ GatesDone)
    => Books' /\ (Quiet \/ Ended)
<1> SUFFICES ASSUME Books, Parse \/ Rung2Done \/ Decline \/ Compose \/ Gate \/ GatesDone
             PROVE  Books' /\ (Quiet \/ Ended)
  OBVIOUS
<1>1. /\ DOMAIN report = ReportFields /\ report.outcome \in Outcome
      /\ pc # "done" => report.usage = paid /\ ~cut
  BY DEF Books
<1> USE DEF bill, plan, ReportFields, Goto, Finish, Outcome
<1>2. /\ Quiet \/ Ended
      /\ DOMAIN report' = ReportFields /\ report'.outcome \in Outcome
      /\ records' = records /\ cut' = cut
      /\ pc' \in {"rung2", "decline", "gate", "apply", "done"} /\ pc # "done"
  <2>1. CASE Parse
    BY <1>1, <2>1 DEF Parse, Quiet, Ended
  <2>2. CASE Rung2Done
    BY <1>1, <2>2 DEF Rung2Done, Quiet, Ended
  <2>3. CASE Decline
    BY <1>1, <2>3 DEF Decline, Quiet, Ended
  <2>4. CASE Compose
    BY <1>1, <2>4 DEF Compose, Quiet, Ended
  <2>5. CASE Gate
    BY <1>1, <2>5 DEF Gate, Quiet, Ended
  <2>6. CASE GatesDone
    BY <1>1, <2>6 DEF GatesDone, Quiet, Ended
  <2> QED BY <2>1, <2>2, <2>3, <2>4, <2>5, <2>6
<1> QED BY <1>1, <1>2, BooksFrame DEF BeforeRung2, BeforePay

(* The application step, its observation, and the wall clock.                *)
LEMMA BooksApply ==
  Books /\ (Post \/ Receive \/ TimedOut \/ Reconcile \/ ApplyDone \/ Observe \/ WallClock)
    => Books' /\ (Quiet \/ Ended)
<1> SUFFICES ASSUME Books, Post \/ Receive \/ TimedOut \/ Reconcile \/ ApplyDone \/ Observe
                           \/ WallClock
             PROVE  Books' /\ (Quiet \/ Ended)
  OBVIOUS
<1>1. /\ DOMAIN report = ReportFields /\ report.outcome \in Outcome
      /\ pc # "done" => report.usage = paid /\ ~cut
  BY DEF Books
<1> USE DEF bill, plan, ReportFields, Goto, Stop, Next1, Outcome
<1>2. /\ Quiet \/ Ended
      /\ DOMAIN report' = ReportFields /\ report'.outcome \in Outcome
      /\ records' = records /\ (pc' # "done" => cut' = cut)
      /\ pc' \in {"apply", "await", "reconcile", "observe", "done"} /\ pc # "done"
  <2>1. CASE Post
    BY <1>1, <2>1 DEF Post, Quiet
  <2>2. CASE Receive
    BY <1>1, <2>2 DEF Receive, Quiet
  <2>3. CASE TimedOut
    BY <1>1, <2>3 DEF TimedOut, Quiet
  <2>4. CASE Reconcile
    BY <1>1, <2>4 DEF Reconcile, Quiet
  <2>5. CASE ApplyDone
    BY <1>1, <2>5 DEF ApplyDone, Quiet
  <2>6. CASE Observe
    BY <1>1, <2>6 DEF Observe, Ended
  <2>7. CASE WallClock
    BY <1>1, <2>7 DEF WallClock, EmptyReport, Ended
  <2> QED BY <2>1, <2>2, <2>3, <2>4, <2>5, <2>6, <2>7
<1> QED BY <1>1, <1>2, BooksFrame DEF BeforeRung2, BeforePay

(* Every step keeps the books, and is one of the four to the driver.         *)
LEMMA BooksNext == Books /\ [Next]_vars => Books' /\ (Quiet \/ Ended \/ Paid \/ Aside)
<1> SUFFICES ASSUME Books, [Next]_vars PROVE Books' /\ (Quiet \/ Ended \/ Paid \/ Aside)
  OBVIOUS
<1>1. CASE Pipeline \/ WallClock
  BY <1>1, BooksRead, BooksRung1, BooksRung2, BooksPlan, BooksApply DEF Pipeline
<1>2. CASE Others \/ \E n \in DOMAIN wire : Decide(n)
  <2>1. UNCHANGED <<pc, records, report, turns, paid, cut>>
    BY <1>2 DEF Others, Decide, plan, bill
  <2> QED BY <2>1 DEF Books, Aside, bill
<1>3. CASE UNCHANGED vars
  BY <1>3 DEF vars, bill, plan, Books, Aside
<1> QED BY <1>1, <1>2, <1>3 DEF Next

(* The books are in order throughout.                                        *)
LEMMA BooksAlways == Spec => []Books
<1> QED BY BooksInit, BooksNext, PTL DEF Spec

(* To the driver each of the four is a step of a unit, or none.              *)
LEMMA ContractStep ==
  Books /\ Books' /\ (Quiet \/ Ended \/ Paid \/ Aside)
    => [Contract!Next]_(Contract!contractVars)
<1> SUFFICES ASSUME Books, Books', Quiet \/ Ended \/ Paid \/ Aside
             PROVE  Contract!Next \/ UNCHANGED Contract!contractVars
  OBVIOUS
<1>1. CASE Quiet
  BY <1>1 DEF Quiet, bill, Contract!contractVars
<1>2. CASE Aside
  BY <1>2 DEF Aside, bill, Contract!contractVars
<1>3. CASE Ended
  <2>1. report'.outcome \in Contract!Outcomes
    BY OutcomesAre DEF Books
  <2>2. Contract!End
    BY <1>3, <2>1 DEF Ended, bill, Contract!End
  <2> QED BY <2>2 DEF Contract!Next
<1>4. CASE Paid
  <2>1. pc # "done" /\ pc' # "done"
    BY <1>4 DEF Paid
  <2>2. Contract!Turn
    BY <1>4, <2>1 DEF Paid, Pay, Contract!Turn
  <2> QED BY <2>2 DEF Contract!Next
<1> QED BY <1>1, <1>2, <1>3, <1>4

(* The whole pipeline, with the model, the KB, the wall clock and everybody  *)
(* else, is to the driver a unit that pays turn by turn below the budget,    *)
(* never more turns than clusters allow, and ends with the bill for them or  *)
(* with an abort: what Nightly is built on.                                  *)
THEOREM ContractIsKept == Spec => KeepsContract
<1>1. Init => Contract!Init
  BY DEF Init, Contract!Init
<1> QED BY <1>1, BooksAlways, BooksNext, ContractStep, PTL
        DEF Spec, KeepsContract, Contract!Spec

-----------------------------------------------------------------------------
(* A request is accounted for.                                               *)
Settled(n) ==
  \/ n \in Reported
  \/ n \in report.skipped /\ wire[n] = "superseded"
  \/ n \in report.capped /\ wire[n] = "cap"

(* The one request the unit waits for, or stopped on without being Ready.    *)
InDoubt(n) ==
  /\ n = cur /\ pc \in {"await", "reconcile", "observe", "done"}
  /\ pc \in {"observe", "done"} => report.outcome # "Ready"

(* Every request that has left is accounted for or the one in doubt.         *)
Answered ==
  /\ pc \in BeforeApply => wire = <<>>
  /\ ~cut => \A n \in DOMAIN wire : wire[n] # "todo" => Settled(n) \/ InDoubt(n)

(* Nothing has left at the start.                                            *)
LEMMA AnsweredInit == Init => Answered
<1> SUFFICES ASSUME Init PROVE Answered
  OBVIOUS
<1>1. wire = <<>> /\ DOMAIN wire = {}
  BY DEF Init
<1> QED BY <1>1 DEF Answered

(* Before the application step there is nothing to account for.              *)
LEMMA AnsweredBefore ==
  ASSUME Answered, pc \in BeforeApply,
         UNCHANGED wire \/ (wire' = [n \in DOMAIN queue' |-> "todo"] /\ pc' = "apply")
  PROVE  Answered'
<1>1. wire = <<>> /\ DOMAIN wire = {}
  BY DEF Answered
<1>2. CASE UNCHANGED wire
  <2>1. wire' = <<>> /\ DOMAIN wire' = {}
    BY <1>1, <1>2
  <2> QED BY <2>1 DEF Answered
<1>3. CASE wire' = [n \in DOMAIN queue' |-> "todo"] /\ pc' = "apply"
  <2>1. \A n \in DOMAIN wire' : wire'[n] = "todo"
    BY <1>3
  <2>2. pc' \notin BeforeApply
    BY <1>3 DEF BeforeApply, BeforeRung2, BeforePay
  <2> QED BY <2>1, <2>2 DEF Answered
<1> QED BY <1>2, <1>3

(* The steps before the application step.                                    *)
LEMMA AnsweredEarly ==
  /\ Answered
  /\ \/ Baseline \/ Fetch \/ Ledger \/ Rung1 \/ Parse \/ Rung2 \/ Rung2Done \/ Decline
     \/ Compose \/ Gate \/ GatesDone
  => Answered'
<1> SUFFICES ASSUME Answered,
                    \/ Baseline \/ Fetch \/ Ledger \/ Rung1 \/ Parse \/ Rung2 \/ Rung2Done
                    \/ Decline \/ Compose \/ Gate \/ GatesDone
             PROVE  Answered'
  OBVIOUS
<1>1. pc \in BeforeApply
  BY DEF Baseline, Fetch, Ledger, Rung1, Parse, Rung2, Rung2Done, Decline, Compose, Gate,
         GatesDone, BeforeApply, BeforeRung2, BeforePay
<1>2. CASE GatesDone
  BY <1>1, <1>2, AnsweredBefore DEF GatesDone, Goto
<1>3. CASE ~GatesDone
  <2>1. UNCHANGED wire
    BY <1>3 DEF Baseline, Fetch, Ledger, Rung1, Parse, Rung2, Rung2Done, Decline, Compose,
                Gate
  <2> QED BY <1>1, <2>1, AnsweredBefore
<1> QED BY <1>2, <1>3

(* A step of the application step that sends nothing keeps what is settled,  *)
(* and leaves the request in doubt there or settles it.                      *)
LEMMA AnsweredFrame ==
  ASSUME Answered, UNCHANGED <<wire, cut>>, pc' \notin BeforeApply,
         Reported \subseteq Reported', report.skipped \subseteq report.skipped',
         report.capped \subseteq report.capped',
         \A n \in DOMAIN wire : InDoubt(n) => Settled(n)' \/ InDoubt(n)'
  PROVE  Answered'
BY DEF Answered, Settled

(* An answer, or proof of one, settles the request it is at.                 *)
LEMMA AnsweredMove ==
  Books /\ Answered /\ (Receive \/ TimedOut \/ Reconcile) => Answered'
<1> SUFFICES ASSUME Books, Answered, Receive \/ TimedOut \/ Reconcile PROVE Answered'
  OBVIOUS
<1>1. DOMAIN report = ReportFields /\ UNCHANGED <<wire, cut>>
  BY DEF Books, Receive, TimedOut, Reconcile
<1>2. pc \in {"await", "reconcile"} /\ pc' \in {"apply", "observe", "reconcile"}
  BY DEF Receive, TimedOut, Reconcile, Goto, Stop, Next1
<1>3. /\ pc' \notin BeforeApply
      /\ report.skipped \subseteq report.skipped' /\ report.capped \subseteq report.capped'
      /\ Reported \subseteq Reported'
  <2>1. pc' \notin BeforeApply
    BY <1>2 DEF BeforeApply, BeforeRung2, BeforePay
  <2>2. /\ report.skipped \subseteq report'.skipped /\ report.capped \subseteq report'.capped
        /\ report.applied \subseteq report'.applied
    BY <1>1 DEF Receive, TimedOut, Reconcile, Goto, Stop, Next1, ReportFields
  <2> QED BY <2>1, <2>2 DEF Reported
<1>4. ASSUME UNCHANGED cur, pc' = "reconcile" \/ (pc' = "observe" /\ report'.outcome # "Ready")
      PROVE  Answered'
  <2>1. \A n \in DOMAIN wire : InDoubt(n) => InDoubt(n)'
    BY <1>4 DEF InDoubt
  <2> QED BY <1>1, <1>3, <2>1, AnsweredFrame
<1>5. ASSUME NEW o \in {"Unauthorized", "NotMachinePrincipal", "Aborted"}, Stop(o), UNCHANGED cur
      PROVE  Answered'
  BY <1>1, <1>4, <1>5 DEF Stop, ReportFields
<1>6. ASSUME NEW m, Next1("applied", [n |-> cur, map |-> m])
      PROVE  Answered'
  <2>1. [n |-> cur, map |-> m] \in report'.applied
    BY <1>1, <1>6 DEF Next1, ReportFields
  <2>2. cur \in {a.n : a \in report'.applied}
    BY <2>1
  <2>3. \A n \in DOMAIN wire : InDoubt(n) => Settled(n)'
    BY <2>2 DEF InDoubt, Settled, Reported
  <2> QED BY <1>1, <1>3, <2>3, AnsweredFrame
<1>7. CASE Receive
  <2>1. CASE wire[cur] = "superseded" /\ Next1("skipped", cur)
    <3>1. cur \in report'.skipped
      BY <1>1, <2>1 DEF Next1, ReportFields
    <3>2. \A n \in DOMAIN wire : InDoubt(n) => Settled(n)'
      BY <1>1, <2>1, <3>1 DEF InDoubt, Settled
    <3> QED BY <1>1, <1>3, <3>2, AnsweredFrame
  <2>2. CASE wire[cur] = "cap" /\ Next1("capped", cur)
    <3>1. cur \in report'.capped
      BY <1>1, <2>2 DEF Next1, ReportFields
    <3>2. \A n \in DOMAIN wire : InDoubt(n) => Settled(n)'
      BY <1>1, <2>2, <3>1 DEF InDoubt, Settled
    <3> QED BY <1>1, <1>3, <3>2, AnsweredFrame
  <2> QED BY <1>5, <1>6, <1>7, <2>1, <2>2 DEF Receive
<1>8. CASE TimedOut
  BY <1>4, <1>8 DEF TimedOut, Goto
<1>9. CASE Reconcile
  BY <1>5, <1>6, <1>9 DEF Reconcile
<1> QED BY <1>7, <1>8, <1>9

(* A request leaves only when no other is in doubt.                          *)
LEMMA AnsweredRest ==
  /\ Books /\ Answered
  /\ Post \/ ApplyDone \/ Observe \/ WallClock \/ Others \/ (\E n \in DOMAIN wire : Decide(n))
  => Answered'
<1> SUFFICES ASSUME Books, Answered,
                    \/ Post \/ ApplyDone \/ Observe \/ WallClock \/ Others
                    \/ \E n \in DOMAIN wire : Decide(n)
             PROVE  Answered'
  OBVIOUS
<1>1. DOMAIN report = ReportFields
  BY DEF Books
<1>2. CASE Post
  <2>1. pc = "apply" /\ pc' \in {"await", "observe"} /\ cur' = cur /\ cut' = cut
    BY <1>2 DEF Post, Goto, Stop, plan
  <2>2. \A n \in DOMAIN wire : ~InDoubt(n)
    BY <2>1 DEF InDoubt
  <2>3. pc' \notin BeforeApply
    BY <2>1 DEF BeforeApply, BeforeRung2, BeforePay
  <2>4. /\ report'.applied = report.applied /\ report'.skipped = report.skipped
        /\ report'.capped = report.capped
    BY <1>1, <1>2 DEF Post, Goto, Stop, ReportFields
  <2>5. DOMAIN wire' = DOMAIN wire /\ \A n \in DOMAIN wire : n # cur => wire'[n] = wire[n]
    BY <1>2 DEF Post
  <2>6. pc' = "await" \/ wire' = wire
    BY <1>2 DEF Post, Goto
  <2>7. ASSUME NEW n \in DOMAIN wire', wire'[n] # "todo", ~cut'
        PROVE  Settled(n)' \/ InDoubt(n)'
    <3>1. CASE n = cur /\ pc' = "await"
      BY <2>1, <3>1 DEF InDoubt
    <3>2. CASE ~(n = cur /\ pc' = "await")
      <4>1. n \in DOMAIN wire /\ wire'[n] = wire[n]
        BY <2>5, <2>6, <2>7, <3>2
      <4>2. Settled(n)
        BY <2>1, <2>2, <2>7, <4>1 DEF Answered
      <4> QED BY <2>4, <4>1, <4>2 DEF Settled, Reported
    <3> QED BY <3>1, <3>2
  <2> QED BY <2>3, <2>7 DEF Answered
<1>3. CASE ApplyDone
  <2>1. /\ UNCHANGED <<wire, cut, cur, report>> /\ pc = "apply" /\ pc' = "observe"
    BY <1>3 DEF ApplyDone, Goto
  <2>2. \A n \in DOMAIN wire : ~InDoubt(n)
    BY <2>1 DEF InDoubt
  <2> QED BY <2>1, <2>2, AnsweredFrame DEF Reported, BeforeApply, BeforeRung2, BeforePay
<1>4. CASE Observe
  <2>1. /\ UNCHANGED <<wire, cut, cur>> /\ pc = "observe" /\ pc' = "done"
        /\ report'.applied = report.applied /\ report'.skipped = report.skipped
        /\ report'.capped = report.capped /\ report'.outcome = report.outcome
    BY <1>1, <1>4 DEF Observe, ReportFields
  <2>2. \A n \in DOMAIN wire : InDoubt(n) => InDoubt(n)'
    BY <2>1 DEF InDoubt
  <2> QED BY <2>1, <2>2, AnsweredFrame DEF Reported, BeforeApply, BeforeRung2, BeforePay
<1>5. CASE WallClock
  <2>1. cut' /\ pc' = "done"
    BY <1>5 DEF WallClock
  <2> QED BY <2>1 DEF Answered, BeforeApply, BeforeRung2, BeforePay
<1>6. CASE Others
  <2>1. UNCHANGED <<wire, cut, cur, report, pc>>
    BY <1>6 DEF Others
  <2> QED BY <2>1 DEF Answered, Settled, InDoubt, Reported
<1>7. ASSUME NEW k \in DOMAIN wire, Decide(k)
      PROVE  Answered'
  <2>1. /\ UNCHANGED <<cut, cur, report, pc>> /\ wire[k] = "sent" /\ DOMAIN wire' = DOMAIN wire
        /\ \A n \in DOMAIN wire : n # k => wire'[n] = wire[n]
    BY <1>7 DEF Decide
  <2>2. pc \notin BeforeApply
    BY <2>1 DEF Answered
  <2>3. ASSUME ~cut, NEW n \in DOMAIN wire, wire'[n] # "todo"
        PROVE  Settled(n)' \/ InDoubt(n)'
    <3>1. Settled(n) \/ InDoubt(n)
      BY <2>1, <2>3 DEF Answered
    <3>2. CASE n = k
      BY <2>1, <3>1, <3>2 DEF Settled, InDoubt, Reported
    <3>3. CASE n # k
      BY <2>1, <3>1, <3>3 DEF Settled, InDoubt, Reported
    <3> QED BY <3>2, <3>3
  <2> QED BY <2>1, <2>2, <2>3 DEF Answered
<1> QED BY <1>2, <1>3, <1>4, <1>5, <1>6, <1>7

(* Whatever is answered late, lost, or decided after the unit has given up,  *)
(* a write of the KB is in the report or is the one the unit stopped on.     *)
THEOREM StoredIsAlwaysReported == Spec => []StoredIsReported
<1>1. Books /\ Answered /\ [Next]_vars => Answered'
  <2>1. ASSUME Answered, UNCHANGED vars PROVE Answered'
    BY <2>1 DEF vars, Answered, Settled, InDoubt, Reported
  <2> QED BY <2>1, AnsweredEarly, AnsweredMove, AnsweredRest DEF Next, Pipeline
<1>2. Answered => StoredIsReported
  BY DEF Answered, Settled, InDoubt, StoredIsReported, Committed
<1> QED BY <1>1, <1>2, AnsweredInit, BooksAlways, PTL DEF Spec

-----------------------------------------------------------------------------
(* An op set that is kept and was not refused is the model's own, and valid. *)
Vetted ==
  \A k \in DOMAIN records :
    records[k].parsed /\ ~records[k].refused =>
      records[k].ops \in Seq(Op) /\ ValidOps(clusters[k], records[k].ops)

(* What rung 2 keeps of an answer is vetted.                                 *)
LEMMA RecordVetted ==
  ASSUME NEW c, NEW a \in OpAnswers, Record(c, a).parsed, ~Record(c, a).refused
  PROVE  Record(c, a).ops \in Seq(Op) /\ ValidOps(c, Record(c, a).ops)
<1>1. a # Unparsable /\ Admitted(c, clusters) /\ ValidOps(c, a) /\ Record(c, a).ops = a
  BY DEF Record, ApplyVerdict
<1> QED BY <1>1

(* Records are only added by rung 2, and the clusters stay from rung 1 on.   *)
LEMMA VettedNext == Books /\ Vetted /\ [Next]_vars => Vetted'
<1> SUFFICES ASSUME Books, Vetted, [Next]_vars PROVE Vetted'
  OBVIOUS
<1>0. records \in Seq(RecordKept)
  BY DEF Books
<1>1. CASE Rung1
  <2>1. records' = <<>> /\ DOMAIN records' = {}
    BY <1>1 DEF Rung1, Books, BeforeRung2, BeforePay
  <2> QED BY <2>1 DEF Vetted
<1>2. CASE Rung2
  <2>1. clusters' = clusters
    BY <1>2 DEF Rung2
  <2>2. PICK r \in RecordKept :
          /\ records' = Append(records, r)
          /\ r.parsed /\ ~r.refused =>
               r.ops \in Seq(Op) /\ ValidOps(clusters[Len(records) + 1], r.ops)
    <3>1. [parsed |-> FALSE, refused |-> FALSE, ops |-> <<>>] \in RecordKept
      BY DEF RecordKept
    <3> QED BY <1>2, <3>1, RecordIsKept, RecordVetted DEF Rung2
  <2>3. \A k \in DOMAIN records' :
          \/ k \in DOMAIN records /\ records'[k] = records[k]
          \/ k = Len(records) + 1 /\ records'[k] = r
    BY <1>0, <2>2
  <2> QED BY <2>1, <2>2, <2>3 DEF Vetted
<1>3. CASE ~Rung1 /\ ~Rung2
  <2>1. UNCHANGED <<records, clusters>>
    BY <1>3 DEF Next, Pipeline, Baseline, Fetch, Ledger, Parse, Rung2Done, Decline, Compose,
                Gate, GatesDone, Post, Receive, TimedOut, Reconcile, ApplyDone, Observe,
                WallClock, Others, Decide, plan, vars
  <2> QED BY <2>1 DEF Vetted
<1> QED BY <1>1, <1>2, <1>3

(* A cluster goes to the decline ledger only when it has members and a map   *)
(* already, and gaps are all the model proposed for it.                      *)
THEOREM DeclinesAreEarned == Spec => DeclinesEarned
<1> DEFINE Earned(d) ==
      \E k \in DOMAIN records :
        /\ d = Members(k) /\ d # {} /\ clusters[k].owner # None
        /\ records[k].ops # <<>>
        /\ \A i \in DOMAIN records[k].ops : records[k].ops[i].op = "propose_gap"
<1>1. Init => Vetted
  <2> SUFFICES ASSUME Init PROVE Vetted
    OBVIOUS
  <2>1. DOMAIN records = {}
    BY DEF Init
  <2> QED BY <2>1 DEF Vetted
<1>2. Books /\ Vetted /\ [Next]_vars => [\A d \in declines' \ declines : Earned(d)]_vars
  <2> SUFFICES ASSUME Books, Vetted, [Next]_vars, NEW d \in declines' \ declines
               PROVE  Earned(d)
    OBVIOUS
  <2>1. Decline
    BY DEF Next, Pipeline, Baseline, Fetch, Ledger, Rung1, Parse, Rung2, Rung2Done,
                Compose, Gate, GatesDone, Post, Receive, TimedOut, Reconcile, ApplyDone,
                Observe, WallClock, Others, Decide, kb, vars
  <2>2. PICK k \in ToDecline : d = Members(k) /\ d # {}
    <3> DEFINE first == CHOOSE k \in ToDecline : \A j \in ToDecline : k <= j
    <3>1. ToDecline \in SUBSET Nat /\ ToDecline # {}
      BY <2>1 DEF ToDecline, Decline, Books
    <3>2. \E k \in ToDecline : \A j \in ToDecline : k <= j
      <4>1. PICK k \in ToDecline : \A j \in ToDecline : <<j, k>> \notin OpToRel(<, Nat)
        BY <3>1, NatLessThanWellFounded, WFMin
      <4>2. \A j \in ToDecline : ~(j < k)
        BY <3>1, <4>1 DEF OpToRel
      <4> QED BY <3>1, <4>2
    <3>3. first \in ToDecline
      BY <3>2
    <3>4. d = Members(first) /\ d # {}
      BY <2>1 DEF Decline, Declined
    <3> QED BY <3>3, <3>4
  <2>3. /\ k \in DOMAIN records /\ records[k].parsed /\ ~records[k].refused
        /\ IsDecline(records[k].ops)
    BY <2>2 DEF ToDecline
  <2>4. records[k].ops \in Seq(Op) /\ ValidOps(clusters[k], records[k].ops)
    BY <2>3 DEF Vetted
  <2>5. records[k].ops # <<>>
        /\ \A i \in DOMAIN records[k].ops : records[k].ops[i].op = "propose_gap"
    BY <2>3 DEF IsDecline
  <2>6. Has(records[k].ops, "propose_gap")
    <3>1. 1 \in DOMAIN records[k].ops
      BY <2>4, <2>5
    <3> QED BY <2>5, <3>1 DEF Has
  <2>7. clusters[k].owner # None
    BY <2>4, <2>6 DEF ValidOps
  <2> QED BY <2>2, <2>3, <2>5, <2>7
<1> QED BY <1>1, <1>2, VettedNext, BooksAlways, PTL DEF Spec, DeclinesEarned

-----------------------------------------------------------------------------
(* What the plan of a unit is made of: bodies, and a request for each edit   *)
(* of an old map and for each map minted.                                    *)
Maps == OldMaps \cup {Fresh(k) : k \in 1..MaxClusters}
Composition == [map : Maps, body : Body]
Creation == [kind : {"create_map"}, map : Maps, edit : {None}, body : Body, prev : Body]
Update ==
  {r \in [kind : {"add_pointer", "strike_gap"}, map : OldMaps, edit : Edit,
          body : Body, prev : Body] : r.kind = r.edit.op /\ r.map = r.edit.map}
Posted == Creation \cup Update
Decision == {"applied", "superseded", "cap", "unauthorized", "forbidden", "fault"}

Planned ==
  /\ input = OldBody
  /\ composed \in Seq(Composition) /\ queue \in Seq(Posted)
  /\ gates \in Seq({"passed", "refused", "unevaluated"}) /\ Len(gates) <= Len(composed)
  /\ wire \in [DOMAIN queue -> {"todo", "sent"} \cup Decision]
  /\ cur \in Nat \ {0}
  /\ pc \in BeforeRung2 \cup {"rung2"} => cur = 1
  /\ pc \in BeforeRung2 \cup {"rung2", "decline"} => gates = <<>>
  /\ pc \in BeforeApply => queue = <<>>
  /\ pc \in BeforeApply => store = OldBody

(* The edits of an old map, whatever the clusters, are its own.              *)
LEMMA EditsIn ==
  ASSUME input = OldBody, records \in Seq(RecordKept), NEW m \in OldMaps
  PROVE  EditsOf(m) \in Seq([edit : {o \in Edit : o.map = m}, after : Body])
<1> DEFINE Links == [edit : {o \in Edit : o.map = m}, after : Body]
           chain(k) == IF m \in Owned THEN Chain(m, input[m], records[k].ops) ELSE <<>>
<1>1. \A k \in 1..Len(records) : records[k].ops \in Seq(Op)
  <2>1. \A k \in 1..Len(records) : records[k] \in RecordKept
    OBVIOUS
  <2> QED BY <2>1 DEF RecordKept
<1>2. input[m] \in Body
  OBVIOUS
<1>3. \A k \in 1..Len(records) : chain(k) \in Seq(Links)
  <2>1. <<>> \in Seq(Links)
    OBVIOUS
  <2>2. \A k \in 1..Len(records) : Chain(m, input[m], records[k].ops) \in Seq(Links)
    BY <1>1, <1>2, ChainIn
  <2> QED BY <2>1, <2>2
<1>4. Len(records) \in Nat /\ DOMAIN records = 1..Len(records)
  OBVIOUS
<1>5. EditsOf(m) = FlattenSeq([k \in DOMAIN records |-> chain(k)])
  BY Zenon DEF EditsOf
<1> HIDE DEF chain, Links
<1>6. [k \in DOMAIN records |-> chain(k)] \in Seq(Seq(Links))
  BY <1>3, <1>4
<1>7. FlattenSeq([k \in DOMAIN records |-> chain(k)]) \in Seq(Links)
  BY <1>6, FlattenIn
<1> QED BY <1>5, <1>7, Zenon DEF Links

(* One request an edit.                                                      *)
LEMMA UpdatesIn ==
  ASSUME input = OldBody, records \in Seq(RecordKept), NEW m \in OldMaps
  PROVE  UpdateRequests(m) \in Seq({r \in Update : r.map = m})
<1> DEFINE Own == {r \in Update : r.map = m}
           es == EditsOf(m)
           request(j) == [kind |-> es[j].edit.op, map |-> m, edit |-> es[j].edit,
                          body |-> es[j].after,
                          prev |-> IF j = 1 THEN input[m] ELSE es[j - 1].after]
<1>1. es \in Seq([edit : {o \in Edit : o.map = m}, after : Body])
  BY EditsIn
<1>2. UpdateRequests(m) = [j \in DOMAIN es |-> request(j)]
  BY Zenon DEF UpdateRequests
<1>3. input[m] \in Body
  OBVIOUS
<1> HIDE DEF es
<1>4. Len(es) \in Nat /\ DOMAIN es = 1..Len(es)
  BY <1>1
<1>5. ASSUME NEW j \in 1..Len(es) PROVE request(j) \in Own
  <2>1. /\ es[j].edit \in Edit /\ es[j].edit.map = m /\ es[j].after \in Body
        /\ j # 1 => es[j - 1].after \in Body
    <3> DEFINE Links == [edit : {o \in Edit : o.map = m}, after : Body]
    <3>0. es \in Seq(Links)
      BY <1>1
    <3> HIDE DEF Links
    <3>1. es[j] \in Links
      BY <3>0
    <3>2. ASSUME j # 1 PROVE es[j - 1] \in Links
      <4>1. j - 1 \in 1..Len(es)
        BY <1>4, <3>2
      <4> QED BY <3>0, <4>1
    <3> QED BY <3>1, <3>2 DEF Links
  <2>2. es[j].edit.op \in {"add_pointer", "strike_gap"}
    BY <2>1 DEF Edit, AddOp, StrikeOp
  <2> QED BY <1>3, <2>1, <2>2 DEF Update
<1> HIDE DEF request, Own
<1>6. [j \in DOMAIN es |-> request(j)] \in Seq(Own)
  BY <1>4, <1>5
<1> QED BY <1>2, <1>6, Zenon DEF Own

(* The requests of a body are of its map, and there are none before its gate *)
(* has passed.                                                               *)
LEMMA RequestsIn ==
  ASSUME input = OldBody, records \in Seq(RecordKept), composed \in Seq(Composition),
         NEW i \in DOMAIN composed
  PROVE  RequestsOf(i) \in Seq({r \in Posted : gates[i] = "passed" /\ composed[i].map = r.map})
<1> DEFINE b == composed[i]
           Its == {r \in Posted : gates[i] = "passed" /\ composed[i].map = r.map}
<1>1. b \in Composition /\ <<>> \in Seq(Its)
  OBVIOUS
<1>2. CASE gates[i] # "passed"
  BY <1>1, <1>2 DEF RequestsOf
<1>3. CASE gates[i] = "passed" /\ b.map \notin OldMaps
  <2>1. CreateRequest(b) \in Its
    BY <1>1, <1>3 DEF CreateRequest, Composition, Creation, Posted
  <2>2. RequestsOf(i) = <<CreateRequest(b)>>
    BY <1>3 DEF RequestsOf
  <2> HIDE DEF Its, b
  <2>3. <<CreateRequest(b)>> \in Seq(Its)
    BY <2>1
  <2> QED BY <2>2, <2>3 DEF Its
<1>4. CASE gates[i] = "passed" /\ b.map \in OldMaps
  <2>1. RequestsOf(i) \in {<<>>, UpdateRequests(b.map)}
    BY <1>4 DEF RequestsOf
  <2>2. UpdateRequests(b.map) \in Seq({r \in Update : r.map = b.map})
    BY <1>4, UpdatesIn
  <2>3. {r \in Update : r.map = b.map} \subseteq Its
    BY <1>4 DEF Posted
  <2>4. UpdateRequests(b.map) \in Seq(Its)
    <3> HIDE DEF Its
    <3> QED BY <2>2, <2>3
  <2> QED BY <1>1, <2>1, <2>4
<1> QED BY <1>2, <1>3, <1>4

(* The queue is what the bodies with a green gate ask for.                   *)
LEMMA QueueIn ==
  ASSUME input = OldBody, records \in Seq(RecordKept), composed \in Seq(Composition),
         DOMAIN gates = DOMAIN composed
  PROVE  FlattenSeq([i \in DOMAIN composed |-> RequestsOf(i)])
           \in Seq({r \in Posted :
                 \E i \in DOMAIN gates : gates[i] = "passed" /\ composed[i].map = r.map})
<1> DEFINE Green == {r \in Posted :
                      \E i \in DOMAIN gates : gates[i] = "passed" /\ composed[i].map = r.map}
<1>1. ASSUME NEW i \in DOMAIN composed PROVE RequestsOf(i) \in Seq(Green)
  <2> DEFINE Its == {r \in Posted : gates[i] = "passed" /\ composed[i].map = r.map}
  <2>1. RequestsOf(i) \in Seq(Its)
    BY RequestsIn
  <2>2. Its \subseteq Green
    OBVIOUS
  <2> HIDE DEF Its, Green
  <2> QED BY <2>1, <2>2
<1>2. Len(composed) \in Nat /\ DOMAIN composed = 1..Len(composed)
  OBVIOUS
<1> HIDE DEF Green
<1>3. [i \in DOMAIN composed |-> RequestsOf(i)] \in Seq(Seq(Green))
  BY <1>1, <1>2
<1>4. FlattenSeq([i \in DOMAIN composed |-> RequestsOf(i)]) \in Seq(Green)
  BY <1>3, FlattenIn
<1> QED BY <1>4 DEF Green

(* The bodies are composed of what rung 2 kept.                              *)
LEMMA BodiesIn ==
  ASSUME input = OldBody, records \in Seq(RecordKept), Len(records) <= MaxClusters
  PROVE  FlattenSeq([k \in DOMAIN records |-> Composed(k, records[k].ops, input)])
           \in Seq(Composition)
<1>1. ASSUME NEW k \in 1..Len(records)
      PROVE  Composed(k, records[k].ops, input) \in Seq(Composition)
  <2>1. records[k].ops \in Seq(Op) /\ \A m \in Owned : input[m] \in Body
    <3>1. records[k] \in RecordKept
      OBVIOUS
    <3> QED BY <3>1, MapOpsAssumption DEF RecordKept
  <2> DEFINE Its == [map : OldMaps \cup {Fresh(k)}, body : Body]
  <2>2. Composed(k, records[k].ops, input) \in Seq(Its)
    BY <2>1, ComposedIn
  <2>3. k \in 1..MaxClusters
    OBVIOUS
  <2>4. Its \subseteq Composition
    BY <2>3 DEF Composition, Maps
  <2> HIDE DEF Its
  <2> QED BY <2>2, <2>4
<1>2. Len(records) \in Nat /\ DOMAIN records = 1..Len(records)
  OBVIOUS
<1>3. [k \in DOMAIN records |-> Composed(k, records[k].ops, input)] \in Seq(Seq(Composition))
  BY <1>1, <1>2
<1> QED BY <1>3, FlattenIn

(* There is no plan at the start.                                            *)
LEMMA PlannedInit == Init => Planned
<1> SUFFICES ASSUME Init PROVE Planned
  OBVIOUS
<1>1. /\ input = OldBody /\ store = OldBody /\ composed = <<>> /\ queue = <<>>
      /\ gates = <<>> /\ wire = <<>> /\ cur = 1 /\ pc = "start"
  BY DEF Init
<1>2. wire \in [DOMAIN queue -> {"todo", "sent"} \cup Decision]
  BY <1>1
<1>3. Len(gates) <= Len(composed)
  BY <1>1
<1>4. composed \in Seq(Composition) /\ queue \in Seq(Posted)
      /\ gates \in Seq({"passed", "refused", "unevaluated"})
  BY <1>1
<1> QED BY <1>1, <1>2, <1>3, <1>4 DEF Planned

(* Up to the end of rung 2 nothing is planned.                               *)
LEMMA PlannedEarly ==
  Planned /\ (Baseline \/ Fetch \/ Ledger \/ Rung1 \/ Parse \/ Rung2 \/ Rung2Done) => Planned'
<1> SUFFICES ASSUME Planned,
                    Baseline \/ Fetch \/ Ledger \/ Rung1 \/ Parse \/ Rung2 \/ Rung2Done
             PROVE  Planned'
  OBVIOUS
<1>1. /\ pc \in BeforeRung2 \cup {"rung2"}
      /\ UNCHANGED <<composed, queue, gates, wire, cur, store>>
  BY DEF Baseline, Fetch, Ledger, Rung1, Parse, Rung2, Rung2Done, BeforeRung2, BeforePay,
         plan, kb
<1>2. input' \in {input, store}
  BY DEF Baseline, Fetch, Ledger, Rung1, Parse, Rung2, Rung2Done, plan
<1>3. pc \in BeforeApply
  BY <1>1 DEF BeforeApply
<1>4. input' = OldBody
  BY <1>2, <1>3 DEF Planned
<1>5. cur = 1 /\ gates = <<>> /\ queue = <<>> /\ store = OldBody
  BY <1>1, <1>3 DEF Planned
<1> QED BY <1>1, <1>4, <1>5 DEF Planned

(* The declines, the bodies and their gates.                                 *)
LEMMA PlannedPlan ==
  Books /\ Planned /\ (Decline \/ Compose \/ Gate \/ GatesDone) => Planned'
<1> SUFFICES ASSUME Books, Planned, Decline \/ Compose \/ Gate \/ GatesDone PROVE Planned'
  OBVIOUS
<1>1. /\ input = OldBody /\ store = OldBody /\ queue = <<>> /\ cur \in Nat \ {0}
      /\ composed \in Seq(Composition) /\ gates \in Seq({"passed", "refused", "unevaluated"})
      /\ Len(gates) <= Len(composed) /\ (pc = "decline" => gates = <<>>)
      /\ wire \in [DOMAIN queue -> {"todo", "sent"} \cup Decision]
  BY DEF Planned, Decline, Compose, Gate, GatesDone, BeforeApply
<1>2. UNCHANGED <<input, store>> /\ records \in Seq(RecordKept) /\ Len(records) <= MaxClusters
  BY DEF Books, Decline, Compose, Gate, GatesDone, plan, kb
<1>3. CASE Decline
  <2>1. ToDecline \in SUBSET Nat /\ ToDecline # {}
    BY <1>2, <1>3 DEF ToDecline, Decline
  <2>2. \E k \in ToDecline : \A j \in ToDecline : k <= j
    <3>1. PICK k \in ToDecline : \A j \in ToDecline : <<j, k>> \notin OpToRel(<, Nat)
      BY <2>1, NatLessThanWellFounded, WFMin
    <3>2. \A j \in ToDecline : ~(j < k)
      BY <2>1, <3>1 DEF OpToRel
    <3> QED BY <2>1, <3>2
  <2> DEFINE first == CHOOSE k \in ToDecline : \A j \in ToDecline : k <= j
  <2>3. first \in ToDecline
    BY <2>2
  <2>4. cur' \in {cur, first + 1}
    BY <1>3 DEF Decline
  <2> HIDE DEF first
  <2>5. cur' \in Nat \ {0}
    BY <1>1, <2>1, <2>3, <2>4
  <2>6. UNCHANGED <<composed, gates, queue, wire>> /\ pc = "decline" /\ pc' \in {"decline", "done"}
    BY <1>3 DEF Decline, plan, Finish
  <2> QED BY <1>1, <1>2, <2>5, <2>6 DEF Planned, BeforeRung2, BeforePay, BeforeApply
<1>4. CASE Compose
  <2>1. composed' \in Seq(Composition)
    BY <1>1, <1>2, <1>4, BodiesIn DEF Compose
  <2>2. /\ UNCHANGED <<gates, queue, wire, cur>> /\ pc = "decline" /\ pc' \in {"gate", "done"}
    BY <1>4 DEF Compose, Finish, Goto
  <2>3. gates' = <<>> /\ Len(gates') <= Len(composed')
    BY <1>1, <2>1, <2>2
  <2> QED BY <1>1, <1>2, <2>1, <2>2, <2>3 DEF Planned, BeforeRung2, BeforePay, BeforeApply
<1>5. CASE Gate
  <2>1. PICK v \in {"passed", "refused", "unevaluated"} : gates' = Append(gates, v)
    BY <1>5 DEF Gate
  <2>2. /\ gates' \in Seq({"passed", "refused", "unevaluated"})
        /\ Len(gates') = Len(gates) + 1
    BY <1>1, <2>1
  <2>3. UNCHANGED <<composed, queue, wire, cur, pc>> /\ pc = "gate" /\ Len(gates) + 1 <= Len(composed)
    BY <1>5 DEF Gate
  <2> QED BY <1>1, <1>2, <2>2, <2>3 DEF Planned, BeforeRung2, BeforePay, BeforeApply
<1>6. CASE GatesDone
  <2>1. UNCHANGED <<composed, gates>> /\ pc = "gate" /\ Len(gates) = Len(composed)
    BY <1>6 DEF GatesDone
  <2>2. CASE Unevaluated
    <3>1. UNCHANGED <<queue, wire, cur>> /\ pc' = "done"
      BY <1>6, <2>2 DEF GatesDone, Finish
    <3> QED BY <1>1, <1>2, <2>1, <3>1 DEF Planned, BeforeRung2, BeforePay, BeforeApply
  <2>3. CASE ~Unevaluated
    <3>1. /\ queue' = FlattenSeq([i \in DOMAIN composed |-> RequestsOf(i)])
          /\ wire' = [n \in DOMAIN queue' |-> "todo"] /\ cur' = 1 /\ pc' = "apply"
      BY <1>6, <2>3 DEF GatesDone, Goto
    <3>2. DOMAIN gates = DOMAIN composed
      BY <1>1, <2>1
    <3> DEFINE Green == {r \in Posted :
                          \E i \in DOMAIN gates : gates[i] = "passed" /\ composed[i].map = r.map}
    <3>3. queue' \in Seq(Green)
      BY <1>1, <1>2, <3>1, <3>2, QueueIn
    <3>4. Green \subseteq Posted
      OBVIOUS
    <3> HIDE DEF Green
    <3>5. queue' \in Seq(Posted)
      BY <3>3, <3>4
    <3>6. wire' \in [DOMAIN queue' -> {"todo", "sent"} \cup Decision]
      BY <3>1
    <3> QED BY <1>1, <1>2, <2>1, <3>1, <3>5, <3>6
            DEF Planned, BeforeRung2, BeforePay, BeforeApply
  <2> QED BY <2>2, <2>3
<1> QED BY <1>3, <1>4, <1>5, <1>6

(* The application step works through the plan.                              *)
LEMMA PlannedApply ==
  /\ Planned
  /\ \/ Post \/ Receive \/ TimedOut \/ Reconcile \/ ApplyDone \/ Observe \/ WallClock \/ Others
     \/ \E n \in DOMAIN wire : Decide(n)
  => Planned'
<1> SUFFICES ASSUME Planned,
                    \/ Post \/ Receive \/ TimedOut \/ Reconcile \/ ApplyDone \/ Observe
                    \/ WallClock \/ Others \/ \E n \in DOMAIN wire : Decide(n)
             PROVE  Planned'
  OBVIOUS
<1>1. UNCHANGED <<input, composed, queue, gates>>
  BY DEF Post, Receive, TimedOut, Reconcile, ApplyDone, Observe, WallClock, Others, Decide, plan
<1>2. pc' \notin BeforeApply
  <2>1. ASSUME NEW n \in DOMAIN wire PROVE pc \notin BeforeApply
    BY <2>1 DEF Planned
  <2> QED BY <2>1 DEF Post, Receive, TimedOut, Reconcile, ApplyDone, Observe, WallClock, Others,
                      Decide, Goto, Stop, Next1, BeforeApply, BeforeRung2, BeforePay
<1>3. cur' \in Nat \ {0}
  <2>1. CASE Receive
    <3>1. cur' \in {cur, cur + 1}
      BY <2>1 DEF Receive, Next1
    <3> QED BY <3>1 DEF Planned
  <2>2. CASE Reconcile
    <3>1. cur' \in {cur, cur + 1}
      BY <2>2 DEF Reconcile, Next1
    <3> QED BY <3>1 DEF Planned
  <2>3. CASE ~Receive /\ ~Reconcile
    <3>1. cur' = cur
      BY <2>3 DEF Post, TimedOut, ApplyDone, Observe, WallClock, Others, Decide
    <3> QED BY <3>1 DEF Planned
  <2> QED BY <2>1, <2>2, <2>3
<1>4. wire' \in [DOMAIN queue -> {"todo", "sent"} \cup Decision]
  <2>0. wire \in [DOMAIN queue -> {"todo", "sent"} \cup Decision]
    BY DEF Planned
  <2>1. CASE Post
    BY <2>0, <2>1 DEF Post
  <2>2. ASSUME NEW n \in DOMAIN wire, Decide(n) PROVE wire' \in [DOMAIN queue -> {"todo", "sent"} \cup Decision]
    <3>1. PICK d \in Decision : wire' = [wire EXCEPT ![n] = d]
      BY <2>2 DEF Decide, Decision
    <3> QED BY <2>0, <3>1
  <2>3. CASE Receive \/ TimedOut \/ Reconcile \/ ApplyDone \/ Observe \/ WallClock \/ Others
    BY <2>0, <2>3 DEF Receive, TimedOut, Reconcile, ApplyDone, Observe, WallClock, Others
  <2> QED BY <2>1, <2>2, <2>3
<1> QED BY <1>1, <1>2, <1>3, <1>4 DEF Planned, BeforeApply

(* Every step leaves the plan well-formed.                                   *)
LEMMA PlannedNext == Books /\ Planned /\ [Next]_vars => Planned'
<1> SUFFICES ASSUME Books, Planned, [Next]_vars PROVE Planned'
  OBVIOUS
<1>1. CASE UNCHANGED vars
  BY <1>1 DEF vars, plan, kb, Planned
<1> QED BY <1>1, PlannedEarly, PlannedPlan, PlannedApply DEF Next, Pipeline

(* The plan is well-formed throughout.                                       *)
LEMMA PlannedAlways == Spec => []Planned
<1> QED BY PlannedInit, PlannedNext, BooksAlways, PTL DEF Spec

-----------------------------------------------------------------------------
(* The declines that are owed to the ledger, and those it has.               *)
Owed(k) == records[k].parsed /\ ~records[k].refused /\ IsDecline(records[k].ops)
Recorded(k) == Owed(k) => Declined(k) \subseteq declines

(* Every gate was evaluated, every decline is recorded, and every request is *)
(* of a map with a green body.                                               *)
Vouched ==
  /\ Len(gates) = Len(composed) /\ "unevaluated" \notin ToSet(gates)
  /\ \A k \in DOMAIN records : Recorded(k)
  /\ \A n \in DOMAIN queue :
       \E i \in DOMAIN gates : gates[i] = "passed" /\ composed[i].map = queue[n].map

(* A cluster is passed over in the decline step only when nothing is owed    *)
(* for it any more, and the step ends with nothing owed.                     *)
NoDoubt ==
  /\ pc = "decline" => \A k \in DOMAIN records : k < cur => Recorded(k)
  /\ pc = "gate" => \A k \in DOMAIN records : Recorded(k)
  /\ queue # <<>> => Vouched

(* The step of the declines.                                                 *)
LEMMA NoDoubtDecline == Books /\ Planned /\ NoDoubt /\ (Decline \/ Compose) => NoDoubt'
<1> SUFFICES ASSUME Books, Planned, NoDoubt, Decline \/ Compose PROVE NoDoubt'
  OBVIOUS
<1>1. /\ pc = "decline" /\ queue' = <<>> /\ UNCHANGED <<records, clusters>>
      /\ records \in Seq(RecordKept) /\ cur \in Nat
  BY DEF Decline, Compose, plan, Planned, BeforeApply, Books
<1>2. \A k \in DOMAIN records : k < cur => Recorded(k)
  BY <1>1 DEF NoDoubt
<1>3. CASE Compose
  <2>1. \A k \in DOMAIN records : Recorded(k)
    BY <1>1, <1>2, <1>3 DEF Compose, ToDecline, Recorded, Owed
  <2>2. declines' = declines /\ pc' # "decline"
    BY <1>3 DEF Compose, kb, Goto, Finish
  <2> QED BY <1>1, <2>1, <2>2 DEF NoDoubt, Recorded, Owed, Declined, Members
<1>4. CASE Decline
  <2>1. CASE pc' = "done"
    BY <1>1, <2>1 DEF NoDoubt
  <2>2. CASE pc' # "done"
    <3> DEFINE first == CHOOSE k \in ToDecline : \A j \in ToDecline : k <= j
    <3>1. ToDecline \in SUBSET Nat /\ ToDecline # {}
      BY <1>1, <1>4 DEF ToDecline, Decline
    <3>2. \E k \in ToDecline : \A j \in ToDecline : k <= j
      <4>1. PICK k \in ToDecline : \A j \in ToDecline : <<j, k>> \notin OpToRel(<, Nat)
        BY <3>1, NatLessThanWellFounded, WFMin
      <4>2. \A j \in ToDecline : ~(j < k)
        BY <3>1, <4>1 DEF OpToRel
      <4> QED BY <3>1, <4>2
    <3>3. first \in ToDecline /\ \A j \in ToDecline : first <= j
      BY <3>2
    <3>4. declines' = declines \cup Declined(first) /\ cur' = first + 1 /\ pc' = pc
      BY <1>4, <2>2 DEF Decline, Finish
    <3> HIDE DEF first
    <3>5. ASSUME NEW k \in DOMAIN records, k < cur', Owed(k) PROVE Declined(k) \subseteq declines'
      <4>1. CASE k < cur
        BY <1>2, <3>4, <3>5, <4>1 DEF Recorded
      <4>2. CASE ~(k < cur)
        <5>1. k \in ToDecline
          BY <1>1, <3>5, <4>2 DEF ToDecline, Owed
        <5>2. k = first
          BY <1>1, <3>1, <3>3, <3>4, <3>5, <5>1
        <5> QED BY <3>4, <5>2
      <4> QED BY <4>1, <4>2
    <3>6. ASSUME NEW k \in DOMAIN records, k < cur' PROVE Recorded(k)'
      BY <1>1, <3>5, <3>6 DEF Recorded, Owed, Declined, Members
    <3> QED BY <1>1, <3>4, <3>6 DEF NoDoubt
  <2> QED BY <2>1, <2>2
<1> QED BY <1>3, <1>4

(* The gates, and the requests that come of them.                            *)
LEMMA NoDoubtGates == Books /\ Planned /\ NoDoubt /\ (Gate \/ GatesDone) => NoDoubt'
<1> SUFFICES ASSUME Books, Planned, NoDoubt, Gate \/ GatesDone PROVE NoDoubt'
  OBVIOUS
<1>1. /\ pc = "gate" /\ queue = <<>> /\ UNCHANGED <<records, clusters, declines, composed>>
      /\ records \in Seq(RecordKept) /\ input = OldBody /\ composed \in Seq(Composition)
      /\ gates \in Seq({"passed", "refused", "unevaluated"}) /\ pc' # "decline"
  BY DEF Gate, GatesDone, Planned, BeforeApply, Books, kb, Goto, Finish
<1>2. \A k \in DOMAIN records : Recorded(k)
  BY <1>1 DEF NoDoubt
<1>3. \A k \in DOMAIN records' : Recorded(k)'
  BY <1>1, <1>2 DEF Recorded, Owed, Declined, Members
<1>4. CASE queue' = queue
  BY <1>1, <1>3, <1>4 DEF NoDoubt
<1>5. CASE queue' # queue
  <2>1. /\ queue' = FlattenSeq([i \in DOMAIN composed |-> RequestsOf(i)])
        /\ gates' = gates /\ Len(gates) = Len(composed) /\ ~Unevaluated /\ pc' = "apply"
    BY <1>5 DEF Gate, GatesDone, Goto
  <2>2. DOMAIN gates = DOMAIN composed
    BY <1>1, <2>1
  <2> DEFINE Green == {r \in Posted :
                        \E i \in DOMAIN gates : gates[i] = "passed" /\ composed[i].map = r.map}
  <2>3. queue' \in Seq(Green)
    BY <1>1, <2>1, <2>2, QueueIn
  <2>4. \A n \in DOMAIN queue' : queue'[n] \in Green
    <3> HIDE DEF Green
    <3> QED BY <2>3
  <2>5. Vouched'
    BY <1>1, <1>3, <2>1, <2>4 DEF Vouched, Unevaluated
  <2> QED BY <2>1, <2>5 DEF NoDoubt
<1> QED BY <1>4, <1>5

(* Nothing else touches what is vouched for.                                 *)
LEMMA NoDoubtNext == Books /\ Planned /\ NoDoubt /\ [Next]_vars => NoDoubt'
<1> SUFFICES ASSUME Books, Planned, NoDoubt, [Next]_vars PROVE NoDoubt'
  OBVIOUS
<1>1. CASE Baseline \/ Fetch \/ Ledger \/ Rung1 \/ Parse \/ Rung2 \/ Rung2Done
  <2>1. pc \in BeforeRung2 \cup {"rung2"} /\ UNCHANGED <<queue, cur>> /\ pc' # "gate"
    BY <1>1 DEF Baseline, Fetch, Ledger, Rung1, Parse, Rung2, Rung2Done, BeforeRung2, BeforePay,
                plan, Goto, Finish
  <2>2. cur' = 1 /\ queue' = <<>>
    BY <2>1 DEF Planned, BeforeApply
  <2>3. CASE pc' = "decline"
    <3>1. Rung2Done
      BY <1>1, <2>3 DEF Baseline, Fetch, Ledger, Rung1, Parse, Rung2, Rung2Done, Goto, Finish
    <3>2. records' = records /\ records \in Seq(RecordKept)
      BY <3>1 DEF Rung2Done, plan, Books
    <3>3. \A k \in DOMAIN records' : ~(k < cur')
      BY <2>2, <3>2
    <3> QED BY <2>1, <2>2, <3>3 DEF NoDoubt
  <2>4. CASE pc' # "decline"
    BY <2>1, <2>2, <2>4 DEF NoDoubt
  <2> QED BY <2>3, <2>4
<1>2. CASE \/ Post \/ Receive \/ TimedOut \/ Reconcile \/ ApplyDone \/ Observe \/ WallClock
           \/ Others \/ (\E n \in DOMAIN wire : Decide(n)) \/ UNCHANGED vars
  <2>1. UNCHANGED <<declines, records, clusters, composed, gates, queue>>
    BY <1>2 DEF Post, Receive, TimedOut, Reconcile, ApplyDone, Observe, WallClock, Others,
                Decide, kb, plan, vars
  <2>2. pc' \in {"decline", "gate"} => pc' = pc /\ cur' = cur
    BY <1>2 DEF Post, Receive, TimedOut, Reconcile, ApplyDone, Observe, WallClock, Others,
                Decide, vars, Goto, Stop, Next1
  <2> QED BY <2>1, <2>2 DEF NoDoubt, Vouched, Recorded, Owed, Declined, Members
<1> QED BY <1>1, <1>2, NoDoubtDecline, NoDoubtGates DEF Next, Pipeline

(* Nothing is posted while a gate or a decline is in doubt, nor of a map     *)
(* without a green body.                                                     *)
THEOREM NoWriteOnDoubtCorrect == Spec => []NoWriteOnDoubt
<1>1. Init => NoDoubt
  <2> SUFFICES ASSUME Init PROVE NoDoubt
    OBVIOUS
  <2>1. pc = "start" /\ queue = <<>>
    BY DEF Init
  <2> QED BY <2>1 DEF NoDoubt
<1>2. Planned /\ NoDoubt => NoWriteOnDoubt
  <2> SUFFICES ASSUME Planned, NoDoubt, NEW n \in DOMAIN wire, wire[n] # "todo"
               PROVE  /\ Len(gates) = Len(composed) /\ "unevaluated" \notin ToSet(gates)
                      /\ queue[n].map
                           \in {composed[i].map : i \in {j \in DOMAIN gates : gates[j] = "passed"}}
                      /\ \A k \in DOMAIN records :
                           records[k].parsed /\ ~records[k].refused /\ IsDecline(records[k].ops)
                             => Declined(k) \subseteq declines
    BY DEF NoWriteOnDoubt
  <2>1. n \in DOMAIN queue
    BY DEF Planned
  <2>2. Vouched
    BY <2>1 DEF NoDoubt
  <2> QED BY <2>1, <2>2 DEF Vouched, Recorded, Owed
<1> QED BY <1>1, <1>2, NoDoubtNext, BooksAlways, PlannedAlways, PTL DEF Spec

-----------------------------------------------------------------------------
(* The requests the report accounts for.                                     *)
Told == Reported \cup report.skipped \cup report.capped

(* While the requests are gone through, those before the one it is at are    *)
(* accounted for, each once its answer is in, and no other.                  *)
Progress ==
  /\ pc \in BeforeApply => Told = {}
  /\ pc \in {"apply", "await", "reconcile"} => Told = 1..(cur - 1) /\ cur <= Len(queue) + 1
  /\ pc \in {"await", "reconcile"} => cur <= Len(queue)
  /\ pc \in {"observe", "done"} /\ report.outcome = "Ready" => Told = DOMAIN queue

(* A report whose lists are as before tells of the same requests.            *)
LEMMA ToldSame ==
  ASSUME report'.applied = report.applied, report'.skipped = report.skipped,
         report'.capped = report.capped
  PROVE  Told' = Told
BY DEF Told, Reported

(* A request reported, skipped or capped is told, and nothing is untold.     *)
LEMMA ToldOne ==
  ASSUME DOMAIN report = ReportFields, NEW m,
         \/ Next1("applied", [n |-> cur, map |-> m])
         \/ Next1("skipped", cur) \/ Next1("capped", cur)
  PROVE  Told' = Told \cup {cur}
<1>1. CASE Next1("applied", [n |-> cur, map |-> m])
  <2>1. /\ report'.applied = report.applied \cup {[n |-> cur, map |-> m]}
        /\ report'.skipped = report.skipped /\ report'.capped = report.capped
    BY <1>1 DEF Next1, ReportFields
  <2>2. {a.n : a \in report'.applied} = {a.n : a \in report.applied} \cup {cur}
    <3>1. [n |-> cur, map |-> m].n = cur
      OBVIOUS
    <3> QED BY <2>1, <3>1
  <2> QED BY <2>1, <2>2 DEF Told, Reported
<1>2. CASE Next1("skipped", cur)
  <2>1. /\ report'.applied = report.applied /\ report'.capped = report.capped
        /\ report'.skipped = report.skipped \cup {cur}
    BY <1>2 DEF Next1, ReportFields
  <2> QED BY <2>1 DEF Told, Reported
<1>3. CASE Next1("capped", cur)
  <2>1. /\ report'.applied = report.applied /\ report'.skipped = report.skipped
        /\ report'.capped = report.capped \cup {cur}
    BY <1>3 DEF Next1, ReportFields
  <2> QED BY <2>1 DEF Told, Reported
<1> QED BY <1>1, <1>2, <1>3

(* Before the application step nothing is told.                              *)
LEMMA ToldBefore ==
  ASSUME Books, Planned, Progress,
         \/ Baseline \/ Fetch \/ Ledger \/ Rung1 \/ Parse \/ Rung2 \/ Rung2Done \/ Decline
         \/ Compose \/ Gate \/ GatesDone
  PROVE  pc \in BeforeApply /\ queue = <<>> /\ Told = {} /\ Told' = {}
<1>0. DOMAIN report = ReportFields
  BY DEF Books
<1>1. pc \in BeforeApply
  BY DEF Baseline, Fetch, Ledger, Rung1, Parse, Rung2, Rung2Done, Decline, Compose, Gate,
         GatesDone, BeforeApply, BeforeRung2, BeforePay
<1>2. Told = {} /\ queue = <<>>
  BY <1>1 DEF Progress, Planned
<1>3. /\ report'.applied = report.applied /\ report'.skipped = report.skipped
      /\ report'.capped = report.capped
  <2> USE <1>0 DEF ReportFields, Goto, Finish
  <2>1. CASE Baseline \/ Fetch \/ Ledger \/ Parse \/ Rung2Done
    BY <2>1 DEF Baseline, Fetch, Ledger, Parse, Rung2Done
  <2>2. CASE Rung1 \/ Rung2
    BY <2>2 DEF Rung1, Rung2
  <2>3. CASE Decline \/ Compose \/ Gate \/ GatesDone
    BY <2>3 DEF Decline, Compose, Gate, GatesDone
  <2> QED BY <2>1, <2>2, <2>3
<1>4. Told' = {}
  BY <1>2, <1>3, ToldSame
<1> QED BY <1>1, <1>2, <1>4

(* The requests are gone through from the first.                             *)
LEMMA ProgressBefore ==
  /\ Books /\ Planned /\ Progress
  /\ \/ Baseline \/ Fetch \/ Ledger \/ Rung1 \/ Parse \/ Rung2 \/ Rung2Done \/ Decline
     \/ Compose \/ Gate \/ GatesDone
  => Progress'
<1> SUFFICES ASSUME Books, Planned, Progress,
                    \/ Baseline \/ Fetch \/ Ledger \/ Rung1 \/ Parse \/ Rung2 \/ Rung2Done
                    \/ Decline \/ Compose \/ Gate \/ GatesDone
             PROVE  Progress'
  OBVIOUS
<1>1. pc \in BeforeApply /\ queue = <<>> /\ Told' = {}
  BY ToldBefore
<1>2. DOMAIN queue = {}
  BY <1>1
<1>3. CASE GatesDone /\ pc' = "apply"
  <2>1. cur' = 1
    BY <1>3 DEF GatesDone, Finish
  <2>2. queue' \in Seq(Posted)
    BY <1>3, PlannedPlan DEF Planned
  <2>3. Len(queue') \in Nat
    BY <2>2
  <2>4. cur' <= Len(queue') + 1 /\ 1..(cur' - 1) = {}
    BY <2>1, <2>3
  <2> QED BY <1>1, <1>3, <2>4 DEF Progress, BeforeApply, BeforeRung2, BeforePay
<1>4. CASE ~(GatesDone /\ pc' = "apply")
  <2>1. queue' = queue /\ pc' \in BeforeApply \cup {"observe", "done"}
    <3> USE DEF plan, Goto, Finish, BeforeApply, BeforeRung2, BeforePay
    <3>1. CASE Baseline \/ Fetch \/ Ledger \/ Parse \/ Rung2Done
      BY <3>1 DEF Baseline, Fetch, Ledger, Parse, Rung2Done
    <3>2. CASE Rung1 \/ Rung2
      BY <3>2 DEF Rung1, Rung2
    <3>3. CASE Decline \/ Compose \/ Gate
      BY <3>3 DEF Decline, Compose, Gate
    <3>4. CASE GatesDone
      BY <1>4, <3>4 DEF GatesDone
    <3> QED BY <3>1, <3>2, <3>3, <3>4
  <2>2. Told' = DOMAIN queue'
    BY <1>2, <1>1, <2>1
  <2> QED BY <1>1, <2>1, <2>2 DEF Progress, BeforeApply, BeforeRung2, BeforePay
<1> QED BY <1>3, <1>4

(* One answer, one request further.                                          *)
LEMMA ProgressApply ==
  /\ Books /\ Planned /\ Progress
  /\ \/ Post \/ Receive \/ TimedOut \/ Reconcile \/ ApplyDone \/ Observe \/ WallClock \/ Others
     \/ \E n \in DOMAIN wire : Decide(n)
  => Progress'
<1> SUFFICES ASSUME Books, Planned, Progress,
                    \/ Post \/ Receive \/ TimedOut \/ Reconcile \/ ApplyDone \/ Observe
                    \/ WallClock \/ Others \/ \E n \in DOMAIN wire : Decide(n)
             PROVE  Progress'
  OBVIOUS
<1>0. DOMAIN report = ReportFields /\ report.outcome \in Outcome
  BY DEF Books
<1>1. /\ queue' = queue /\ queue \in Seq(Posted) /\ Len(queue) \in Nat
      /\ DOMAIN queue = 1..Len(queue) /\ cur \in Nat \ {0}
  <2>1. queue' = queue
    BY DEF Post, Receive, TimedOut, Reconcile, ApplyDone, Observe, WallClock, Others, Decide, plan
  <2>2. queue \in Seq(Posted) /\ cur \in Nat \ {0}
    BY DEF Planned
  <2> QED BY <2>1, <2>2
<1>2. ASSUME pc \in {"apply", "await", "reconcile"}, NEW o, o # "Ready", Stop(o) PROVE Progress'
  <2>1. report'.outcome # "Ready" /\ pc' = "observe"
    BY <1>0, <1>2 DEF Stop, ReportFields
  <2> QED BY <2>1 DEF Progress, BeforeApply, BeforeRung2, BeforePay
<1>3. ASSUME pc \in {"await", "reconcile"}, NEW m,
             \/ Next1("applied", [n |-> cur, map |-> m])
             \/ Next1("skipped", cur) \/ Next1("capped", cur)
      PROVE  Progress'
  <2>1. Told' = Told \cup {cur} /\ Told = 1..(cur - 1) /\ cur <= Len(queue)
    BY <1>0, <1>3, ToldOne DEF Progress
  <2>2. cur' = cur + 1 /\ pc' = "apply"
    BY <1>3 DEF Next1
  <2>3. Told' = 1..(cur' - 1) /\ cur' <= Len(queue') + 1
    BY <1>1, <2>1, <2>2
  <2> QED BY <2>2, <2>3 DEF Progress, BeforeApply, BeforeRung2, BeforePay
<1>4. CASE Post
  <2>1. CASE Audited(queue[cur])
    <3>1. pc = "apply" /\ pc' = "await" /\ UNCHANGED <<cur, report>> /\ cur <= Len(queue)
      BY <1>4, <2>1 DEF Post, Goto
    <3>2. Told' = Told
      BY <3>1, ToldSame
    <3> QED BY <1>1, <3>1, <3>2 DEF Progress, BeforeApply, BeforeRung2, BeforePay
  <2>2. CASE ~Audited(queue[cur])
    BY <1>2, <1>4, <2>2 DEF Post
  <2> QED BY <2>1, <2>2
<1>5. CASE Receive
  BY <1>2, <1>3, <1>5 DEF Receive
<1>6. CASE TimedOut
  <2>1. pc = "await" /\ pc' = "reconcile" /\ UNCHANGED <<cur, report>>
    BY <1>6 DEF TimedOut, Goto
  <2>2. Told' = Told
    BY <2>1, ToldSame
  <2> QED BY <1>1, <2>1, <2>2 DEF Progress, BeforeApply, BeforeRung2, BeforePay
<1>7. CASE Reconcile
  BY <1>2, <1>3, <1>7 DEF Reconcile
<1>8. CASE ApplyDone
  <2>1. pc = "apply" /\ pc' = "observe" /\ report' = report /\ cur > Len(queue)
    BY <1>8 DEF ApplyDone, Goto
  <2>2. Told' = Told
    BY <2>1, ToldSame
  <2>3. Told = 1..(cur - 1) /\ cur <= Len(queue) + 1
    BY <2>1 DEF Progress
  <2>4. Told' = DOMAIN queue'
    BY <1>1, <2>1, <2>2, <2>3
  <2> QED BY <2>1, <2>4 DEF Progress, BeforeApply, BeforeRung2, BeforePay
<1>9. CASE Observe
  <2>1. /\ report'.applied = report.applied /\ report'.skipped = report.skipped
        /\ report'.capped = report.capped /\ report'.outcome = report.outcome
        /\ pc = "observe" /\ pc' = "done"
    BY <1>0, <1>9 DEF Observe, ReportFields
  <2>2. Told' = Told
    BY <2>1, ToldSame
  <2> QED BY <1>1, <2>1, <2>2 DEF Progress, BeforeApply, BeforeRung2, BeforePay
<1>10. CASE WallClock
  <2>1. report'.outcome = "Aborted" /\ pc' = "done"
    BY <1>10 DEF WallClock, EmptyReport
  <2> QED BY <2>1 DEF Progress, BeforeApply, BeforeRung2, BeforePay
<1>11. CASE Others \/ \E n \in DOMAIN wire : Decide(n)
  <2>1. UNCHANGED <<pc, cur, report>>
    BY <1>11 DEF Others, Decide
  <2>2. Told' = Told
    BY <2>1, ToldSame
  <2> QED BY <1>1, <2>1, <2>2 DEF Progress
<1> QED BY <1>4, <1>5, <1>6, <1>7, <1>8, <1>9, <1>10, <1>11

(* A unit that ends Ready has an answer for every request it had to send.    *)
THEOREM ReadyIsAnswered == Spec => []ReadyMeansAnswered
<1>1. Init => Progress
  <2> SUFFICES ASSUME Init PROVE Progress
    OBVIOUS
  <2>1. Told = {} /\ pc = "start"
    BY DEF Init, EmptyReport, Told, Reported
  <2> QED BY <2>1 DEF Progress
<1>2. Books /\ Planned /\ Progress /\ [Next]_vars => Progress'
  <2>1. ASSUME Progress, UNCHANGED vars PROVE Progress'
    BY <2>1 DEF vars, plan, Progress, Told, Reported
  <2> QED BY <2>1, ProgressBefore, ProgressApply DEF Next, Pipeline
<1>3. Progress => ReadyMeansAnswered
  BY DEF Progress, Told, ReadyMeansAnswered
<1> QED BY <1>1, <1>2, <1>3, BooksAlways, PlannedAlways, PTL DEF Spec

-----------------------------------------------------------------------------
(* The requests that have left are those up to the one the unit is at.       *)
Left == \A n \in DOMAIN wire : wire[n] # "todo" => n <= cur /\ (pc = "apply" => n < cur)

(* The maps the KB has minted for the unit.                                  *)
Created == {n \in Committed : queue[n].kind = "create_map"}

(* A map that was minted is as it was posted, and what was written to an old *)
(* map is still in it: others only add to it, and so do the unit's requests. *)
Standing ==
  /\ DOMAIN store = OldMaps \cup {NewMap(n) : n \in Created}
  /\ \A m \in DOMAIN store : store[m] \in Body
  /\ \A n \in Committed :
       IF queue[n].kind = "create_map" THEN store[NewMap(n)] = queue[n].body
       ELSE {queue[n].edit.entry} \cup queue[n].body.refs \subseteq store[queue[n].map].refs

(* What an entry of the report says of the KB: for a map, that it is one the *)
(* KB minted for a request already gone through.                             *)
Claim(a) ==
  /\ a.n \in DOMAIN queue
  /\ LET r == queue[a.n] IN
     IF r.kind = "create_map"
     THEN /\ a.map \in DOMAIN store \ OldMaps /\ store[a.map].refs = r.body.refs
          /\ \E k \in Created : k < cur /\ a.map = NewMap(k)
     ELSE /\ a.map = r.map
          /\ r.kind = "add_pointer" => r.edit.entry \in store[a.map].refs
          /\ r.kind = "strike_gap" => r.body.refs \subseteq store[a.map].refs

(* No two entries claim a map that was minted.                               *)
Claims ==
  /\ \A a \in report.applied : Claim(a)
  /\ \A a, b \in report.applied : a.map = b.map /\ queue[a.n].kind = "create_map" => a = b

(* The maps of the KB only gain pointers, and those minted stay as they are. *)
Grows ==
  /\ DOMAIN store \subseteq DOMAIN store' /\ Committed \subseteq Committed'
  /\ \A m \in DOMAIN store : store[m].refs \subseteq store'[m].refs
                             /\ (m \notin OldMaps => store'[m] = store[m])

(* A request of the queue, by its kind.                                      *)
LEMMA QueueKinds ==
  ASSUME Planned, NEW n \in DOMAIN queue
  PROVE  /\ n \in Nat /\ queue[n].body \in Body
         /\ \/ queue[n].kind = "create_map"
            \/ /\ queue[n].kind \in {"add_pointer", "strike_gap"}
               /\ queue[n].map \in OldMaps /\ queue[n].edit.entry \in Entries
<1>1. queue \in Seq(Posted)
  BY DEF Planned
<1>2. queue[n] \in Posted /\ n \in Nat
  BY <1>1
<1> QED BY <1>2 DEF Posted, Creation, Update, Edit, AddOp, StrikeOp

(* A minted map is none of the old ones, nor that of another request.        *)
LEMMA MintedApart ==
  ASSUME NEW n \in Nat
  PROVE  NewMap(n) \notin OldMaps /\ \A k : NewMap(k) = NewMap(n) => k = n
BY DEF NewMap

(* Requests leave in order.                                                  *)
LEMMA LeftNext == Books /\ Planned /\ Progress /\ Answered /\ Left /\ [Next]_vars => Left'
<1> SUFFICES ASSUME Books, Planned, Progress, Answered, Left, [Next]_vars PROVE Left'
  OBVIOUS
<1>0. /\ DOMAIN wire = DOMAIN queue /\ queue \in Seq(Posted) /\ cur \in Nat
  BY DEF Planned
<1>0a. \A n \in DOMAIN wire : n \in Nat
  BY <1>0
<1>1. CASE \/ Baseline \/ Fetch \/ Ledger \/ Rung1 \/ Parse \/ Rung2 \/ Rung2Done \/ Decline
           \/ Compose \/ Gate \/ GatesDone
  <2>1. pc \in BeforeApply
    BY <1>1, ToldBefore
  <2>2. wire = <<>> /\ DOMAIN wire = {}
    BY <2>1 DEF Answered
  <2>3. wire' = wire \/ wire' = [n \in DOMAIN queue' |-> "todo"]
    BY <1>1 DEF Baseline, Fetch, Ledger, Rung1, Parse, Rung2, Rung2Done, Decline, Compose, Gate,
                GatesDone
  <2> QED BY <2>2, <2>3 DEF Left
<1>2. CASE Post
  <2>1. pc = "apply" /\ cur' = cur /\ pc' # "apply"
    BY <1>2 DEF Post, Goto, Stop
  <2>2. \A n \in DOMAIN wire' : n \in DOMAIN wire /\ (wire'[n] = wire[n] \/ n = cur)
    BY <1>2 DEF Post
  <2> QED BY <1>0, <1>0a, <2>1, <2>2 DEF Left
<1>3. CASE Receive \/ Reconcile
  <2>1. wire' = wire /\ (cur' = cur + 1 \/ (cur' = cur /\ pc' # "apply"))
    BY <1>3 DEF Receive, Reconcile, Stop, Next1
  <2> QED BY <1>0, <1>0a, <2>1 DEF Left
<1>4. CASE TimedOut \/ ApplyDone \/ Observe \/ WallClock
  <2>1. UNCHANGED <<wire, cur>> /\ pc' # "apply"
    BY <1>4 DEF TimedOut, ApplyDone, Observe, WallClock, Goto
  <2> QED BY <2>1 DEF Left
<1>5. CASE Others \/ UNCHANGED vars
  <2>1. UNCHANGED <<wire, cur, pc>>
    BY <1>5 DEF Others, vars
  <2> QED BY <2>1 DEF Left
<1>6. ASSUME NEW k \in DOMAIN wire, Decide(k) PROVE Left'
  <2>1. UNCHANGED <<cur, pc>> /\ wire[k] = "sent"
    BY <1>6 DEF Decide
  <2>2. \A n \in DOMAIN wire' : n \in DOMAIN wire /\ (wire'[n] = wire[n] \/ n = k)
    BY <1>6 DEF Decide
  <2> QED BY <2>1, <2>2 DEF Left
<1> QED BY <1>1, <1>2, <1>3, <1>4, <1>5, <1>6 DEF Next, Pipeline

(* A decision of the KB: a map minted as it was posted, an old map with all  *)
(* it had.                                                                   *)
LEMMA StandingDecide ==
  ASSUME Planned, Standing, NEW k \in DOMAIN wire, Decide(k)
  PROVE  Standing' /\ Grows
<1> DEFINE r == queue[k]
<1>1. /\ DOMAIN wire = DOMAIN queue /\ k \in DOMAIN queue /\ wire[k] = "sent"
      /\ UNCHANGED queue
      /\ wire \in [DOMAIN queue -> {"todo", "sent"} \cup Decision]
  BY DEF Planned, Decide, plan
<1>2. /\ k \notin Committed /\ k \in Nat /\ r.body \in Body
      /\ \A n \in Committed : n \in DOMAIN queue /\ n \in Nat
  BY <1>1, QueueKinds DEF Committed
<1>3. CASE UNCHANGED store /\ wire'[k] # "applied"
  <2>1. Committed' = Committed
    <3>1. DOMAIN wire' = DOMAIN wire /\ \A n \in DOMAIN wire : n # k => wire'[n] = wire[n]
      BY <1>1 DEF Decide
    <3> QED BY <1>2, <1>3, <3>1 DEF Committed
  <2> QED BY <1>1, <1>3, <2>1 DEF Standing, Grows, Created
<1>4. CASE ~(UNCHANGED store /\ wire'[k] # "applied")
  <2>1. /\ Fits(r) /\ wire' = [wire EXCEPT ![k] = "applied"]
        /\ store' = [m \in DOMAIN store \cup {Target(k)} |->
                       IF m = Target(k) THEN r.body ELSE store[m]]
    BY <1>1, <1>4 DEF Decide
  <2>2. Committed' = Committed \cup {k}
    BY <1>1, <2>1 DEF Committed
  <2>3. /\ DOMAIN store = OldMaps \cup {NewMap(n) : n \in Created}
        /\ \A m \in DOMAIN store : store[m] \in Body
        /\ \A n \in Committed :
             IF queue[n].kind = "create_map" THEN store[NewMap(n)] = queue[n].body
             ELSE {queue[n].edit.entry} \cup queue[n].body.refs \subseteq store[queue[n].map].refs
    BY DEF Standing
  <2>4. \A m \in DOMAIN store' : store'[m] \in Body
    BY <1>2, <2>1, <2>3
  <2>5. CASE r.kind = "create_map"
    <3>1. Target(k) = NewMap(k) /\ Created' = Created \cup {k}
      BY <1>1, <2>2, <2>5 DEF Target, Created
    <3>2. NewMap(k) \notin DOMAIN store
      BY <1>2, <2>3, MintedApart DEF Created
    <3>3. DOMAIN store' = OldMaps \cup {NewMap(n) : n \in Created'}
      BY <2>1, <2>3, <3>1
    <3>4. \A m \in DOMAIN store : store'[m] = store[m]
      BY <2>1, <3>1, <3>2
    <3>5. store'[NewMap(k)] = r.body
      BY <2>1, <3>1
    <3>6. ASSUME NEW n \in Committed
          PROVE  IF queue[n].kind = "create_map" THEN store'[NewMap(n)] = queue[n].body
                 ELSE {queue[n].edit.entry} \cup queue[n].body.refs
                        \subseteq store'[queue[n].map].refs
      <4>1. CASE queue[n].kind = "create_map"
        <5>1. NewMap(n) \in DOMAIN store
          BY <2>3, <4>1 DEF Created
        <5> QED BY <2>3, <3>4, <4>1, <5>1
      <4>2. CASE queue[n].kind # "create_map"
        <5>1. queue[n].map \in OldMaps
          BY <1>2, <4>2, QueueKinds
        <5> QED BY <2>3, <3>4, <4>2, <5>1
      <4> QED BY <4>1, <4>2
    <3>7. Standing'
      BY <1>1, <2>2, <2>4, <2>5, <3>3, <3>5, <3>6 DEF Standing
    <3>8. Grows
      BY <2>2, <3>4, <2>1 DEF Grows
    <3> QED BY <3>7, <3>8
  <2>6. CASE r.kind # "create_map"
    <3>1. /\ Target(k) = r.map /\ r.map \in OldMaps /\ r.map \in DOMAIN store
          /\ r.kind \in {"add_pointer", "strike_gap"} /\ Created' = Created
      BY <1>1, <2>2, <2>3, <2>6, QueueKinds DEF Target, Created
    <3>2. store[r.map].refs \cup {r.edit.entry} \subseteq r.body.refs
      BY <2>1, <3>1 DEF Fits
    <3>3. DOMAIN store' = DOMAIN store
      BY <2>1, <3>1
    <3>4. \A m \in DOMAIN store : m # r.map => store'[m] = store[m]
      BY <2>1, <3>1
    <3>5. store'[r.map] = r.body
      BY <2>1, <3>1
    <3>6. Grows
      BY <2>2, <3>1, <3>2, <3>3, <3>4, <3>5 DEF Grows
    <3>7. ASSUME NEW n \in Committed
          PROVE  IF queue[n].kind = "create_map" THEN store'[NewMap(n)] = queue[n].body
                 ELSE {queue[n].edit.entry} \cup queue[n].body.refs
                        \subseteq store'[queue[n].map].refs
      <4>1. CASE queue[n].kind = "create_map"
        <5>1. NewMap(n) \in DOMAIN store /\ NewMap(n) # r.map
          BY <1>2, <2>3, <3>1, <4>1, MintedApart DEF Created
        <5> QED BY <2>3, <3>4, <4>1, <5>1
      <4>2. CASE queue[n].kind # "create_map"
        <5>1. queue[n].map \in DOMAIN store
          BY <1>2, <2>3, <4>2, QueueKinds
        <5> QED BY <2>3, <3>6, <4>2, <5>1 DEF Grows
      <4> QED BY <4>1, <4>2
    <3>8. Standing'
      BY <1>1, <2>2, <2>3, <2>4, <2>6, <3>1, <3>2, <3>3, <3>5, <3>7 DEF Standing
    <3> QED BY <3>6, <3>8
  <2> QED BY <2>5, <2>6
<1> QED BY <1>3, <1>4

(* Others point old maps at more, and mint none.                             *)
LEMMA StandingOthers == Planned /\ Standing /\ Others => Standing' /\ Grows
<1> SUFFICES ASSUME Planned, Standing, Others PROVE Standing' /\ Grows
  OBVIOUS
<1>1. UNCHANGED <<wire, queue>> /\ DOMAIN wire = DOMAIN queue
  BY DEF Others, plan, Planned
<1>2. Committed' = Committed /\ Created' = Created
  BY <1>1 DEF Committed, Created
<1>3. CASE UNCHANGED store
  BY <1>1, <1>2, <1>3 DEF Standing, Grows
<1>4. CASE ~UNCHANGED store
  <2>1. PICK m \in OldMaps, e \in Entries : store' = [store EXCEPT ![m].refs = @ \cup {e}]
    BY <1>4 DEF Others
  <2>2. m \in DOMAIN store /\ store[m] \in Body
    BY DEF Standing
  <2>3. /\ DOMAIN store' = DOMAIN store /\ \A o \in DOMAIN store : o # m => store'[o] = store[o]
        /\ store'[m] = [store[m] EXCEPT !.refs = @ \cup {e}]
    BY <2>1, <2>2
  <2>4. store'[m] \in Body /\ store'[m].refs = store[m].refs \cup {e}
    BY <2>2, <2>3 DEF Body
  <2>5. Grows
    BY <1>2, <2>3, <2>4 DEF Grows
  <2>6. ASSUME NEW n \in Committed
        PROVE  IF queue[n].kind = "create_map" THEN store'[NewMap(n)] = queue[n].body
               ELSE {queue[n].edit.entry} \cup queue[n].body.refs
                      \subseteq store'[queue[n].map].refs
    <3>0. n \in DOMAIN queue /\ n \in Nat
      BY <1>1, QueueKinds DEF Committed
    <3>1. CASE queue[n].kind = "create_map"
      <4>1. NewMap(n) \in DOMAIN store /\ NewMap(n) # m
        BY <3>0, <3>1, MintedApart DEF Created, Standing
      <4> QED BY <2>3, <3>1, <4>1 DEF Standing
    <3>2. CASE queue[n].kind # "create_map"
      <4>1. queue[n].map \in DOMAIN store
        BY <3>0, <3>2, QueueKinds DEF Standing
      <4> QED BY <2>5, <3>2, <4>1 DEF Standing, Grows
    <3> QED BY <3>1, <3>2
  <2>7. \A o \in DOMAIN store' : store'[o] \in Body
    BY <2>3, <2>4 DEF Standing
  <2> QED BY <1>1, <1>2, <2>3, <2>5, <2>6, <2>7 DEF Standing
<1> QED BY <1>3, <1>4

(* Whatever is decided late or done by others, the KB keeps what it has.     *)
LEMMA StandingNext ==
  Books /\ Planned /\ Progress /\ Answered /\ Left /\ Standing /\ [Next]_vars
    => Standing' /\ (UNCHANGED queue => Grows)
<1> SUFFICES ASSUME Books, Planned, Progress, Answered, Left, Standing, [Next]_vars
             PROVE  Standing' /\ (UNCHANGED queue => Grows)
  OBVIOUS
<1>1. CASE \/ Baseline \/ Fetch \/ Ledger \/ Rung1 \/ Parse \/ Rung2 \/ Rung2Done \/ Decline
           \/ Compose \/ Gate \/ GatesDone
  <2>1. pc \in BeforeApply
    BY <1>1, ToldBefore
  <2>2. wire = <<>> /\ DOMAIN wire = {}
    BY <2>1 DEF Answered
  <2>3. (wire' = wire \/ wire' = [n \in DOMAIN queue' |-> "todo"]) /\ store' = store
    BY <1>1 DEF Baseline, Fetch, Ledger, Rung1, Parse, Rung2, Rung2Done, Decline, Compose, Gate,
                GatesDone, kb
  <2>4. Committed = {} /\ Committed' = {}
    BY <2>2, <2>3 DEF Committed
  <2>5. Created = {} /\ Created' = {}
    BY <2>4 DEF Created
  <2> QED BY <2>3, <2>4, <2>5 DEF Standing, Grows
<1>2. CASE Post
  <2>1. pc = "apply" /\ UNCHANGED <<store, queue>>
    BY <1>2 DEF Post, kb, plan
  <2>2. /\ DOMAIN wire' = DOMAIN wire /\ \A n \in DOMAIN wire : n # cur => wire'[n] = wire[n]
        /\ cur \in DOMAIN wire => wire'[cur] \in {wire[cur], "sent"}
    BY <1>2 DEF Post
  <2>3. cur \in Nat /\ cur \notin Committed
    BY <2>1 DEF Planned, Left, Committed
  <2>4. Committed' = Committed
    BY <2>2, <2>3 DEF Committed
  <2> QED BY <2>1, <2>4 DEF Standing, Grows, Created
<1>3. CASE \/ Receive \/ TimedOut \/ Reconcile \/ ApplyDone \/ Observe \/ WallClock
           \/ UNCHANGED vars
  <2>1. UNCHANGED <<store, queue, wire>>
    BY <1>3 DEF Receive, TimedOut, Reconcile, ApplyDone, Observe, WallClock, vars, kb, plan
  <2> QED BY <2>1 DEF Standing, Grows, Created, Committed
<1> QED BY <1>1, <1>2, <1>3, StandingDecide, StandingOthers DEF Next, Pipeline

(* A claim stands while the KB only gains and the unit only goes on.         *)
LEMMA ClaimStands ==
  ASSUME Planned, Standing, Grows, UNCHANGED queue, cur' >= cur, cur' \in Nat,
         NEW a, Claim(a)
  PROVE  Claim(a)'
<1>1. a.n \in DOMAIN queue /\ a.n \in DOMAIN queue'
  BY DEF Claim
<1>2. cur \in Nat /\ OldMaps \subseteq DOMAIN store /\ Created \subseteq Created'
  BY DEF Planned, Standing, Grows, Created
<1>3. CASE queue[a.n].kind = "create_map"
  <2>1. a.map \in DOMAIN store \ OldMaps /\ store[a.map].refs = queue[a.n].body.refs
    BY <1>3 DEF Claim
  <2>2. store'[a.map] = store[a.map] /\ a.map \in DOMAIN store'
    BY <2>1 DEF Grows
  <2>3. PICK k \in Created : k < cur /\ a.map = NewMap(k)
    BY <1>3 DEF Claim
  <2>4. k \in Created' /\ k < cur'
    <3>1. k \in Nat
      BY QueueKinds DEF Created, Committed, Planned
    <3> QED BY <1>2, <2>3, <3>1
  <2> QED BY <1>1, <1>3, <2>1, <2>2, <2>3, <2>4 DEF Claim
<1>4. CASE queue[a.n].kind # "create_map"
  <2>1. a.map = queue[a.n].map /\ a.map \in DOMAIN store
    BY <1>1, <1>2, <1>4, QueueKinds DEF Claim
  <2>2. store[a.map].refs \subseteq store'[a.map].refs
    BY <2>1 DEF Grows
  <2> QED BY <1>1, <1>4, <2>1, <2>2 DEF Claim
<1> QED BY <1>3, <1>4

(* Claims stand under a step that adds none.                                 *)
LEMMA ClaimsFrame ==
  ASSUME Planned, Standing, Claims, Grows, UNCHANGED queue, cur' >= cur, cur' \in Nat,
         report'.applied = report.applied
  PROVE  Claims'
<1>1. \A a \in report'.applied : Claim(a)'
  BY ClaimStands DEF Claims
<1>2. \A a, b \in report'.applied : a.map = b.map /\ queue'[a.n].kind = "create_map" => a = b
  BY DEF Claims
<1> QED BY <1>1, <1>2 DEF Claims

(* What the answer, or a re-read, says of the request the unit is at.        *)
LEMMA ClaimsAdd ==
  ASSUME Books, Planned, Progress, Left, Standing, Claims, Receive \/ Reconcile,
         NEW m, Next1("applied", [n |-> cur, map |-> m]),
         \/ wire[cur] = "applied" /\ m = Target(cur)
         \/ m \in Evidence(cur)
  PROVE  Claims'
<1> DEFINE r == queue[cur]
<1>0. PICK new : new = [n |-> cur, map |-> m]
  OBVIOUS
<1>1. /\ UNCHANGED <<queue, store, wire>> /\ pc \in {"await", "reconcile"}
      /\ DOMAIN wire = DOMAIN queue /\ queue \in Seq(Posted) /\ cur \in Nat \ {0}
      /\ input = OldBody
  BY DEF Receive, Reconcile, plan, kb, Planned
<1>2. cur \in DOMAIN queue /\ cur' = cur + 1
  BY <1>1 DEF Progress, Next1
<1>3. report'.applied = report.applied \cup {new}
  BY <1>0 DEF Next1, Books, ReportFields
<1>4. Committed' = Committed /\ Created' = Created /\ OldMaps \subseteq DOMAIN store
  BY <1>1 DEF Committed, Created, Standing
<1>5. Grows
  BY <1>1, <1>4 DEF Grows
<1>6. \A n \in Created : n \in Nat /\ n <= cur
  BY <1>1 DEF Created, Committed, Left
<1>7. new.n = cur /\ new.map = m
  BY <1>0
<1>7a. /\ queue' = queue /\ store' = store /\ cur \in DOMAIN queue'
      /\ cur \in Nat /\ cur' = cur + 1 /\ cur' \in Nat /\ cur' >= cur
  BY <1>1, <1>2
<1>7b. ASSUME Claim(new)' PROVE \A a \in report'.applied : Claim(a)'
  <2>1. \A a \in report.applied : Claim(a)'
    BY <1>5, <1>7a, ClaimStands DEF Claims
  <2> QED BY <1>3, <1>7b, <2>1
<1>8. CASE r.kind = "create_map"
  <2>1. /\ m \in DOMAIN store \ OldMaps /\ store[m].refs = r.body.refs
        /\ \E k \in Created : m = NewMap(k)
        /\ \A b \in report.applied : b.map # m
    <3>1. CASE wire[cur] = "applied" /\ m = Target(cur)
      <4>1. m = NewMap(cur) /\ cur \in Created
        BY <1>1, <1>2, <1>8, <3>1 DEF Target, Created, Committed
      <4>2. m \in DOMAIN store \ OldMaps /\ store[m].refs = r.body.refs
        BY <1>1, <1>8, <4>1, MintedApart DEF Standing, Created
      <4>3. ASSUME NEW b \in report.applied PROVE b.map # m
        <5>1. Claim(b)
          BY DEF Claims
        <5>2. CASE queue[b.n].kind = "create_map"
          <6>1. PICK k \in Created : k < cur /\ b.map = NewMap(k)
            BY <5>1, <5>2 DEF Claim
          <6> QED BY <1>1, <1>6, <4>1, <6>1, MintedApart
        <5>3. CASE queue[b.n].kind # "create_map"
          <6>1. b.map \in OldMaps
            BY <5>1, <5>3, QueueKinds DEF Claim
          <6> QED BY <4>2, <6>1
        <5> QED BY <5>2, <5>3
      <4> QED BY <4>1, <4>2, <4>3
    <3>2. CASE m \in Evidence(cur)
      <4>1. /\ m \in DOMAIN store /\ m \notin DOMAIN input /\ store[m].refs = r.body.refs
            /\ m \notin {a.map : a \in report.applied}
        BY <1>8, <3>2 DEF Evidence
      <4>2. m \notin OldMaps
        BY <1>1, <4>1
      <4> QED BY <4>1, <4>2 DEF Standing
    <3> QED BY <3>1, <3>2
  <2>2. Claim(new)'
    <3>1. PICK k \in Created : m = NewMap(k)
      BY <2>1
    <3>2. k < cur'
      BY <1>1, <1>2, <1>6
    <3> QED BY <1>4, <1>7, <1>7a, <1>8, <2>1, <3>1, <3>2 DEF Claim
  <2>3. \A a \in report'.applied : Claim(a)'
    BY <1>7b, <2>2
  <2>4. \A a, b \in report'.applied : a.map = b.map /\ queue'[a.n].kind = "create_map" => a = b
    BY <1>1, <1>3, <1>7, <2>1 DEF Claims
  <2> QED BY <2>3, <2>4 DEF Claims
<1>9. CASE r.kind # "create_map"
  <2>1. r.map \in OldMaps /\ r.kind \in {"add_pointer", "strike_gap"}
    BY <1>2, <1>9, QueueKinds
  <2>2. /\ m = r.map
        /\ r.kind = "add_pointer" => r.edit.entry \in store[m].refs
        /\ r.kind = "strike_gap" => r.body.refs \subseteq store[m].refs
    <3>1. CASE wire[cur] = "applied" /\ m = Target(cur)
      <4>1. m = r.map /\ cur \in Committed
        BY <1>1, <1>2, <1>9, <3>1 DEF Target, Committed
      <4> QED BY <1>9, <4>1 DEF Standing
    <3>2. CASE m \in Evidence(cur)
      <4>1. CASE r.kind = "add_pointer"
        BY <3>2, <4>1 DEF Evidence
      <4>2. CASE r.kind = "strike_gap"
        BY <3>2, <4>2 DEF Evidence
      <4> QED BY <2>1, <4>1, <4>2
    <3> QED BY <3>1, <3>2
  <2>3. Claim(new)'
    BY <1>7, <1>7a, <1>9, <2>1, <2>2 DEF Claim
  <2>4. ASSUME NEW b \in report.applied, queue[b.n].kind = "create_map" PROVE b.map # m
    <3>1. b.map \notin OldMaps
      BY <2>4 DEF Claims, Claim
    <3> QED BY <2>1, <2>2, <3>1
  <2>5. \A a \in report'.applied : Claim(a)'
    BY <1>7b, <2>3
  <2>6. \A a, b \in report'.applied : a.map = b.map /\ queue'[a.n].kind = "create_map" => a = b
    BY <1>1, <1>3, <1>7, <1>9, <2>4 DEF Claims
  <2> QED BY <2>5, <2>6 DEF Claims
<1> QED BY <1>8, <1>9

(* Every step leaves the claims standing.                                    *)
LEMMA ClaimsNext ==
  Books /\ Planned /\ Progress /\ Answered /\ Left /\ Standing /\ Claims /\ [Next]_vars
    => Claims'
<1> SUFFICES ASSUME Books, Planned, Progress, Answered, Left, Standing, Claims, [Next]_vars
             PROVE  Claims'
  OBVIOUS
<1>0. DOMAIN report = ReportFields /\ cur \in Nat
  BY DEF Books, Planned
<1>1. CASE \/ Baseline \/ Fetch \/ Ledger \/ Rung1 \/ Parse \/ Rung2 \/ Rung2Done \/ Decline
           \/ Compose \/ Gate \/ GatesDone
  <2>1. Told' = {}
    BY <1>1, ToldBefore
  <2>2. \A a \in report'.applied : a.n \in Told'
    BY DEF Told, Reported
  <2>3. report'.applied = {}
    BY <2>1, <2>2
  <2> QED BY <2>3 DEF Claims
<1>2. CASE WallClock
  <2>1. report'.applied = {}
    BY <1>2 DEF WallClock, EmptyReport
  <2> QED BY <2>1 DEF Claims
<1>3. ASSUME UNCHANGED <<queue, cur>>, report'.applied = report.applied PROVE Claims'
  BY <1>0, <1>3, StandingNext, ClaimsFrame
<1>4. CASE \/ Post \/ TimedOut \/ ApplyDone \/ Observe \/ Others \/ UNCHANGED vars
           \/ \E n \in DOMAIN wire : Decide(n)
  <2>1. UNCHANGED <<queue, cur>>
    BY <1>4 DEF Post, TimedOut, ApplyDone, Observe, Others, Decide, vars, plan
  <2>2. report'.applied = report.applied
    BY <1>0, <1>4 DEF Post, TimedOut, ApplyDone, Observe, Others, Decide, vars, Goto, Stop,
                      ReportFields
  <2> QED BY <1>3, <2>1, <2>2
<1>5. CASE Receive \/ Reconcile
  <2>1. UNCHANGED queue
    BY <1>5 DEF Receive, Reconcile, plan
  <2>2. ASSUME NEW o, Stop(o), UNCHANGED cur PROVE Claims'
    <3>1. report'.applied = report.applied
      BY <1>0, <2>2 DEF Stop, ReportFields
    <3> QED BY <1>3, <2>1, <2>2, <3>1
  <2>3. ASSUME Next1("skipped", cur) \/ Next1("capped", cur) PROVE Claims'
    <3>1. report'.applied = report.applied /\ cur' = cur + 1
      BY <1>0, <2>3 DEF Next1, ReportFields
    <3> QED BY <1>0, <2>1, <3>1, StandingNext, ClaimsFrame
  <2>4. CASE wire[cur] = "applied" /\ Next1("applied", [n |-> cur, map |-> Target(cur)])
    BY <1>5, <2>4, ClaimsAdd
  <2>5. ASSUME NEW m \in Evidence(cur), Next1("applied", [n |-> cur, map |-> m]) PROVE Claims'
    BY <1>5, <2>5, ClaimsAdd
  <2> QED BY <1>5, <2>2, <2>3, <2>4, <2>5 DEF Receive, Reconcile
<1> QED BY <1>1, <1>2, <1>4, <1>5 DEF Next, Pipeline

(* What the report calls applied is in the KB, the requests a re-read        *)
(* vouched for included, whenever the KB decides the others.                 *)
THEOREM AppliedIsAlwaysStored == Spec => []AppliedIsStored
<1> DEFINE IInv == Progress /\ Answered /\ Left /\ Standing /\ Claims
<1>1. Init => IInv
  <2> SUFFICES ASSUME Init PROVE IInv
    OBVIOUS
  <2>1. Told = {} /\ pc = "start" /\ report.applied = {}
    BY DEF Init, EmptyReport, Told, Reported
  <2>2. Progress /\ Claims
    BY <2>1 DEF Progress, Claims
  <2>3. wire = <<>> /\ DOMAIN wire = {} /\ store = OldBody
    BY DEF Init
  <2>4. Committed = {} /\ Created = {}
    BY <2>3 DEF Committed, Created
  <2>5. Left /\ Standing
    BY <2>3, <2>4 DEF Left, Standing
  <2> QED BY <2>2, <2>5, AnsweredInit
<1>2. Books /\ Planned /\ IInv /\ [Next]_vars => IInv'
  <2> SUFFICES ASSUME Books, Planned, IInv, [Next]_vars PROVE IInv'
    OBVIOUS
  <2>1. Progress'
    <3>1. ASSUME UNCHANGED vars PROVE Progress'
      BY <3>1 DEF vars, plan, Progress, Told, Reported
    <3> QED BY <3>1, ProgressBefore, ProgressApply DEF Next, Pipeline
  <2>2. Answered'
    <3>1. ASSUME UNCHANGED vars PROVE Answered'
      BY <3>1 DEF vars, Answered, Settled, InDoubt, Reported
    <3> QED BY <3>1, AnsweredEarly, AnsweredMove, AnsweredRest DEF Next, Pipeline
  <2> QED BY <2>1, <2>2, LeftNext, StandingNext, ClaimsNext
<1>3. Planned /\ IInv => AppliedIsStored
  <2> SUFFICES ASSUME Planned, IInv, NEW a \in report.applied
               PROVE  LET r == queue[a.n] IN
                      CASE r.kind = "create_map" ->
                             /\ a.map \in DOMAIN store \ OldMaps
                             /\ store[a.map].refs = r.body.refs
                             /\ \A b \in report.applied : b.map = a.map => b = a
                        [] r.kind = "add_pointer" -> r.edit.entry \in store[a.map].refs
                        [] r.kind = "strike_gap" ->
                             /\ r.body.refs \subseteq store[a.map].refs
                             /\ wire[a.n] = "applied" => r.edit.entry \in store[a.map].refs
    BY DEF AppliedIsStored
  <2>1. Claim(a) /\ a.n \in DOMAIN queue /\ DOMAIN wire = DOMAIN queue
    BY DEF Claims, Claim, Planned
  <2>2. queue[a.n].kind \in {"create_map", "add_pointer", "strike_gap"}
    BY <2>1, QueueKinds
  <2>3. CASE queue[a.n].kind = "create_map"
    BY <2>1, <2>3 DEF Claims, Claim
  <2>4. CASE queue[a.n].kind = "add_pointer"
    BY <2>1, <2>4 DEF Claim
  <2>5. CASE queue[a.n].kind = "strike_gap"
    <3>1. a.map = queue[a.n].map /\ queue[a.n].body.refs \subseteq store[a.map].refs
      BY <2>1, <2>5 DEF Claim
    <3>2. wire[a.n] = "applied" => queue[a.n].edit.entry \in store[a.map].refs
      BY <2>1, <2>5, <3>1 DEF Standing, Committed
    <3> QED BY <2>5, <3>1, <3>2
  <2> QED BY <2>2, <2>3, <2>4, <2>5
<1> HIDE DEF IInv
<1> QED BY <1>1, <1>2, <1>3, BooksAlways, PlannedAlways, PTL DEF Spec
=============================================================================
