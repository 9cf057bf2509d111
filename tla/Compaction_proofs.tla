-------------------------- MODULE Compaction_proofs --------------------------
(***************************************************************************)
(* Theorems about Compaction, for any batches of calls, any entries, and    *)
(* any failures to write: what a walk may take, that nothing it takes is    *)
(* lost, and that the belief check never relies on what it took.            *)
(***************************************************************************)
EXTENDS Compaction, FiniteSetTheorems, TLAPS

USE CompactionAssumption

Result ==
  [stub : BOOLEAN, of : Nat \X Nat, fact : Entries \cup {NoFact},
   path : {<<>>} \cup (Nat \X (Nat \X Nat))]
Answer == [role : {"assistant"}, reasoning : {"short", "long", "tail"}, calls : Batches]
Reply == [role : {"user"}, results : Seq(Result)]
Counters == [compactions : Nat, elided : Nat, injected : Nat, changed : Nat]

(* The task, and then every turn with the reply to its calls behind it.      *)
Shaped ==
  /\ messages \in Seq(Answer \cup Reply) /\ stats \in Counters
  /\ Len(messages) >= 1 /\ messages[1] = Anchor
  /\ \A i \in DOMAIN messages :
       /\ messages[i] \in Answer =>
            /\ i > 1 /\ i + 1 \in DOMAIN messages /\ messages[i + 1] \in Reply
            /\ Len(messages[i + 1].results) = Len(messages[i].calls)
       /\ messages[i] \in Reply => i = 1 \/ messages[i - 1] \in Answer

(* The task is alone.                                                        *)
LEMMA ShapedInit == Init => Shaped
<1> SUFFICES ASSUME Init PROVE Shaped
  OBVIOUS
<1>1. messages = <<Anchor>> /\ Anchor \in Reply /\ Anchor \notin Answer
  BY DEF Init, Anchor, Reply, Answer
<1>2. stats \in Counters
  BY DEF Init, Counters
<1> QED BY <1>1, <1>2 DEF Shaped

(* A message is one of the two, and its role says which.                     *)
LEMMA RoleTells ==
  ASSUME Shaped, NEW i \in DOMAIN messages
  PROVE  /\ i \in Nat /\ i >= 1 /\ i <= Len(messages)
         /\ i \in Assistants <=> messages[i] \in Answer
         /\ i \notin Assistants <=> messages[i] \in Reply
         /\ messages[i] \in Reply => messages[i].role = "user"
<1>1. messages[i] \in Answer \cup Reply /\ i \in 1..Len(messages)
  BY DEF Shaped
<1> QED BY <1>1 DEF Assistants, Answer, Reply

(* A place of a result, and what can be said of it.                          *)
LEMMA PlaceOfResult ==
  ASSUME Shaped, NEW r \in Results
  PROVE  /\ r = <<r[1], r[2]>> /\ r[1] \in DOMAIN messages /\ messages[r[1]] \in Reply
         /\ r[2] \in DOMAIN messages[r[1]].results /\ r[1] \in Nat /\ r[2] \in Nat
         /\ r[1] > 1 /\ r[1] - 1 \in Assistants /\ messages[r[1] - 1] \in Answer
         /\ r[2] \in DOMAIN messages[r[1] - 1].calls
         /\ ResultAt(r) \in Result
<1>1. PICK i \in DOMAIN messages \ Assistants : r \in {i} \X DOMAIN messages[i].results
  BY DEF Results
<1>2. r = <<i, r[2]>> /\ r[1] = i /\ r[2] \in DOMAIN messages[i].results
  BY <1>1
<1>3. messages[i] \in Reply /\ i \in Nat /\ i >= 1 /\ messages[i].results \in Seq(Result)
  BY <1>1, RoleTells DEF Reply
<1>4. i > 1
  <2>1. CASE i = 1
    <3>1. DOMAIN messages[i].results = {}
      BY <2>1 DEF Shaped, Anchor
    <3> QED BY <1>2, <3>1
  <2> QED BY <1>3, <2>1
<1>5. i - 1 \in DOMAIN messages /\ messages[i - 1] \in Answer
  BY <1>1, <1>3, <1>4 DEF Shaped
<1>6. i - 1 \in Assistants /\ messages[i - 1].calls \in Seq(STRING)
      /\ Len(messages[i].results) = Len(messages[i - 1].calls)
  <2>1. (i - 1) + 1 = i
    BY <1>3
  <2> QED BY <1>5, <2>1, RoleTells DEF Shaped, Answer
<1>7. r[2] \in 1..Len(messages[i].results) /\ r[2] \in 1..Len(messages[i - 1].calls)
  BY <1>2, <1>3, <1>6
<1> QED BY <1>1, <1>2, <1>3, <1>4, <1>5, <1>6, <1>7 DEF ResultAt

(* A place in the results of a reply is one.                                 *)
LEMMA PlaceIsResult ==
  ASSUME Shaped, NEW i \in DOMAIN messages, messages[i] \in Reply,
         NEW j \in DOMAIN messages[i].results
  PROVE  <<i, j>> \in Results
<1>1. i \notin Assistants
  BY RoleTells
<1> QED BY <1>1 DEF Results

(* The call of a result is the one at its place in the turn before.          *)
LEMMA CallIs ==
  ASSUME Shaped, NEW r \in Results
  PROVE  CallOf(r) = {<<r[1] - 1, r[2]>>}
BY PlaceOfResult DEF CallOf

(* There are finitely many places of results.                                *)
LEMMA ResultsFinite ==
  ASSUME Shaped
  PROVE  IsFiniteSet(Results) /\ IsFiniteSet(Assistants)
<1>1. Len(messages) \in Nat /\ DOMAIN messages = 1..Len(messages)
  BY DEF Shaped
<1>2. IsFiniteSet(DOMAIN messages)
  BY <1>1, FS_Interval
<1>3. IsFiniteSet(Assistants) /\ IsFiniteSet(DOMAIN messages \ Assistants)
  BY <1>2, FS_Subset DEF Assistants
<1> DEFINE replies == DOMAIN messages \ Assistants
           at(i) == {i} \X DOMAIN messages[i].results
           all == {at(i) : i \in replies}
<1>4. ASSUME NEW i \in replies
      PROVE  IsFiniteSet(at(i))
  <2>1. messages[i].results \in Seq(Result)
    BY RoleTells DEF Reply
  <2>2. Len(messages[i].results) \in Nat
        /\ DOMAIN messages[i].results = 1..Len(messages[i].results)
    BY <2>1
  <2>3. IsFiniteSet(DOMAIN messages[i].results)
    BY <2>2, FS_Interval
  <2>4. IsFiniteSet({i})
    BY FS_Singleton
  <2> QED BY <2>3, <2>4, FS_Product
<1>5. IsFiniteSet(all)
  <2> DEFINE f == [i \in replies |-> at(i)]
  <2>1. f \in Surjection(replies, all)
    BY DEF Surjection
  <2> QED BY <1>3, <2>1, FS_Surjection
<1>6. \A S \in all : IsFiniteSet(S)
  BY <1>4
<1>7. IsFiniteSet(UNION all)
  <2> HIDE DEF all
  <2> QED BY <1>5, <1>6, FS_UNION
<1> QED BY <1>3, <1>7 DEF Results

-----------------------------------------------------------------------------
(* The fact a turn is answered with, and what it puts behind n messages.     *)
FactOf(batch, match) == IF Injects(batch, match) THEN match ELSE NoFact

Appended(n, batch, reasoning, fact) ==
  /\ n = Len(messages) /\ n >= 1
  /\ Len(messages') = n + 2 /\ messages' \in Seq(Answer \cup Reply)
  /\ DOMAIN messages = 1..n /\ DOMAIN messages' = 1..(n + 2)
  /\ \A i \in 1..n : messages'[i] = messages[i]
  /\ messages'[n + 1] \in Answer /\ messages'[n + 2] \in Reply
  /\ messages'[n + 1].calls = batch /\ messages'[n + 1].reasoning = reasoning
  /\ Len(messages'[n + 2].results) = Len(batch)
  /\ DOMAIN messages'[n + 2].results = 1..Len(batch)
  /\ \A j \in 1..Len(batch) : messages'[n + 2].results[j] = Inline(<<n + 1, j>>, fact)

(* A turn goes behind what is there.                                         *)
LEMMA PassAppends ==
  ASSUME Shaped,
         NEW batch \in Batches, NEW reasoning \in {"short", "long"},
         NEW match \in Entries \cup {NoFact}, Pass(batch, reasoning, match)
  PROVE  \E n \in Nat, fact \in Entries \cup {NoFact} :
           fact = FactOf(batch, match) /\ Appended(n, batch, reasoning, fact)
<1>0. PICK n \in Nat, fact \in Entries \cup {NoFact} :
        n = Len(messages) /\ fact = FactOf(batch, match)
  BY DEF Shaped, FactOf
<1> DEFINE a == [role |-> "assistant", reasoning |-> reasoning, calls |-> batch]
           results == [j \in 1..Len(batch) |-> Inline(<<n + 1, j>>, fact)]
           u == [role |-> "user", results |-> results]
<1>1. messages \in Seq(Answer \cup Reply) /\ n \in Nat /\ n >= 1 /\ Len(batch) \in Nat
  BY <1>0 DEF Shaped
<1>2. a \in Answer
  BY DEF Answer
<1>3. \A j \in 1..Len(batch) : Inline(<<n + 1, j>>, fact) \in Result
  BY <1>1 DEF Inline, Result
<1>4. results \in Seq(Result) /\ Len(results) = Len(batch) /\ DOMAIN results = 1..Len(batch)
  BY <1>1, <1>3
<1>5. \A j \in 1..Len(batch) : results[j] = Inline(<<n + 1, j>>, fact)
  OBVIOUS
<1> HIDE DEF results
<1>6. u \in Reply /\ u.results = results /\ a.calls = batch /\ a.reasoning = reasoning
  BY <1>4 DEF Reply
<1>7. messages' = messages \o <<a, u>>
  BY <1>0 DEF Pass, FactOf, results
<1> HIDE DEF a, u
<1>8. <<a, u>> \in Seq(Answer \cup Reply)
  BY <1>2, <1>6
<1>9. /\ Len(messages') = n + 2 /\ messages' \in Seq(Answer \cup Reply)
      /\ messages'[n + 1] = a /\ messages'[n + 2] = u
      /\ \A i \in 1..n : messages'[i] = messages[i]
      /\ DOMAIN messages = 1..n /\ DOMAIN messages' = 1..(n + 2)
  BY <1>0, <1>1, <1>7, <1>8
<1>10. Appended(n, batch, reasoning, fact)
  BY <1>0, <1>1, <1>2, <1>4, <1>5, <1>6, <1>9 DEF Appended
<1> QED BY <1>0, <1>10

(* Of the counters a turn moves those of the belief check.                   *)
LEMMA CountsPass ==
  ASSUME Shaped,
         NEW batch \in Batches, NEW reasoning \in {"short", "long"},
         NEW match \in Entries \cup {NoFact}, Pass(batch, reasoning, match)
  PROVE  /\ stats' \in Counters
         /\ stats'.compactions = stats.compactions /\ stats'.elided = stats.elided
<1> DEFINE moved == (IF Injects(batch, match) THEN match ELSE NoFact) # NoFact
           a == IF moved THEN stats.injected + 1 ELSE stats.injected
           b == IF Changed(batch) THEN stats.changed + 1 ELSE stats.changed
<1>1. stats' = [stats EXCEPT !.injected = a, !.changed = b]
  BY DEF Pass
<1>2. stats \in Counters
  BY DEF Shaped
<1> HIDE DEF moved
<1>3. a \in Nat /\ b \in Nat
  BY <1>2 DEF Counters
<1> HIDE DEF a, b
<1> QED BY <1>1, <1>2, <1>3 DEF Counters

(* A turn keeps the shape.                                                   *)
LEMMA ShapedPass ==
  ASSUME Shaped,
         NEW batch \in Batches, NEW reasoning \in {"short", "long"},
         NEW match \in Entries \cup {NoFact}, Pass(batch, reasoning, match)
  PROVE  Shaped'
<1>0. PICK n \in Nat, fact \in Entries \cup {NoFact} : Appended(n, batch, reasoning, fact)
  BY PassAppends
<1>1. n \in Nat /\ n >= 1 /\ messages \in Seq(Answer \cup Reply)
  BY <1>0 DEF Appended, Shaped
<1>2. /\ Len(messages') = n + 2 /\ messages' \in Seq(Answer \cup Reply)
      /\ DOMAIN messages = 1..n /\ DOMAIN messages' = 1..(n + 2)
      /\ \A i \in 1..n : messages'[i] = messages[i]
      /\ messages'[n + 1] \in Answer /\ messages'[n + 2] \in Reply
      /\ messages'[n + 1].calls = batch /\ Len(messages'[n + 2].results) = Len(batch)
  BY <1>0 DEF Appended
<1>3. \A m \in Reply : m \notin Answer
  BY DEF Reply, Answer
<1>4. ASSUME NEW i \in DOMAIN messages', messages'[i] \in Answer
      PROVE  /\ i > 1 /\ i + 1 \in DOMAIN messages' /\ messages'[i + 1] \in Reply
             /\ Len(messages'[i + 1].results) = Len(messages'[i].calls)
  <2>1. CASE i = n + 1
    <3>1. i + 1 = n + 2
      BY <1>1, <2>1
    <3> QED BY <1>1, <1>2, <2>1, <3>1
  <2>2. CASE i = n + 2
    BY <1>2, <1>3, <1>4, <2>2
  <2>3. CASE i \in 1..n
    <3>1. messages[i] \in Answer
      BY <1>2, <1>4, <2>3
    <3>2. /\ i > 1 /\ i + 1 \in DOMAIN messages /\ messages[i + 1] \in Reply
          /\ Len(messages[i + 1].results) = Len(messages[i].calls)
      BY <1>2, <2>3, <3>1 DEF Shaped
    <3> QED BY <1>1, <1>2, <2>3, <3>2
  <2> QED BY <1>1, <1>2, <2>1, <2>2, <2>3
<1>5. ASSUME NEW i \in DOMAIN messages', messages'[i] \in Reply
      PROVE  i = 1 \/ messages'[i - 1] \in Answer
  <2>1. CASE i = n + 1
    BY <1>2, <1>3, <1>5, <2>1
  <2>2. CASE i = n + 2
    <3>1. i - 1 = n + 1
      BY <1>1, <2>2
    <3> QED BY <1>2, <3>1
  <2>3. CASE i \in 1..n
    <3>1. i = 1 \/ messages[i - 1] \in Answer
      BY <1>2, <1>5, <2>3 DEF Shaped
    <3> QED BY <1>1, <1>2, <2>3, <3>1
  <2> QED BY <1>1, <1>2, <2>1, <2>2, <2>3
<1>6. stats' \in Counters
  BY CountsPass
<1>7. messages'[1] = Anchor /\ Len(messages') >= 1
  BY <1>1, <1>2 DEF Shaped
<1> QED BY <1>2, <1>4, <1>5, <1>6, <1>7 DEF Shaped

-----------------------------------------------------------------------------
CalledAt(i, j) == CHOOSE c \in CallOf(<<i, j>>) : TRUE

(* Message i behind a walk.                                                  *)
Walked(failed, i) ==
  IF i \in Trimmable THEN [messages[i] EXCEPT !.reasoning = "tail"]
  ELSE IF messages[i].role = "user"
  THEN [messages[i] EXCEPT !.results =
          [j \in DOMAIN messages[i].results |->
             IF <<i, j>> \in Stubbed(failed)
             THEN Stub(CalledAt(i, j), PathOf(<<i, j>>))
             ELSE messages[i].results[j]]]
  ELSE messages[i]

(* A walk leaves every message in its place, a turn a turn with its calls    *)
(* and a reply a reply to as many; of a result it leaves all, or a stub with *)
(* the place of its call and a path of its own.                              *)
LEMMA WalkLeaves ==
  ASSUME Shaped, NEW failed \in SUBSET Elidable, Compact(failed)
  PROVE  /\ messages' \in Seq(Answer \cup Reply) /\ DOMAIN messages' = DOMAIN messages
         /\ \A i \in DOMAIN messages : messages[i] \in Answer =>
              /\ messages'[i] \in Answer /\ messages'[i].calls = messages[i].calls
              /\ messages'[i].reasoning =
                   IF i \in Trimmable THEN "tail" ELSE messages[i].reasoning
         /\ \A i \in DOMAIN messages : messages[i] \in Reply =>
              /\ messages'[i] \in Reply
              /\ Len(messages'[i].results) = Len(messages[i].results)
              /\ \A j \in DOMAIN messages[i].results :
                   messages'[i].results[j] =
                     IF <<i, j>> \in Stubbed(failed)
                     THEN Stub(<<i - 1, j>>, PathOf(<<i, j>>)) ELSE messages[i].results[j]
<1>1. /\ messages \in Seq(Answer \cup Reply) /\ stats.compactions \in Nat
      /\ Len(messages) \in Nat /\ DOMAIN messages = 1..Len(messages)
  BY DEF Shaped, Counters
<1>2. messages' = [i \in DOMAIN messages |-> Walked(failed, i)]
  BY DEF Compact, Walked, CalledAt
<1>3. ASSUME NEW i \in DOMAIN messages, messages[i] \in Answer
      PROVE  /\ Walked(failed, i) \in Answer
             /\ Walked(failed, i).calls = messages[i].calls
             /\ Walked(failed, i).reasoning =
                  IF i \in Trimmable THEN "tail" ELSE messages[i].reasoning
  <2>1. CASE i \in Trimmable
    BY <1>3, <2>1 DEF Walked, Answer
  <2>2. CASE i \notin Trimmable
    <3>1. messages[i].role # "user"
      BY <1>3 DEF Answer
    <3> QED BY <1>3, <2>2, <3>1 DEF Walked
  <2> QED BY <2>1, <2>2
<1>4. ASSUME NEW i \in DOMAIN messages, messages[i] \in Reply
      PROVE  /\ Walked(failed, i) \in Reply
             /\ Len(Walked(failed, i).results) = Len(messages[i].results)
             /\ \A j \in DOMAIN messages[i].results :
                  Walked(failed, i).results[j] =
                    IF <<i, j>> \in Stubbed(failed)
                    THEN Stub(<<i - 1, j>>, PathOf(<<i, j>>)) ELSE messages[i].results[j]
  <2> DEFINE at(j) == IF <<i, j>> \in Stubbed(failed)
                      THEN Stub(CalledAt(i, j), PathOf(<<i, j>>))
                      ELSE messages[i].results[j]
             rs == [j \in DOMAIN messages[i].results |-> at(j)]
  <2>1. i \notin Trimmable /\ messages[i].role = "user" /\ i \in Nat
    BY <1>4, RoleTells DEF Trimmable
  <2>2. Walked(failed, i) = [messages[i] EXCEPT !.results = rs]
    BY <2>1 DEF Walked
  <2>3. messages[i].results \in Seq(Result)
    BY <1>4 DEF Reply
  <2>4. ASSUME NEW j \in DOMAIN messages[i].results
        PROVE  /\ at(j) = IF <<i, j>> \in Stubbed(failed)
                          THEN Stub(<<i - 1, j>>, PathOf(<<i, j>>))
                          ELSE messages[i].results[j]
               /\ at(j) \in Result
    <3>1. <<i, j>> \in Results
      BY <1>4, <2>4, PlaceIsResult
    <3>2. CallOf(<<i, j>>) = {<<i - 1, j>>}
      BY <3>1, CallIs
    <3>3. CalledAt(i, j) = <<i - 1, j>>
      BY <3>2 DEF CalledAt
    <3>4. i - 1 \in Nat /\ j \in Nat
      BY <2>1, <2>3, <3>1, PlaceOfResult
    <3>5. Stub(<<i - 1, j>>, PathOf(<<i, j>>)) \in Result
      BY <1>1, <2>1, <3>4 DEF Stub, PathOf, Result
    <3>6. messages[i].results[j] \in Result
      BY <2>3
    <3> QED BY <3>3, <3>5, <3>6
  <2>5. rs \in Seq(Result) /\ Len(rs) = Len(messages[i].results)
    <3>1. Len(messages[i].results) \in Nat
          /\ DOMAIN messages[i].results = 1..Len(messages[i].results)
      BY <2>3
    <3>2. \A j \in 1..Len(messages[i].results) : at(j) \in Result
      BY <2>4, <3>1
    <3> HIDE DEF at
    <3> QED BY <3>1, <3>2
  <2> HIDE DEF rs
  <2>6. Walked(failed, i) \in Reply /\ Walked(failed, i).results = rs
    BY <1>4, <2>2, <2>5 DEF Reply
  <2> QED BY <2>4, <2>5, <2>6 DEF rs
<1>5. \A i \in 1..Len(messages) : Walked(failed, i) \in Answer \cup Reply
  BY <1>1, <1>3, <1>4 DEF Shaped
<1>6. messages' \in Seq(Answer \cup Reply) /\ DOMAIN messages' = DOMAIN messages
  BY <1>1, <1>2, <1>5
<1> QED BY <1>2, <1>3, <1>4, <1>6

(* A walk keeps the shape.                                                   *)
LEMMA ShapedWalk ==
  ASSUME Shaped, NEW failed \in SUBSET Elidable, Compact(failed)
  PROVE  Shaped'
<1>1. /\ messages' \in Seq(Answer \cup Reply) /\ DOMAIN messages' = DOMAIN messages
      /\ \A i \in DOMAIN messages : messages[i] \in Answer =>
           messages'[i] \in Answer /\ messages'[i].calls = messages[i].calls
      /\ \A i \in DOMAIN messages : messages[i] \in Reply =>
           messages'[i] \in Reply /\ Len(messages'[i].results) = Len(messages[i].results)
  BY WalkLeaves
<1>2. \A i \in DOMAIN messages :
        /\ messages[i] \in Answer <=> messages'[i] \in Answer
        /\ messages[i] \in Reply <=> messages'[i] \in Reply
  <2>1. \A m \in Reply : m \notin Answer
    BY DEF Reply, Answer
  <2>2. \A i \in DOMAIN messages : messages[i] \in Answer \cup Reply
    BY DEF Shaped
  <2> QED BY <1>1, <2>1, <2>2
<1>3. Len(messages') = Len(messages) /\ Len(messages) \in Nat
      /\ DOMAIN messages = 1..Len(messages)
  BY <1>1 DEF Shaped
<1>4. messages'[1] = Anchor
  <2>1. 1 \in DOMAIN messages /\ messages[1] = Anchor
    BY <1>3 DEF Shaped
  <2>2. messages[1] \in Reply
    BY <2>1 DEF Anchor, Reply
  <2>3. messages'[1] \in Reply /\ Len(messages'[1].results) = 0
    BY <1>1, <2>1, <2>2 DEF Anchor
  <2>4. messages'[1].results = <<>> /\ messages'[1] = [role |-> "user", results |-> messages'[1].results]
    BY <2>3 DEF Reply
  <2> QED BY <2>4 DEF Anchor
<1>5. stats' \in Counters
  <2>1. Cardinality(Stubbed(failed)) \in Nat
    <3>1. Stubbed(failed) \subseteq Results
      BY DEF Stubbed, Elidable
    <3>2. IsFiniteSet(Stubbed(failed))
      BY <3>1, ResultsFinite, FS_Subset
    <3> QED BY <3>2, FS_CardinalityType
  <2> DEFINE a == stats.compactions + 1
             b == stats.elided + Cardinality(Stubbed(failed))
  <2>2. stats' = stats \/ stats' = [stats EXCEPT !.compactions = a, !.elided = b]
    BY Zenon DEF Compact
  <2>3. stats \in Counters
    BY DEF Shaped
  <2>4. a \in Nat /\ b \in Nat
    BY <2>1, <2>3 DEF Counters
  <2> HIDE DEF a, b
  <2> QED BY <2>2, <2>3, <2>4 DEF Shaped, Counters
<1>6. ASSUME NEW i \in DOMAIN messages', messages'[i] \in Answer
      PROVE  /\ i > 1 /\ i + 1 \in DOMAIN messages' /\ messages'[i + 1] \in Reply
             /\ Len(messages'[i + 1].results) = Len(messages'[i].calls)
  <2>1. i \in DOMAIN messages /\ messages[i] \in Answer
    BY <1>1, <1>2, <1>6
  <2>2. /\ i > 1 /\ i + 1 \in DOMAIN messages /\ messages[i + 1] \in Reply
        /\ Len(messages[i + 1].results) = Len(messages[i].calls)
    BY <2>1 DEF Shaped
  <2> QED BY <1>1, <2>1, <2>2
<1>7. ASSUME NEW i \in DOMAIN messages', messages'[i] \in Reply
      PROVE  i = 1 \/ messages'[i - 1] \in Answer
  <2>1. i \in DOMAIN messages /\ messages[i] \in Reply
    BY <1>1, <1>2, <1>7
  <2>2. i = 1 \/ messages[i - 1] \in Answer
    BY <2>1 DEF Shaped
  <2>3. i = 1 \/ i - 1 \in DOMAIN messages
    BY <1>3, <2>1
  <2> QED BY <1>1, <2>2, <2>3
<1> QED BY <1>1, <1>3, <1>4, <1>5, <1>6, <1>7 DEF Shaped

(* The conversation has its shape throughout.                                *)
LEMMA ShapedAlways == Spec => []Shaped
<1>1. Shaped /\ [Next]_vars => Shaped'
  <2>1. ASSUME Shaped, Walk PROVE Shaped'
    BY <2>1, ShapedWalk DEF Walk
  <2>2. ASSUME Shaped, UNCHANGED vars PROVE Shaped'
    BY <2>2 DEF vars, Shaped
  <2> QED BY <2>1, <2>2, ShapedPass DEF Next, RunOver
<1> QED BY <1>1, ShapedInit, PTL DEF Spec

-----------------------------------------------------------------------------
(* The results of a turn behind n messages.                                  *)
Grown(n, batch, reasoning, fact) ==
  /\ n \in Nat /\ n + 1 \notin Assistants /\ Assistants' = Assistants \cup {n + 1}
  /\ Assistants \subseteq 1..n
  /\ \A i \in Assistants : messages'[i] = messages[i]
  /\ messages'[n + 1].calls = batch /\ messages'[n + 1].reasoning = reasoning
  /\ Results' = Results \cup ({n + 2} \X (1..Len(batch)))
  /\ \A r \in Results : ResultAt(r)' = ResultAt(r)
  /\ \A j \in 1..Len(batch) : ResultAt(<<n + 2, j>>)' = Inline(<<n + 1, j>>, fact)

(* What a turn adds to the results, and that it leaves the others.           *)
LEMMA ResultsOfPass ==
  ASSUME Shaped,
         NEW batch \in Batches, NEW reasoning \in {"short", "long"},
         NEW match \in Entries \cup {NoFact}, Pass(batch, reasoning, match)
  PROVE  \E n \in Nat, fact \in Entries \cup {NoFact} :
           fact = FactOf(batch, match) /\ Grown(n, batch, reasoning, fact)
<1>0. PICK n \in Nat, fact \in Entries \cup {NoFact} :
        fact = FactOf(batch, match) /\ Appended(n, batch, reasoning, fact)
  BY PassAppends
<1>1. /\ DOMAIN messages' = 1..(n + 2) /\ DOMAIN messages = 1..n
      /\ \A i \in 1..n : messages'[i] = messages[i]
      /\ messages'[n + 1] \in Answer /\ messages'[n + 2] \in Reply
      /\ messages'[n + 1].calls = batch /\ messages'[n + 1].reasoning = reasoning
      /\ DOMAIN messages'[n + 2].results = 1..Len(batch)
      /\ \A j \in 1..Len(batch) : messages'[n + 2].results[j] = Inline(<<n + 1, j>>, fact)
  BY <1>0 DEF Appended
<1>2. n \in Nat /\ n >= 1
  BY <1>0 DEF Appended
<1>3. messages'[n + 1].role = "assistant" /\ messages'[n + 2].role = "user"
  BY <1>1 DEF Answer, Reply
<1>4. Assistants' = Assistants \cup {n + 1} /\ n + 1 \notin Assistants
  BY <1>1, <1>2, <1>3 DEF Assistants
<1>5. DOMAIN messages' \ Assistants' = (DOMAIN messages \ Assistants) \cup {n + 2}
  BY <1>1, <1>2, <1>3, <1>4 DEF Assistants
<1>6. DOMAIN messages'[n + 2].results = 1..Len(batch)
  BY <1>1
<1>7. \A i \in DOMAIN messages \ Assistants : messages'[i] = messages[i]
  BY <1>1
<1>8. Results' = Results \cup ({n + 2} \X (1..Len(batch)))
  BY <1>5, <1>6, <1>7 DEF Results
<1>9. \A r \in Results : ResultAt(r)' = ResultAt(r)
  BY <1>1, PlaceOfResult DEF ResultAt
<1>10. \A j \in 1..Len(batch) : ResultAt(<<n + 2, j>>)' = Inline(<<n + 1, j>>, fact)
  <2> TAKE j \in 1..Len(batch)
  <2>1. ResultAt(<<n + 2, j>>)' = messages'[n + 2].results[j]
    BY DEF ResultAt
  <2>2. messages'[n + 2].results[j] = Inline(<<n + 1, j>>, fact)
    BY <1>1
  <2> QED BY <2>1, <2>2
<1>11. Assistants \subseteq 1..n
  BY <1>1 DEF Assistants
<1>12. Grown(n, batch, reasoning, fact)
  BY <1>1, <1>2, <1>4, <1>8, <1>9, <1>10, <1>11 DEF Grown
<1> QED BY <1>0, <1>12

(* What a walk does to the results.                                          *)
LEMMA ResultsOfWalk ==
  ASSUME Shaped, NEW failed \in SUBSET Elidable, Compact(failed)
  PROVE  /\ Results' = Results /\ Assistants' = Assistants
         /\ \A r \in Results :
              ResultAt(r)' = IF r \in Stubbed(failed)
                             THEN Stub(<<r[1] - 1, r[2]>>, PathOf(r)) ELSE ResultAt(r)
         /\ \A i \in Assistants :
              /\ messages'[i].calls = messages[i].calls
              /\ messages'[i].reasoning =
                   IF i \in Trimmable THEN "tail" ELSE messages[i].reasoning
<1>1. /\ DOMAIN messages' = DOMAIN messages
      /\ \A i \in DOMAIN messages : messages[i] \in Answer =>
           /\ messages'[i] \in Answer /\ messages'[i].calls = messages[i].calls
           /\ messages'[i].reasoning = IF i \in Trimmable THEN "tail" ELSE messages[i].reasoning
      /\ \A i \in DOMAIN messages : messages[i] \in Reply =>
           /\ messages'[i] \in Reply
           /\ Len(messages'[i].results) = Len(messages[i].results)
           /\ \A j \in DOMAIN messages[i].results :
                messages'[i].results[j] =
                  IF <<i, j>> \in Stubbed(failed)
                  THEN Stub(<<i - 1, j>>, PathOf(<<i, j>>)) ELSE messages[i].results[j]
  BY WalkLeaves
<1>2. Shaped'
  BY ShapedWalk
<1>3. \A i \in DOMAIN messages : messages[i] \in Answer \/ messages[i] \in Reply
  BY DEF Shaped
<1>4. Assistants' = Assistants
  BY <1>1, <1>3 DEF Assistants, Answer, Reply
<1>5. \A i \in DOMAIN messages \ Assistants :
        DOMAIN messages'[i].results = DOMAIN messages[i].results
  <2> TAKE i \in DOMAIN messages \ Assistants
  <2>1. messages[i] \in Reply
    BY RoleTells
  <2>2. messages[i].results \in Seq(Result) /\ messages'[i].results \in Seq(Result)
    BY <1>1, <2>1 DEF Reply
  <2> QED BY <1>1, <2>1, <2>2
<1>6. Results' = Results
  BY <1>1, <1>4, <1>5 DEF Results
<1>7. \A r \in Results :
        ResultAt(r)' = IF r \in Stubbed(failed)
                       THEN Stub(<<r[1] - 1, r[2]>>, PathOf(r)) ELSE ResultAt(r)
  <2> TAKE r \in Results
  <2> DEFINE i == r[1]
             j == r[2]
  <2>1. /\ i \in DOMAIN messages /\ messages[i] \in Reply
        /\ j \in DOMAIN messages[i].results /\ r = <<i, j>>
    BY PlaceOfResult
  <2>2. ResultAt(r) = messages[i].results[j] /\ ResultAt(r)' = messages'[i].results[j]
    BY DEF ResultAt
  <2> HIDE DEF i, j
  <2>3. messages'[i].results[j] =
          IF r \in Stubbed(failed)
          THEN Stub(<<i - 1, j>>, PathOf(r)) ELSE messages[i].results[j]
    BY <1>1, <2>1
  <2> QED BY <2>2, <2>3 DEF i, j
<1>8. \A i \in Assistants : messages[i] \in Answer /\ i \in DOMAIN messages
  BY RoleTells DEF Assistants
<1> QED BY <1>1, <1>4, <1>6, <1>7, <1>8

-----------------------------------------------------------------------------
(* A window knows how often the history had been compacted, and while that   *)
(* has not changed the fact is in a result.                                  *)
Windowed ==
  /\ stats.compactions \in Nat
  /\ \A w \in windows :
       /\ w.compactions \in Nat /\ w.compactions <= stats.compactions
       /\ w.compactions = stats.compactions => \E r \in Results : ResultAt(r).fact = w.entry

(* A fact is injected into the results of the calls it suppresses.           *)
LEMMA WindowedPass ==
  ASSUME Shaped, Windowed,
         NEW batch \in Batches, NEW reasoning \in {"short", "long"},
         NEW match \in Entries \cup {NoFact}, Pass(batch, reasoning, match)
  PROVE  Windowed'
<1>0. PICK n \in Nat, fact \in Entries \cup {NoFact} :
        fact = FactOf(batch, match) /\ Grown(n, batch, reasoning, fact)
  BY ResultsOfPass
<1>1. /\ Results' = Results \cup ({n + 2} \X (1..Len(batch)))
      /\ \A r \in Results : ResultAt(r)' = ResultAt(r)
      /\ \A j \in 1..Len(batch) : ResultAt(<<n + 2, j>>)' = Inline(<<n + 1, j>>, fact)
  BY <1>0 DEF Grown
<1>2. stats'.compactions = stats.compactions
  BY CountsPass
<1>3. ASSUME NEW w \in windows
      PROVE  /\ w.compactions \in Nat /\ w.compactions <= stats'.compactions
             /\ w.compactions = stats'.compactions
                  => \E r \in Results' : ResultAt(r)'.fact = w.entry
  BY <1>1, <1>2, <1>3 DEF Windowed
<1>4. CASE fact = NoFact
  <2>1. windows' = windows
    BY <1>0, <1>4 DEF Pass, FactOf
  <2> QED BY <1>2, <1>3, <2>1 DEF Windowed
<1>5. CASE fact # NoFact
  <2>1. fact = match /\ batch # <<>>
    BY <1>0, <1>5 DEF FactOf, Injects
  <2>2. Inject(batch, match)
    BY <1>0, <1>5 DEF Pass, FactOf
  <2>3. 1 \in 1..Len(batch)
    BY <2>1
  <2>4. <<n + 2, 1>> \in Results' /\ ResultAt(<<n + 2, 1>>)'.fact = match
    <3>1. <<n + 2, 1>> \in Results'
      BY <1>1, <2>3
    <3>2. ResultAt(<<n + 2, 1>>)' = Inline(<<n + 1, 1>>, match)
      BY <1>1, <2>1, <2>3
    <3> QED BY <3>1, <3>2 DEF Inline
  <2>5. ASSUME NEW w \in windows'
        PROVE  /\ w.compactions \in Nat /\ w.compactions <= stats'.compactions
               /\ w.compactions = stats'.compactions
                    => \E r \in Results' : ResultAt(r)'.fact = w.entry
    <3>1. CASE w \in windows
      BY <1>3, <3>1
    <3>2. CASE w = [entry |-> match, at |-> Iteration, compactions |-> stats.compactions]
      <4>1. w.entry = match /\ w.compactions = stats.compactions
        BY <3>2
      <4>2. \E r \in Results' : ResultAt(r)'.fact = w.entry
        BY <2>4, <4>1
      <4> QED BY <1>2, <4>1, <4>2 DEF Windowed
    <3> QED BY <2>2, <2>5, <3>1, <3>2 DEF Inject
  <2> QED BY <1>2, <2>5 DEF Windowed
<1> QED BY <1>4, <1>5

(* A walk that takes a result away closes every window.                      *)
LEMMA WindowedWalk == Shaped /\ Windowed /\ Walk => Windowed'
<1> SUFFICES ASSUME Shaped, Windowed, Walk PROVE Windowed'
  OBVIOUS
<1>1. PICK failed \in SUBSET Elidable : Compact(failed)
  BY DEF Walk
<1>2. windows' = windows
  BY DEF Walk
<1>3. /\ Results' = Results
      /\ \A r \in Results : ResultAt(r)' = IF r \in Stubbed(failed)
                              THEN Stub(<<r[1] - 1, r[2]>>, PathOf(r)) ELSE ResultAt(r)
  BY <1>1, ResultsOfWalk
<1>4. CASE Stubbed(failed) # {} \/ Trimmable # {}
  <2>1. stats \in Counters
    BY DEF Shaped
  <2>2. stats'.compactions = stats.compactions + 1
    BY <1>1, <1>4, <2>1 DEF Compact, Counters
  <2> QED BY <1>2, <2>2 DEF Windowed
<1>5. CASE ~(Stubbed(failed) # {} \/ Trimmable # {})
  <2>1. stats' = stats
    BY <1>1, <1>5, Zenon DEF Compact
  <2>2. \A r \in Results : ResultAt(r)' = ResultAt(r)
    BY <1>3, <1>5
  <2> QED BY <1>2, <1>3, <2>1, <2>2 DEF Windowed
<1> QED BY <1>4, <1>5

(* The belief check never holds a fact back on the strength of a result that *)
(* a walk has taken, however long its window and however short the           *)
(* retention.                                                                *)
THEOREM WindowAlwaysHoldsFact == Spec => []WindowHoldsFact
<1>1. Init => Windowed
  BY DEF Init, Windowed
<1>2. Shaped /\ Windowed /\ [Next]_vars => Windowed'
  <2>1. ASSUME Windowed, UNCHANGED vars PROVE Windowed'
    BY <2>1 DEF vars, Windowed, Results, ResultAt, Assistants
  <2> QED BY <2>1, WindowedPass, WindowedWalk DEF Next, RunOver
<1>3. Windowed => WindowHoldsFact
  BY DEF Windowed, WindowHoldsFact, InWindow
<1> QED BY <1>1, <1>2, <1>3, ShapedAlways, PTL DEF Spec

-----------------------------------------------------------------------------
Stubs == {r \in Results : ResultAt(r).stub}
Tailed == {i \in Assistants : messages[i].reasoning = "tail"}

(* Each result is its call's, in full or in a file, and the counters tell    *)
(* how many are in a file and whether anything was ever taken.               *)
Kept ==
  /\ \A r \in Results :
       /\ ResultAt(r).of = <<r[1] - 1, r[2]>>
       /\ ResultAt(r).stub => <<ResultAt(r).path, <<r[1] - 1, r[2]>> >> \in files
  /\ stats.elided = Cardinality(Stubs)
  /\ stats.compactions > 0 <=> stats.elided > 0 \/ Tailed # {}

(* With the task alone there is no result.                                   *)
LEMMA KeptInit == Init => Kept
<1> SUFFICES ASSUME Init PROVE Kept
  OBVIOUS
<1>1. Assistants = {} /\ Results = {}
  BY DEF Init, Anchor, Assistants, Results
<1>2. Stubs = {} /\ Tailed = {}
  BY <1>1 DEF Stubs, Tailed
<1>3. stats.elided = 0 /\ stats.compactions = 0
  BY DEF Init
<1> QED BY <1>1, <1>2, <1>3, FS_EmptySet DEF Kept

(* A turn says what its calls gave, and no stub.                             *)
LEMMA KeptPass ==
  ASSUME Shaped, Kept,
         NEW batch \in Batches, NEW reasoning \in {"short", "long"},
         NEW match \in Entries \cup {NoFact}, Pass(batch, reasoning, match)
  PROVE  Kept'
<1>0. PICK n \in Nat, fact \in Entries \cup {NoFact} : Grown(n, batch, reasoning, fact)
  BY ResultsOfPass
<1>1. /\ n + 1 \notin Assistants /\ Assistants' = Assistants \cup {n + 1}
      /\ \A i \in Assistants : messages'[i] = messages[i]
      /\ messages'[n + 1].reasoning = reasoning
      /\ Results' = Results \cup ({n + 2} \X (1..Len(batch)))
      /\ \A r \in Results : ResultAt(r)' = ResultAt(r)
      /\ \A j \in 1..Len(batch) : ResultAt(<<n + 2, j>>)' = Inline(<<n + 1, j>>, fact)
  BY <1>0 DEF Grown
<1>2. /\ files' = files
      /\ stats'.compactions = stats.compactions /\ stats'.elided = stats.elided
  BY CountsPass DEF Pass
<1>3. \A j \in 1..Len(batch) : /\ ResultAt(<<n + 2, j>>)'.of = <<(n + 2) - 1, j>>
                               /\ ~ResultAt(<<n + 2, j>>)'.stub
  <2> TAKE j \in 1..Len(batch)
  <2>1. ResultAt(<<n + 2, j>>)' = Inline(<<n + 1, j>>, fact) /\ (n + 2) - 1 = n + 1
    BY <1>1
  <2>2. /\ Inline(<<n + 1, j>>, fact).of = <<n + 1, j>>
        /\ Inline(<<n + 1, j>>, fact).stub = FALSE
    BY DEF Inline
  <2> QED BY <2>1, <2>2
<1>4. \A r \in Results' \ Results : r[1] = n + 2 /\ r[2] \in 1..Len(batch) /\ r = <<r[1], r[2]>>
  BY <1>1
<1>5. ASSUME NEW r \in Results'
      PROVE  /\ ResultAt(r)'.of = <<r[1] - 1, r[2]>>
             /\ ResultAt(r)'.stub => <<ResultAt(r)'.path, <<r[1] - 1, r[2]>> >> \in files'
  <2>1. CASE r \in Results
    BY <1>1, <1>2, <2>1 DEF Kept
  <2>2. CASE r \notin Results
    <3>1. r[1] = n + 2 /\ r[2] \in 1..Len(batch) /\ r = <<n + 2, r[2]>>
      BY <1>4, <1>5, <2>2
    <3>2. ResultAt(<<n + 2, r[2]>>)'.of = <<(n + 2) - 1, r[2]>> /\ ~ResultAt(<<n + 2, r[2]>>)'.stub
      BY <1>3, <3>1
    <3> QED BY <3>1, <3>2
  <2> QED BY <2>1, <2>2
<1>6. Stubs' = Stubs
  BY <1>1, <1>3, <1>4 DEF Stubs
<1>7. Tailed' = Tailed
  BY <1>1 DEF Tailed
<1> QED BY <1>2, <1>5, <1>6, <1>7 DEF Kept

(* A walk writes before it takes, and counts what it takes.                  *)
LEMMA KeptWalk == Shaped /\ Kept /\ Walk => Kept'
<1> SUFFICES ASSUME Shaped, Kept, Walk PROVE Kept'
  OBVIOUS
<1>1. PICK failed \in SUBSET Elidable : Compact(failed)
  BY DEF Walk
<1>2. /\ Results' = Results /\ Assistants' = Assistants
      /\ \A r \in Results :
           ResultAt(r)' = IF r \in Stubbed(failed)
                          THEN Stub(<<r[1] - 1, r[2]>>, PathOf(r)) ELSE ResultAt(r)
      /\ \A i \in Assistants :
           messages'[i].reasoning = IF i \in Trimmable THEN "tail" ELSE messages[i].reasoning
  BY <1>1, ResultsOfWalk
<1>3. Stubbed(failed) \subseteq Results /\ \A r \in Stubbed(failed) : ~ResultAt(r).stub
  BY DEF Stubbed, Elidable
<1>4. files' = files \cup {<<PathOf(r), ResultAt(r).of>> : r \in Stubbed(failed)}
  BY <1>1 DEF Compact, Stubbed
<1>5. ASSUME NEW r \in Results'
      PROVE  /\ ResultAt(r)'.of = <<r[1] - 1, r[2]>>
             /\ ResultAt(r)'.stub => <<ResultAt(r)'.path, <<r[1] - 1, r[2]>> >> \in files'
  <2>1. r \in Results /\ ResultAt(r).of = <<r[1] - 1, r[2]>>
    BY <1>2, <1>5 DEF Kept
  <2>2. CASE r \in Stubbed(failed)
    <3>1. ResultAt(r)' = Stub(<<r[1] - 1, r[2]>>, PathOf(r))
      BY <1>2, <2>1, <2>2
    <3>2. ResultAt(r)'.of = <<r[1] - 1, r[2]>> /\ ResultAt(r)'.path = PathOf(r)
      BY <3>1 DEF Stub
    <3>3. <<PathOf(r), <<r[1] - 1, r[2]>> >> \in files'
      BY <1>4, <2>1, <2>2
    <3> QED BY <3>2, <3>3
  <2>3. CASE r \notin Stubbed(failed)
    BY <1>2, <1>4, <2>1, <2>3 DEF Kept
  <2> QED BY <2>2, <2>3
<1>6. Stubs' = Stubs \cup Stubbed(failed) /\ Stubs \cap Stubbed(failed) = {}
  BY <1>2, <1>3 DEF Stubs, Stub
<1>7. Tailed' = Tailed \cup Trimmable
  BY <1>2 DEF Tailed, Trimmable
<1>8. IsFiniteSet(Stubs) /\ IsFiniteSet(Stubbed(failed))
  BY <1>3, ResultsFinite, FS_Subset DEF Stubs
<1>9. /\ Cardinality(Stubs') = Cardinality(Stubs) + Cardinality(Stubbed(failed))
      /\ Cardinality(Stubs) \in Nat /\ Cardinality(Stubbed(failed)) \in Nat
  <2>1. Cardinality(Stubs) \in Nat /\ Cardinality(Stubbed(failed)) \in Nat
    BY <1>8, FS_CardinalityType
  <2>2. Cardinality(Stubs \cup Stubbed(failed)) =
          Cardinality(Stubs) + Cardinality(Stubbed(failed))
            - Cardinality(Stubs \cap Stubbed(failed))
    BY <1>8, FS_Union
  <2>3. Cardinality(Stubs \cap Stubbed(failed)) = 0
    BY <1>6, FS_EmptySet
  <2> QED BY <1>6, <2>1, <2>2, <2>3
<1>10. Stubbed(failed) # {} <=> Cardinality(Stubbed(failed)) > 0
  BY <1>8, <1>9, FS_EmptySet
<1>11. stats.compactions \in Nat /\ stats \in Counters
  BY DEF Shaped, Counters
<1>12. CASE Stubbed(failed) # {} \/ Trimmable # {}
  <2>1. /\ stats'.compactions = stats.compactions + 1
        /\ stats'.elided = stats.elided + Cardinality(Stubbed(failed))
    BY <1>1, <1>11, <1>12 DEF Compact, Counters
  <2> QED BY <1>5, <1>7, <1>9, <1>10, <1>11, <1>12, <2>1 DEF Kept
<1>13. CASE ~(Stubbed(failed) # {} \/ Trimmable # {})
  <2>1. stats' = stats
    BY <1>1, <1>13, Zenon DEF Compact
  <2>2. Stubs' = Stubs /\ Tailed' = Tailed
    BY <1>6, <1>7, <1>13
  <2> QED BY <1>5, <2>1, <2>2 DEF Kept
<1> QED BY <1>12, <1>13

(* Over any number of walks, whatever cannot be written, what a tool said is *)
(* in its place or in a file that its own stub names.                        *)
THEOREM NothingIsDestroyed == Spec => []NothingDestroyed
<1>1. Shaped /\ Kept /\ [Next]_vars => Kept'
  <2>1. ASSUME Kept, UNCHANGED vars PROVE Kept'
    <3>1. UNCHANGED <<messages, stats, files>>
      BY <2>1 DEF vars
    <3>2. Results' = Results /\ Assistants' = Assistants
      BY <3>1 DEF Results, Assistants
    <3>3. \A r : ResultAt(r)' = ResultAt(r)
      BY <3>1 DEF ResultAt
    <3>4. Stubs' = Stubs /\ Tailed' = Tailed
      BY <3>1, <3>2, <3>3 DEF Stubs, Tailed
    <3> QED BY <2>1, <3>1, <3>2, <3>3, <3>4 DEF Kept
  <2> QED BY <2>1, KeptPass, KeptWalk DEF Next, RunOver
<1>2. Kept => NothingDestroyed
  BY DEF Kept, NothingDestroyed, Stubs, Tailed
<1> QED BY <1>1, <1>2, KeptInit, ShapedAlways, PTL DEF Spec

-----------------------------------------------------------------------------
IsChecks(r) == messages[r[1] - 1].calls[r[2]] = "run_checks"

(* What is taken is old; what the checks said is taken only behind checks    *)
(* that ran later; and a walk that could write left nothing it would take.   *)
Exact ==
  /\ \A r \in Results : ResultAt(r).stub => Old(r[1] - 1)
  /\ \A i \in Tailed : Old(i)
  /\ \A r \in Results : ResultAt(r).stub /\ IsChecks(r) =>
       \E k \in Assistants : k > r[1] - 1 /\ CallsChecks(k)
  /\ settled =>
       /\ \A r \in Results : Old(r[1] - 1) /\ ~ResultAt(r).stub =>
            IsChecks(r) /\ \A k \in Assistants : k > r[1] - 1 => ~CallsChecks(k)
       /\ \A i \in Assistants : Old(i) => messages[i].reasoning # "long"

(* What is old stays so: turns are only added.                               *)
LEMMA OldStays ==
  ASSUME Shaped, NEW n \in Nat, n + 1 \notin Assistants,
         Assistants' = Assistants \cup {n + 1}, Assistants \subseteq 1..n,
         NEW i, Old(i)
  PROVE  Old(i)'
<1> DEFINE later == {k \in Assistants : k > i}
           newer == {k \in Assistants' : k > i}
<1>1. i \in Assistants /\ Cardinality(later) >= Retention
  BY DEF Old
<1>2. IsFiniteSet(later)
  BY ResultsFinite, FS_Subset
<1>3. newer = later \cup {n + 1} /\ n + 1 \notin later
  BY <1>1
<1>4. IsFiniteSet(later \cup {n + 1}) /\ Cardinality(later \cup {n + 1}) = Cardinality(later) + 1
  BY <1>2, <1>3, FS_AddElement
<1>5. Cardinality(later) \in Nat
  BY <1>2, FS_CardinalityType
<1> HIDE DEF later, newer
<1>6. Cardinality(newer) >= Retention
  BY <1>1, <1>3, <1>4, <1>5
<1> QED BY <1>1, <1>6 DEF Old, newer

(* A turn takes nothing.                                                     *)
LEMMA ExactPass ==
  ASSUME Shaped, Exact,
         NEW batch \in Batches, NEW reasoning \in {"short", "long"},
         NEW match \in Entries \cup {NoFact}, Pass(batch, reasoning, match)
  PROVE  Exact'
<1>0. PICK n \in Nat, fact \in Entries \cup {NoFact} : Grown(n, batch, reasoning, fact)
  BY ResultsOfPass
<1>1. /\ n + 1 \notin Assistants /\ Assistants' = Assistants \cup {n + 1}
      /\ Assistants \subseteq 1..n
      /\ \A i \in Assistants : messages'[i] = messages[i]
      /\ messages'[n + 1].reasoning = reasoning
      /\ Results' = Results \cup ({n + 2} \X (1..Len(batch)))
      /\ \A r \in Results : ResultAt(r)' = ResultAt(r)
      /\ \A j \in 1..Len(batch) : ResultAt(<<n + 2, j>>)' = Inline(<<n + 1, j>>, fact)
  BY <1>0 DEF Grown
<1>2. \A i : Old(i) => Old(i)'
  BY <1>1, OldStays
<1>3. \A r \in Results' : ResultAt(r)'.stub => r \in Results /\ ResultAt(r).stub
  <2> TAKE r \in Results'
  <2>1. CASE r \in Results
    BY <1>1, <2>1
  <2>2. CASE r \notin Results
    <3>1. r = <<n + 2, r[2]>> /\ r[2] \in 1..Len(batch)
      BY <1>1, <2>2
    <3>2. ResultAt(<<n + 2, r[2]>>)' = Inline(<<n + 1, r[2]>>, fact)
      BY <1>1, <3>1
    <3>3. Inline(<<n + 1, r[2]>>, fact).stub = FALSE
      BY DEF Inline
    <3> QED BY <3>1, <3>2, <3>3
  <2> QED BY <2>1, <2>2
<1>4. \A i \in Tailed' : i \in Tailed
  BY <1>1 DEF Tailed
<1>5. \A k \in Assistants : CallsChecks(k) => k \in Assistants' /\ CallsChecks(k)'
  BY <1>1 DEF CallsChecks
<1>6. \A r \in Results : IsChecks(r)' <=> IsChecks(r)
  BY <1>1, PlaceOfResult DEF IsChecks
<1>7. ~settled'
  BY DEF Pass
<1>8. \A r \in Results' : ResultAt(r)'.stub => Old(r[1] - 1)'
  BY <1>2, <1>3 DEF Exact
<1>9. \A r \in Results' : ResultAt(r)'.stub /\ IsChecks(r)' =>
        \E k \in Assistants' : k > r[1] - 1 /\ CallsChecks(k)'
  BY <1>3, <1>5, <1>6 DEF Exact
<1> QED BY <1>2, <1>4, <1>7, <1>8, <1>9 DEF Exact

(* A walk takes what it may, and all of it when it can write.                *)
LEMMA ExactWalk == Shaped /\ Exact /\ Walk => Exact'
<1> SUFFICES ASSUME Shaped, Exact, Walk PROVE Exact'
  OBVIOUS
<1>1. PICK failed \in SUBSET Elidable : Compact(failed)
  BY DEF Walk
<1>2. /\ Results' = Results /\ Assistants' = Assistants
      /\ \A r \in Results :
           ResultAt(r)' = IF r \in Stubbed(failed)
                          THEN Stub(<<r[1] - 1, r[2]>>, PathOf(r)) ELSE ResultAt(r)
      /\ \A i \in Assistants :
           /\ messages'[i].calls = messages[i].calls
           /\ messages'[i].reasoning =
                IF i \in Trimmable THEN "tail" ELSE messages[i].reasoning
  BY <1>1, ResultsOfWalk
<1>3. \A i : Old(i)' <=> Old(i)
  BY <1>2 DEF Old
<1>4. \A i \in Assistants : CallsChecks(i)' <=> CallsChecks(i)
  BY <1>2 DEF CallsChecks
<1>5. \A r \in Results : IsChecks(r)' <=> IsChecks(r)
  BY <1>2, PlaceOfResult DEF IsChecks
<1>6. \A r \in Results :
        r \in Elidable <=> /\ ~ResultAt(r).stub /\ Old(r[1] - 1)
                           /\ ~(IsChecks(r) /\ \A k \in Assistants :
                                                 k > r[1] - 1 => ~CallsChecks(k))
  <2> TAKE r \in Results
  <2> DEFINE c == <<r[1] - 1, r[2]>>
  <2>1. CallOf(r) = {c}
    BY CallIs
  <2>2. c[1] = r[1] - 1 /\ (Tool(c) = "run_checks" <=> IsChecks(r))
    BY DEF Tool, IsChecks
  <2> HIDE DEF c
  <2> QED BY <2>1, <2>2 DEF Elidable, IsLastOracle
<1>7. \A r \in Results : r \in Stubbed(failed) => r \in Elidable
  BY DEF Stubbed
<1>8. \A r \in Results : ResultAt(r)'.stub <=> ResultAt(r).stub \/ r \in Stubbed(failed)
  BY <1>2 DEF Stub
<1>9. \A r \in Results' : ResultAt(r)'.stub => Old(r[1] - 1)'
  BY <1>2, <1>3, <1>6, <1>7, <1>8 DEF Exact
<1>10. \A i \in Tailed' : Old(i)'
  BY <1>2, <1>3 DEF Tailed, Trimmable, Exact
<1>11. \A r \in Results' : ResultAt(r)'.stub /\ IsChecks(r)' =>
         \E k \in Assistants' : k > r[1] - 1 /\ CallsChecks(k)'
  BY <1>2, <1>4, <1>5, <1>6, <1>7, <1>8 DEF Exact
<1>12. ASSUME settled'
       PROVE  /\ \A r \in Results' : Old(r[1] - 1)' /\ ~ResultAt(r)'.stub =>
                   IsChecks(r)' /\ \A k \in Assistants' : k > r[1] - 1 => ~CallsChecks(k)'
              /\ \A i \in Assistants' : Old(i)' => messages'[i].reasoning # "long"
  <2>1. Stubbed(failed) = Elidable
    BY <1>1, <1>12 DEF Compact, Stubbed
  <2>2. \A r \in Results : ~ResultAt(r)'.stub => ~ResultAt(r).stub /\ r \notin Elidable
    BY <1>8, <2>1
  <2>3. \A i \in Assistants : i > 1
    BY RoleTells DEF Shaped, Assistants
  <2>4. \A i \in Assistants : Old(i) => messages'[i].reasoning # "long"
    BY <1>2, <2>3 DEF Trimmable
  <2> QED BY <1>2, <1>3, <1>4, <1>5, <1>6, <2>2, <2>4
<1> QED BY <1>9, <1>10, <1>11, <1>12 DEF Exact

(* The task, the last turns with their results, and what the checks said     *)
(* last are never taken, and a walk that can write leaves the next nothing.  *)
THEOREM WalksAreExact == Spec => []WalkExact
<1>1. Init => Exact
  <2> SUFFICES ASSUME Init PROVE Exact
    OBVIOUS
  <2>1. Assistants = {} /\ Results = {}
    BY DEF Init, Anchor, Assistants, Results
  <2> QED BY <2>1 DEF Exact, Tailed
<1>2. Shaped /\ Exact /\ [Next]_vars => Exact'
  <2>1. ASSUME Exact, UNCHANGED vars PROVE Exact'
    <3>1. UNCHANGED <<messages, settled>>
      BY <2>1 DEF vars
    <3>2. Results' = Results /\ Assistants' = Assistants
      BY <3>1 DEF Results, Assistants
    <3>3. \A r : ResultAt(r)' = ResultAt(r) /\ IsChecks(r)' = IsChecks(r)
      BY <3>1 DEF ResultAt, IsChecks
    <3>4. \A i : Old(i)' = Old(i) /\ CallsChecks(i)' = CallsChecks(i)
      BY <3>1, <3>2 DEF Old, CallsChecks
    <3>5. Tailed' = Tailed
      BY <3>1, <3>2 DEF Tailed
    <3> QED BY <2>1, <3>1, <3>2, <3>3, <3>4, <3>5 DEF Exact
  <2> QED BY <2>1, ExactPass, ExactWalk DEF Next, RunOver
<1>3. Shaped /\ Exact => WalkExact
  <2> SUFFICES ASSUME Shaped, Exact PROVE WalkExact
    OBVIOUS
  <2>1. ASSUME NEW i \in Assistants, \A k \in Assistants : k > i => ~CallsChecks(k),
               NEW j \in DOMAIN messages[i].calls, messages[i].calls[j] = "run_checks"
        PROVE  ~messages[i + 1].results[j].stub
    <3>1. /\ i \in Nat /\ messages[i] \in Answer /\ i + 1 \in DOMAIN messages
          /\ messages[i + 1] \in Reply
          /\ Len(messages[i + 1].results) = Len(messages[i].calls)
      BY RoleTells DEF Shaped, Assistants
    <3>2. messages[i].calls \in Seq(STRING) /\ messages[i + 1].results \in Seq(Result)
      BY <3>1 DEF Answer, Reply
    <3>3. j \in DOMAIN messages[i + 1].results
      BY <2>1, <3>1, <3>2
    <3>4. <<i + 1, j>> \in Results
      BY <3>1, <3>3, PlaceIsResult
    <3>5. (i + 1) - 1 = i
      BY <3>1
    <3>6. IsChecks(<<i + 1, j>>) /\ ResultAt(<<i + 1, j>>) = messages[i + 1].results[j]
      BY <2>1, <3>5 DEF IsChecks, ResultAt
    <3>7. ResultAt(<<i + 1, j>>).stub => \E k \in Assistants : k > i /\ CallsChecks(k)
      BY <3>4, <3>5, <3>6 DEF Exact
    <3> QED BY <2>1, <3>6, <3>7
  <2>2. \A r \in Results, k \in Assistants : k >= r[1] => k > r[1] - 1
    BY PlaceOfResult, RoleTells DEF Assistants
  <2>3. messages[1] = Anchor
    BY DEF Shaped
  <2> QED BY <2>1, <2>2, <2>3 DEF Exact, WalkExact, Tailed, IsChecks
<1> QED BY <1>1, <1>2, <1>3, ShapedAlways, PTL DEF Spec

=============================================================================
