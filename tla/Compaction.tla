----------------------------- MODULE Compaction ------------------------------
(***************************************************************************)
(* The conversation of a run and what compact_history does to it between    *)
(* two turns, with the belief check, which trusts the conversation to still *)
(* hold a fact it has injected.  A message is the model's, with some        *)
(* reasoning and a sequence of tool calls, or the user's, with the results  *)
(* of the calls before it.                                                  *)
(* The id of a call is its place in its own turn, as Ollama gives them, so  *)
(* every turn has the same ids.  Messages are never removed: an output is   *)
(* known by the message of its call and the call's place there.             *)
(***************************************************************************)
EXTENDS Integers, FiniteSets, SequencesExt

CONSTANTS
  Retention,      \* COMPACT_RETENTION_ASSISTANT_MSGS
  Threshold,      \* compact_threshold_pct; 0 disables
  Batches,        \* the sequences of tools a turn may call
  Entries,        \* entries of the knowledge base with a corrected fact
  NoFact,
  Window,         \* BELIEF_CHECK_REINJECT_WINDOW
  MaxTurns        \* bound on the model's turns

ASSUME CompactionAssumption ==
  Retention \in Nat /\ Threshold \in Nat /\ MaxTurns \in Nat /\ Window \in Nat
  /\ NoFact \notin Entries /\ Batches \subseteq Seq(STRING)

VARIABLES
  messages,
  files,          \* offloads that were written: <<path, output>>
  stats,          \* compactions, tool_results_elided, belief injections and outcomes
  compacted,      \* compacted_this_pass
  windows,        \* BeliefCheckState: where an entry was injected
  pending,        \* its pending_outcome: the calls an injection suppressed
  settled         \* observation: the last step was a walk that wrote all it had to
vars == <<messages, files, stats, compacted, windows, pending, settled>>

Anchor == [role |-> "user", results |-> <<>>]
Inline(output, fact) == [stub |-> FALSE, of |-> output, fact |-> fact, path |-> <<>>]
Stub(call, path) == [stub |-> TRUE, of |-> call, fact |-> NoFact, path |-> path]

Init ==
  /\ messages = <<Anchor>> /\ files = {} /\ compacted = FALSE
  /\ stats = [compactions |-> 0, elided |-> 0, injected |-> 0, changed |-> 0]
  /\ windows = {} /\ pending = <<>> /\ settled = FALSE

Assistants == {i \in DOMAIN messages : messages[i].role = "assistant"}
Results == UNION {{i} \X DOMAIN messages[i].results : i \in DOMAIN messages \ Assistants}
ResultAt(r) == messages[r[1]].results[r[2]]

-----------------------------------------------------------------------------
Iteration == Cardinality(Assistants) + 1     \* of the turn that comes next

(* Mutant: a compaction in between does not matter.                          *)
InWindowByAge(e) == \E w \in windows : w.entry = e /\ Iteration < w.at + Window

(* The fact was injected lately and nothing was compacted since.             *)
InWindow(e) ==
  \E w \in windows :
    w.entry = e /\ Iteration < w.at + Window /\ stats.compactions = w.compactions

(* run_belief_check: with calls to make, the store's best match suppresses   *)
(* the batch unless its window is open; no answer, an error, a timeout or no *)
(* match above the threshold is NoFact.                                      *)
Injects(batch, match) == batch # <<>> /\ match # NoFact /\ ~InWindow(match)

Inject(batch, match) ==
  /\ windows' = {w \in windows : w.entry # match} \cup
                 {[entry |-> match, at |-> Iteration, compactions |-> stats.compactions]}
  /\ pending' = <<ToSet(batch)>>

(* The turn behind an injection tells whether it changed the model's mind.   *)
Changed(batch) == pending # <<>> /\ pending[1] # ToSet(batch)

(* One pass: the turn is pushed and then, at once or by the reconciliation   *)
(* of a crash, the results of its calls, or the fact in the place of each; a *)
(* turn without calls is answered by a nudge.  Reasoning is longer than the  *)
(* tail a walk leaves, or is not (none is not); how much a tool says does    *)
(* not matter here.                                                          *)
Pass(batch, reasoning, match) ==
  LET i == Len(messages) + 1
      fact == IF Injects(batch, match) THEN match ELSE NoFact
  IN /\ Cardinality(Assistants) < MaxTurns
     /\ messages' = messages \o
          << [role |-> "assistant", reasoning |-> reasoning, calls |-> batch],
             [role |-> "user", results |-> [j \in 1..Len(batch) |-> Inline(<<i, j>>, fact)]] >>
     /\ IF fact # NoFact THEN Inject(batch, match) ELSE pending' = <<>> /\ UNCHANGED windows
     /\ stats' = [stats EXCEPT !.injected = IF fact # NoFact THEN @ + 1 ELSE @,
                               !.changed = IF Changed(batch) THEN @ + 1 ELSE @]
     /\ compacted' = FALSE /\ settled' = FALSE
     /\ UNCHANGED files

-----------------------------------------------------------------------------
Old(i) == i \in Assistants /\ Cardinality({k \in Assistants : k > i}) >= Retention

(* Mutant: an id names the newest call that has it.                          *)
NewestCallOf(r) ==
  LET having == {i \in Assistants : r[2] \in DOMAIN messages[i].calls}
  IN {<<i, r[2]>> : i \in {k \in having : \A m \in having : m <= k}}

(* The call of a result: by its id, in the message before the results.       *)
CallOf(r) ==
  {<<i, r[2]>> : i \in {k \in Assistants : k = r[1] - 1 /\ r[2] \in DOMAIN messages[k].calls}}
Tool(c) == messages[c[1]].calls[c[2]]

CallsChecks(i) == i \in Assistants /\ \E j \in DOMAIN messages[i].calls :
                                         messages[i].calls[j] = "run_checks"

(* Mutant: the oracle that is kept is the last one outside the window.       *)
IsOldOracle(c) ==
  /\ Tool(c) = "run_checks" /\ Old(c[1])
  /\ \A k \in Assistants : k > c[1] => ~(CallsChecks(k) /\ Old(k))

(* The most recent turn that ran the checks keeps what they said.            *)
IsLastOracle(c) ==
  Tool(c) = "run_checks" /\ \A k \in Assistants : k > c[1] => ~CallsChecks(k)

Elidable ==
  {r \in Results : ~ResultAt(r).stub /\ \E c \in CallOf(r) : Old(c[1]) /\ ~IsLastOracle(c)}
Trimmable == {i \in Assistants : i > 1 /\ Old(i) /\ messages[i].reasoning = "long"}

PathOf(r) == <<stats.compactions + 1, r>>

(* A stub replaces an output only once that is written.                      *)
Stubbed(failed) == Elidable \ failed

(* compact_history, when the offloads of `failed` cannot be written, and the *)
(* counters of record_compaction, for a walk that changed something.         *)
Compact(failed) ==
  LET called(r) == CHOOSE c \in CallOf(r) : TRUE
      result(i, j) == IF <<i, j>> \in Stubbed(failed)
                      THEN Stub(called(<<i, j>>), PathOf(<<i, j>>)) ELSE messages[i].results[j]
      changed == Stubbed(failed) # {} \/ Trimmable # {}
  IN /\ messages' =
          [i \in DOMAIN messages |->
             IF i \in Trimmable THEN [messages[i] EXCEPT !.reasoning = "tail"]
             ELSE IF messages[i].role = "user"
             THEN [messages[i] EXCEPT !.results = [j \in DOMAIN @ |-> result(i, j)]]
             ELSE messages[i]]
     /\ files' = files \cup {<<PathOf(r), ResultAt(r).of>> : r \in Elidable \ failed}
     /\ stats' = IF changed
                 THEN [stats EXCEPT !.compactions = @ + 1,
                                    !.elided = @ + Cardinality(Stubbed(failed))]
                 ELSE stats
     /\ settled' = (failed = {})

(* Over the threshold at the head of a pass, or once after the backend said  *)
(* that the context is too long; either way once per pass.                   *)
Walk ==
  /\ Threshold # 0 /\ ~compacted
  /\ compacted' = TRUE
  /\ \E failed \in SUBSET Elidable : Compact(failed)
  /\ UNCHANGED <<windows, pending>>

RunOver == Cardinality(Assistants) = MaxTurns /\ UNCHANGED vars

Next ==
  \/ \E batch \in Batches, reasoning \in {"short", "long"}, match \in Entries \cup {NoFact} :
       Pass(batch, reasoning, match)
  \/ Walk \/ RunOver

Spec == Init /\ [][Next]_vars

-----------------------------------------------------------------------------
TypeOK ==
  /\ \A i \in Assistants : messages[i].reasoning \in {"short", "long", "tail"}
  /\ \A i \in DOMAIN messages \ Assistants : messages[i].role = "user"
  /\ compacted \in BOOLEAN /\ settled \in BOOLEAN
  /\ stats.compactions \in Nat /\ stats.elided \in Nat

(* What a tool said is never lost and never told of another call, although   *)
(* every turn has the same ids and a walk may fail to write: it is in its    *)
(* place, or behind a stub that names its own call and a file that holds it; *)
(* and the run's counters say how many stubs there are.                      *)
NothingDestroyed ==
  /\ \A r \in Results :
       LET said == <<r[1] - 1, r[2]>>
       IN /\ ResultAt(r).of = said
          /\ ResultAt(r).stub => <<ResultAt(r).path, said>> \in files
  /\ stats.elided = Cardinality({r \in Results : ResultAt(r).stub})
  /\ stats.compactions > 0 <=>
       \/ stats.elided > 0 \/ \E i \in Assistants : messages[i].reasoning = "tail"

(* A walk takes what is old and nothing else.  The task, the last turns with *)
(* their results, and what the checks said last are whole, over any number   *)
(* of walks; and behind a walk that could write, nothing that it would take  *)
(* is left, so that the next one over the same history is silent.            *)
WalkExact ==
  /\ messages[1] = Anchor
  /\ \A r \in Results : ResultAt(r).stub => Old(r[1] - 1)
  /\ \A i \in Assistants : messages[i].reasoning = "tail" => Old(i)
  /\ \A i \in Assistants :
       CallsChecks(i) /\ (\A k \in Assistants : k > i => ~CallsChecks(k)) =>
         \A j \in DOMAIN messages[i].calls :
           messages[i].calls[j] = "run_checks" => ~messages[i + 1].results[j].stub
  /\ settled =>
       /\ \A r \in Results :
            /\ Old(r[1] - 1) /\ ~ResultAt(r).stub
            => messages[r[1] - 1].calls[r[2]] = "run_checks"
               /\ \A k \in Assistants : k >= r[1] => ~CallsChecks(k)
       /\ \A i \in Assistants : Old(i) => messages[i].reasoning # "long"

(* While an entry's window is open, so that the fact is not injected again,  *)
(* the model still has it before it in full.  Age alone is enough only while *)
(* the window is no longer than the retention, as it is with the code's two  *)
(* tens: behind that a walk may have taken the results the fact was put in.  *)
WindowHoldsFact ==
  \A e \in Entries : InWindow(e) => \E r \in Results : ResultAt(r).fact = e

=============================================================================
