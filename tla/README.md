# A verification project for the harness

The repository is a Rust workspace of three crates. `crates/harness` is a
library that runs a language model in a tool loop over a working tree and
decides, by evidence, whether the task was done. `crates/talos` is the command
line and service around it. `crates/somnus` is a nightly job that lets such
loops propose edits to a knowledge base and admits, gates and applies them.

This directory holds TLA+ modules that model the parts of it with a state worth
checking, TLC configurations that check them on small instances, and theorems
that TLAPS proves for every value of the constants. Paths such as `engine.rs`
mean `src/crates/harness/src/engine.rs` unless they name another crate.
`PROJECT.json` maps every definition to the lines it models.

Contents: [the system](#the-system) · [the modules](#the-modules) ·
[what each run shows](#what-each-run-shows) · [assumptions](#assumptions-and-bounds) ·
[fairness](#fairness) · [what is proved](#what-is-proved) ·
[where code and documentation part](#where-code-and-documentation-part) ·
[not modelled](#not-modelled) · [plan](#plan)

## The system

### How the parts interact

    talos CLI ──┬─> run_ralph (ralph.rs) ── git add/commit/reset/clean, stop command
                │        │ one pass = one run
    somnus ─────┤        v
                └─> Engine::run / resume (engine.rs: run_loop_impl, run_loop_body)
                         │  model turn ──> ModelBackend (anthropic, bedrock, ollama)
                         │  tool call  ──> Tool (workspace tools, MCP client) ──> exec.rs
                         │  finish     ──> handle_finish_call: ChecksRunner, observe_tree
                         │  advice     ──> Memory, personal knowledge base (HTTP)
                         └─ record     ──> RunStore: event log + checkpoint

A run is one sequential future. Concurrency enters at its edges: child processes
and their groups, posts to the knowledge base spawned beside the loop, several
talos processes sharing one state directory, and a crash of the process between
any two writes to the store. The tree under the run is changed by the agent's
tools, and in the outer loop by git hooks and the stop command as well.

### Inventory

For each component: its state, its operations, what is hard about it, and what
makes it correct. The line of every hazard is in `PROJECT.json`.

**Agent loop** (`engine.rs`, `run_loop_body` 4270–6094). State: pass and retry
counters, tokens consumed, the green latch (`last_gate_green`), `tree_dirty`,
passes since the tree changed, nudges fired and answered, the answer-schema
streak, the accepted finish. Operations: the budget consults, threshold and
overflow compaction, a model turn with its retries, a turn without calls, each
kind of tool call, a finish claim, the end of a batch, nine ways to end.
Hard: verdicts about the tree are cached while the tree goes on changing; one
`continue` skips the bookkeeping that every other path passes; a reply to a
nudge is recorded at three places. Correct: an outcome carries the evidence it
claims, work is not forfeited silently, every nudge has one reply, budgets and
caps hold, the run ends.

**Completion contract** (`engine.rs` `handle_finish_call`, `exec.rs`
`ChecksRunner`, `classify_change`). State: none of its own; it reads the tree.
Operations: the three legs of a claim (declared, verified, changed) and their
inversion in answer mode. Hard: either observation of the tree may fail, and
the comparison is one of texts. Correct: what is accepted was justified by the
tree at that moment, and nothing replaces it.

**Run record, event log, resume** (`run_record.rs`, `store.rs`, `engine.rs`
`reconcile_crash_tail`, `resume`). State: one checkpoint and one log per
attempt. Operations: append, checkpoint, crash-resume, fresh-context resume.
Hard: the two writes are not atomic, results are logged without a call id, and
what a resume rebuilds lives in memory until the next checkpoint. Correct: the
rebuilt conversation is well formed and truthful, the budget it continues with
is neither inflated nor much too small, and no call ran that the log does not know.

**Ralph outer loop** (`ralph.rs`). State: HEAD, index and work tree; three
breaker counters; the report. Operations: a pass, observe, stage, commit,
probe, restage, reset, clean, stop command, breakers. Hard: a pre-commit hook
rewrites the tree between staging and commit; any command may fail; three
breakers count overlapping kinds of passes. Correct: only vouched work is
committed, the rest is gone before the objective is judged, the report explains
the breaker, the loop ends.

**Command execution** (`exec.rs`). State: a child process, its group, two pipes,
a drop guard. Operations: spawn, drain, wait, time out, kill the group, be
dropped. Hard: the leader may be reaped while a grandchild holds the pipes, or
before the guard fires. Correct: nothing of the group outlives a timeout, and no
other group is ever signalled.

**History compaction** (`engine.rs` 3149–3692). State: the message list, the
files that elided outputs went to, the counters. Operations: one walk, at the head of
a pass that is over the threshold or once behind an overflow. It cuts old
reasoning to a tail and replaces old results by stubs. Hard: call ids recur from turn to turn on
one backend, an offload may fail to write, and the belief check relies on what
the conversation still holds. Correct: nothing a tool said is lost or told of another
call, recent turns and the last oracle are whole, a second walk is silent.

**Memory advice and belief check** (`memory.rs`, `engine.rs` 3966–4250). State:
entries and calls that were denied, a count under a cap; the windows in which a
fact is not injected again. Correct: an entry denies once, a repeated call is
let through, the cap holds; a fact is withheld only while the model has it before it.

**Personal knowledge base client** (`personal_kb/`). State: the open digest with
its index, the corrections that wait for a call to resolve them, posts under way,
counters. Operations: what the run's turns, calls, claims and nudges
add, closing a digest, a post for each and for a failed call, the flush. Hard: a group that
does not fit is cut down while corrections are open that will name its calls;
the flush has a deadline and dropping it aborts posts. Correct: every correction is told once and
what it names is there, every digest is within the limits, every post is accounted for.

**MCP client** (`mcp.rs`). State: session id, tools per server. Hard: a call
answered 404 is repeated on a new session; a handshake may be cut off.

**Somnus unit** (`somnus/src/unit.rs`, `map_op.rs`, `materialize.rs`, `ops.rs`,
`gate.rs`, `admission.rs`, `ledger.rs`). State: the maps as fetched, the
clusters and what the model answered of each, composed bodies and their gates,
the requests still to post, the report; and on the server the maps and the
declines. Operations: fourteen numbered steps. Hard: the wall clock drops the
pipeline between two posts; a post that timed out is looked for on the server, where
others write too; edits of a map are a chain of whole bodies. Correct: what the
report calls applied is there and what was applied is reported, a doubtful gate
writes nothing, a decline is the model's own.

**Somnus nightly driver** (`somnus/src/main.rs`, `worklist.rs`). State: the
selected projects, the reports so far, one total. Operations: the worklist, a
budget stop before each unit, a unit, the record. Hard: the total reads bills of
units that may have lost theirs. Correct: one budget for the night, and a record
that tells the ways to end apart.

**talos state pruning** (`talos/src/main.rs` 1555–1756): age check and removal
of directories by several processes.

**Model backends, workspace tools, prompts and task files, evaluation harness,
scripts**: encodings and sequential code; see [not modelled](#not-modelled).

## The modules

| module | models | kind |
|---|---|---|
| `FinishClaims` | dispositions, gate verdicts, change evidence | operators shared by the next two |
| `FinishContract` | what a run promises about its ending | abstract specification |
| `RunLoop` | `run_loop_body` | detailed specification, implements `FinishContract` |
| `Durability` | every write of a run, crashes, both resumes | specification |
| `Ralph` | `run_ralph`, one git command per step | specification |
| `Exec` | `exec::run` among the processes it starts | specification |
| `Compaction` | the message list, `compact_history`, the belief check | specification |
| `Places` | what is left of a sequence when some of its places are kept | operator of the next and of `MapOps`, `SomnusUnit`, `KbSession` |
| `DigestBuffer` | `personal_kb/digest.rs` as operators on its value | operators |
| `KbSession` | a run's side of the knowledge base: denials, digests, posts, flush | specification over `DigestBuffer` |
| `MapOps` | admission, op sets, bodies and edit chains | operators |
| `UnitContract` | what the night relies on of a unit | abstract specification |
| `SomnusUnit` | `run_unit` and the server it writes to | detailed specification, implements `UnitContract` |
| `Nightly` | `nightly` and `run_single` | specification composed of `UnitContract`s |
| `MCRunLoop`, `MCDurability`, `MCRalph`, `MCExec`, `MCCompaction`, `MCKbSession`, `MCSomnusUnit` | instances for TLC (`Nightly` needs none) | |
| `RunLoop_proofs`, `Durability_proofs`, `Ralph_proofs`, `Exec_proofs`, `Compaction_proofs`, `KbSession_proofs`, `SomnusUnit_proofs`, `Nightly_proofs` | theorems about the module of that name | |

Definitions marked *Mutant* stand beside the definition they deform. They take
part in no specification; each shows which property notices that change.

### FinishClaims and FinishContract

A working tree is a member of `Trees`. `GreenTrees` are those on which the gate
command exits 0. `Snapshot[t]` is what `exec::observe_tree` sees of `t`, so two
trees may look alike. `Changes(t)` is `classify_change`: an observation may
always fail, giving `"unobservable"`. `Verdicts(t)` is `verify_against_checks`;
a gate may also be red on a green tree, because it may be killed at its timeout.

`FinishContract` has three variables and four actions. The agent works; at most
one claim is accepted, and only with evidence that holds of the tree at that
moment (`Justified`); an accepted claim is the outcome; without one the run gives
up. It is the documented promise as the code keeps it: between acceptance and
the end of the batch the agent may still `Work`.

### RunLoop

| variables | in `run_loop_body` |
|---|---|
| `pc`, `left`, `injected` | the place reached, calls of the batch still to run, a belief check that suppressed the batch |
| `iterations`, `attempt`, `compacted` | pass, transient retries of this turn, whether this pass has compacted |
| `consumed` | `budget_consumed_now(..).tokens` |
| `lastGateGreen`, `treeDirty`, `mutated` | the latch, the arming flag, the flag of this pass |
| `sinceChange`, `nudges`, `awaiting`, `statuses` | `iters_since_tree_change`, `nudges_fired`, `nudge_awaiting_status`, the length of `nudge_statuses` |
| `streak`, `prevErrors` | the answer-schema streak |
| `finish`, `rejection`, `recovery`, `outcome` | accepted disposition, last rejection, `recovery_facts`, the returned disposition |
| `tree` | the workspace |
| `stray`, `trail`, `verdicts` | observations for properties; no guard reads them |

The environment is the model and the backend: a turn bills any cost up to
`MaxCost`, asks for up to `MaxCalls` calls chosen one at a time, stops, or is cut
off; the backend may fail in each of the ways `BackendError` has. A pass is
`TopOfLoop` → `ModelCall` (retries, one overflow interception) → `NoCalls`, or
one `OneCall` per call and then `EndOfBatch`. Every `return` of the function is
an action that ends in `Return`.

### Durability

`record[r]` and `log[r]` are the latest checkpoint and the event log of attempt
`r`. `pc` is the next write or effect of the process, so a `Crash` fits between
any two. A call is the pair of its turn and its place in it; a result names the
call whose outcome it tells, or `Interrupted`. `ToolTail`, `Pair`, `ResultsOf`,
`Answers` and `RepairedLog` are `reconcile_crash_tail`: the tool events after the
last `ModelCall`, a `Result` paired with the last `Started` before it, one answer
per call of an unanswered assistant message, one interrupted `Result` appended
for an unmatched `Started`. `ResumeCrash` and `ResumeFresh` are the two modes of
`resume`; `Redispatch` is what a caller does when nothing was checkpointed.
`billed`, `crashes` and `ran` are observations: what the provider charged and
which calls were executed.

### Ralph

`head`, `index` and `work` are three trees; a tree is a version of the code, a
version of the notes file that the progress check excludes, and whether a file
is there that no commit has. Each git command of `run_ralph` is one step and may
fail (`HardError`). `RunInner` is a whole run and may stage and commit by itself,
as an agent with a shell can. `Hook` is an arbitrary pre-commit hook. `Observe`
to `Restage` are the commit of a green pass with its `MAX_COMMIT_RETRIES`,
`Reset` and `Clean` the revert, `StopCommand` and `Breakers` the end of an
iteration in the order of the code. `vouched` is the tree the green claim was
about, as the hook has rewritten it since. A counter behind the breaker that
trips is set although the code returns first; nobody reads it again.

### Exec

The future of `exec::run` among processes it does not control. `leader` is the
child, `kid[k]` the processes it and its descendants start; each may fork, leave
the group, close its output and exit whenever it likes (`Processes`). `pipe` is
the set of processes that hold standard output or error. `Joined` is the join of
`wait` with the two drains, `Reap` the poll in which `wait` completes and the
drains do not; from then on `child.id()` is `None`. `TimeOut` is the timeout arm
up to its `await`, `Reaped` what follows it, `DropRun` the drop of the future
with the guard before the child. `reused` says that the number of the group has
been given away, which the system does only when the leader is reaped and no
member is left. `early` and `hit` are observations.

### Compaction

A message is the model's (reasoning that is longer than the tail or not, a
sequence of calls) or the user's (the results). The id of a call is its place in
its turn, as Ollama gives them, so that ids recur in every turn. `Pass` is a turn
with the results of its calls, or with an injected fact in the place of each.
`Walk` is one `compact_history` with any set of offloads failing: `Old`,
`CallOf`, `IsLastOracle` are the retention window, the adjacency pairing and the
oracle that is kept. `InWindow`, `Injects`, `Inject` and `Changed` are
`BeliefCheckState`; `windows` is a set, as the code keeps a `HashMap`. A result carries the output it is of, and a stub the file
it names; `files` has what was written.

### DigestBuffer and KbSession

`DigestBuffer` has one operator per method of the buffer; each gives the buffer after
it and the digests it closed. Items have a kind, the step of the run they are
about and a size; sizes add up with one byte between items, as `body_len` has
it, and the two parts of the envelope that vary (the task in digest 0, the final
message in the last) are constants. The one byte by which `truncated: true` is
shorter than `false` is not counted. `Places!Where` keeps some places of a sequence, as
`retain` and `filter` do; it says what `SelectSeq` says, by places and without a
recursive operator, so that a proof can follow an item to the digest it ended in.

`KbSession` drives it: `RunCall`, `DenyCall`, `FinishCall`, `Nudge` and
`ModelTurn` are the places in `run_loop_body` that call `after_tool` or
`observe`, in any order and number up to `MaxLog`. `events` and `digests` are
posts that were spawned: since only the flush looks at their answers, the answers are chosen
there. `FlushCutOff` is the drop of the flush at `MEMORY_FLUSH_TIMEOUT`. `log` and
`bodies` are observations: what the run did, and every digest that was closed. The
client is connected and the server has sent a tool map; a degraded client does
none of this.

### MapOps, UnitContract, SomnusUnit

`MapOps` is the pure part: `Admitted` (`admission.rs`), `ValidOps` (`ops.rs`),
`Composed` and `Chain` (`materialize.rs`). A body is what the server reads out
of it: the entries it points at, its gap lines, whether it has a detail section.

`SomnusUnit` has an action for each numbered step of `run_unit_inner`: `Baseline`
(1–2), `Fetch` (3–4), `Ledger` (5), `Rung1` and `Parse` (6), `Rung2` (7–8),
`Decline` (9), `Compose` (10–11), `Gate` and `GatesDone` (12), `Post`,
`Receive`, `TimedOut` and `Reconcile` (12.5), `Observe` (13). What a model answers is any member of
`ClusterAnswers` and `OpAnswers`, or does not parse. The server is external:
`Decide` carries out or refuses a request whether or not the client still waits
for it; what it compares is taken from the requests the code builds and the
answers it tells apart. `Others` are other writers. `WallClock` drops the
pipeline at any point and reports a fresh report, as the code does.

`UnitContract` is what is left when all of that is taken away: turns are paid
for one at a time and none is started over budget, and the end has an outcome
and a bill, which only an abort may lose.

### Nightly

`Worklist` is the one fetch, `SelectFirst` the take-three, `BudgetStop` the check
before a unit, `StartUnit` to `UnitReported` one unit, `WriteInvocation` the record.
`mode` tells `nightly` from `run` and `backfill`. The unit inside is
`INSTANCE UnitContract WITH before <- total`: what the night has billed so far
is what the unit counts on top of. `spent` is an observation.

### How they compose

Two detailed specifications are shown to implement abstract ones, each by
`INSTANCE ... WITH` and the abstract `Spec` as a property. `RunLoop` has
`Contract == INSTANCE FinishContract WITH tree <- tree, finish <- finish,
outcome <- outcome`. `SomnusUnit` has `UnitContract` with its clock and pipeline
mapped to a phase and a bill, and `Nightly` runs on that contract alone, so that what
the night is shown to keep holds with the real unit in its place.

`FinishClaims` is extended by both the contract and the loop. `Durability` takes
the same loop with the decisions left open and the writes made explicit, and
`Compaction` what happens to its messages between turns. `KbSession` hangs on
the calls, claims and nudges of `RunLoop`, where a denied call is an `InertCall`
and an injected batch is `injected`. `Ralph` takes one run as one step whose
outcome may be any. `Exec` stands below all of them: a `BashFails`, a gate killed
at its timeout and a git command that fails are runs of it seen from outside.

## What each run shows

| run | module, cfg | question |
|---|---|---|
| `task` | `MCRunLoop`, `_task` | Build mode with a gate, two nudges, a retry, a token and a wall-clock budget, belief checks. Does every ending carry the evidence it claims? |
| `answer` | `MCRunLoop`, `_answer` | Answer mode with compaction: is the tree untouched, is the schema streak exact, does every run end? |
| `durability` | `MCDurability` | Two crashes at any writes: what does a resume rebuild? |
| `ralph` | `MCRalph` | Three passes over git with arbitrary hooks: what gets committed, what is left behind, why did it end? |
| `exec` | `MCExec` | A timeout or a drop at any moment: what is left of the group, whom does a signal reach? |
| `unit` | `MCSomnusUnit` | A unit with a server, lost answers, a clock and another writer: does its report tell the truth, and does it keep its contract? |
| `night` | `Nightly` | Does one budget hold for the night, and does the record explain how it ended? |
| `kb` | `MCKbSession` | Is every correction, digest and post accounted for, and does advice deny once? |
| `compaction` | `MCCompaction` | What does a walk take, and what may others still rely on? |
| `forgotten`, `group_kill`, `unit_chain` | `MCDurability`, `MCExec`, `MCSomnusUnit` | Three statements of the documentation the code does not keep ([below](#where-code-and-documentation-part)) |

`task`: `DoneEvidence` says that a `done` with a gate ends on a tree the gate
passes on and that its change evidence is true of that tree, unless a later call
of the same batch changed it. `GateLatchFresh` says the latch is green only of
green trees, unless a call that reported an error changed the tree since the
last `run_checks`. `WorkNeverForfeited`: a run that stops without finish on a
changed tree got there through such a call. `NudgesAccounted`: as many replies as
nudges, minus the one awaited. `GreenWorkRecorded`: the cap, budget and
discipline endings save the facts of a green tree. `BudgetOvershoot`: less than one turn
over. `KeepsContract`: the loop implements `FinishContract`.

`answer`: `AnswerEvidence` is the inverted third leg. `SchemaCapExact` compares
the streak with a window of the last verdicts: the run is failed exactly on
`StreakCap` consecutive identical rejections. `Termination` is checked here,
with interceptions, retries, nudges and passes all in play.

`durability`: `RequestsPaired`: no request carries a call without its result.
`ResultsTruthful`: no result is another call's, and one that tells an outcome
belongs to a call whose two events are both on the log, or neither (a finish).
`LogPaired`: when a request is sent no `Started` is left unpaired. `TokensAccounted`: the budget a
process believes consumed is at most what was billed and short of it by at most
one turn per crash. `ForgottenOnlyBehindResume`: the only write after which a
later resume knows less than before is the `ModelCall` appended while the
snapshot still ends in the calls the resume answered in memory.

`ralph`: `CommitsVouched`: each commit of the loop is the tree of the green
claim as the hook rewrote it. `ObjectiveOnHead`: the stop command sees HEAD and
nothing else, save what a hook rewrote while accepting the commit.
`TerminalExplained` recomputes from the report alone what each breaker should
have counted, and compares. `Termination`: the loop ends.

`exec`: `GroupGone`: a drop leaves no member of the group, nor does a timeout,
unless the leader had exited by itself before. `SignalsAimed`: a command that
ends by itself is never signalled, and a timeout never reaches another group that
has got the number; a drop can, after the leader was reaped while an escaped
process held the pipe. `Bounded`: the run ends, though nothing makes the
processes let go of the pipe.

`unit`: `AppliedIsStored`: what the report calls applied is on the server, what
a re-read vouched for included. `StoredIsReported`: what was carried out is in the report, but for
one request the unit stopped on, or a report the clock took.
`ReadyMeansAnswered`: a `Ready` unit has an answer for every request.
`NoWriteOnDoubt`: nothing is posted by a unit with a gate that could not be
evaluated or a decline that was lost. `DeclinesEarned`: the ledger gains a cluster only
when it has members and a map, and gaps of that map are all the model proposed. `Ends`: no answer, and no missing one,
keeps the unit going. `KeepsContract`: it implements `UnitContract`.

`night`: `NightOvershoot`: what is really spent, a cut-off unit's turns
included, goes over the budget by less than one turn. `NothingSpentUnseen`: no
unit is started on a total that lacks a bill. `StopExplained`: exit code, stop
reason and the units' outcomes agree, and nothing ran behind a bad outcome.

`kb`: `DeniedOnce`: one denial per entry, under the cap, the verbatim repeat
let through, and no denied call in a digest. `Settled`: each failed call is
sent, failed or capped, and each digest sent or failed, once, or the flush was
cut off and nothing is reported. `CorrectionsTold` recomputes from the log of the run which corrections
there were, what resolved them and through which calls, and finds each told
exactly once. `NamesKept`: a call a correction names was never cut away.
`BodiesFit`: both limits, indexes without gaps, calls in order and with their results.

`compaction`: `NothingDestroyed`: an output is in its place, or behind a stub of its own
call and in the file the stub names; the counters say how many. `WalkExact`: only
what is old is taken, and a walk that could write leaves nothing for the next.
`WindowHoldsFact`: while an entry's window is open the conversation holds its fact.

### Assumptions and bounds

Bounds are constants, and each run names its own:

- `MaxIterations` 3–5, `MaxNudges` 1–2, `StaticK` 1–2, `MaxRetries` 0–2: every
  counter reaches its cap, and passes remain in which it is at the cap.
- `MaxCalls` 2–3: a call after an accepted finish, a check after an edit, an
  edit after a check. `MaxCost` 2 against `TokenBudget` 4 lets a turn land below,
  on and above the limit.
- Three trees: the baseline, a change the gate fails on, one it passes on.
  `DirtySnapshot` is the repository in which a file was dirty from the start.
- `StreakCap` 4, the code's constant, with two error lists and three passes of
  two calls: six verdicts, so a streak can break and be completed.
- `MaxAttempts` 2, `MaxTurns` 2, `MaxCalls` 2, `MaxCrashes` 2: the second crash
  finds what the first resume did; two calls give a batch with one answered and
  one interrupted. A third crash repeats the second from the same states, as a
  resume keeps nothing of the process but what the store has.
- `MaxOuter` 3 with every breaker at 2 and the code's two commit retries: each
  breaker fires, with a pass that resets it before.

- Three kids: one that stays in the group, one that leaves it, and one started
  by either. The theorems about `Exec` hold for any number.

- `MCSomnusUnit`: three entries, a map of somnus's own and one of a human's, two
  clusters (`MaxClusters` 2; one answer has three, so the cap is passed), a budget two or three turns reach, and one
  step of another writer. The answers are chosen so that clusters share a map,
  mint, decline, edit beside a gap, are refused admission, and ask for edits that cannot
  be made; one has a cluster of nothing. The chain run has no other writer.
- `Nightly`: worklists of up to four rows of two projects against
  `MaxProjects` 3, the code's constant, so that a row may be left over; two
  turns a unit of one or two against a budget of five, which is reached inside a
  unit, between two, and not at all.
- `MCKbSession`: `MaxLog` 4 steps, digests of four items and nine bytes, one
  name per correction: two calls overflow a digest, one long error does not fit
  alone, a correction outlives the digest it was opened in. One event under the cap.
- `MCCompaction`: four turns with a retention of two, so turns age into reach of
  a first and a second walk; a window of four, longer than the retention. With the code's
  two tens age alone would close a window in time, and the compaction counter
  in `in_window` would never matter; the instance is the one in which it does.

The assumptions on constants are types, names that differ and caps of at least one,
with one exception: `BufferAssumption` has `PromptSize + FinalSize <= MaxBytes`. The task and the final
message are cut to `MAX_TURN_PROMPT_CHARS` (4000) each and a body may have
`MAX_TURN_BODY_BYTES` (65536), so a digest without items fits; without it `BodiesFit`
is false of the digest that is empty.

What the models take for granted:

- The gate leaves the tree as it found it, and is deterministic but for timeouts.
- `edit_file` is atomic; a `bash` that reports an error may have changed anything.
- Tools of an MCP server do not touch the tree (they are `InertCall`s).
- Errors of the store, after which a run returns `Err`, are left out.
- The wall clock may be found expired at any consult, if it is armed at all.
- A crash-mode resume is made only of an attempt without a disposition.
- Compaction is in `RunLoop` as a step and not in `Durability`; it changes the
  text of old results and no pairing of them.
- SIGKILL takes effect at once and does not fail; a process that left the group
  does not join it again.
- Ralph's caps are at least one. The tree it starts on may be dirty.
- The knowledge base server of `SomnusUnit` decides a request at most once and
  compares sets of references; its two caps refuse creates only.
- Pointers are never removed from a map by others during a unit.
- Two posts of digests may arrive in any order; the index in each is the server's to sort.
- Memory advice that denies a call leaves no trace but its events: the call is an
  `InertCall` in `RunLoop` and a `WithholdCall` in `Durability`.

No configuration uses symmetry. Deadlock checking is on everywhere but in the two
`MCSomnusUnit` configurations: the end of a run, a task or a loop is an explicit
stuttering action (`Ended`, `Rest`, `Over`, `RunOver`), and a crashed process can
always be resumed or dispatched again. A unit that is done stops; `Ends` says
that it does not stop before.

### Fairness

`RunLoop!FairSpec` and `Ralph!Spec` have `WF_vars(Next)` and nothing stronger:
each is one sequential future, which a runtime polls until it completes, and
every await in it is bounded (a read timeout on the chat clients, a timeout on
every command, tool call and git command). Nothing is assumed about which
alternative is taken; a backend may fail for ever, a model may stop for ever and
a hook may rewrite the tree at every commit. The read timeout bounds the silence
of a connection, not a response that trickles without end; such a response is
outside the model. `SomnusUnit!Spec` has `WF_vars(Pipeline)`: the unit is one future as well. The ledger's
exchanges and the map-op POSTs have timeouts of their own; where a request has none,
the wall clock ends the await (`WallClock`), so the pipeline does not stand still
for ever; the server, the other writers and the wall clock owe
nothing. `Exec!Spec` has `WF_vars(Runtime)`: a woken future is polled
and timers fire; the processes and the drop have no fairness. `Durability`, `Nightly`,
`KbSession` and `Compaction` have safety properties only: nothing obliges a
caller to resume, or a model to go on.

## What is proved

The theorems hold for all constants the `ASSUME`s allow: any set of trees, any
gate, any snapshot function, any caps, any number of attempts, turns, calls and
crashes. About 13400 obligations are discharged by SMT, Zenon and LS4, with none
left out. Every safety property a passing run checks is the conclusion of a
theorem; `TypeOK` of the first four modules and `LogAhead` are proved
and no run checks them.

**RunLoop_proofs.** `TypeCorrect` is inductive as stated. `Shape` ties `pc`,
`finish` and `outcome` together and is what most other steps lean on.
`GateLatchCorrect` needs the companion `ChangesNoticed` (a changed tree is either
noticed by `treeDirty` or has a stray change behind it), which also gives
`WorkNeverForfeitedCorrect`. `DoneEvidence` speaks of the outcome, which no step
can explain without knowing what was accepted: the inductive invariant is
`ClaimFresh` (an accepted claim whose batch has not changed the tree since is
`Justified` by the current tree), from which `DoneEvidenceCorrect` and
`AnswerEvidenceCorrect` follow. `ContractKept` shows that every step of the loop
is a step of `FinishContract` or a stutter. `NudgesCorrect` is by cases on the
three places that record a reply. `BudgetCorrect` goes through
`BudgetConsulted` (below the limit wherever a model call is about to be made).
`GreenWorkRecordedCorrect` is inductive with `Shape`: the facts are saved in the step
that ends the run and nothing touches them later (`FactsLater`).
`SchemaCapCorrect` compares a counter with a window of verdicts that is cut at its front.
`Trailing` describes the window from its end, where nothing moves: the last `streak`
verdicts are `prevErrors`, the one before them is not, and the run is failed
when the streak is as long as the window may be.

**Durability_proofs.** `TypeCorrect` needs that `Reconciled` and the batch never
index past an end: `AtWork` (a live process has a conversation, and a running
call is inside its batch) and `Recorded` (so has a checkpoint).
`TokensAccounted` says nothing while the process is down, so it is not
inductive: `Account` adds that later attempts than the current have no record,
that no record counts more than was billed, and that the *latest* record is
short by at most the crashes plus the one turn not yet saved (`Covered`,
`Unsaved`). `LogAheadCorrect` goes through `Announced`: what is about to run is
on the log. `RequestsPairedCorrect` is about a message list that is in memory, in a
snapshot, or rebuilt from a snapshot and a log: `ConversationInvariant` says that every
one of them is a conversation (`Conversations`), that while a batch runs the
snapshot ends in the message that asked for it (`SavedTurn`), and that the results
so far are those of its first calls (`InBatch`). `LogPairedCorrect` needs `LogsMatched`: a
`Started` has its `Result` right behind it unless it is the last event, and then
the snapshot still ends in its turn, so that the resume which repairs the log
finds it. `ResultsTruthfulCorrect` rests on calls being told apart: `Past` (nothing is
about a turn that was not billed), `Fresh` (the calls of the turn at hand are on
no log and answered nowhere yet), and then `Truths` for memory, snapshots and
the batch. `ForgottenOnlyBehindResumeCorrect` is an
action property: `StartedOnce` and `Remembered` say that outside a batch the conversation tells all that a resume
would know, and `KnownMeans` that what a resume knows is the snapshot with the
tail of the log.

**Ralph_proofs.** `TypeCorrect` with `BelowCaps`: counters stay strictly below
their breakers while the loop runs. `ObjectiveOnHeadCorrect` and
`CommitsVouchedCorrect` share `Tracked`, which says at each git command how
HEAD, index, work tree and the vouched tree relate. `TerminalExplainedCorrect` is
about the report alone, so `Counted` has to say that each counter of the loop is the
count its report gives; while the breakers are looked at the report is one pass
ahead, and it is the sums they compare that agree. `PassTold` has what the pass
under way will be reported as.

**Exec_proofs.** `Stage` relates `pc`, the leader and the guard: once the join has
been left the leader is dead, so a group without members stays without. From it
follow `GroupGoneCorrect` and `SignalsAimedCorrect` (`Aimed` adds that nobody is
signalled before the join is left).

**Compaction_proofs.** `Shaped` has the form of the message list: the task, then
turns with a reply of as many results behind each. `WindowAlwaysHoldsFact` goes
through `Windowed`: a window knows a compaction count no higher than the
present one, and while the two are equal no result was taken, so the fact is
still there. `NothingIsDestroyed` needs `Kept`, which says of every result whose it
is, of every stub that its file was written, and that the counters are the
cardinalities of the stubs and the tails. `WalksAreExact` needs `Exact`: what was
taken is old, an oracle that was taken has a later one, and behind a walk that
wrote everything nothing is left. `OldStays` carries it through the turns that
follow, as retention only ever makes more of the list old.

**KbSession_proofs.** `AlwaysSettled` goes through `Accounts`: until the flush every
failed call is a post or over the cap and every digest a post or unfittable, and
the flush only moves what was posted to sent or failed.

The other four theorems need to know what a step does to the digests, closed and open. That
is said once: `Held` is all the items by digest and place, and
`GrownBy(old, new, group, f)` that everything held before is still at its place
and some of a group is behind it, in order. `StepsTaken` shows that every step is
one of three: it takes a group in (`Took`), ends the run (`Ended`), or leaves all of
this alone (`Rested`). What a group may lose is what `Owed` does not name:
`FitItems` drops no correction and no call that a correction of its own or one
still open names (`DroppableUnowed`), an argument about the places that are kept
and not about the recursion. On top of `Typed`:

- `DeniedOnceCorrect`: `Denials` (the denials on the log are those `MemoryRunState`
  counts, each of an entry of its own) and `OfRun` (what is held or open is of
  something that was run).
- `NamesKeptCorrect`: `NamedHeld`. The call that an *open* correction waits for must be
  held too, though no digest names it yet; that is what `Protected` is for, and the
  mutant without it is caught.
- `BodiesFitCorrect`: `Fitting`, digest by digest (`Filed`, `Plain`), for the open one
  (`Tidy`) and for the order of calls across digests (`InOrder`).
- `CorrectionsToldCorrect`: `Told`. The property is stated over the log of the run, so
  the open corrections have to be tied to it: `Waiting` says that they are exactly
  those asked for, not folded and not resolved since, each with the posted calls since
  in their order. `FirstAsked` shows that wherever a trigger is unresolved the first
  request for it is not a folded one, which is why folding loses none.
  `Telling` is the property item by item, true while the run goes on and, with the open ones
  added as unresolved, at its end.

**SomnusUnit_proofs.** `ContractIsKept` is the refinement. `Books` says which turns
may have been paid for at each step (one behind the first rung, one more per
cluster) and that the report's bill is what was paid until the clock takes it.
`StoredIsAlwaysReported` needs `Answered`: every request that has left is either
told in the report or the one the unit waits for or stopped on (`InDoubt`). The
server may decide a request at any time, so nothing about its decision can be in that
invariant; what it says is about requests that were sent. `DeclinesAreEarned` needs
`Vetted`, that an op set which was kept and not refused is the model's and valid.
`Planned` has what the composed bodies and the queue of requests are, whatever the
ops: each request is of a map, an edit and a body of the unit's own. With it
`NoWriteOnDoubtCorrect` goes through `NoDoubt`: there are requests only where every gate was
evaluated, every decline is recorded and each request has a green body
(`Vouched`). `ReadyIsAnswered` needs `Progress`: while the requests are gone through
those told in the report are exactly the ones before the present one.
`AppliedIsAlwaysStored` is about a store that others write to: `Standing` (what was
committed is still there, since the KB only gains pointers, `Grows`) and
`Claims` (what each entry of the report says of the KB stays true).
`UnitAssumption` has only types: budgets and costs are numbers, an answer that
parses is a sequence of ops, bodies have sets of references.

**Nightly_proofs.** `Account` says at each place how `spent`, `total` and the bill of the
unit under way relate; with it `NightOvershoot` is inductive, and
`NothingIsSpentUnseen` follows, since a lost bill is an abort and an abort ends
the night. `StopIsExplained` needs `Underway`: while the night goes on every unit so far
ended ordinarily and one is left to work. `Nightly` is built from
`UnitContract`, and `SomnusUnit_proofs` shows that the pipeline implements that
contract, so the three theorems are about nights of real units. The step from the
two theorems to that sentence is this paragraph, not a proof: the night's
variables are not those of a unit.

The larger invariants were given to TLC on the instance of their run before they were
proved. One attempt found an error of the model: `AppliedIsStored` had said that the
KB points at the entry of every strike the report calls applied. When two clusters strike the same line and the second
request times out, the re-read body equals the one posted, and
`reconcile_after_timeout` (`somnus/src/unit.rs:1632`) reports it applied although the KB
may have refused it. `Claim` for strikes could not be proved of that step; the property
now says what the code keeps, and `MCSomnusUnit` has an answer with two such strikes.

Only model-checked: `Termination` of both loops, `Bounded` and `Ends`, since liveness
is outside this prover, and the three statements that do not hold.

## Where code and documentation part

Each of these is a run that is expected to end in a counterexample.

1. `forgotten`. After a crash, a resume, the next `ModelCall` event and a second
   crash before the checkpoint, results that are on the log are reported as
   interrupted (`engine.rs:6160`).
2. `group_kill`. A shell that exits while a background process holds its pipes is
   reaped with the join still pending. At the timeout there is no pid left to kill
   the group by (`exec.rs:203`), and the process lives on, where the
   documentation (`exec.rs:126`) has the whole group killed.
3. `unit_chain`. Each cluster's chain of edits starts from the body as fetched
   (`unit.rs:1055`, posted at 1412). When one cluster strikes a gap of a map and
   a later one adds a pointer to it, the second chain's body has the gap again,
   and the server, which compares references, stores it: an applied strike is
   undone. `materialize.rs:532` says two ops on a map chain rather than
   overwrite each other; they do within a cluster.

Seen while modelling and not made a run:

- Calls behind an accepted finish in the same batch still execute
  (`engine.rs:5415`) and nothing is looked at again, where `engine.rs:16` has a
  `Done` that always carries proof. `DoneEvidence` states what does hold.
- Only a *successful* `edit_file` or `bash` clears the green latch
  (`engine.rs:5785`), so a nudge may claim green gates that a failed command
  broke. `GateLatchFresh` states what does hold.
- `classify_change` compares porcelain text and HEAD. Edits to a file that was
  already modified change neither, and a true `done` is refused as unchanged.
- A fresh-context resume keeps the `recovery_facts` of the attempt before
  (`engine.rs:6395`).
- `ralph.rs` 61–63, 140–143 and 313–317 describe a do-over as a pass that left
  the tree dirty; the code (933) counts every pass that is neither green nor a
  backend error. `TerminalExplained` recounts what the code counts.
- Comments of `compact_history` (3359, 3459) describe a results message that does
  not follow an assistant's, pushed by the crash-tail reconciliation.
  `reconcile_crash_tail` appends one only right behind an assistant message.
- A unit writes one body file per map, so when two clusters edit a map both gate
  reports are about the body written last; step (12) says every composed body goes
  through the gate (`somnus/src/unit.rs:1094`).
- Two clusters may strike the same gap line of a map. If the second request times
  out, the re-read body equals the posted one and it is reported applied
  (`somnus/src/unit.rs:1632`), whether the KB stored it or refused it.
- Behind a skipped `PointerSuperseded` the next body of the chain still carries
  the pointer that was skipped, and is refused in turn.
- The comments of step (9) (`unit.rs:984`) still call an empty op set a decline, and those of
  `apply_map_ops` (1194) describe a latch that has been removed; the code is as
  the comments next to it say.

## Not modelled

- Model backends: encoding and decoding over HTTP. The loop sees a turn or a
  `BackendError`, and `RunLoop` allows every one.
- Prompts, transcript, task files, time formatting, evaluation and mined tasks,
  release scripts, the Harbor adapter: text, parsing and batch scoring without
  shared state.
- Path confinement, paging and rendering of the built-in tools: sequential, and
  covered by their unit tests.
- Telemetry and counters nothing decides on.
- The MCP client: it keeps a session id and a list of tools, and what is worth
  saying of a call that was sent twice is the server's, which is not here.
- The start of the knowledge base client: fetching and parsing the prevention
  document, matching cues against targets. It decides what is enabled, once.
- Of somnus, the model's JSON and the text of prompts, bodies and reports.
- State pruning: best effort, with every error tolerated; nothing in the
  repository reads what it removes.

## Plan

What is left, by how much depends on it:

1. `Durability` with the compacted history in its snapshots, so that a resume
   between two walks is checked and not argued.
2. `McpSession`, if the repository gains a server whose side can be told.
