---------------------------- MODULE DigestBuffer -----------------------------
(***************************************************************************)
(* The turn-digest buffer of personal_kb/digest.rs as operators on its      *)
(* value: groups of items are appended to the open digest, a digest that    *)
(* would grow past the limits is closed first, and a lone group that is too *)
(* large is cut down.  An item is its kind, the call or correction it is    *)
(* about and its size.  Every operation gives the buffer after it and the   *)
(* digests it closed, in order.                                             *)
(***************************************************************************)
EXTENDS Integers, Sequences, SequencesExt, Places

CONSTANTS
  MaxItems,       \* MAX_TURN_ITEMS
  MaxBytes,       \* MAX_TURN_BODY_BYTES less the fixed part of the envelope
  MaxResolvedBy,  \* MAX_RESOLVED_BY
  PromptSize,     \* of the task, in the envelope of digest 0 only
  FinalSize       \* of the final message

(* The prompt and the final message are cut (MAX_TURN_PROMPT_CHARS) to what  *)
(* a digest without items has room for.                                      *)
ASSUME BufferAssumption ==
  /\ MaxItems \in Nat /\ MaxBytes \in Nat /\ MaxResolvedBy \in Nat
  /\ PromptSize \in Nat /\ FinalSize \in Nat /\ PromptSize + FinalSize <= MaxBytes

Empty == [items |-> <<>>, next |-> 0, truncated |-> FALSE, open |-> <<>>,
          message |-> FALSE, finished |-> FALSE]

Sum(items) == FoldSeq(LAMBDA i, total : i.size + total, 0, items)

BodyLen(items, index, final) ==
  (IF index = 0 THEN PromptSize ELSE 0) + (IF final THEN FinalSize ELSE 0)
    + (IF items = <<>> THEN 0 ELSE Sum(items) + Len(items) - 1)

Fits(items, index, final) ==
  Len(items) <= MaxItems /\ BodyLen(items, index, final) <= MaxBytes

(* The last of the calls since the correction was opened.                    *)
ResolvedBy(c) ==
  SubSeq(c.pending, IF Len(c.pending) > MaxResolvedBy
                    THEN Len(c.pending) - MaxResolvedBy + 1 ELSE 1, Len(c.pending))

CorrectionItem(c, resolved) ==
  [kind |-> "correction", id |-> c.id, size |-> c.size, resolved |-> resolved,
   by |-> IF resolved THEN ResolvedBy(c) ELSE <<>>]

CorrectionItems(open, resolved) ==
  [i \in 1..Len(open) |-> CorrectionItem(open[i], resolved)]

Protected(open) == UNION {ToSet(ResolvedBy(c)) : c \in ToSet(open)}
Named(items) == UNION {ToSet(i.by) : i \in {j \in ToSet(items) : j.kind = "correction"}}

-----------------------------------------------------------------------------
(* Sender rule c: texts go first, then the calls and results nobody names,   *)
(* then the other results; the earliest of a kind first, one at a time until *)
(* the rest fits.  Corrections and the calls they name stay.                 *)
(* Mutant: a call is kept for the corrections of its own digest only.        *)
DroppableIfUnnamed(items, open) ==
  LET named == Named(items)
      text == {k \in DOMAIN items : items[k].kind = "text"}
      tool == {k \in DOMAIN items : /\ items[k].kind \in {"tool_call", "tool_result"}
                                    /\ items[k].id \notin named}
      result == {k \in DOMAIN items : items[k].kind = "tool_result"} \ tool
      places == [k \in 1..Len(items) |-> k]
  IN Where(places, text) \o Where(places, tool) \o Where(places, result)

Droppable(items, open) ==
  LET kept == Named(items) \cup Protected(open)
      text == {k \in DOMAIN items : items[k].kind = "text"}
      tool == {k \in DOMAIN items : /\ items[k].kind \in {"tool_call", "tool_result"}
                                    /\ items[k].id \notin kept}
      result == {k \in DOMAIN items : items[k].kind = "tool_result"} \ tool
      places == [k \in 1..Len(items) |-> k]
  IN Where(places, text) \o Where(places, tool) \o Where(places, result)

Without(items, dropped) == Where(items, DOMAIN items \ dropped)

(* What is left after the fewest drops that do, or nothing does.             *)
FitItems(items, open, index, final) ==
  LET order == Droppable(items, open)
      left(n) == Without(items, {order[j] : j \in 1..n})
      enough == {n \in 1..Len(order) : Fits(left(n), index, final)}
  IN IF enough = {} THEN [fit |-> FALSE, items |-> items]
     ELSE [fit |-> TRUE, items |-> left(CHOOSE n \in enough : \A m \in enough : n <= m)]

-----------------------------------------------------------------------------
Closed(b, fit, final) ==
  [fit |-> fit, index |-> b.next, items |-> b.items, final |-> final,
   truncated |-> b.truncated]

(* close and discard: either way the index is used up.                       *)
Close(b, fit, final) ==
  [buf |-> [b EXCEPT !.items = <<>>, !.next = @ + 1, !.truncated = FALSE],
   out |-> <<Closed(b, fit, final)>>]

(* The group is fitted to the digest only where the digest was empty.        *)
FitLone(b, final) ==
  LET fitted == FitItems(b.items, b.open, b.next, final)
  IN IF Fits(b.items, b.next, final) THEN [buf |-> b, out |-> <<>>]
     ELSE IF fitted.fit
     THEN [buf |-> [b EXCEPT !.items = fitted.items, !.truncated = TRUE], out |-> <<>>]
     ELSE Close(b, FALSE, FALSE)

(* Mutant: a full digest is closed after the group went in.                  *)
AppendThenClose(b, group, final) ==
  LET grown == [b EXCEPT !.items = @ \o group]
  IN IF group = <<>> THEN [buf |-> b, out |-> <<>>]
     ELSE IF b.items = <<>> THEN FitLone(grown, final)
     ELSE IF Fits(grown.items, b.next, final) THEN [buf |-> grown, out |-> <<>>]
     ELSE Close(grown, TRUE, FALSE)

Append1(b, group, final) ==
  LET closed == Close(b, TRUE, FALSE)
      onto(c) == [c EXCEPT !.items = @ \o group]
      alone == FitLone(onto(closed.buf), final)
  IN IF group = <<>> THEN [buf |-> b, out |-> <<>>]
     ELSE IF b.items = <<>> THEN FitLone(onto(b), final)
     ELSE IF Fits(b.items \o group, b.next, final) THEN [buf |-> onto(b), out |-> <<>>]
     ELSE [buf |-> alone.buf, out |-> closed.out \o alone.out]

(* One call: its items when the KB knows the tool, and behind them, when it  *)
(* settles what was open, the corrections; otherwise the open ones wait for  *)
(* it to be named.                                                           *)
(* Mutant: a call the KB has no name for is waited for as well.              *)
WaitForAny(open, id, posted) ==
  [i \in 1..Len(open) |-> [open[i] EXCEPT !.pending = Append(@, id)]]

WaitFor(open, id, posted) ==
  IF posted THEN [i \in 1..Len(open) |-> [open[i] EXCEPT !.pending = Append(@, id)]]
            ELSE open

Call(b, id, posted, size, resolving) ==
  LET items == IF posted
               THEN << [kind |-> "tool_call", id |-> id, size |-> 1],
                       [kind |-> "tool_result", id |-> id, size |-> size] >>
               ELSE <<>>
  IN IF b.finished THEN [buf |-> b, out |-> <<>>]
     ELSE IF resolving
     THEN Append1([b EXCEPT !.open = <<>>], items \o CorrectionItems(b.open, TRUE), FALSE)
     ELSE Append1([b EXCEPT !.open = WaitFor(@, id, posted)], items, FALSE)

(* A turn closes the digest when its period has passed, then adds its texts; *)
(* what it said, unlike what it reasoned, may become the final message.      *)
Turn(b, sizes, spoke, passed) ==
  LET closed == IF passed /\ b.items # <<>> THEN Close(b, TRUE, FALSE)
                ELSE [buf |-> b, out |-> <<>>]
      texts == [i \in 1..Len(sizes) |-> [kind |-> "text", id |-> 0, size |-> sizes[i]]]
      added == Append1([closed.buf EXCEPT !.message = @ \/ spoke], texts, FALSE)
  IN IF b.finished THEN [buf |-> b, out |-> <<>>]
     ELSE [buf |-> added.buf, out |-> closed.out \o added.out]

(* A second correction by the same trigger is the first one's.               *)
Folds(b, trigger) == \E c \in ToSet(b.open) : c.trigger = trigger

Correction(b, trigger, id, size) ==
  IF b.finished \/ Folds(b, trigger) THEN b
  ELSE [b EXCEPT !.open = Append(@, [trigger |-> trigger, id |-> id, size |-> size,
                                     pending |-> <<>>])]

(* What append left open is closed, unless the group had to be discarded.    *)
Sealed(before, added, final) ==
  LET refused == \E d \in ToSet(added.out) : ~d.fit
      last == IF refused THEN [buf |-> added.buf, out |-> <<>>]
                         ELSE Close(added.buf, TRUE, final)
  IN [buf |-> last.buf, out |-> before \o added.out \o last.out]

(* The last digest carries what is still open and the final message; it is   *)
(* sent even when it is empty.                                               *)
Finish(b) ==
  LET unresolved == CorrectionItems(b.open, FALSE)
      over == [b EXCEPT !.finished = TRUE, !.open = <<>>]
      first == IF b.items # <<>> /\ ~Fits(b.items \o unresolved, b.next, b.message)
               THEN Close(over, TRUE, FALSE) ELSE [buf |-> over, out |-> <<>>]
  IN IF b.finished THEN [buf |-> b, out |-> <<>>]
     ELSE Sealed(first.out, Append1(first.buf, unresolved, b.message), b.message)
=============================================================================
