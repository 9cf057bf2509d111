------------------------------- MODULE MapOps --------------------------------
(***************************************************************************)
(* The pure part of a somnus unit: which clusters are fit to become maps    *)
(* (admission.rs), which op sets a rung-2 answer may carry (ops.rs), and    *)
(* the bodies and the per-edit chains code composes of them                 *)
(* (materialize.rs).  A body is what the KB reads out of it: the entries it *)
(* points at, its gap lines, and whether it has a detail section at all.    *)
(***************************************************************************)
EXTENDS Places, SequencesExt

CONSTANTS
  Entries,     \* the ids of the entries
  Gaps,        \* the texts a gap line may have
  OldMaps,     \* the maps the project has before the unit starts
  Owned,       \* those somnus is the contributor or the last editor of
  MinMembers,  \* MIN_CLUSTER_MEMBERS_FOR_NEW_MAP
  None,        \* no map, no edit
  Unparsable   \* an answer that does not parse

ASSUME MapOpsAssumption ==
  /\ Owned \subseteq OldMaps
  /\ MinMembers \in Nat
  /\ IsFiniteSet(Entries)

Body == [refs : SUBSET Entries, gaps : SUBSET Gaps, detail : BOOLEAN]
Cluster == [label : {"one", "union"}, members : Seq(Entries), owner : OldMaps \cup {None}]

(* The closed vocabulary; a create carries its pointers, never none.         *)
AddOp == [op : {"add_pointer"}, map : OldMaps, entry : Entries]
StrikeOp == [op : {"strike_gap"}, map : OldMaps, gap : Gaps, entry : Entries]
CreateOp == [op : {"create_map"}, refs : SUBSET Entries \ {{}}, gaps : SUBSET Gaps]
DeclineOp == [op : {"propose_gap", "no_change"}]
Op == AddOp \cup StrikeOp \cup CreateOp \cup DeclineOp

-----------------------------------------------------------------------------
(* Admission.                                                                *)

Unfit(c) == Len(c.members) < MinMembers \/ c.label = "union"

(* In how many places of the clusters that are fit in themselves e stands.   *)
Memberships(e, clusters) ==
  LET fit == {k \in DOMAIN clusters : ~Unfit(clusters[k])}
      places == UNION {{k} \X DOMAIN clusters[k].members : k \in fit}
  IN  Cardinality({p \in places : clusters[p[1]].members[p[2]] = e})

HasNativeMajority(c, clusters) ==
  LET native == {i \in DOMAIN c.members : Memberships(c.members[i], clusters) <= 1}
  IN  2 * Cardinality(native) > Len(c.members)

Admitted(c, clusters) ==
  c.owner # None \/ (~Unfit(c) /\ HasNativeMajority(c, clusters))

-----------------------------------------------------------------------------
(* One cluster's op set.                                                     *)

Has(ops, kind) == \E i \in DOMAIN ops : ops[i].op = kind

ApplyVerdict(admitted, ops) ==
  IF admitted THEN ops ELSE Where(ops, {i \in DOMAIN ops : ops[i].op # "create_map"})

(* One cluster is one map; an owned one mints none, and only an owned one    *)
(* has a body a gap could be a line of.                                      *)
ValidOps(c, ops) ==
  /\ c.owner # None => ~Has(ops, "create_map")
  /\ c.owner = None => ~Has(ops, "propose_gap")
  /\ Cardinality({i \in DOMAIN ops : ops[i].op = "create_map"}) <= 1

(* Mutant: a gap among other ops is one as well.                             *)
DeclineOnAnyGap(ops) == Has(ops, "propose_gap")

(* Only a set of gaps the model itself proposed is a decline.                *)
IsDecline(ops) == ops # <<>> /\ \A i \in DOMAIN ops : ops[i].op = "propose_gap"

-----------------------------------------------------------------------------
(* Rung 3.  The fresh map of the cluster at index k is known by k alone.     *)

Fresh(k) == <<"somnus-new", k>>

CreatedBody(o) == [refs |-> o.refs, gaps |-> o.gaps, detail |-> TRUE]

IsEdit(o) == o.op \in {"add_pointer", "strike_gap"}

CanEdit(body, o) ==
  IF o.op = "add_pointer" THEN body.detail ELSE o.gap \in body.gaps

Edited(body, o) ==
  IF o.op = "add_pointer" THEN [body EXCEPT !.refs = @ \cup {o.entry}]
                          ELSE [body EXCEPT !.gaps = @ \ {o.gap}]

(* The edits of map m, each with the body after it, or none at all when one  *)
(* of them cannot be made: a partly applied op set is not a body.            *)
Chain(m, base, ops) ==
  LET edits == Where(ops, {i \in DOMAIN ops : IsEdit(ops[i]) /\ ops[i].map = m})
      body[i \in 0..Len(edits)] == IF i = 0 THEN base ELSE Edited(body[i - 1], edits[i])
  IN  IF \A i \in DOMAIN edits : CanEdit(body[i - 1], edits[i])
      THEN [i \in DOMAIN edits |-> [edit |-> edits[i], after |-> body[i]]]
      ELSE <<>>

(* The edits that are the first of a loop-owned map.                         *)
Touches(ops) ==
  LET edits == {i \in DOMAIN ops : IsEdit(ops[i]) /\ ops[i].map \in Owned}
  IN  {i \in edits : \A j \in edits : j < i => ops[j].map # ops[i].map}

(* A body for a map minted, and one for each old map with a chain of edits,  *)
(* in the order the ops first touch them.                                    *)
(* Every cluster edits the body the unit fetched, not another cluster's.     *)
Composed(k, ops, input) ==
  LET chain == [m \in Owned |-> Chain(m, input[m], ops)]
      creates == Where(ops, {i \in DOMAIN ops : ops[i].op = "create_map"})
      edited == Where(ops, {i \in Touches(ops) : chain[ops[i].map] # <<>>})
  IN  [i \in DOMAIN creates |-> [map |-> Fresh(k), body |-> CreatedBody(creates[i])]]
      \o [i \in DOMAIN edited |->
            [map |-> edited[i].map, body |-> Last(chain[edited[i].map]).after]]
=============================================================================
