---------------------------- MODULE MCSomnusUnit -----------------------------
(* A project with a map of somnus's and one of a human's; answers that share *)
(* a map between clusters, mint, decline, edit beside a gap, and that no      *)
(* body can come of; a cluster of nothing.                                   *)
EXTENDS SomnusUnit, TLC

CONSTANTS e0, e1, e2, g, own, theirs

MCOldBody == [m \in {own, theirs} |-> [refs |-> {e0}, gaps |-> {g}, detail |-> TRUE]]
MCPockets == <<{e1, e2}, {e2}>>
MCLedgers == {{}, {{e2}}}

cluster(label, members, owner) == [label |-> label, members |-> members, owner |-> owner]
MCClusterAnswers ==
  { <<cluster("one", <<e1, e2>>, None), cluster("one", <<e2>>, own)>>,
    <<cluster("one", <<e1>>, own), cluster("one", <<e2>>, own), cluster("one", <<e0>>, own)>>,
    <<cluster("one", <<e1, e2>>, None), cluster("one", <<e2, e1>>, None)>>,
    <<cluster("union", <<e1, e2>>, None)>>, <<cluster("one", <<>>, own)>>,
    Unparsable }

add(m, e) == [op |-> "add_pointer", map |-> m, entry |-> e]
strike(m, e) == [op |-> "strike_gap", map |-> m, gap |-> g, entry |-> e]
create == [op |-> "create_map", refs |-> {e1, e2}, gaps |-> {}]
gap == [op |-> "propose_gap"]
MCOpAnswers ==
  { <<create>>, <<create, add(own, e2)>>, <<add(own, e1), add(own, e2)>>,
    <<strike(own, e0), add(own, e1)>>, <<strike(own, e0)>>, <<strike(own, e2)>>,
    <<add(own, e2)>>,
    <<gap>>, <<gap, add(own, e1)>>, <<gap, [op |-> "no_change"]>>, <<>>, Unparsable }
=============================================================================
