----------------------------- MODULE MCResearch -----------------------------
(* Two research nodes, two pages of which one redirects to the other.      *)
EXTENDS Research

CONSTANTS n1, n2, short, full, internal

MCOrder == <<n1, n2>>
MCUrls == {short, full}
MCFinal == [u \in MCUrls |-> full]
MCPast == {Unseen, [run |-> "earlier", disposition |-> "fetched"],
           [run |-> "later", disposition |-> "empty"]}

From(url, confirmed) ==
    [claim |-> "news", source_url |-> url, confirmed |-> confirmed, unplayed |-> FALSE]
Result(unplayed) ==
    [claim |-> "result", source_url |-> internal, confirmed |-> TRUE, unplayed |-> unplayed]
Draft(evidence, indices) ==
    [evidence |-> evidence, evidence_indices |-> indices, sound |-> TRUE]

(* Evidence before, between and after what a tidying removes. *)
MCDrafts ==
    { Draft(<<From(full, TRUE)>>, {1}),
      Draft(<<From(short, TRUE), From(full, FALSE)>>, {2}),
      Draft(<<Result(TRUE), From(full, TRUE)>>, {1, 2}),
      Draft(<<Result(TRUE), From(short, TRUE), Result(FALSE)>>, {3}),
      Draft(<<Result(FALSE)>>, {2}) }
=============================================================================
