------------------------- MODULE MCProjectAdministration -------------------------
(* Two requests at a time: of provisioning, or of mapping and activating.  *)
EXTENDS ProjectAdministration, TLC
CONSTANTS r1, r2, pk1, mk1, mk2, o1, o2, d1, d2
MCMappings == {[role |-> "PC", scopes |-> {o1}], [role |-> "PM", scopes |-> {"ALL"}]}
MCScenarios ==
    {[kinds |-> {"CREATE", "RETRY"}, ops |-> 1, txs |-> 0, lapses |-> TRUE],
     [kinds |-> {"PUT", "DELETE"}, ops |-> 2, txs |-> 2, lapses |-> TRUE],
     [kinds |-> {"PUT", "DELETE"}, ops |-> 3, txs |-> 3, lapses |-> FALSE],
     [kinds |-> {"PUT", "DELETE", "ACTIVATE"}, ops |-> 2, txs |-> 2,
      lapses |-> FALSE]}
Symmetric == Permutations(Requests)
                 \union Permutations(MapKeys) \union Permutations(Details)
================================================================================
