--------------------------- MODULE MCMasterImports ---------------------------
EXTENDS MasterImports, TLC

\* Two product workbooks that disagree about a SKU, and a price list.
Row(s, m) == [sku |-> s, model |-> m]
MCProducts ==
    {[master |-> "PRODUCT_MASTER", wef |-> 1, rows |-> <<Row("s1", "m1")>>],
     [master |-> "PRODUCT_MASTER", wef |-> 2,
      rows |-> <<Row("s2", "m1"), Row("s1", "m2")>>]}
MCPrices ==
    {[master |-> "PRICE_LIST", wef |-> 1, rows |-> <<Row("s1", "-")>>]}
MCBooks == MCProducts \union MCPrices

Symmetry == Permutations(Requests) \union Permutations(Ids)
                \union Permutations(Keys)
=============================================================================
