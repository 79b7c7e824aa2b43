-------------------------- MODULE MCBusinessRecords --------------------------
EXTENDS BusinessRecords

\* No line, one, and two in either order: the orders that can deadlock.
MCPayloads == {<<>>, <<1>>, <<1, 2>>, <<2, 1>>}
=============================================================================
