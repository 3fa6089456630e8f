---------------------------- MODULE MCPurchases ----------------------------
(* Two customers, of whom a pass has room for one or for both.              *)
EXTENDS Purchases

MCCustomers == 1 .. 2
MCOffsets == {0, 4}
MCSettings == {<<1, 0, TRUE>>, <<2, 1, FALSE>>}
=============================================================================
