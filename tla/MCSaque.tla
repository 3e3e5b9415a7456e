------------------------------ MODULE MCSaque ------------------------------
(* Three requests of one value: two with one reference between them, one    *)
(* with none.                                                               *)
EXTENDS SaqueSaida, TLC

CONSTANTS p1, p2, p3, w1, w2, h1

MCRef == [p \in Pedidos |-> IF p = p3 THEN "sem" ELSE "pedido-7"]
MCValor == [p \in Pedidos |-> 2]
MCTarifa == [p \in Pedidos |-> 1]
MCSimetria == Permutations(Workers)
MCPedidosIguais == Permutations({p1, p2})
=============================================================================
