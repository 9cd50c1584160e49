--------------------------- MODULE MCReceiptGateway ---------------------------
(* Bounds for TLC.  At most all requests leave a receipt, so nothing else is   *)
(* unbounded.                                                                  *)
EXTENDS ReceiptGateway, TLC

CONSTANTS m1, m2

BothModels == {m1, m2}
AllRoutes  == {"chat", "embed", "ollamaChat", "ollamaEmbed", "other"}

\* A backend of two models, one of them mapped; and one of a single model.
MapGateway    == [mapped |-> {m1}, single |-> m1, catalogue |-> {m1, m2}, firstLoaded |-> m2]
SingleGateway == [mapped |-> {}, single |-> m1, catalogue |-> {}, firstLoaded |-> m1]
BothGateways  == {MapGateway, SingleGateway}
OnlyMap       == {MapGateway}

RequestSymmetry == Permutations(Requests)
===============================================================================
