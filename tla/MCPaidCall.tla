----------------------------- MODULE MCPaidCall -----------------------------
(* A small instance of a paid call for TLC: both providers were found at   *)
(* the price of 1, and the first may change anything meanwhile.            *)
EXTENDS PaidCall

BothQuoted   == <<1, 1>>
FirstChanges == <<{"price", "campaign", "key"}, {}>>
=============================================================================
