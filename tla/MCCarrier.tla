------------------------------ MODULE MCCarrier ------------------------------
(* Carrier with 4-bit registers, 2-bit bytes and tables of total 4. *)
EXTENDS Carrier

Steep  == <<0, 1, 4>>
Three  == <<0, 1, 3, 4>>
TwoTables   == {Steep, Three}
=============================================================================
