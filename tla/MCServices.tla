---- MODULE MCServices ----
(* Small instances of all services.                                        *)
EXTENDS Services

PmEntries == [port : PmPort, target : PmTarget]
Decoding == [v \in CfgValue |-> IF v = "a+b" THEN "a b" ELSE v]
TypedNumbers == -9 .. 9
====
