------------------------------- MODULE MCHpack -------------------------------
(***************************************************************************)
(* Hpack for TLC: one static field, and fields that share a name, cost     *)
(* different amounts and outgrow the table.                                *)
(***************************************************************************)
EXTENDS Hpack

Field(name, value, cost) == [name |-> name, value |-> value, cost |-> cost]
StaticTable == <<Field("a", "0", 1)>>
SentFields == {Field("a", "0", 1), Field("a", "1", 1), Field("b", "1", 2),
               Field("b", "2", 1), Field("c", "1", 4)}
===============================================================================
