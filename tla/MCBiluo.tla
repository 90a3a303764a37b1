------------------------------- MODULE MCBiluo -------------------------------
(* Transition tables for model checking Biluo. *)
EXTENDS Biluo

CONSTANT PER

Transition(move, label) == [move |-> move, label |-> label]

(* The shape of a trained table: every entity label for BEGIN, IN, LAST and   *)
(* UNIT, the empty label for UNIT, OUT and MISSING.                           *)
TrainedTable ==
  {Transition(m, l) : m \in {"BEGIN", "IN", "LAST", "UNIT"}, l \in Labels}
    \union {Transition(m, NoLabel) : m \in {"MISSING", "UNIT", "OUT"}}

(* A table that can begin a PER entity and never leave it. *)
NoLastTable == TrainedTable \ {Transition("LAST", PER)}

MCTables == {TrainedTable, NoLastTable}
=============================================================================
