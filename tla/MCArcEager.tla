----------------------------- MODULE MCArcEager -----------------------------
(* Transition tables for model checking ArcEager. *)
EXTENDS ArcEager

Transition(move, label) == [move |-> move, label |-> label]

(* The shape of a trained table: SHIFT and REDUCE unlabelled, every label for *)
(* LEFT and RIGHT, one BREAK.                                                 *)
TrainedTable ==
  {Transition("SHIFT", NoLabel), Transition("REDUCE", NoLabel), Transition("BREAK", Root)}
    \union {Transition(m, l) : m \in {"LEFT", "RIGHT"}, l \in Labels \ {Root}}

(* A table in which a state can be left without a valid transition. *)
NoReduceTable == TrainedTable \ {Transition("REDUCE", NoLabel)}

MCTables == {TrainedTable, NoReduceTable}
=============================================================================
