-------------------------------- MODULE Biluo --------------------------------
(***************************************************************************)
(* The greedy named-entity recognizer: the NER fields of the parse state,   *)
(* the BILUO transitions (BiluoIsValid, BiluoApply) and the decode loop and *)
(* write-back of NER.Apply.  Every transition pushes and pops the front of   *)
(* the buffer, so stack and rebuffer stay empty and bI is the position.      *)
(*                                                                         *)
(* As in ArcEager, any valid transition of the table may win.               *)
(***************************************************************************)
EXTENDS Integers, Sequences, FiniteSets

CONSTANTS N,         \* number of tokens of the document
          Labels,    \* entity labels
          NoLabel,   \* the empty label, whose hash is 0
          Tables     \* the transition tables a model may bring

Tokens == 0..(N - 1)
Moves == {"MISSING", "BEGIN", "IN", "LAST", "UNIT", "OUT"}

ASSUME NAssumption == N \in Nat \ {0}
ASSUME LabelAssumption == NoLabel \notin Labels
ASSUME TablesAssumption ==
  Tables \subseteq SUBSET [move : Moves, label : Labels \union {NoLabel}]

(* The codes of Token.EntIOB. *)
Missing == 0
Inside  == 1
Outside == 2
Begins  == 3

VARIABLES bI,            \* the token the next transition consumes
          sentStarts,    \* the sentence starts the parser left in the document
          entOpen,       \* first token of the open entity, or -1
          entOpenLabel,  \* its label, or NoLabel
          entIOB,        \* entIOB[t]: the code of token t
          entities,      \* the recorded spans, oldest first
          pc,            \* "decode" | "done"
          doc,           \* doc[t]: the EntIOB and EntType fields of a token
          table          \* the transition table the model brought (never changes)

vars == <<bI, sentStarts, entOpen, entOpenLabel, entIOB, entities, pc, doc, table>>

Span == [start : Tokens, end : 1..N, label : Labels]

-----------------------------------------------------------------------------
BufferLength == N - bI
IsFinal == BufferLength = 0
EntityIsOpen == entOpen >= 0
B1StartsSentence == bI + 1 \in sentStarts

(* BEGIN and IN need a next token, in the same sentence. *)
MutNextTokenAnySentence == BufferLength >= 2
MutNextTokenUnchecked == ~B1StartsSentence
NextTokenInSentence == BufferLength >= 2 /\ ~B1StartsSentence

(* IN and LAST carry on the open entity, under its own label. *)
Continues(label) == EntityIsOpen /\ label # NoLabel /\ label = entOpenLabel

IsValid(tr) ==
  CASE tr.move = "BEGIN" -> ~EntityIsOpen /\ tr.label # NoLabel /\ NextTokenInSentence
    [] tr.move = "IN"    -> Continues(tr.label) /\ NextTokenInSentence
    [] tr.move = "LAST"  -> Continues(tr.label)
    [] tr.move = "UNIT"  -> ~EntityIsOpen /\ BufferLength # 0 /\ tr.label # NoLabel
    [] tr.move = "OUT"   -> ~EntityIsOpen /\ BufferLength # 0
    [] OTHER             -> FALSE

Init ==
  /\ bI = 0
  /\ sentStarts \in {s \in SUBSET Tokens : 0 \in s}
  /\ entOpen = -1
  /\ entOpenLabel = NoLabel
  /\ entIOB = [t \in Tokens |-> Missing]
  /\ entities = <<>>
  /\ pc = "decode"
  /\ doc = [t \in Tokens |-> [iob |-> Missing, type |-> NoLabel]]
  /\ table \in Tables

Takes(move, label) ==
  /\ pc = "decode"
  /\ ~IsFinal
  /\ [move |-> move, label |-> label] \in table
  /\ IsValid([move |-> move, label |-> label])
  /\ bI' = bI + 1
  /\ UNCHANGED <<sentStarts, pc, doc, table>>

SetEntIOB(code) == entIOB' = [entIOB EXCEPT ![bI] = code]

MutRecordEntityStaysOpen(start, label) ==
  /\ entities' = Append(entities, [start |-> start, end |-> bI + 1, label |-> label])
  /\ UNCHANGED <<entOpen, entOpenLabel>>
MutRecordEntityOneMore(start, label) ==
  /\ entities' = Append(entities, [start |-> start, end |-> bI + 2, label |-> label])
  /\ entOpen' = -1
  /\ entOpenLabel' = NoLabel
RecordEntity(start, label) ==
  /\ entities' = Append(entities, [start |-> start, end |-> bI + 1, label |-> label])
  /\ entOpen' = -1
  /\ entOpenLabel' = NoLabel

Begin(label) ==
  /\ Takes("BEGIN", label)
  /\ SetEntIOB(Begins)
  /\ entOpen' = bI
  /\ entOpenLabel' = label
  /\ UNCHANGED entities

In(label) ==
  /\ Takes("IN", label)
  /\ SetEntIOB(Inside)
  /\ UNCHANGED <<entOpen, entOpenLabel, entities>>

MutLastUnwritten(label) ==
  /\ Takes("LAST", label)
  /\ RecordEntity(entOpen, entOpenLabel)
  /\ UNCHANGED entIOB
Last(label) ==
  /\ Takes("LAST", label)
  /\ SetEntIOB(Inside)
  /\ RecordEntity(entOpen, entOpenLabel)

Unit(label) ==
  /\ Takes("UNIT", label)
  /\ SetEntIOB(Begins)
  /\ RecordEntity(bI, label)

Out(label) ==
  /\ Takes("OUT", label)
  /\ SetEntIOB(Outside)
  /\ UNCHANGED <<entOpen, entOpenLabel, entities>>

(* No transition of the table is valid: tokens without a code are Outside. *)
MutForceFinalInPlace ==
  /\ pc = "decode"
  /\ ~IsFinal
  /\ \A tr \in table : ~IsValid(tr)
  /\ entIOB' = [t \in Tokens |-> IF entIOB[t] = Missing THEN Outside ELSE entIOB[t]]
  /\ UNCHANGED <<bI, sentStarts, entOpen, entOpenLabel, entities, pc, doc, table>>
ForceFinal ==
  /\ pc = "decode"
  /\ ~IsFinal
  /\ \A tr \in table : ~IsValid(tr)
  /\ entIOB' = [t \in Tokens |-> IF entIOB[t] = Missing THEN Outside ELSE entIOB[t]]
  /\ bI' = N
  /\ UNCHANGED <<sentStarts, entOpen, entOpenLabel, entities, pc, doc, table>>

(* The entity written last to a token, among those that cover it. *)
EntTypeOf(t) ==
  LET over == {k \in 1..Len(entities) : entities[k].start <= t /\ t < entities[k].end}
  IN IF over = {} THEN NoLabel
     ELSE entities[CHOOSE k \in over : \A j \in over : j <= k].label

WriteBack ==
  /\ pc = "decode"
  /\ IsFinal
  /\ pc' = "done"
  /\ doc' = [t \in Tokens |-> [iob |-> entIOB[t], type |-> EntTypeOf(t)]]
  /\ UNCHANGED <<bI, sentStarts, entOpen, entOpenLabel, entIOB, entities, table>>

Step ==
  \/ \E label \in Labels \union {NoLabel} :
       Begin(label) \/ In(label) \/ Last(label) \/ Unit(label) \/ Out(label)
  \/ ForceFinal

Next == Step \/ WriteBack

Spec == Init /\ [][Next]_vars
FairSpec == Spec /\ WF_vars(Next)

(* The entities a reader of the document finds (workflows/w18_entities.go): a *)
(* Begins token, the Inside tokens after it, and the type of the first one.   *)
IsStreamEntity(s, e) ==
  /\ s < e
  /\ doc[s].iob = Begins
  /\ \A t \in (s + 1)..(e - 1) : doc[t].iob = Inside
  /\ e < N => doc[e].iob # Inside

StreamEntities ==
  UNION {{[start |-> s, end |-> e, label |-> doc[s].type] :
            e \in {x \in 1..N : IsStreamEntity(s, x)}} : s \in Tokens}
-----------------------------------------------------------------------------
(***************************************************************************)
(* Properties                                                              *)
(***************************************************************************)

(* Positions and spans stay within the document (NER.Apply reads B(0)+1 and  *)
(* records i+1 without a bounds test).                                       *)
TypeOK ==
  /\ bI \in 0..N
  /\ sentStarts \subseteq Tokens
  /\ entOpen \in Tokens \union {-1}
  /\ entOpenLabel \in Labels \union {NoLabel}
  /\ entIOB \in [Tokens -> {Missing, Inside, Outside, Begins}]
  /\ entities \in Seq(Span)
  /\ pc \in {"decode", "done"}
  /\ doc \in [Tokens -> [iob : {Missing, Inside, Outside, Begins},
                         type : Labels \union {NoLabel}]]
  /\ table \in Tables

(* An open entity always has room to close: the next token exists, belongs   *)
(* to the entity's sentence, and every token since the start is coded as     *)
(* part of it.  BEGIN and IN look one token ahead to keep this true.         *)
OpenEntityFits ==
  pc = "decode" /\ EntityIsOpen /\ ~IsFinal =>
    /\ entOpenLabel \in Labels
    /\ entOpen < bI
    /\ \A s \in sentStarts : ~(entOpen < s /\ s <= bI)
    /\ entIOB[entOpen] = Begins
    /\ \A t \in (entOpen + 1)..(bI - 1) : entIOB[t] = Inside

(* Some tables can leave every entity they can begin, and any other token.   *)
CanLeave ==
  /\ \A tr \in table : tr.move = "BEGIN" => [tr EXCEPT !.move = "LAST"] \in table
  /\ \E tr \in table : tr.move = "OUT"

(* With such a table the decode never gets stuck and no entity is dropped     *)
(* half-built, wherever the document and its sentences end.                  *)
NoEntityDropped ==
  CanLeave =>
    /\ pc = "decode" /\ ~IsFinal => \E tr \in table : IsValid(tr)
    /\ IsFinal => ~EntityIsOpen

(* Reading the codes of the document back gives exactly the recorded         *)
(* entities with their labels: the two write-backs (EntIOB from the codes,    *)
(* EntType from the spans) never disagree, unless the forced end cut an       *)
(* entity short, whose codes then stay without a type.  Either way no token   *)
(* is left without a code.                                                    *)
StreamGivesEntities ==
  pc = "done" =>
    /\ \A t \in Tokens : doc[t].iob # Missing
    /\ {e \in StreamEntities : e.label # NoLabel} = {entities[k] : k \in 1..Len(entities)}
    /\ CanLeave => \A e \in StreamEntities : e.label # NoLabel

(* Every decode ends and is written back.                                    *)
Terminates == <>(pc = "done")

(* The recognizer marks its entities the way EntityChunks allows.            *)
Chunks == INSTANCE EntityChunks
            WITH starts <- sentStarts, spans <- entities, settled <- pc = "done"
ImplementsChunks == Chunks!Spec
=============================================================================
