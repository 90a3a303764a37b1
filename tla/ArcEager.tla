------------------------------ MODULE ArcEager ------------------------------
(***************************************************************************)
(* The greedy arc-eager dependency parser: the parse state of one document *)
(* (parserinternals.State), the five transitions with their validity tests  *)
(* (parserinternals.IsValid, parserinternals.Apply) and the decode loop     *)
(* and write-back of Parser.Apply.                                          *)
(*                                                                         *)
(* The scorer ranks the transition classes, and the loop takes the best     *)
(* VALID one: which class wins is data, so any valid transition of the      *)
(* table may be taken.  The labels of the table are a small set; one of     *)
(* them may be Subtok, the only label the validity tests look at.           *)
(***************************************************************************)
EXTENDS Forests, Sequences, FiniteSets

CONSTANTS N,         \* number of tokens of the document
          Labels,    \* the dependency labels of the table
          Subtok,    \* the "subtok" label
          NoLabel,   \* the empty label
          Root,      \* the "ROOT" label
          Tables     \* the transition tables a model may bring

Tokens == 0..(N - 1)

Moves == {"SHIFT", "REDUCE", "LEFT", "RIGHT", "BREAK"}

(* A table is a set of moves with their labels; LoadMoves keeps its order, *)
(* which only the scores refer to.                                          *)
Transitions == [move : Moves, label : Labels \union {NoLabel}]

ASSUME NAssumption == N \in Nat \ {0}
ASSUME LabelAssumption == NoLabel \notin Labels
ASSUME TablesAssumption == Tables \subseteq SUBSET Transitions

VARIABLES stack,       \* indices being built on, top last
          rebuffer,    \* unshifted tokens, the front of the buffer last
          bI,          \* first token never taken from the linear buffer
          heads,       \* heads[t], or NoHead
          leftArcs,    \* leftArcs[h]: arcs to children before h, oldest first
          rightArcs,   \* rightArcs[h]: arcs to children after h, oldest first
          unshiftable, \* tokens SHIFT refuses
          sentStarts,  \* tokens that start a sentence
          pc,          \* "decode" | "done"
          doc,         \* doc[t]: the Head, Dep and SentStart fields of a token
          table        \* the transition table the model brought (never changes)

vars == <<stack, rebuffer, bI, heads, leftArcs, rightArcs, unshiftable,
          sentStarts, pc, doc, table>>

Arc == [head : Tokens, child : Tokens, label : Labels \union {NoLabel}]
Hole == [head |-> -1, child |-> -1, label |-> NoLabel]

-----------------------------------------------------------------------------
(* Reading the state. *)

S(i) == IF 0 <= i /\ i < Len(stack) THEN stack[Len(stack) - i] ELSE -1

B(i) ==
  CASE i < 0 -> -1
    [] 0 <= i /\ i < Len(rebuffer) -> rebuffer[Len(rebuffer) - i]
    [] OTHER -> LET b == bI + (i - Len(rebuffer)) IN IF b >= N THEN -1 ELSE b

StackDepth == Len(stack)
BufferLength == (N - bI) + Len(rebuffer)
IsFinal == StackDepth = 0 /\ BufferLength = 0

HasHead(t) == t \in Tokens /\ heads[t] >= 0
IsSentStart(t) == t \in sentStarts
CannotSentStart(t) == FALSE

(* nth_child: the idx-th most recent arc of a list, holes skipped. *)
MutNthChildForwards(arcs, idx) ==
  LET kept == {i \in 1..Len(arcs) : arcs[i].child >= 0}
      nth  == {i \in kept : Cardinality({j \in kept : j <= i}) = idx}
  IN IF nth = {} THEN -1 ELSE arcs[CHOOSE i \in nth : TRUE].child
NthChild(arcs, idx) ==
  LET kept == {i \in 1..Len(arcs) : arcs[i].child >= 0}
      nth  == {i \in kept : Cardinality({j \in kept : j >= i}) = idx}
  IN IF nth = {} THEN -1 ELSE arcs[CHOOSE i \in nth : TRUE].child

L(h, idx) == IF h < 0 THEN -1 ELSE NthChild(leftArcs[h], idx)
R(h, idx) == IF h < 0 THEN -1 ELSE NthChild(rightArcs[h], idx)

(* The eight token indices the scorer reads, -1 for a missing one. *)
ContextTokens8 ==
  <<B(0), B(1), S(0), S(1), S(2), L(B(0), 1), L(S(0), 1), R(S(0), 1)>>

-----------------------------------------------------------------------------
(* Which transitions are valid. *)

MutShiftValidEmptyBuffer == StackDepth = 0 \/ (~IsSentStart(B(0)) /\ B(0) \notin unshiftable)
MutShiftValidAgain ==
  \/ StackDepth = 0 /\ BufferLength # 0
  \/ StackDepth # 0 /\ BufferLength >= 2 /\ ~IsSentStart(B(0))
ShiftValid ==
  \/ /\ StackDepth = 0
     /\ BufferLength # 0
  \/ /\ StackDepth # 0
     /\ BufferLength >= 2
     /\ ~IsSentStart(B(0))
     /\ B(0) \notin unshiftable

ReduceValid ==
  /\ StackDepth # 0
  /\ \/ BufferLength = 0
     \/ ~(StackDepth = 1 /\ CannotSentStart(B(0)))

(* LEFT and RIGHT share one test. *)
MutArcValidAtSentStart(label) ==
  /\ StackDepth # 0
  /\ BufferLength # 0
  /\ label = Subtok => S(0) = B(0) - 1
ArcValid(label) ==
  /\ StackDepth # 0
  /\ BufferLength # 0
  /\ ~IsSentStart(B(0))
  /\ label = Subtok => S(0) = B(0) - 1

BreakValid ==
  /\ BufferLength >= 2
  /\ B(1) = B(0) + 1
  /\ ~IsSentStart(B(1))
  /\ ~CannotSentStart(B(1))

IsValid(tr) ==
  CASE tr.move = "SHIFT"  -> ShiftValid
    [] tr.move = "REDUCE" -> ReduceValid
    [] tr.move = "LEFT"   -> ArcValid(tr.label)
    [] tr.move = "RIGHT"  -> ArcValid(tr.label)
    [] tr.move = "BREAK"  -> BreakValid

-----------------------------------------------------------------------------
(* What a transition does to the state. *)

ButLast(s) == SubSeq(s, 1, Len(s) - 1)

(* The front of the buffer goes onto the stack. *)
Push ==
  \/ /\ rebuffer # <<>>
     /\ stack' = Append(stack, rebuffer[Len(rebuffer)])
     /\ rebuffer' = ButLast(rebuffer)
     /\ bI' = bI
  \/ /\ rebuffer = <<>>
     /\ stack' = Append(stack, bI)
     /\ bI' = bI + 1
     /\ rebuffer' = rebuffer

Pop ==
  /\ stack' = ButLast(stack)
  /\ UNCHANGED <<rebuffer, bI>>

(* The top of the stack goes back to the front of the buffer, marked. *)
MutUnshiftKeepsStack ==
  /\ unshiftable' = unshiftable \union {S(0)}
  /\ rebuffer' = Append(rebuffer, S(0))
  /\ UNCHANGED <<stack, bI>>
Unshift ==
  /\ unshiftable' = unshiftable \union {S(0)}
  /\ rebuffer' = Append(rebuffer, S(0))
  /\ stack' = ButLast(stack)
  /\ bI' = bI

(***************************************************************************)
(* delArc: the newest arc from h to c leaves its list; a tail arc is cut   *)
(* off, any other one is overwritten by a hole.                             *)
(***************************************************************************)
MutDelArcNothing(arcs, h, c) == arcs
DelArc(arcs, h, c) ==
  LET at == {i \in 1..Len(arcs[h]) : arcs[h][i].head = h /\ arcs[h][i].child = c}
      last == CHOOSE i \in at : \A j \in at : j <= i
  IN IF at = {} THEN arcs
     ELSE IF last = Len(arcs[h]) THEN [arcs EXCEPT ![h] = ButLast(@)]
     ELSE [arcs EXCEPT ![h][last] = Hole]

(* An arc h -> c; the arc c already has is removed first. *)
AddArc(h, c, label) ==
  LET old   == heads[c]
      left  == IF HasHead(c) /\ old > c THEN DelArc(leftArcs, old, c) ELSE leftArcs
      right == IF HasHead(c) /\ ~(old > c) THEN DelArc(rightArcs, old, c) ELSE rightArcs
      arc   == [head |-> h, child |-> c, label |-> label]
  IN /\ leftArcs'  = IF h > c THEN [left EXCEPT ![h] = Append(@, arc)] ELSE left
     /\ rightArcs' = IF h > c THEN right ELSE [right EXCEPT ![h] = Append(@, arc)]
     /\ heads' = [heads EXCEPT ![c] = h]

-----------------------------------------------------------------------------
(* The decode loop: one action per transition. *)

Init ==
  /\ stack = <<>>
  /\ rebuffer = <<>>
  /\ bI = 0
  /\ heads = [t \in Tokens |-> NoHead]
  /\ leftArcs = [t \in Tokens |-> <<>>]
  /\ rightArcs = [t \in Tokens |-> <<>>]
  /\ unshiftable = {}
  /\ sentStarts = {0}
  /\ pc = "decode"
  /\ doc = [t \in Tokens |-> [head |-> 0, dep |-> NoLabel, sentStart |-> -1]]
  /\ table \in Tables

(* The loop takes a transition of the table that is valid. *)
Takes(move, label) ==
  /\ pc = "decode"
  /\ ~IsFinal
  /\ [move |-> move, label |-> label] \in table
  /\ IsValid([move |-> move, label |-> label])

Shift(label) ==
  /\ Takes("SHIFT", label)
  /\ Push
  /\ UNCHANGED <<heads, leftArcs, rightArcs, unshiftable, sentStarts, pc, doc, table>>

MutReduceAlwaysPops(label) ==
  /\ Takes("REDUCE", label)
  /\ Pop
  /\ UNCHANGED <<unshiftable, heads, leftArcs, rightArcs, sentStarts, pc, doc, table>>
Reduce(label) ==
  /\ Takes("REDUCE", label)
  /\ \/ /\ HasHead(S(0)) \/ StackDepth = 1
        /\ Pop
        /\ UNCHANGED unshiftable
     \/ /\ ~(HasHead(S(0)) \/ StackDepth = 1)
        /\ Unshift
  /\ UNCHANGED <<heads, leftArcs, rightArcs, sentStarts, pc, doc, table>>

MutLeftKeepsStack(label) ==
  /\ Takes("LEFT", label)
  /\ AddArc(B(0), S(0), label)
  /\ unshiftable' = unshiftable \ {B(0)}
  /\ UNCHANGED <<stack, rebuffer, bI, sentStarts, pc, doc, table>>
Left(label) ==
  /\ Takes("LEFT", label)
  /\ AddArc(B(0), S(0), label)
  /\ unshiftable' = unshiftable \ {B(0)}
  /\ Pop
  /\ UNCHANGED <<sentStarts, pc, doc, table>>

Right(label) ==
  /\ Takes("RIGHT", label)
  /\ AddArc(S(0), B(0), label)
  /\ Push
  /\ UNCHANGED <<unshiftable, sentStarts, pc, doc, table>>

Break(label) ==
  /\ Takes("BREAK", label)
  /\ sentStarts' = sentStarts \union {B(1)}
  /\ UNCHANGED <<stack, rebuffer, bI, heads, leftArcs, rightArcs, unshiftable, pc, doc, table>>

(* No transition of the table is valid: drain the state and stop. *)
MutForceFinalKeepsStack ==
  /\ pc = "decode"
  /\ ~IsFinal
  /\ \A tr \in table : ~IsValid(tr)
  /\ bI' = N
  /\ rebuffer' = <<>>
  /\ UNCHANGED <<stack, heads, leftArcs, rightArcs, unshiftable, sentStarts, pc, doc, table>>
ForceFinal ==
  /\ pc = "decode"
  /\ ~IsFinal
  /\ \A tr \in table : ~IsValid(tr)
  /\ stack' = <<>>
  /\ bI' = N
  /\ rebuffer' = <<>>
  /\ UNCHANGED <<heads, leftArcs, rightArcs, unshiftable, sentStarts, pc, doc, table>>

(***************************************************************************)
(* The write-back.  Arcs() lists the left buckets, then the right ones,    *)
(* each in the order of a map iteration, and the last arc written to a     *)
(* child wins: the winners are the arcs that some order puts last.          *)
(***************************************************************************)
IsNewestTo(list, i, c) ==
  /\ list[i].child = c
  /\ \A j \in (i + 1)..Len(list) : list[j].child # c

NewestTo(arcs, c) ==
  UNION {{arcs[h][i] : i \in {j \in 1..Len(arcs[h]) : IsNewestTo(arcs[h], j, c)}}
           : h \in Tokens}

Winners(c) ==
  CASE NewestTo(rightArcs, c) # {} -> NewestTo(rightArcs, c)
    [] NewestTo(rightArcs, c) = {} /\ NewestTo(leftArcs, c) # {} -> NewestTo(leftArcs, c)
    [] OTHER -> {[head |-> c, child |-> c, label |-> Root]}

WriteBack ==
  /\ pc = "decode"
  /\ IsFinal
  /\ pc' = "done"
  /\ LET torn == {t \in Tokens : Cardinality(Winners(t)) > 1} IN
       \E pick \in [torn -> UNION {Winners(t) : t \in torn}] :
         LET won(t) == IF t \in torn THEN pick[t] ELSE CHOOSE a \in Winners(t) : TRUE IN
         /\ \A t \in torn : pick[t] \in Winners(t)
         /\ doc' = [t \in Tokens |->
                      [head |-> won(t).head, dep |-> won(t).label,
                       sentStart |-> IF IsSentStart(t) THEN 1 ELSE 0]]
  /\ UNCHANGED <<stack, rebuffer, bI, heads, leftArcs, rightArcs, unshiftable, sentStarts, table>>

Step ==
  \/ \E label \in Labels \union {NoLabel} :
       Shift(label) \/ Reduce(label) \/ Left(label) \/ Right(label) \/ Break(label)
  \/ ForceFinal

Next == Step \/ WriteBack

Spec == Init /\ [][Next]_vars

(* The loop runs in the caller's goroutine: it is never suspended for good. *)
FairSpec == Spec /\ WF_vars(Next)
-----------------------------------------------------------------------------
(***************************************************************************)
(* Properties                                                              *)
(***************************************************************************)

(* Every token on the stack or in the buffer, leftmost first: the stack     *)
(* bottom up, the unshifted tokens, then what was never read.               *)
Live == {stack[i] : i \in 1..Len(stack)}
          \union {rebuffer[i] : i \in 1..Len(rebuffer)}
          \union (bI..(N - 1))

(* The state stays within the document: no transition reads or takes a token *)
(* that is not there (State.Push reads bI without a bounds test).            *)
TypeOK ==
  /\ stack \in Seq(Tokens)
  /\ rebuffer \in Seq(Tokens)
  /\ bI \in 0..N
  /\ heads \in [Tokens -> Tokens \union {NoHead}]
  /\ leftArcs \in [Tokens -> Seq(Arc \union {Hole})]
  /\ rightArcs \in [Tokens -> Seq(Arc \union {Hole})]
  /\ unshiftable \subseteq Tokens
  /\ sentStarts \subseteq Tokens
  /\ pc \in {"decode", "done"}
  /\ DOMAIN doc = Tokens
  /\ table \in Tables

(* No token is in two places and the order of the document is kept: the      *)
(* stack, the unshifted tokens and the unread rest are one increasing run,   *)
(* although SHIFT, RIGHT and the unshifting REDUCE move tokens both ways.    *)
LiveInOrder ==
  /\ \A i, j \in 1..Len(stack) : i < j => stack[i] < stack[j]
  /\ \A i, j \in 1..Len(rebuffer) : i < j => rebuffer[j] < rebuffer[i]
  /\ \A i \in 1..Len(stack) : \A j \in 1..Len(rebuffer) : stack[i] < rebuffer[j]
  /\ \A i \in 1..Len(stack) : stack[i] < bI
  /\ \A j \in 1..Len(rebuffer) : rebuffer[j] < bI

(* No sequence of moves builds a cycle of heads, although LEFT replaces a    *)
(* head that RIGHT already set.                                              *)
NoCycle == Acyclic(heads)

(* A token of the stack has no head or the head just below it; a token of    *)
(* the buffer has none.  This is why no arc closes a cycle.                  *)
LiveHeads ==
  /\ \A i \in 1..Len(stack) :
       \/ heads[stack[i]] = NoHead
       \/ i > 1 /\ heads[stack[i]] = stack[i - 1]
  /\ \A j \in 1..Len(rebuffer) : heads[rebuffer[j]] = NoHead
  /\ \A t \in bI..(N - 1) : heads[t] = NoHead

(* Arcs never cross, never pass over a root and never connect two sentences, *)
(* although LEFT attaches a second time and BREAK may split between tokens   *)
(* that were already read, linked and unshifted.                             *)
ArcsNested == Projective(heads) /\ WithinSentences(heads, sentStarts)

(* What the document gets is the parse: whatever order the arc maps are      *)
(* iterated in, a token is written the head of the state, itself if none,    *)
(* and no token keeps an unknown sentence mark.                              *)
WriteBackIsParse ==
  pc = "done" => /\ [t \in Tokens |-> doc[t].head] = SelfHeaded(heads)
                 /\ \A t \in Tokens : doc[t].sentStart \in {0, 1}
                 /\ {t \in Tokens : doc[t].sentStart = 1} = sentStarts
                 /\ \A t \in Tokens : heads[t] = NoHead => doc[t].dep = Root

(* The arc lists say what the heads say.  The arc that delArc removes is     *)
(* always the newest of its list, so no hole is left for L, R and Arcs to    *)
(* skip; and the features name what the model was trained on, the leftmost   *)
(* left child and the rightmost right child, although the lists are kept in  *)
(* the order of attachment.                                                  *)
ListsSayHeads ==
  \A h \in Tokens :
    LET lefts  == {c \in Tokens : heads[c] = h /\ c < h}
        rights == {c \in Tokens : heads[c] = h /\ c > h}
    IN /\ \A i \in 1..Len(leftArcs[h]) : leftArcs[h][i] # Hole
       /\ \A i \in 1..Len(rightArcs[h]) : rightArcs[h][i] # Hole
       /\ IF lefts = {} THEN L(h, 1) = -1
          ELSE L(h, 1) \in lefts /\ \A c \in lefts : L(h, 1) <= c
       /\ IF rights = {} THEN R(h, 1) = -1
          ELSE R(h, 1) \in rights /\ \A c \in rights : c <= R(h, 1)

(***************************************************************************)
(* Every pass of the loop uses up some of a budget of at most 7N - 1, so a  *)
(* document of N tokens is parsed in fewer than 7N moves: an unshifted      *)
(* token is not shifted and unshifted again for ever, though LEFT makes it  *)
(* shiftable again.                                                         *)
(***************************************************************************)
Budget == 3 * Cardinality(Live)
          + 2 * Cardinality(Live \ unshiftable)
          + Cardinality(Tokens \ sentStarts)
          + BufferLength

BudgetDecreases == [][pc = "decode" /\ pc' = "decode" => Budget' < Budget /\ Budget' >= 0]_vars

(* Every parse ends and is written back. *)
Terminates == <>(pc = "done")

(* The parser builds its forest the way DependencyForest allows: one head or *)
(* one sentence start at a time, a good forest after each, nothing after     *)
(* the write-back.                                                           *)
Forest == INSTANCE DependencyForest
            WITH head <- heads, starts <- sentStarts, settled <- pc = "done"
ImplementsForest == Forest!Spec
=============================================================================
