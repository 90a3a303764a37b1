------------------------------- MODULE Nonproj -------------------------------
(***************************************************************************)
(* Deprojectivize: after the parse, every token whose label is decorated   *)
(* ("label||headLabel") is moved below its head, to the first token that a  *)
(* breadth-first search from the head finds with label headLabel            *)
(* (findNewHead).                                                           *)
(*                                                                         *)
(* The search keeps its next level in the memory of the level it is reading *)
(* (next := queue[:0]): what is appended to next overwrites queue from its   *)
(* first place on, whether or not that place was read.  Beyond the capacity *)
(* of queue, append moves next elsewhere, but by then every place of queue   *)
(* is overwritten, so the capacity does not matter.                          *)
(***************************************************************************)
EXTENDS Forests, Sequences, FiniteSets, SequencesExt

CONSTANTS N,         \* number of tokens
          Labels,    \* dependency labels
          NoLabel,   \* no second half: the label is not decorated
          Root,      \* the label of a token without head
          Parses     \* the parses to start from: [head, dep] records

Tokens == 0..(N - 1)

(* A label, decorated when lifted is not NoLabel. *)
Dep == [label : Labels, lifted : Labels \union {NoLabel}]

(* What Parser.Apply writes: a projective forest, its roots labelled Root. *)
IsParse(p) ==
  /\ p.head \in [Tokens -> Tokens]
  /\ p.dep \in [Tokens -> Dep]
  /\ Acyclic(Unrooted(p.head)) /\ Projective(Unrooted(p.head))
  /\ \A t \in Tokens : p.head[t] = t => p.dep[t] = [label |-> Root, lifted |-> NoLabel]

ASSUME NAssumption == N \in Nat \ {0}
ASSUME LabelAssumption == Root \in Labels /\ NoLabel \notin Labels
ASSUME ParsesAssumption == \A p \in Parses : IsParse(p)

VARIABLES head,    \* head[t], t itself for a root
          dep,     \* dep[t]
          tok,     \* the token the outer loop is at
          pc,      \* "scan" | "search"
          queue,   \* the level being read
          pos,     \* the place of queue to read next
          next     \* the level below, as far as it is known

vars == <<head, dep, tok, pc, queue, pos, next>>

Decorated(t) == dep[t].lifted # NoLabel

(* The members of S in token order, as a loop over the tokens collects them. *)
InOrder(S) ==
  LET upTo[k \in 0..N] ==
        IF k = 0 THEN <<>>
        ELSE IF k - 1 \in S THEN Append(upTo[k - 1], k - 1) ELSE upTo[k - 1]
  IN upTo[N]

(* children[h], in token order. *)
ChildSet(h) == {t \in Tokens : head[t] = h /\ t # h}
Children(h) == InOrder(ChildSet(h))

(* The loop over the tokens of the parse p begins. *)
Start(p) ==
  /\ head = p.head /\ dep = p.dep
  /\ tok = 0
  /\ pc = "scan"
  /\ queue = <<>> /\ pos = 1 /\ next = <<>>

Init == \E p \in Parses : Start(p)

(* A token without decoration is left as it is. *)
Skip ==
  /\ pc = "scan" /\ tok < N
  /\ ~Decorated(tok)
  /\ tok' = tok + 1
  /\ UNCHANGED <<head, dep, pc, queue, pos, next>>

Search ==
  /\ pc = "scan" /\ tok < N
  /\ Decorated(tok)
  /\ pc' = "search"
  /\ queue' = <<head[tok]>> /\ pos' = 1 /\ next' = <<>>
  /\ UNCHANGED <<head, dep, tok>>

(* The token is attached to h and its label loses the decoration. *)
MutReattachKeepsLabel(h) ==
  /\ head' = [head EXCEPT ![tok] = h]
  /\ tok' = tok + 1
  /\ pc' = "scan"
  /\ queue' = <<>> /\ pos' = 1 /\ next' = <<>>
  /\ UNCHANGED dep
Reattach(h) ==
  /\ head' = [head EXCEPT ![tok] = h]
  /\ dep' = [dep EXCEPT ![tok].lifted = NoLabel]
  /\ tok' = tok + 1
  /\ pc' = "scan"
  /\ queue' = <<>> /\ pos' = 1 /\ next' = <<>>

(* The children the search looks at: not the token that is to be moved. *)
MutSearchableAll(h) == Children(h)
Searchable(h) == InOrder(ChildSet(h) \ {tok})

IsTarget(c) == dep[c] = [label |-> dep[tok].lifted, lifted |-> NoLabel]

(* One token of the level: a child that is the target ends the search, else *)
(* all children go to the next level.                                       *)
Find ==
  /\ pc = "search" /\ pos <= Len(queue)
  /\ \E i \in 1..Len(Searchable(queue[pos])) :
       LET kids == Searchable(queue[pos]) IN
       /\ IsTarget(kids[i])
       /\ \A j \in 1..(i - 1) : ~IsTarget(kids[j])
       /\ Reattach(kids[i])

Visit ==
  /\ pc = "search" /\ pos <= Len(queue)
  /\ \A c \in ToSet(Searchable(queue[pos])) : ~IsTarget(c)
  /\ next' = next \o Searchable(queue[pos])
  /\ queue' = [p \in 1..Len(queue) |-> IF p <= Len(next') THEN next'[p] ELSE queue[p]]
  /\ pos' = pos + 1
  /\ UNCHANGED <<head, dep, tok, pc>>

Descend ==
  /\ pc = "search" /\ pos > Len(queue)
  /\ next # <<>>
  /\ queue' = next /\ pos' = 1 /\ next' = <<>>
  /\ UNCHANGED <<head, dep, tok, pc>>

(* Nothing matches: the token stays with its head. *)
GiveUp ==
  /\ pc = "search" /\ pos > Len(queue)
  /\ next = <<>>
  /\ Reattach(head[tok])

Next == Skip \/ Search \/ Find \/ Visit \/ Descend \/ GiveUp

Spec == Init /\ [][Next]_vars
FairSpec == Spec /\ WF_vars(Next)
-----------------------------------------------------------------------------
(***************************************************************************)
(* Properties                                                              *)
(***************************************************************************)

(* The tokens whose head chain passes through h, h excluded: those in every  *)
(* set that has h and, with a token, its children.                            *)
HasChildren(X) == \A c \in Tokens : head[c] \in X => c \in X
Below(h) ==
  {c \in Tokens \ {h} : \A X \in SUBSET Tokens : h \in X /\ HasChildren(X) => c \in X}

(* Moving tokens one after the other, each search in the tree the previous    *)
(* moves left, never builds a cycle of heads.                                 *)
StaysForest == Acyclic(Unrooted(head))

(* A token only moves down: its new head is below the old one and not below   *)
(* the token itself, so it keeps its root and with it its sentence.           *)
MovesDown ==
  [][\A t \in Tokens : head'[t] # head[t] =>
        head'[t] \in Below(head[t]) \ (Below(t) \union {t})]_vars

(* Every search ends, although the level it reads changes under it, and when  *)
(* the loop is over no label is decorated.                                    *)
Terminates == <>(tok = N /\ \A t \in Tokens : ~Decorated(t))

(* findNewHead's comment: it "BFS-searches ... for the first descendant        *)
(* (skipping i itself) whose Dep is headLabel. Returns the descendant's index  *)
(* or the current head's index when nothing matches".  So it gives up only     *)
(* when no token it should search has the label.                               *)
GivesUpOnlyIfAbsent ==
  pc = "search" /\ pos > Len(queue) /\ next = <<>> =>
    \A c \in Below(head[tok]) \ (Below(tok) \union {tok}) : ~IsTarget(c)
=============================================================================
