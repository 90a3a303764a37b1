------------------------------ MODULE DocViews ------------------------------
(***************************************************************************)
(* What a caller reads from a parsed document: children and subtrees from   *)
(* an index the document builds on first use and never again, sentences     *)
(* from the start marks, noun chunks from the subtrees.                     *)
(*                                                                         *)
(* Composes with Nonproj: the heads the index is built from are the ones    *)
(* deprojectivization leaves.                                               *)
(***************************************************************************)
EXTENDS Nonproj

CONSTANTS NpDeps,      \* nounChunkDepLabels
          Conj,        \* the label of a conjunct
          NominalSets  \* sets of tokens tagged NOUN, PROPN or PRON

ASSUME NpDepsAssumption == NpDeps \subseteq Labels /\ Root \in NpDeps /\ Conj \in Labels \ NpDeps
ASSUME NominalAssumption == \A nominal \in NominalSets : nominal \subseteq Tokens

(* The parser attaches no token across a sentence start. *)
ASSUME StartsAssumption ==
  \A p \in Parses : /\ p.starts \subseteq Tokens
                    /\ WithinSentences(Unrooted(p.head), p.starts)

VARIABLES sentStarts,  \* tokens with SentStart = 1, as the parser left them
          index        \* [childStart, childIdx], or NoIndex until it is built

NoIndex == [childStart |-> <<>>, childIdx |-> <<>>]
docVars == <<head, dep, tok, pc, queue, pos, next, sentStarts, index>>

DocInit ==
  /\ \E p \in Parses : Start(p) /\ sentStarts = p.starts
  /\ index = NoIndex

(* Deprojectivize lists the children anew for every search, it does not use *)
(* the index.                                                               *)
Deproject ==
  /\ Next
  /\ UNCHANGED <<sentStarts, index>>

(* Compressed rows: the children of t are childIdx from childStart[t] on, up *)
(* to childStart[t + 1].                                                     *)
RowStart(h) == Cardinality({t \in Tokens : head[t] # t /\ head[t] < h})
Rows == [childStart |-> [h \in 0..N |-> RowStart(h)],
         childIdx   |-> FlattenSeq([h \in 1..N |-> Children(h - 1)])]

(* The first view of a document, once Parser.Apply has returned it. *)
MutEnsureEarly ==
  /\ pc = "scan"
  /\ index = NoIndex
  /\ index' = Rows
  /\ UNCHANGED <<head, dep, tok, pc, queue, pos, next, sentStarts>>
EnsureChildIdx ==
  /\ tok = N
  /\ index = NoIndex
  /\ index' = Rows
  /\ UNCHANGED <<head, dep, tok, pc, queue, pos, next, sentStarts>>

DocNext == Deproject \/ EnsureChildIdx

(* Both run in the goroutine that called the pipeline. *)
DocSpec == DocInit /\ [][DocNext]_docVars
FairDocSpec == DocSpec /\ WF_docVars(DocNext)
-----------------------------------------------------------------------------
ChildrenOf(t) ==
  SubSeq(index.childIdx, index.childStart[t] + 1, index.childStart[t + 1])

(* Level by level along the index; seen drops what was reached before. *)
SubtreeOf(t) ==
  LET seen[k \in 0..N] ==
        IF k = 0 THEN {t}
        ELSE LET reached == seen[k - 1]
             IN reached \union UNION {ToSet(ChildrenOf(c)) : c \in reached}
  IN InOrder(seen[N])

Span(first, end) == [start |-> first, end |-> end]

(* A sentence starts at the first token, marked or not, and at every mark. *)
Sents ==
  LET starts == InOrder(sentStarts \union {0})
  IN [i \in 1..Len(starts) |->
        Span(starts[i], IF i = Len(starts) THEN N ELSE starts[i + 1])]

(* The head a chain of conjuncts leads to, followed to the left only. *)
FirstConjunct(t) ==
  LET climb[h \in Tokens] ==
        IF dep[h].label = Conj /\ head[h] < h THEN climb[head[h]] ELSE h
  IN climb[head[t]]

IsNp(t) ==
  \/ dep[t].label \in NpDeps
  \/ dep[t].label = Conj /\ dep[FirstConjunct(t)].label \in NpDeps

(* One pass from the left: a nominal whose subtree begins after the noun of *)
(* the last chunk gives a chunk from there up to itself.                     *)
MutChunkFromEdge(edge, prevEnd) == TRUE
ChunkFromEdge(edge, prevEnd) == edge > prevEnd

NounChunks(nominal) ==
  LET after[k \in 0..N] ==
        IF k = 0 THEN [prevEnd |-> -1, out |-> <<>>]
        ELSE LET t == k - 1
                 acc == after[k - 1]
             IN IF t \in nominal /\ IsNp(t) /\ ChunkFromEdge(SubtreeOf(t)[1], acc.prevEnd)
                THEN [prevEnd |-> t, out |-> Append(acc.out, Span(SubtreeOf(t)[1], t + 1))]
                ELSE acc
  IN after[N].out
-----------------------------------------------------------------------------
(***************************************************************************)
(* Properties                                                              *)
(***************************************************************************)

(* doc.go:26 trusts that no head is written after the index was built: as    *)
(* long as it stands, every token's row names the tokens headed by it, in    *)
(* text order, and its subtree is what the head chains say.                  *)
ViewsFollowHeads ==
  index # NoIndex => \A t \in Tokens :
    /\ ChildrenOf(t) = Children(t)
    /\ ToSet(SubtreeOf(t)) = {t} \union Below(t)

(* Deprojectivization moves tokens after the sentences were drawn, and may   *)
(* leave arcs that cross: whichever tokens are nominals, noun chunks still    *)
(* come in text order, share no token, and lie inside one sentence each, and  *)
(* a nominal that qualifies is left out only for a token its subtree shares   *)
(* with, or has before the noun of, an earlier chunk.                         *)
ChunksFitSentences ==
  index # NoIndex => \A nominal \in NominalSets :
    LET chunks == NounChunks(nominal) IN
    /\ \A i \in 1..Len(chunks) :
         /\ chunks[i].start < chunks[i].end
         /\ \E s \in ToSet(Sents) : s.start <= chunks[i].start /\ chunks[i].end <= s.end
         /\ i < Len(chunks) => chunks[i].end <= chunks[i + 1].start
    /\ \A t \in nominal : IsNp(t) =>
         \E i \in 1..Len(chunks) : SubtreeOf(t)[1] < chunks[i].end /\ chunks[i].end <= t + 1
=============================================================================
