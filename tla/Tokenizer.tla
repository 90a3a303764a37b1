------------------------------ MODULE Tokenizer ------------------------------
(***************************************************************************)
(* The rule-based tokenizer: the walk over words and white space            *)
(* (Tokenize), the cutting of one chunk (tokenizeChunk), the second pass    *)
(* over special cases (applySpecialCases) and the document (ToDoc).         *)
(*                                                                         *)
(* A text is a sequence of runes and a token the runes of one stretch of    *)
(* it.  The middle of a chunk, the part no affix was stripped from, is the  *)
(* stretch from lo to hi.  The regular expressions are data: Matches(re, s) *)
(* lists the successive matches of a compiled pattern in a string.          *)
(***************************************************************************)
EXTENDS Integers, Sequences, FiniteSets, SequencesExt, FiniteSetsExt

CONSTANTS Runes,          \* the runes of texts and rules
          Texts,          \* the texts to tokenize
          Space,          \* the rune ' '
          Blanks,         \* the other runes isSpaceRune accepts
          Inputs,         \* the RulesInput values a language may bring
          NoPattern,      \* an empty TokenMatch or URLMatch
          Matches(_, _)   \* the matches of a compiled pattern: [index, length]

SpaceRunes == {Space} \union Blanks
NoNorm == <<>>

Orths(pieces) == [p \in DOMAIN pieces |-> pieces[p].orth]

(* NewRules: every suffix pattern is anchored to the end of the string. *)
NewRules(in) ==
  [in EXCEPT !.suffixes = [k \in DOMAIN in.suffixes |-> [in.suffixes[k] EXCEPT !.atEnd = TRUE]]]

Compiled == {NewRules(in) : in \in Inputs}

ASSUME TextsAssumption == Texts \subseteq Seq(Runes) /\ SpaceRunes \subseteq Runes

(* A match lies inside its string. *)
ASSUME MatchesAssumption ==
  LET Strings == UNION {{SubSeq(t, a, b) : a \in 1..Len(t), b \in 0..Len(t)} : t \in Texts}
  IN  \A r \in Compiled, s \in Strings :
        \A re \in Range(r.prefixes) \union Range(r.suffixes) \union Range(r.infixes)
                    \union ({r.tokenMatch, r.urlMatch} \ {NoPattern}) :
          /\ Matches(re, s) \in Seq([index : Nat, length : Nat])
          /\ \A m \in Range(Matches(re, s)) : m.index + m.length <= Len(s)

(* A special case has pieces, none of them empty, that spell its key, as in  *)
(* the English table.                                                        *)
ASSUME SpecialsAssumption ==
  \A r \in Compiled : \A key \in DOMAIN r.specials :
    /\ r.specials[key] \in Seq([orth : Seq(Runes) \ {<<>>}, norm : Seq(Runes)])
    /\ r.specials[key] # <<>>
    /\ FlattenSeq(Orths(r.specials[key])) = key

VARIABLES rules,      \* the compiled rules (never change)
          text,       \* the text (never changes)
          pc,         \* "text" | "affixes" | "infixes" | "specials" | "doc" | "done"
          i,          \* next rune of the walk, or next token of the second pass
          out,        \* tokens emitted by the first pass
          lo, hi,     \* the middle of the chunk: runes lo to hi - 1
          prefixes,   \* tokens stripped from its left, outermost first
          suffixes,   \* tokens stripped from its right, outermost first
          spans,      \* infix matches not yet looked at
          pos,        \* first rune of the middle no infix split has emitted
          result,     \* tokens emitted by the second pass
          lexemes,    \* strings the vocabulary has lexemes for
          doc         \* tokens of the document

chunkVars == <<lo, hi, prefixes, suffixes, spans, pos>>
vars == <<rules, text, pc, i, out, chunkVars, result, lexemes, doc>>

-----------------------------------------------------------------------------
(* Rules *)

(* Length of the longest prefix, 0 when there is none. *)
FindPrefix(s) ==
  Max({0} \union {Matches(re, s)[1].length :
                    re \in {r \in Range(rules.prefixes) :
                              Matches(r, s) # <<>> /\ Matches(r, s)[1].index = 0}})

(* Length of the longest suffix: that of the match that starts first. *)
FindSuffix(s) ==
  LET found == UNION {Range(Matches(re, s)) : re \in Range(rules.suffixes)}
      ends  == {m \in found : m.index + m.length = Len(s)}
  IN  Len(s) - Min({Len(s)} \union {m.index : m \in ends})

(* Every match of every infix pattern.  Two patterns may match one span, so  *)
(* a span carries its pattern.                                               *)
FindInfixes(s) ==
  UNION {{[start |-> m.index, end |-> m.index + m.length, re |-> k] :
            m \in Range(Matches(rules.infixes[k], s))} : k \in DOMAIN rules.infixes}

IsWhole(re, s) ==
  /\ re # NoPattern
  /\ Matches(re, s) # <<>>
  /\ Matches(re, s)[1] = [index |-> 0, length |-> Len(s)]

IsTokenMatch(s) == IsWhole(rules.tokenMatch, s)
IsURLMatch(s) == IsWhole(rules.urlMatch, s)
IsSpecial(s) == s \in DOMAIN rules.specials

-----------------------------------------------------------------------------
(* Texts and tokens.  Offsets count from 0. *)
Slice(a, b) == SubSeq(text, a + 1, b)
Piece(a, b) == [orth |-> Slice(a, b), idx |-> a, ws |-> FALSE, norm |-> NoNorm]
EndOf(t) == t.idx + Len(t.orth)

IsSpaceAt(a) == text[a + 1] \in SpaceRunes

(* The end of the run of white space, or of the word, that starts at a. *)
RunEnd(a) ==
  Min({b \in (a + 1)..Len(text) : b = Len(text) \/ (IsSpaceAt(b) # IsSpaceAt(a))})

MutSpecialTokensOneNorm(key, offset) ==
  LET pieces == rules.specials[key]
      Before(p) == Len(FlattenSeq(SubSeq(Orths(pieces), 1, p - 1)))
  IN  [p \in DOMAIN pieces |->
         [orth |-> pieces[p].orth, idx |-> offset + Before(p),
          ws |-> FALSE, norm |-> pieces[Len(pieces)].norm]]
(* Tokens of the special case key, laid out from offset. *)
SpecialTokens(key, offset) ==
  LET pieces == rules.specials[key]
      Before(p) == Len(FlattenSeq(SubSeq(Orths(pieces), 1, p - 1)))
  IN  [p \in DOMAIN pieces |->
         [orth |-> pieces[p].orth, idx |-> offset + Before(p),
          ws |-> FALSE, norm |-> pieces[p].norm]]

Init ==
  /\ rules \in Compiled
  /\ text \in Texts
  /\ pc = "text" /\ i = 0 /\ out = <<>>
  /\ lo = 0 /\ hi = 0 /\ prefixes = <<>> /\ suffixes = <<>>
  /\ spans = {} /\ pos = 0
  /\ result = <<>> /\ lexemes = {} /\ doc = <<>>

-----------------------------------------------------------------------------
(* First pass: the walk *)

Walking == pc = "text" /\ i < Len(text)

(* A word: all runes up to the next white space. *)
CollectChunk ==
  /\ Walking /\ ~IsSpaceAt(i)
  /\ lo' = i /\ hi' = RunEnd(i) /\ i' = RunEnd(i)
  /\ prefixes' = <<>> /\ suffixes' = <<>>
  /\ pc' = "affixes"
  /\ UNCHANGED <<rules, text, out, spans, pos, result, lexemes, doc>>

(* A run that starts with ' ' after a token: the ' ' is the flag of that     *)
(* token, and the rest of the run is a token.                                *)
FlagSpace ==
  /\ Walking /\ IsSpaceAt(i) /\ out # <<>> /\ text[i + 1] = Space
  /\ out' = [out EXCEPT ![Len(out)].ws = TRUE]
              \o (IF RunEnd(i) > i + 1 THEN <<Piece(i + 1, RunEnd(i))>> ELSE <<>>)
  /\ i' = RunEnd(i)
  /\ UNCHANGED <<rules, text, pc, chunkVars, result, lexemes, doc>>

(* Any other run of white space is a token. *)
EmitSpaces ==
  /\ Walking /\ IsSpaceAt(i) /\ (out = <<>> \/ text[i + 1] # Space)
  /\ out' = Append(out, Piece(i, RunEnd(i)))
  /\ i' = RunEnd(i)
  /\ UNCHANGED <<rules, text, pc, chunkVars, result, lexemes, doc>>

EndText ==
  /\ pc = "text" /\ i = Len(text)
  /\ pc' = "specials" /\ i' = 0
  /\ UNCHANGED <<rules, text, out, chunkVars, result, lexemes, doc>>

-----------------------------------------------------------------------------
(* First pass: one chunk *)

Middle == Slice(lo, hi)

MutProtectedMatchOnly == lo < hi /\ IsTokenMatch(Middle)
Protected == lo < hi /\ (IsTokenMatch(Middle) \/ IsSpecial(Middle))

PrefixEnd == lo + FindPrefix(Middle)
SuffixStart == hi - FindSuffix(Slice(PrefixEnd, hi))
MutCanStripUnchecked == lo < hi /\ ~Protected
CanStrip == lo < hi /\ ~Protected /\ (PrefixEnd > lo \/ SuffixStart < hi)

(* One turn of the loop: a prefix, then a suffix of what is left of it. *)
StripAffixes ==
  /\ pc = "affixes" /\ CanStrip
  /\ lo' = PrefixEnd
  /\ prefixes' = IF PrefixEnd > lo THEN Append(prefixes, Piece(lo, PrefixEnd)) ELSE prefixes
  /\ hi' = SuffixStart
  /\ suffixes' = IF SuffixStart < hi THEN Append(suffixes, Piece(SuffixStart, hi)) ELSE suffixes
  /\ UNCHANGED <<rules, text, pc, i, out, spans, pos, result, lexemes, doc>>

(* The last tokens of a chunk, with the suffixes that follow them. *)
EmitTail(tokens) == tokens \o Reverse(suffixes)

(* The middle is a match, a special case or nothing: one turn of emission. *)
Attach(tokens) ==
  /\ out' = out \o prefixes \o EmitTail(tokens)
  /\ pc' = "text"
  /\ UNCHANGED <<rules, text, i, chunkVars, result, lexemes, doc>>

Stripped == pc = "affixes" /\ ~CanStrip

AttachNothing == Stripped /\ lo = hi /\ Attach(<<>>)

AttachTokenMatch == Stripped /\ lo < hi /\ IsTokenMatch(Middle) /\ Attach(<<Piece(lo, hi)>>)

AttachSpecial ==
  /\ Stripped /\ lo < hi /\ ~IsTokenMatch(Middle) /\ IsSpecial(Middle)
  /\ Attach(SpecialTokens(Middle, lo))

HasInfix == FindInfixes(Middle) # {}

AttachWord ==
  /\ Stripped /\ lo < hi /\ ~Protected
  /\ IsURLMatch(Middle) \/ ~HasInfix
  /\ Attach(<<Piece(lo, hi)>>)

SplitInfixes ==
  /\ Stripped /\ lo < hi /\ ~Protected /\ ~IsURLMatch(Middle) /\ HasInfix
  /\ out' = out \o prefixes
  /\ spans' = FindInfixes(Middle) /\ pos' = lo
  /\ pc' = "infixes"
  /\ UNCHANGED <<rules, text, i, lo, hi, prefixes, suffixes, result, lexemes, doc>>

MutFirstInfixesOverlap == {sp \in spans : \A other \in spans : sp.start <= other.start}
(* sortAndDeoverlap: of the spans that start no earlier than the last one    *)
(* ended, those that start first.  sort.Slice leaves ties in any order.      *)
FirstInfixes ==
  LET free == {sp \in spans : lo + sp.start >= pos}
  IN  {sp \in free : \A other \in free : sp.start <= other.start}

CutInfix ==
  /\ pc = "infixes"
  /\ \E sp \in FirstInfixes :
       /\ out' = out \o (IF lo + sp.start > pos THEN <<Piece(pos, lo + sp.start)>> ELSE <<>>)
                     \o <<Piece(lo + sp.start, lo + sp.end)>>
       /\ pos' = lo + sp.end
       /\ spans' = spans \ {sp}
  /\ UNCHANGED <<rules, text, pc, i, lo, hi, prefixes, suffixes, result, lexemes, doc>>

EndInfixes ==
  /\ pc = "infixes" /\ FirstInfixes = {}
  /\ out' = out \o EmitTail(IF pos < hi THEN <<Piece(pos, hi)>> ELSE <<>>)
  /\ spans' = {}
  /\ pc' = "text"
  /\ UNCHANGED <<rules, text, i, lo, hi, prefixes, suffixes, pos, result, lexemes, doc>>

-----------------------------------------------------------------------------
(* Second pass *)

Window(w) == SubSeq(out, i + 1, i + w)
Key(w) == FlattenSeq(Orths(Window(w)))

(* The windows without a space inside whose runes are a special case. *)
Mergeable ==
  {w \in {2, 3} : /\ i + w <= Len(out)
                  /\ \A k \in 1..(w - 1) : ~out[i + k].ws
                  /\ IsSpecial(Key(w))}

IsNoOp(w) == Orths(rules.specials[Key(w)]) = Orths(Window(w))

(* The largest window decides, and a no-op hides the smaller one. *)
Merges == Mergeable # {} /\ ~IsNoOp(Max(Mergeable))

MergeWindow ==
  /\ pc = "specials" /\ i < Len(out) /\ Merges
  /\ LET w == Max(Mergeable)
         merged == SpecialTokens(Key(w), out[i + 1].idx)
     IN  /\ result' = result \o [merged EXCEPT ![Len(merged)].ws = out[i + w].ws]
         /\ i' = i + w
  /\ UNCHANGED <<rules, text, pc, out, chunkVars, lexemes, doc>>

CopyToken ==
  /\ pc = "specials" /\ i < Len(out) /\ ~Merges
  /\ result' = Append(result, out[i + 1])
  /\ i' = i + 1
  /\ UNCHANGED <<rules, text, pc, out, chunkVars, lexemes, doc>>

EndSpecials ==
  /\ pc = "specials" /\ i = Len(out)
  /\ pc' = "doc"
  /\ UNCHANGED <<rules, text, i, out, chunkVars, result, lexemes, doc>>

-----------------------------------------------------------------------------
(* ToDoc *)

(* Where the white space after token k ends. *)
NextStart(k) == IF k < Len(result) THEN result[k + 1].idx ELSE Len(text)

MutWhitespaceAfterNotLast(k) ==
  IF EndOf(result[k]) < NextStart(k) /\ k < Len(result)
  THEN Slice(EndOf(result[k]), NextStart(k)) ELSE <<>>
WhitespaceAfter(k) ==
  IF EndOf(result[k]) < NextStart(k) THEN Slice(EndOf(result[k]), NextStart(k)) ELSE <<>>

ToDoc ==
  /\ pc = "doc"
  /\ doc' = [k \in DOMAIN result |->
               [text |-> result[k].orth, whitespace |-> WhitespaceAfter(k),
                idx |-> result[k].idx, norm |-> result[k].norm]]
  /\ lexemes' = lexemes \union Range(Orths(result))
                        \union {t.norm : t \in {r \in Range(result) : r.norm # NoNorm}}
  /\ pc' = "done"
  /\ UNCHANGED <<rules, text, i, out, chunkVars, result>>

Chunk == \/ StripAffixes \/ AttachNothing \/ AttachTokenMatch \/ AttachSpecial
         \/ AttachWord \/ SplitInfixes \/ CutInfix \/ EndInfixes

Next == \/ CollectChunk \/ FlagSpace \/ EmitSpaces \/ EndText
        \/ Chunk
        \/ MergeWindow \/ CopyToken \/ EndSpecials
        \/ ToDoc

(* The tokenizer is a plain function call: it runs until it returns. *)
Spec == Init /\ [][Next]_vars
FairSpec == Spec /\ WF_vars(Next)

-----------------------------------------------------------------------------
(* Properties *)

(* Tokens that tile the runes from a to b: each carries the runes at its own *)
(* offset and starts where the one before ends, or one flagged ' ' later.    *)
Tiles(toks, a, b) ==
  LET After(t) == EndOf(t) + (IF t.ws THEN 1 ELSE 0)
      Starts(k) == IF k = 1 THEN a ELSE After(toks[k - 1])
  IN  /\ \A k \in DOMAIN toks :
           /\ toks[k].idx = Starts(k)
           /\ toks[k].orth = Slice(toks[k].idx, EndOf(toks[k]))
           /\ toks[k].ws => EndOf(toks[k]) < b /\ text[EndOf(toks[k]) + 1] = Space
      /\ b = IF toks = <<>> THEN a ELSE After(toks[Len(toks)])

(* At every point of Tokenize the tokens made so far tile the runes read so  *)
(* far, from both ends of a chunk (tokenizer.go:267-283) and across the        *)
(* second pass (tokenizer.go:190-203): no rune is lost or given twice.       *)
TokensTile ==
  CASE pc = "text"     -> Tiles(out, 0, i)
    [] pc = "affixes"  -> Tiles(out \o prefixes, 0, lo) /\ Tiles(Reverse(suffixes), hi, i)
    [] pc = "infixes"  -> Tiles(out, 0, pos) /\ pos <= hi /\ Tiles(Reverse(suffixes), hi, i)
    [] pc = "specials" -> Tiles(result \o SubSeq(out, i + 1, Len(out)), 0, Len(text))
    [] OTHER           -> Tiles(result, 0, Len(text))

(* "Doc.Text() round-trips the input verbatim" (tokenizer.go:92-93): the     *)
(* token texts and white spaces of the document spell the text.              *)
RoundTrip ==
  pc = "done" => FlattenSeq([k \in DOMAIN doc |-> doc[k].text \o doc[k].whitespace]) = text

(* A word that is a special case, or a token match, comes out of the first   *)
(* pass as the table says, whatever affixes and infixes it ends or starts    *)
(* with: the order of checks rules.go:5 promises.                            *)
IsWord(a, b) ==
  /\ a < b /\ \A c \in a..(b - 1) : ~IsSpaceAt(c)
  /\ a = 0 \/ IsSpaceAt(a - 1)
  /\ b = Len(text) \/ IsSpaceAt(b)

Unflagged(toks) == [k \in DOMAIN toks |-> [toks[k] EXCEPT !.ws = FALSE]]

Emitted(toks) ==
  \E k \in 0..(Len(out) - Len(toks)) : Unflagged(SubSeq(out, k + 1, k + Len(toks))) = toks

SpecialsStayWhole ==
  pc = "specials" /\ i = 0 =>
    \A a \in 0..Len(text), b \in 0..Len(text) :
      IsWord(a, b) =>
        /\ IsTokenMatch(Slice(a, b)) => Emitted(<<Piece(a, b)>>)
        /\ ~IsTokenMatch(Slice(a, b)) /\ IsSpecial(Slice(a, b)) =>
             Emitted(SpecialTokens(Slice(a, b), a))

(* A norm override only reaches a token that is that piece of a special case *)
(* found at that place of the text.                                          *)
NormsJustified ==
  pc = "done" =>
    \A t \in Range(Unflagged(result)) : t.norm # NoNorm =>
      \E key \in DOMAIN rules.specials, a \in 0..t.idx :
        /\ a + Len(key) <= Len(text) /\ key = Slice(a, a + Len(key))
        /\ t.orth = Slice(t.idx, EndOf(t))
        /\ \E p \in DOMAIN rules.specials[key] :
             /\ rules.specials[key][p].orth = t.orth /\ rules.specials[key][p].norm = t.norm
             /\ t.idx = a + Len(FlattenSeq(SubSeq(Orths(rules.specials[key]), 1, p - 1)))

(* Tokenize returns: the affix loop shortens the middle or stops.            *)
Terminates == <>(pc = "done")
=============================================================================
