---------------------------- MODULE MCTokenizer ----------------------------
(* Texts, patterns and special cases for model checking Tokenizer. *)
EXTENDS Tokenizer

CONSTANT MaxLen   \* length of the longest text

(* Every text of at most MaxLen runes. *)
MCTexts == UNION {[1..n -> Runes] : n \in 0..MaxLen}

(* A pattern is an alternation of words, with the runes it wants before and *)
(* after a match (none: anything goes) and the anchor of a suffix.           *)
Pattern(words) == [words |-> words, around |-> {}, atEnd |-> FALSE]
Between(words, runes) == [Pattern(words) EXCEPT !.around = runes]

MatchesAt(re, s, a, w) ==
  /\ a + Len(w) <= Len(s)
  /\ SubSeq(s, a + 1, a + Len(w)) = w
  /\ re.around # {} => /\ a > 0 /\ s[a] \in re.around
                       /\ a + Len(w) < Len(s) /\ s[a + Len(w) + 1] \in re.around
  /\ re.atEnd => a + Len(w) = Len(s)

Orth(orth) == [orth |-> orth, norm |-> <<>>]
OrthNorm(orth, norm) == [orth |-> orth, norm |-> norm]

(* The shape of the English table: a contraction of two pieces, one with a   *)
(* norm, an abbreviation with a stop, dashed cases of two and three pieces, a *)
(* token match, and infixes of which two can start at one rune.              *)
English ==
  [prefixes |-> <<Pattern({<<"-">>}), Pattern({<<"-", "-">>})>>,
   suffixes |-> <<Pattern({<<".">>}), Pattern({<<"d", ".">>, <<"-">>})>>,
   infixes  |-> <<Between({<<"-">>}, {"w", "d"}), Pattern({<<".", ".">>}),
                  Pattern({<<".">>, <<".", "d">>})>>,
   tokenMatch |-> Pattern({<<"-", "w">>}),
   urlMatch |-> Pattern({<<"d", ".", "d">>, <<"d", "-", "w">>}),
   specials |-> (<<"w", "d">> :> <<Orth(<<"w">>), OrthNorm(<<"d">>, <<"d", "d">>)>>)
             @@ (<<"d", ".">> :> <<Orth(<<"d", ".">>)>>)
             @@ (<<"w", "-", "d">> :> <<Orth(<<"w">>), Orth(<<"-">>), OrthNorm(<<"d">>, <<"w">>)>>)
             @@ (<<"w", "-", ".">> :> <<Orth(<<"w">>), Orth(<<"-", ".">>)>>)
             @@ (<<".", "-">> :> <<OrthNorm(<<".", "-">>, <<"-">>)>>)]

(* Rules without special cases, with an infix that matches the empty string  *)
(* and affixes that can eat a whole chunk from both ends.                    *)
Bare ==
  [prefixes |-> <<Pattern({<<"d">>, <<"d", ".">>})>>,
   suffixes |-> <<Pattern({<<".">>, <<"d", ".">>})>>,
   infixes  |-> <<Pattern({<<"-">>}), Pattern({<<>>, <<"-", "-">>})>>,
   tokenMatch |-> NoPattern, urlMatch |-> NoPattern,
   specials |-> <<>>]

MCInputs == {English, Bare}

Anchored(re) == [re EXCEPT !.atEnd = TRUE]

Patterns ==
  UNION {Range(in.prefixes) \union Range(in.infixes) \union Range(in.suffixes)
           \union {Anchored(re) : re \in Range(in.suffixes)}
           \union ({in.tokenMatch, in.urlMatch} \ {NoPattern}) : in \in MCInputs}

(* Successive matches, leftmost first and longest first; after an empty     *)
(* match the search goes on one rune later.                                  *)
MatchTable ==
  [re \in Patterns |-> [s \in MCTexts |->
    LET Lengths(a) == {Len(w) : w \in {v \in re.words : MatchesAt(re, s, a, v)}}
        from[a \in 0..(Len(s) + 1)] ==
          IF a > Len(s) THEN <<>>
          ELSE LET lengths == Lengths(a)
               IN  IF lengths = {} THEN from[a + 1]
                   ELSE LET n == Max(lengths)
                        IN  <<[index |-> a, length |-> n]>> \o from[a + (IF n = 0 THEN 1 ELSE n)]
    IN  from[0]]]

MCMatches(re, s) == MatchTable[re][s]
=============================================================================
