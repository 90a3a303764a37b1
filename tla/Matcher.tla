------------------------------ MODULE Matcher ------------------------------
(***************************************************************************)
(* The rule matcher: named patterns, and a search over the tokens of one      *)
(* document.  Go ranges over the map of patterns in any order.                *)
(***************************************************************************)
EXTENDS TokenPatterns, SequencesExt

CONSTANT Keys      \* names of patterns

VARIABLES patterns,   \* key -> its patterns, in the order they were added
          mpc,        \* "idle" | "scan" | "done"
          unscanned,  \* keys the range has not reached
          found,      \* matches so far
          matches     \* the result, in order

matcherVars == <<patterns, mpc, unscanned, found, matches>>

MatcherInit ==
  /\ patterns = <<>>
  /\ mpc = "idle" /\ unscanned = {} /\ found = {} /\ matches = <<>>

(* FromPatternDict and Add: every pattern is valid and not empty, or none is  *)
(* registered.  A token dict has one value for each key, so that validateSpec *)
(* finds no conflict in it.                                                   *)
Valid(alternatives) ==
  /\ alternatives # <<>>
  /\ \A a \in DOMAIN alternatives :
       /\ alternatives[a] # <<>>
       /\ \A j \in DOMAIN alternatives[a] : Supported(MatcherForms, alternatives[a][j])

Registered(key) == IF key \in DOMAIN patterns THEN patterns[key] ELSE <<>>

Add(key, alternatives) ==
  /\ mpc = "idle" /\ Valid(alternatives)
  /\ patterns' = [k \in DOMAIN patterns \union {key} |->
                    IF k = key THEN Registered(key) \o alternatives ELSE patterns[k]]
  /\ UNCHANGED <<mpc, unscanned, found, matches>>

RefuseAdd(key, alternatives) ==
  /\ mpc = "idle" /\ ~Valid(alternatives)
  /\ UNCHANGED matcherVars

RemoveKey(key) ==
  /\ mpc = "idle" /\ key \in DOMAIN patterns
  /\ patterns' = [k \in DOMAIN patterns \ {key} |-> patterns[k]]
  /\ UNCHANGED <<mpc, unscanned, found, matches>>

-----------------------------------------------------------------------------
Overlap(m, n) == m.start < n.end /\ n.start < m.end
Length(m) == m.end - m.start
Longer(m, n) == Length(m) > Length(n) \/ (Length(m) = Length(n) /\ m.start < n.start)

(* All hits of the alternatives of a key.  Equal hits of two alternatives     *)
(* overlap, so a set loses nothing.                                           *)
Hits(key, tokens, store) ==
  UNION {{[key |-> key, start |-> i, end |-> i + Len(patterns[key][a])] :
            i \in Starts(tokens, patterns[key][a], store)} : a \in DOMAIN patterns[key]}

MutDedupFirstWins(hits) ==
  FoldLeft(LAMBDA kept, m : IF \E k \in kept : Overlap(m, k) THEN kept ELSE kept \union {m},
           {}, SetToSortSeq(hits, LAMBDA m, n : m.start < n.start \/ (m.start = n.start /\ m.end < n.end)))
(* dedupOverlapsLongestFirst *)
Dedup(hits) ==
  FoldLeft(LAMBDA kept, m : IF \E k \in kept : Overlap(m, k) THEN kept ELSE kept \union {m},
           {}, SetToSortSeq(hits, Longer))

BeginMatches ==
  /\ mpc = "idle"
  /\ mpc' = "scan" /\ unscanned' = DOMAIN patterns
  /\ UNCHANGED <<patterns, found, matches>>

ScanKey(key, tokens, store) ==
  /\ mpc = "scan" /\ key \in unscanned
  /\ found' = found \union Dedup(Hits(key, tokens, store))
  /\ unscanned' = unscanned \ {key}
  /\ UNCHANGED <<patterns, mpc, matches>>

(* An order of the keys, which Go compares as strings. *)
CONSTANT KeyBefore(_, _)

Before(m, n) ==
  \/ m.start < n.start
  \/ m.start = n.start /\ m.end < n.end
  \/ m.start = n.start /\ m.end = n.end /\ KeyBefore(m.key, n.key)

SortMatches ==
  /\ mpc = "scan" /\ unscanned = {}
  /\ matches' = SetToSortSeq(found, Before)
  /\ mpc' = "done"
  /\ UNCHANGED <<patterns, unscanned, found>>

Matches(tokens, store) ==
  BeginMatches \/ (\E key \in Keys : ScanKey(key, tokens, store)) \/ SortMatches
-----------------------------------------------------------------------------
(* What Matches promises of tokens, its patterns read as strings: within a    *)
(* key the spans are disjoint hits, and a hit is left out only for one it      *)
(* overlaps that is longer, or as long and earlier; over all keys they are in  *)
(* strictly ascending order, so that the order of the map does not show.       *)
SelectedHits(key, tokens, strings) ==
  LET hits == Hits(key, tokens, strings)
      kept == {m \in Range(matches) : m.key = key}
  IN  /\ kept \subseteq hits
      /\ \A m, n \in kept : m # n => ~Overlap(m, n)
      /\ \A m \in hits \ kept : \E n \in kept : Overlap(m, n) /\ Longer(n, m)

MatchesAre(tokens, strings) ==
  mpc = "done" =>
    /\ \A m \in Range(matches) : m.key \in DOMAIN patterns
    /\ \A key \in DOMAIN patterns : SelectedHits(key, tokens, strings)
    /\ \A k \in 1..(Len(matches) - 1) : Before(matches[k], matches[k + 1])
=============================================================================
