------------------------------ MODULE MCNonproj ------------------------------
(* Parses for model checking Nonproj and DocViews. *)
EXTENDS DocViews

CONSTANTS a, b

(* Every projective tree over the tokens whose root is the first token. *)
ProjectiveHeads ==
  {h \in [Tokens -> Tokens] : /\ \A t \in Tokens : h[t] = t <=> t = 0
                             /\ Projective(Unrooted(h))
                             /\ Acyclic(Unrooted(h))}

Plain(l) == [label |-> l, lifted |-> NoLabel]
Lifted(l, l2) == [label |-> l, lifted |-> l2]

(* Every such tree with one token to be moved below a b, perhaps its right     *)
(* neighbour to be moved below an a, and at most one plain b; the other labels *)
(* are a.                                                                      *)
TwoMoves ==
  {[head |-> h,
    starts |-> {0},
    dep |-> [x \in Tokens |->
               CASE h[x] = x -> Plain(Root)
                 [] x = m[1] /\ h[x] # x -> Lifted(a, b)
                 [] x = m[2] /\ x # m[1] /\ h[x] # x -> Lifted(b, a)
                 [] x = m[3] /\ x \notin {m[1], m[2]} /\ h[x] # x -> Plain(b)
                 [] OTHER -> Plain(a)]]
     : h \in ProjectiveHeads, m \in {k \in (1..(N - 1)) \X (1..(N - 1)) \X (1..(N - 1)) :
                             k[3] # k[1] /\ k[2] \in {k[1], k[1] + 1}}}

(* 0 is the root; 1 (children 2, 3) and 4 (child 5) are its children, and so  *)
(* is 6, decorated to be moved below a token labelled b.  Which of the other   *)
(* tokens is the b is left open.                                               *)
TwoBranches ==
  {[head |-> (0 :> 0 @@ 1 :> 0 @@ 2 :> 1 @@ 3 :> 1 @@ 4 :> 0 @@ 5 :> 4 @@ 6 :> 0),
    starts |-> {0},
    dep |-> [t \in Tokens |-> CASE t = 0 -> Plain(Root)
                                [] t = 6 -> Lifted(a, b)
                                [] OTHER -> IF t = x THEN Plain(b) ELSE Plain(a)]]
     : x \in 1..5}

(* Two sentences, the second from token 3, each a projective tree with any     *)
(* root; one token is to be moved below a b, at most two others are plain b.   *)
TwoSentences ==
  {p \in
     {[head |-> h,
       starts |-> {0, 3},
       dep |-> [x \in Tokens |->
                  CASE h[x] = x -> Plain(Root)
                    [] h[x] # x /\ x = m[1] -> Lifted(a, b)
                    [] h[x] # x /\ x # m[1] /\ x \in {m[2], m[3]} -> Plain(b)
                    [] OTHER -> Plain(a)]]
        : h \in {g \in [Tokens -> Tokens] :
                   /\ \A x \in Tokens : g[x] < 3 <=> x < 3
                   /\ Cardinality({x \in Tokens : g[x] = x}) = 2
                   /\ Projective(Unrooted(g)) /\ Acyclic(Unrooted(g))},
          m \in Tokens \X Tokens \X Tokens}
     : \E x \in Tokens : p.dep[x].lifted # NoLabel}

MCParses == TwoMoves \union TwoSentences

MCNominals == SUBSET (Tokens \ {0})
=============================================================================
