----------------------------- MODULE ModelTrees -----------------------------
(***************************************************************************)
(* The model trees of a bundle: what the architecture factories of         *)
(* registry/architectures.go build from a section of config.cfg, what      *)
(* nn.Model.FromBytes writes into a tree and what bundle.cloneModelParams  *)
(* copies from one tree to another.                                        *)
(*                                                                         *)
(* A tree is the sequence of its nodes in depth-first order.  A node has   *)
(* its place `at` (the path of child numbers from the root), its kind, its *)
(* dims, the number of floats of each of its parameters (0 while nil) and  *)
(* the attributes its Forward reads.                                       *)
(*                                                                         *)
(* A config section is a function from key paths to typed values, which is *)
(* the nested map[string]any of the code: <<"embed", "width">> is the key  *)
(* width of the sub-section embed.  A float is counted in tenths.          *)
(***************************************************************************)
EXTENDS Naturals, FiniteSets, Sequences, SequencesExt

-----------------------------------------------------------------------------
(* Typed config values.                                                    *)

Text(s) == [type |-> "string", val |-> s]
Texts(l) == [type |-> "strings", val |-> l]
Numbers(l) == [type |-> "ints", val |-> l]
Flag(b) == [type |-> "bool", val |-> b]
Number(i) == [type |-> "int", val |-> i]
Tenths(t) == [type |-> "float", val |-> t]

\* What the factories receive for a value of the file: the getters are tried
\* from string to float, so a float with a whole part loses its fraction, and
\* false, null and the empty string arrive as the integer zero.
ReadAny(v) ==
  CASE v.type = "string" /\ v.val # "" -> v
    [] v.type \in {"strings", "ints"} -> v
    [] v.type = "bool" /\ v.val -> v
    [] v.type = "int" -> v
    [] v.type = "float" /\ v.val >= 10 -> Number(v.val \div 10)
    [] v.type = "float" /\ v.val \in 1..9 -> v
    [] OTHER -> Number(0)

\* The section of the file under the key path pre, as the factories see it.
BuildFactoryCfg(file, pre) ==
  LET below == {p \in DOMAIN file : Len(p) > Len(pre) /\ SubSeq(p, 1, Len(pre)) = pre}
  IN [q \in {SubSeq(p, Len(pre) + 1, Len(p)) : p \in below} |-> ReadAny(file[pre \o q])]

Has(cfg, key) == <<key>> \in DOMAIN cfg
HasA(cfg, key, type) == Has(cfg, key) /\ cfg[<<key>>].type = type
HasSection(cfg, key) == \E p \in DOMAIN cfg : Len(p) > 1 /\ p[1] = key
Section(cfg, key) ==
  [q \in {Tail(p) : p \in {r \in DOMAIN cfg : Len(r) > 1 /\ r[1] = key}} |-> cfg[<<key>> \o q]]

CfgInt(cfg, key, default) ==
  CASE HasA(cfg, key, "int") -> cfg[<<key>>].val
    [] HasA(cfg, key, "float") -> cfg[<<key>>].val \div 10
    [] OTHER -> default

\* A value of another type counts as absent: use_upper = false reaches the
\* factory as the integer zero and reads as the default.
CfgBool(cfg, key, default) == IF HasA(cfg, key, "bool") THEN cfg[<<key>>].val ELSE default

Architecture(cfg, default) ==
  IF HasA(cfg, "@architectures", "string") THEN cfg[<<"@architectures">>].val ELSE default

\* cfg with the entries of more it does not have.
OrElse(cfg, more) ==
  [p \in DOMAIN cfg \cup DOMAIN more |-> IF p \in DOMAIN cfg THEN cfg[p] ELSE more[p]]

-----------------------------------------------------------------------------
(* Trees.                                                                  *)

Leaf(kind, dims, params, attrs) ==
  <<[at |-> <<>>, kind |-> kind, dims |-> dims, params |-> [p \in params |-> 0], attrs |-> attrs]>>

Compound(kind, attrs, children) ==
  LET moved(k) == [i \in DOMAIN children[k] |-> [children[k][i] EXCEPT !.at = <<k>> \o @]]
  IN Leaf(kind, <<>>, {}, attrs) \o FlattenSeq([k \in DOMAIN children |-> moved(k)])

\* The place in the sequence of the node at a path, and of the last node of
\* the sub-tree that starts at place i.
PlaceOf(tree, at) == CHOOSE i \in DOMAIN tree : tree[i].at = at
Below(tree, i, j) ==
  Len(tree[j].at) >= Len(tree[i].at) /\ SubSeq(tree[j].at, 1, Len(tree[i].at)) = tree[i].at
LastOf(tree, i) == CHOOSE j \in DOMAIN tree :
  Below(tree, i, j) /\ (j = Len(tree) \/ ~Below(tree, i, j + 1)) /\ j >= i

\* Model.Walk is breadth first: WalkIndex is the place of node i in it.
WalkIndex(tree, i) ==
  LET before == {j \in DOMAIN tree :
        Len(tree[j].at) < Len(tree[i].at) \/ (Len(tree[j].at) = Len(tree[i].at) /\ j <= i)}
  IN Cardinality(before)
Walk(tree) == [n \in DOMAIN tree |-> tree[CHOOSE i \in DOMAIN tree : WalkIndex(tree, i) = n]]

Chain(children) == Compound("chain", <<>>, children)
Concatenate(children) == Compound("concatenate", <<>>, children)
Residual(inner) == Compound("residual", <<>>, <<inner>>)
WithArray(inner, pad) == Compound("with_array", [pad |-> pad], <<inner>>)

HashEmbed(nO, nV, seed) == Leaf("hashembed", [nO |-> nO, nV |-> nV], {"E"}, [seed |-> seed])
IntsGetitem(column) == Leaf("ints_getitem", <<>>, {}, [column |-> column])
Maxout(nO, nI, nP) == Leaf("maxout", [nO |-> nO, nI |-> nI, nP |-> nP], {"W", "b"}, <<>>)
Mish(nO, nI) == Leaf("mish", [nO |-> nO, nI |-> nI], {"W", "b"}, <<>>)
LayerNorm(nI) == Leaf("layernorm", [nO |-> nI, nI |-> nI], {"G", "b"}, <<>>)
Linear(nO, nI) == Leaf("linear", [nO |-> nO, nI |-> nI], {"W", "b"}, <<>>)
Softmax(nO, nI) == Leaf("softmax", [nO |-> nO, nI |-> nI], {"W", "b"}, <<>>)
ExpandWindow(nW) == Leaf("expand_window", <<>>, {}, [nW |-> nW])
Dropout == Leaf("dropout", <<>>, {}, <<>>)
List2Ragged == Leaf("list2ragged", <<>>, {}, <<>>)
Ragged2List == Leaf("ragged2list", <<>>, {}, <<>>)
List2Array == Leaf("list2array", <<>>, {}, <<>>)
PrecomputableAffine(nO, nI, nF, nP) ==
  Leaf("precomputable_affine", [nO |-> nO, nI |-> nI, nF |-> nF, nP |-> nP], {"W", "b", "pad"}, <<>>)
StaticVectors(nO, nM) == Leaf("static_vectors", [nO |-> nO, nM |-> nM], {"W"}, [vectors |-> 0])
FeatureExtractor(columns) == Leaf("extract_features", <<>>, {}, [columns |-> columns])
Listener == Leaf("tok2vec_listener", <<>>, {}, <<>>)
CharEmbed == Leaf("charembed", <<>>, {}, <<>>)
=============================================================================
