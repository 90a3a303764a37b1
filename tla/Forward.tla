------------------------------- MODULE Forward -------------------------------
(***************************************************************************)
(* One step of nn.Model.Predict: what each layer accepts, what it returns  *)
(* and where its result is stored (nn/layers, registry/feature_extractor). *)
(*                                                                         *)
(* A value abstracts a tensor to its Go type, its number of columns, the   *)
(* lengths of its documents and, for each row, the set of tokens the row   *)
(* was computed from; a token is <<document, position>>.  `at` says where  *)
(* the data is: nowhere else (Fresh), or in the scratch slice a closure    *)
(* keeps from call to call, as written by the node `by`.                   *)
(*                                                                         *)
(* The memory maps a scratch slice to its allocation (gen: a grown slice   *)
(* is a new one, the old data stays with whoever holds it) and to the rows *)
(* it holds, each with the node that wrote it.                             *)
(***************************************************************************)
EXTENDS Architectures

Fresh == [buf |-> <<>>, gen |-> 0, by |-> <<>>]
Value(kind, cols, lens, rows) ==
  [kind |-> kind, cols |-> cols, lens |-> lens, rows |-> rows, at |-> Fresh]
Refused == Value("error", 0, <<>>, <<>>)

Docs(lens) ==
  Value("docs", 0, lens, FlattenSeq([d \in DOMAIN lens |-> [i \in 1..lens[d] |-> {<<d, i>>}]]))

Sum(lens) ==
  LET upto[n \in 0..Len(lens)] == IF n = 0 THEN 0 ELSE upto[n - 1] + lens[n]
  IN upto[Len(lens)]
\* The rows of document d.
RowsOf(x, d) ==
  LET before == Sum(SubSeq(x.lens, 1, d - 1))
  IN SubSeq(x.rows, before + 1, before + x.lens[d])

-----------------------------------------------------------------------------
(* Leaves: an input of another type or width, or a parameter of another     *)
(* length than the dims say, is refused.                                    *)

If(accepted, y) == IF accepted THEN y ELSE Refused

\* A row for each row, of cols columns.
Matrix(cols, rows) == Value("floats2d", cols, <<>>, rows)
Takes(n, x) == x.kind = "floats2d" /\ x.cols = n.dims.nI

HashEmbedForward(n, x) ==
  If(x.kind = "u641d" /\ n.params.E = n.dims.nV * n.dims.nO, Matrix(n.dims.nO, x.rows))

\* The parameters of a maxout, softmax or mish are measured by the matrix
\* product, those of a linear by the layer.
MaxoutForward(n, x) ==
  If(/\ Takes(n, x)
     /\ n.params.W = n.dims.nO * n.dims.nP * n.dims.nI /\ n.params.b = n.dims.nO * n.dims.nP,
     Matrix(n.dims.nO, x.rows))
LayerNormForward(n, x) ==
  If(Takes(n, x) /\ n.params.G = n.dims.nI /\ n.params.b = n.dims.nI, Matrix(x.cols, x.rows))
LinearForward(n, x) ==
  If(Takes(n, x) /\ n.params.W = n.dims.nO * n.dims.nI /\ n.params.b = n.dims.nO, Matrix(n.dims.nO, x.rows))
SoftmaxForward(n, x) == LinearForward(n, x)
MishForward(n, x) == LinearForward(n, x)
DropoutForward(x) == If(x.kind = "floats2d", x)

\* Each row beside the nW rows on either side of it, zeros beyond the ends.
Neighbours(rows, nW) ==
  [i \in DOMAIN rows |-> UNION {rows[j] : j \in {k \in DOMAIN rows : k + nW >= i /\ k <= i + nW}}]
ExpandWindowForward(n, x) ==
  If(x.kind = "floats2d", Matrix(Window(n.attrs.nW, x.cols), Neighbours(x.rows, n.attrs.nW)))

\* nF rows for the missing feature, then nF rows for each token.
Slots(rows, nF) == [i \in 1..((Len(rows) + 1) * nF) |-> IF i <= nF THEN {} ELSE rows[(i - 1) \div nF]]
PrecomputableAffineForward(n, x) ==
  LET all == n.dims.nF * n.dims.nO * n.dims.nP
  IN If(Takes(n, x) /\ n.params.W = all * n.dims.nI /\ n.params.pad = all,
        Matrix(n.dims.nO * n.dims.nP, Slots(x.rows, n.dims.nF)))

\* Documents without tokens give no rows, before anything else is looked at;
\* the others need the table of the bundle, of the width the file says.
StaticVectorsForward(n, x) ==
  If(/\ x.kind = "docs"
     /\ \/ x.rows = <<>>
        \/ n.params.W = n.dims.nO * n.dims.nM /\ n.attrs.vectors = n.dims.nM,
     Value("ragged", n.dims.nO, x.lens, x.rows))

\* The columns tokenAttrHash knows.
Supported == {"NORM", "PREFIX", "SUFFIX", "SHAPE", "SPACY", "IS_SPACE"}
ExtractFeatures(n, x) ==
  If(x.kind = "docs" /\ (x.rows = <<>> \/ ToSet(n.attrs.columns) \subseteq Supported),
     Value("u64list", Len(n.attrs.columns), x.lens, x.rows))

List2RaggedForward(x) ==
  If(x.kind \in {"floatlist", "u64list"},
     [x EXCEPT !.kind = IF x.kind = "floatlist" THEN "ragged" ELSE "raggedu64", !.at = Fresh])
Ragged2ListForward(x) == If(x.kind = "ragged", [x EXCEPT !.kind = "floatlist", !.at = Fresh])
List2ArrayForward(x) == If(x.kind = "floatlist", Matrix(x.cols, x.rows))
IntsGetitemForward(n, x) ==
  If(x.kind = "u642d" /\ n.attrs.column < x.cols, Value("u641d", 0, <<>>, x.rows))

\* A node without a Forward, a listener or a character embedding, returns its
\* input.
LeafForward(n, x) ==
  CASE n.kind = "hashembed" -> HashEmbedForward(n, x)
    [] n.kind = "maxout" -> MaxoutForward(n, x)
    [] n.kind = "layernorm" -> LayerNormForward(n, x)
    [] n.kind = "linear" -> LinearForward(n, x)
    [] n.kind = "softmax" -> SoftmaxForward(n, x)
    [] n.kind = "mish" -> MishForward(n, x)
    [] n.kind = "dropout" -> DropoutForward(x)
    [] n.kind = "expand_window" -> ExpandWindowForward(n, x)
    [] n.kind = "precomputable_affine" -> PrecomputableAffineForward(n, x)
    [] n.kind = "static_vectors" -> StaticVectorsForward(n, x)
    [] n.kind = "extract_features" -> ExtractFeatures(n, x)
    [] n.kind = "list2ragged" -> List2RaggedForward(x)
    [] n.kind = "ragged2list" -> Ragged2ListForward(x)
    [] n.kind = "list2array" -> List2ArrayForward(x)
    [] n.kind = "ints_getitem" -> IntsGetitemForward(n, x)
    [] OTHER -> x

-----------------------------------------------------------------------------
(* Layers with children: what the first child gets, and what is made of    *)
(* the outputs of all of them.                                             *)

Compounds == {"with_array", "residual", "concatenate"}

\* with_array flattens a batch: the ragged kinds are passed on as they are, a
\* list is copied with pad zero rows on both sides of each document.
Flattened(n, x) ==
  LET zeros == [i \in 1..n.attrs.pad |-> {}]
      padded == FlattenSeq([d \in DOMAIN x.lens |-> zeros \o RowsOf(x, d) \o zeros])
  IN CASE x.kind = "ragged" -> [x EXCEPT !.kind = "floats2d", !.lens = <<>>]
       [] x.kind = "raggedu64" -> [x EXCEPT !.kind = "u642d", !.lens = <<>>]
       [] x.kind = "floatlist" -> Matrix(x.cols, padded)
       [] OTHER -> Refused

\* The rows of the documents, copied out from between the padding.
Stripped(n, x, rows) ==
  LET start(d) == Sum(SubSeq(x.lens, 1, d - 1)) + n.attrs.pad * (2 * d - 1)
  IN FlattenSeq([d \in DOMAIN x.lens |-> SubSeq(rows, start(d) + 1, start(d) + x.lens[d])])

\* A ragged result is the slice the child returned.
Unflattened(n, x, y) ==
  If(y.kind = "floats2d" /\ Len(y.rows) = Len(Flattened(n, x).rows),
     IF x.kind = "floatlist"
     THEN Value("floatlist", y.cols, x.lens, Stripped(n, x, y.rows))
     ELSE [y EXCEPT !.kind = "ragged", !.lens = x.lens])

ResidualSum(x, y) ==
  If(y.kind = "floats2d" /\ y.cols = x.cols /\ Len(y.rows) = Len(x.rows),
     Matrix(x.cols, [i \in DOMAIN x.rows |-> x.rows[i] \cup y.rows[i]]))

\* The rows of all arms side by side; arms of different kinds or shapes are
\* refused.
SideBySide(outs) ==
  LET y == outs[1]
      cols == Sum([k \in DOMAIN outs |-> outs[k].cols])
  IN If(/\ y.kind \in {"floats2d", "ragged"}
        /\ \A k \in DOMAIN outs :
             outs[k].kind = y.kind /\ outs[k].lens = y.lens /\ Len(outs[k].rows) = Len(y.rows),
        Value(y.kind, cols, y.lens, [i \in DOMAIN y.rows |-> UNION {outs[k].rows[i] : k \in DOMAIN outs}]))

Opened(n, x) ==
  CASE n.kind = "concatenate" -> x
    [] n.kind = "residual" -> If(x.kind = "floats2d", x)
    [] OTHER -> Flattened(n, x)

Joined(n, x, outs) ==
  CASE n.kind = "concatenate" -> SideBySide(outs)
    [] n.kind = "residual" -> ResidualSum(x, outs[1])
    [] OTHER -> Unflattened(n, x, outs[1])

-----------------------------------------------------------------------------
(* Scratch memory.                                                         *)

\* The layers whose closure keeps its output slice from call to call.  A
\* concatenate keeps one per kind of result; its children settle the kind.
KeepsScratch == {"hashembed", "maxout", "layernorm", "expand_window", "precomputable_affine",
                 "residual", "concatenate"}

MutBufferOfKind(closures, pipe, n) == <<closures, pipe, n.kind>>
\* Every constructor call makes a closure of its own: the closures of a pipe
\* are told apart by the place of their node.
Buffer(closures, pipe, n) == <<closures, pipe, n.at>>

NoMemory == <<>>
Slice(mem, buf) == IF buf \in DOMAIN mem THEN mem[buf] ELSE [gen |-> 0, rows |-> <<>>]

\* A slice too short is replaced, else its first rows are overwritten.
Stored(mem, buf, by, rows) ==
  LET old == Slice(mem, buf)
      new == [i \in DOMAIN rows |-> [by |-> by, of |-> rows[i]]]
      slice == IF Len(rows) > Len(old.rows)
               THEN [gen |-> old.gen + 1, rows |-> new]
               ELSE [old EXCEPT !.rows = new \o SubSeq(@, Len(rows) + 1, Len(@))]
  IN [b \in DOMAIN mem \cup {buf} |-> IF b = buf THEN slice ELSE mem[b]]

\* What a holder of v reads is what its producer wrote.
Intact(mem, v) ==
  LET slice == Slice(mem, v.at.buf)
  IN v.at.gen # slice.gen \/ v.at = Fresh
     \/ \A i \in DOMAIN v.rows : slice.rows[i] = [by |-> v.at.by, of |-> v.rows[i]]

-----------------------------------------------------------------------------
(* A run of Predict over the nodes from..last of a tree, in the order the  *)
(* code visits them.  A frame is a layer whose children are being run: the *)
(* ends of those still to finish and the outputs of those finished.        *)

Transparent == {"chain", "parser_model"}
Skip(tree, i) == CHOOSE j \in i..(Len(tree) + 1) :
  /\ j \in DOMAIN tree => tree[j].kind \notin Transparent
  /\ \A k \in i..(j - 1) : tree[k].kind \in Transparent

Start(pipe, tree, from, last, x) ==
  [pipe |-> pipe, place |-> Skip(tree, from), last |-> last, x |-> x, frames |-> <<>>]

ChildEnds(tree, i) ==
  LET n == Cardinality({j \in DOMAIN tree : Below(tree, i, j) /\ Len(tree[j].at) = Len(tree[i].at) + 1})
  IN [k \in 1..n |-> LastOf(tree, PlaceOf(tree, Append(tree[i].at, k)))]

Returning(run) == run.frames # <<>> /\ run.place > Head(Last(run.frames).ends)
Finished(run) == run.frames = <<>> /\ run.place > run.last

\* The node the run is at: the one to enter, or the one to return to.
NodeOf(tree, run) == tree[IF Returning(run) THEN Last(run.frames).node ELSE run.place]

Result(tree, run) ==
  LET n == NodeOf(tree, run)
      f == Last(run.frames)
      more == Len(f.ends) > 1
  IN CASE Returning(run) /\ more -> run.x
       [] Returning(run) /\ ~more -> Joined(n, f.x, Append(f.outs, run.x))
       [] ~Returning(run) /\ n.kind \in Compounds -> Opened(n, run.x)
       [] OTHER -> LeafForward(n, run.x)

\* The step stores its result in the scratch slice of its node.
Storing(tree, run) ==
  LET n == NodeOf(tree, run)
  IN /\ n.kind \in KeepsScratch
     /\ n.kind \in Compounds => Returning(run) /\ Len(Last(run.frames).ends) = 1

\* The run after a step with result y.
Advanced(tree, run, y) ==
  LET f == Last(run.frames)
      n == NodeOf(tree, run)
      next == Skip(tree, run.place + 1)
      more == Len(f.ends) > 1
  IN CASE Returning(run) /\ more ->
            [run EXCEPT !.x = f.x,
                        !.frames = Append(Front(@), [f EXCEPT !.ends = Tail(@), !.outs = Append(@, y)])]
       [] Returning(run) /\ ~more -> [run EXCEPT !.x = y, !.frames = Front(@)]
       [] ~Returning(run) /\ n.kind \in Compounds ->
            [run EXCEPT !.x = y, !.place = next,
                        !.frames = Append(@, [node |-> run.place, ends |-> ChildEnds(tree, run.place),
                                              x |-> run.x, outs |-> <<>>])]
       [] OTHER -> [run EXCEPT !.x = y, !.place = next]

\* The values the run still needs.
HeldBy(run) ==
  {run.x} \cup UNION {{f.x} \cup {f.outs[k] : k \in DOMAIN f.outs} : f \in {run.frames[i] : i \in DOMAIN run.frames}}
=============================================================================
