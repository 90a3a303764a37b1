---------------------------- MODULE WorkersProofs ----------------------------
(***************************************************************************)
(* Proofs about bundles and their goroutines, for any number of clones, any *)
(* bundle directory, any texts and any number of calls: a bundle touches    *)
(* only memory of its own, so that no call races with one of another        *)
(* bundle; every hash of a returned document can be resolved; and the       *)
(* layers, which reuse their output slices, never overwrite what a call has *)
(* still to read.                                                           *)
(***************************************************************************)
EXTENDS Workers, InductionProofs, SequenceTheorems, TLAPS

-----------------------------------------------------------------------------
(* Sequences of anything: s has its own elements for a range.               *)

IsSeq(s) == s \in Seq({s[i] : i \in 1..Len(s)})

(* A sequence has its length and its domain.                                *)
LEMMA SeqFacts ==
  ASSUME NEW T, NEW s \in Seq(T)
  PROVE  IsSeq(s) /\ Len(s) \in Nat /\ DOMAIN s = 1..Len(s)
<1>1. Len(s) \in Nat /\ DOMAIN s = 1..Len(s)
  BY LenProperties
<1>2. s = [i \in 1..Len(s) |-> s[i]]
  BY <1>1
<1>3. QED
  BY <1>1, <1>2, IsASeq DEF IsSeq

(* Appending to a sequence adds its last element.                           *)
LEMMA AppendSeq ==
  ASSUME NEW s, IsSeq(s), NEW e
  PROVE  /\ IsSeq(Append(s, e))
         /\ Len(s) \in Nat
         /\ Len(Append(s, e)) = Len(s) + 1
         /\ \A i \in 1..Len(Append(s, e)) : Append(s, e)[i] = e \/ (i \in 1..Len(s) /\ Append(s, e)[i] = s[i])
<1> DEFINE T == {s[i] : i \in 1..Len(s)} \cup {e}
<1>1. Len(s) \in Nat /\ s = [i \in 1..Len(s) |-> s[i]]
  BY LenProperties DEF IsSeq
<1>2. s \in Seq(T) /\ e \in T
  BY <1>1, IsASeq
<1>3. /\ Append(s, e) \in Seq(T)
      /\ Len(Append(s, e)) = Len(s) + 1
      /\ \A i \in 1..Len(s) : Append(s, e)[i] = s[i]
      /\ Append(s, e)[Len(s) + 1] = e
  BY <1>2, AppendProperties
<1>4. IsSeq(Append(s, e))
  BY <1>3, SeqFacts
<1>5. ASSUME NEW i \in 1..Len(Append(s, e))
      PROVE  Append(s, e)[i] = e \/ (i \in 1..Len(s) /\ Append(s, e)[i] = s[i])
  <2>1. i \in 1..Len(s) \/ i = Len(s) + 1
    BY <1>1, <1>3, <1>5
  <2>2. QED
    BY <1>3, <2>1
<1>6. QED
  BY <1>1, <1>3, <1>4, <1>5

(* The front and the last element of a sequence.                            *)
LEMMA FrontSeq ==
  ASSUME NEW s, IsSeq(s), s # <<>>
  PROVE  /\ IsSeq(Front(s))
         /\ Len(s) \in Nat \ {0}
         /\ Len(Front(s)) = Len(s) - 1
         /\ \A i \in 1..Len(Front(s)) : Front(s)[i] = s[i]
<1>1. Len(s) \in Nat \ {0}
  BY EmptySeq, LenProperties DEF IsSeq
<1>2. Front(s) = [i \in 1..(Len(s) - 1) |-> s[i]]
  BY <1>1 DEF Front
<1>3. Front(s) \in Seq({s[i] : i \in 1..Len(s)})
  BY <1>1, <1>2, IsASeq
<1>4. IsSeq(Front(s))
  BY <1>3, SeqFacts
<1>5. Len(Front(s)) = Len(s) - 1
  BY <1>1, <1>2
<1>6. \A i \in 1..Len(Front(s)) : Front(s)[i] = s[i]
  BY <1>2, <1>5
<1>7. QED
  BY <1>1, <1>4, <1>5, <1>6

-----------------------------------------------------------------------------
(* Values.  A value is nowhere, or in a slice of bundle b.                   *)

IsValue(x) ==
  x = [kind |-> x.kind, cols |-> x.cols, lens |-> x.lens, rows |-> x.rows, at |-> x.at]
Owned(b, x) == IsValue(x) /\ (x.at = Fresh \/ x.at.buf[1] = b)

(* A value that a layer makes anew is no one's,                             *)
LEMMA OwnedValue ==
  ASSUME NEW b, NEW kind, NEW cols, NEW lens, NEW rows
  PROVE  Owned(b, Value(kind, cols, lens, rows))
  BY DEF Owned, IsValue, Value

(* and a value stays its bundle's when its kind or its lengths change.      *)
LEMMA OwnedUpdate ==
  ASSUME NEW b, NEW x, Owned(b, x)
  PROVE  /\ \A kind : Owned(b, [x EXCEPT !.kind = kind])
         /\ \A lens : Owned(b, [x EXCEPT !.lens = lens])
         /\ \A at : at = Fresh \/ at.buf[1] = b => Owned(b, [x EXCEPT !.at = at])
<1>1. ASSUME NEW kind PROVE Owned(b, [x EXCEPT !.kind = kind])
  BY DEF Owned, IsValue
<1>2. ASSUME NEW lens PROVE Owned(b, [x EXCEPT !.lens = lens])
  BY DEF Owned, IsValue
<1>3. ASSUME NEW at, at = Fresh \/ at.buf[1] = b PROVE Owned(b, [x EXCEPT !.at = at])
  BY <1>3 DEF Owned, IsValue
<1>4. QED
  BY <1>1, <1>2, <1>3

(* So it does when two of its fields change at once.                        *)
LEMMA OwnedUpdates ==
  ASSUME NEW b, NEW x, Owned(b, x), NEW kind
  PROVE  /\ Owned(b, [x EXCEPT !.kind = kind])
         /\ Owned(b, [x EXCEPT !.kind = kind, !.at = Fresh])
         /\ \A lens : Owned(b, [x EXCEPT !.kind = kind, !.lens = lens])
<1>1. [x EXCEPT !.kind = kind, !.at = Fresh] = [[x EXCEPT !.kind = kind] EXCEPT !.at = Fresh]
  OBVIOUS
<1>2. ASSUME NEW lens
      PROVE  [x EXCEPT !.kind = kind, !.lens = lens] = [[x EXCEPT !.kind = kind] EXCEPT !.lens = lens]
  OBVIOUS
<1>3. QED
  BY <1>1, <1>2, OwnedUpdate

(* So is a value that a layer may refuse.                                   *)
LEMMA OwnedIf ==
  ASSUME NEW b, NEW x, NEW accepted, Owned(b, x)
  PROVE  Owned(b, If(accepted, x))
  BY OwnedValue DEF If, Refused

(* No layer returns memory of another bundle: a leaf makes its result or     *)
(* passes its input on.                                                      *)
LEMMA LeafOwned ==
  ASSUME NEW b, NEW n, NEW x, Owned(b, x)
  PROVE  Owned(b, LeafForward(n, x))
<1>1. Owned(b, HashEmbedForward(n, x))
  BY OwnedValue, OwnedIf DEF HashEmbedForward, Matrix
<1>2. Owned(b, MaxoutForward(n, x))
  BY OwnedValue, OwnedIf DEF MaxoutForward, Matrix
<1>3. Owned(b, LayerNormForward(n, x))
  BY OwnedValue, OwnedIf DEF LayerNormForward, Matrix
<1>4. Owned(b, LinearForward(n, x))
  BY OwnedValue, OwnedIf DEF LinearForward, Matrix
<1>5. Owned(b, SoftmaxForward(n, x)) /\ Owned(b, MishForward(n, x))
  BY <1>4 DEF SoftmaxForward, MishForward
<1>6. Owned(b, DropoutForward(x))
  BY OwnedIf DEF DropoutForward
<1>7. Owned(b, ExpandWindowForward(n, x))
  BY OwnedValue, OwnedIf DEF ExpandWindowForward, Matrix
<1>8. Owned(b, PrecomputableAffineForward(n, x))
  BY OwnedValue, OwnedIf DEF PrecomputableAffineForward, Matrix
<1>9. Owned(b, StaticVectorsForward(n, x))
  BY OwnedValue, OwnedIf DEF StaticVectorsForward
<1>10. Owned(b, ExtractFeatures(n, x))
  BY OwnedValue, OwnedIf DEF ExtractFeatures
<1>11. Owned(b, List2RaggedForward(x))
  BY OwnedUpdates, OwnedIf DEF List2RaggedForward
<1>12. Owned(b, Ragged2ListForward(x))
  BY OwnedUpdates, OwnedIf DEF Ragged2ListForward
<1>13. Owned(b, List2ArrayForward(x))
  BY OwnedValue, OwnedIf DEF List2ArrayForward, Matrix
<1>14. Owned(b, IntsGetitemForward(n, x))
  BY OwnedValue, OwnedIf DEF IntsGetitemForward
<1>15. QED
  BY <1>1, <1>2, <1>3, <1>4, <1>5, <1>6, <1>7, <1>8, <1>9, <1>10, <1>11, <1>12, <1>13, <1>14
  DEF LeafForward

(* So it is for what a layer with children gives the first of them ...       *)
LEMMA OpenedOwned ==
  ASSUME NEW b, NEW n, NEW x, Owned(b, x)
  PROVE  Owned(b, Opened(n, x))
<1>1. Owned(b, Flattened(n, x))
  BY OwnedValue, OwnedUpdates DEF Flattened, Matrix, Refused
<1>2. QED
  BY <1>1, OwnedIf DEF Opened

(* ... and for what it makes of their outputs.                               *)
LEMMA JoinedOwned ==
  ASSUME NEW b, NEW n, NEW x, NEW outs, Owned(b, x), Owned(b, outs[1])
  PROVE  Owned(b, Joined(n, x, outs))
<1>1. Owned(b, SideBySide(outs))
  BY OwnedValue, OwnedIf DEF SideBySide
<1>2. Owned(b, ResidualSum(x, outs[1]))
  BY OwnedValue, OwnedIf DEF ResidualSum, Matrix
<1>3. Owned(b, Unflattened(n, x, outs[1]))
  BY OwnedValue, OwnedUpdates, OwnedIf DEF Unflattened
<1>4. QED
  BY <1>1, <1>2, <1>3 DEF Joined

-----------------------------------------------------------------------------
(* Runs.  Everything a run holds belongs to its bundle.                      *)

IsFrame(b, f) ==
  /\ f = [node |-> f.node, ends |-> f.ends, x |-> f.x, outs |-> f.outs]
  /\ Owned(b, f.x)
  /\ IsSeq(f.outs)
  /\ \A k \in 1..Len(f.outs) : Owned(b, f.outs[k])

AreFrames(b, frames) == IsSeq(frames) /\ \A i \in 1..Len(frames) : IsFrame(b, frames[i])

RunOK(b, run) ==
  /\ run = [pipe |-> run.pipe, place |-> run.place, last |-> run.last, x |-> run.x, frames |-> run.frames]
  /\ Owned(b, run.x)
  /\ AreFrames(b, run.frames)

(* The empty sequence is one.                                               *)
LEMMA EmptyIsSeq == IsSeq(<<>>) /\ Len(<<>>) = 0
  BY EmptySeq DEF IsSeq

(* A frame stays one with other children to come,                           *)
LEMMA FrameEnds ==
  ASSUME NEW b, NEW f, IsFrame(b, f), NEW ends
  PROVE  IsFrame(b, [f EXCEPT !.ends = ends])
  BY DEF IsFrame

(* with other outputs,                                                      *)
LEMMA FrameOuts ==
  ASSUME NEW b, NEW f, IsFrame(b, f), NEW outs, IsSeq(outs),
         \A k \in 1..Len(outs) : Owned(b, outs[k])
  PROVE  IsFrame(b, [f EXCEPT !.outs = outs])
  BY DEF IsFrame

(* and with both.                                                           *)
LEMMA FrameUpdate ==
  ASSUME NEW b, NEW f, IsFrame(b, f), NEW ends, NEW outs, IsSeq(outs),
         \A k \in 1..Len(outs) : Owned(b, outs[k])
  PROVE  IsFrame(b, [f EXCEPT !.ends = ends, !.outs = outs])
<1>1. [f EXCEPT !.ends = ends, !.outs = outs] = [[f EXCEPT !.ends = ends] EXCEPT !.outs = outs]
  OBVIOUS
<1>2. QED
  BY <1>1, FrameEnds, FrameOuts

(* A run starts with a value of its bundle and no frames.                   *)
LEMMA StartOK ==
  ASSUME NEW b, NEW pipe, NEW tree, NEW from, NEW last, NEW x, Owned(b, x)
  PROVE  RunOK(b, Start(pipe, tree, from, last, x)) /\ Start(pipe, tree, from, last, x).pipe = pipe
  BY EmptyIsSeq DEF Start, RunOK, AreFrames

(* No run holds no one's value.                                             *)
LEMMA NoRunOK ==
  ASSUME NEW b
  PROVE  RunOK(b, NoRun)
  BY EmptyIsSeq, OwnedValue DEF NoRun, Nothing, RunOK, AreFrames

(* The last frame of a run is one of its bundle, and so are the others.     *)
LEMMA TopFrame ==
  ASSUME NEW b, NEW frames, AreFrames(b, frames), frames # <<>>
  PROVE  IsFrame(b, Last(frames)) /\ AreFrames(b, Front(frames))
<1>1. Len(frames) \in Nat \ {0}
  BY FrontSeq DEF AreFrames
<1>2. IsFrame(b, Last(frames))
  BY <1>1 DEF Last, AreFrames
<1>3. ASSUME NEW i \in 1..Len(Front(frames))
      PROVE  IsFrame(b, Front(frames)[i])
  <2>1. i \in 1..Len(frames) /\ Front(frames)[i] = frames[i]
    BY <1>1, FrontSeq DEF AreFrames
  <2>2. QED
    BY <2>1 DEF AreFrames
<1>4. QED
  BY <1>2, <1>3, FrontSeq DEF AreFrames

(* A frame can be added,                                                    *)
LEMMA PushFrame ==
  ASSUME NEW b, NEW frames, AreFrames(b, frames), NEW f, IsFrame(b, f)
  PROVE  AreFrames(b, Append(frames, f))
<1>1. IsSeq(Append(frames, f))
  BY AppendSeq DEF AreFrames
<1>2. ASSUME NEW i \in 1..Len(Append(frames, f))
      PROVE  IsFrame(b, Append(frames, f)[i])
  BY AppendSeq DEF AreFrames
<1>3. QED
  BY <1>1, <1>2 DEF AreFrames

(* and an output to a frame.                                                *)
LEMMA FrameOutput ==
  ASSUME NEW b, NEW f, IsFrame(b, f), NEW y, Owned(b, y)
  PROVE  /\ IsSeq(Append(f.outs, y))
         /\ \A k \in 1..Len(Append(f.outs, y)) : Owned(b, Append(f.outs, y)[k])
         /\ Owned(b, Append(f.outs, y)[1])
<1>1. IsSeq(Append(f.outs, y)) /\ Len(f.outs) \in Nat /\ Len(Append(f.outs, y)) = Len(f.outs) + 1
  BY AppendSeq DEF IsFrame
<1>2. \A k \in 1..Len(Append(f.outs, y)) : Owned(b, Append(f.outs, y)[k])
  BY AppendSeq DEF IsFrame
<1>3. 1 \in 1..Len(Append(f.outs, y))
  BY <1>1
<1>4. QED
  BY <1>1, <1>2, <1>3

(* A step of a run computes a value from what the run holds ...              *)
LEMMA ResultOwned ==
  ASSUME NEW b, NEW tree, NEW run, RunOK(b, run)
  PROVE  Owned(b, Result(tree, run))
<1> DEFINE n == NodeOf(tree, run)
           f == Last(run.frames)
<1> HIDE DEF n
<1>1. CASE Returning(run) /\ Len(f.ends) > 1
  BY <1>1 DEF Result, RunOK
<1>2. CASE Returning(run) /\ ~(Len(f.ends) > 1)
  <2>1. IsFrame(b, f)
    BY <1>2, TopFrame DEF Returning, RunOK
  <2>2. Owned(b, Joined(n, f.x, Append(f.outs, run.x)))
    BY <2>1, FrameOutput, JoinedOwned DEF IsFrame, RunOK
  <2>3. QED
    BY <1>2, <2>2 DEF Result, n
<1>3. CASE ~Returning(run) /\ n.kind \in Compounds
  BY <1>3, OpenedOwned DEF Result, RunOK, n
<1>4. CASE ~Returning(run) /\ n.kind \notin Compounds
  BY <1>4, LeafOwned DEF Result, RunOK, n
<1>5. QED
  BY <1>1, <1>2, <1>3, <1>4

(* A run stays its bundle's with another value, another place, other        *)
(* frames.                                                                  *)
LEMMA RunUpdate ==
  ASSUME NEW b, NEW run, RunOK(b, run)
  PROVE  /\ \A y : Owned(b, y) => RunOK(b, [run EXCEPT !.x = y])
         /\ \A place : RunOK(b, [run EXCEPT !.place = place])
         /\ \A frames : AreFrames(b, frames) => RunOK(b, [run EXCEPT !.frames = frames])
<1>1. ASSUME NEW y, Owned(b, y) PROVE RunOK(b, [run EXCEPT !.x = y])
  BY <1>1 DEF RunOK
<1>2. ASSUME NEW place PROVE RunOK(b, [run EXCEPT !.place = place])
  BY <1>2 DEF RunOK
<1>3. ASSUME NEW frames, AreFrames(b, frames) PROVE RunOK(b, [run EXCEPT !.frames = frames])
  BY <1>3 DEF RunOK
<1>4. QED
  BY <1>1, <1>2, <1>3

(* ... and goes on with it.                                                  *)
LEMMA AdvancedOK ==
  ASSUME NEW b, NEW tree, NEW run, RunOK(b, run), NEW y, Owned(b, y)
  PROVE  RunOK(b, Advanced(tree, run, y)) /\ Advanced(tree, run, y).pipe = run.pipe
<1> DEFINE n == NodeOf(tree, run)
           f == Last(run.frames)
           next == Skip(tree, run.place + 1)
           again == Append(Front(run.frames), [f EXCEPT !.ends = Tail(f.ends), !.outs = Append(f.outs, y)])
           opened == Append(run.frames, [node |-> run.place, ends |-> ChildEnds(tree, run.place),
                                         x |-> run.x, outs |-> <<>>])
<1> HIDE DEF n, next
<1>1. CASE Returning(run) /\ Len(f.ends) > 1
  <2>1. IsFrame(b, f) /\ AreFrames(b, Front(run.frames))
    BY <1>1, TopFrame DEF Returning, RunOK
  <2>2. IsFrame(b, [f EXCEPT !.ends = Tail(f.ends), !.outs = Append(f.outs, y)])
    BY <2>1, FrameOutput, FrameUpdate
  <2>5. AreFrames(b, again)
    BY <2>1, <2>2, PushFrame
  <2>6. RunOK(b, [[run EXCEPT !.x = f.x] EXCEPT !.frames = again])
    BY <2>1, <2>5, RunUpdate DEF IsFrame
  <2>7. Advanced(tree, run, y) = [[run EXCEPT !.x = f.x] EXCEPT !.frames = again]
    BY <1>1 DEF Advanced
  <2>8. QED
    BY <2>6, <2>7 DEF RunOK
<1>2. CASE Returning(run) /\ ~(Len(f.ends) > 1)
  <2>1. AreFrames(b, Front(run.frames))
    BY <1>2, TopFrame DEF Returning, RunOK
  <2>2. Advanced(tree, run, y) = [[run EXCEPT !.x = y] EXCEPT !.frames = Front(run.frames)]
    BY <1>2 DEF Advanced
  <2>3. QED
    BY <2>1, <2>2, RunUpdate DEF RunOK
<1>3. CASE ~Returning(run) /\ n.kind \in Compounds
  <2>1. AreFrames(b, opened)
    BY PushFrame, EmptyIsSeq DEF RunOK, IsFrame
  <2>2. Advanced(tree, run, y) = [[[run EXCEPT !.x = y] EXCEPT !.place = next] EXCEPT !.frames = opened]
    BY <1>3 DEF Advanced, n, next
  <2>3. QED
    BY <2>1, <2>2, RunUpdate DEF RunOK
<1>4. CASE ~Returning(run) /\ n.kind \notin Compounds
  <2>1. Advanced(tree, run, y) = [[run EXCEPT !.x = y] EXCEPT !.place = next]
    BY <1>4 DEF Advanced, n, next
  <2>2. QED
    BY <2>1, RunUpdate DEF RunOK
<1>5. QED
  BY <1>1, <1>2, <1>3, <1>4

(* What a run of a bundle holds is of that bundle.                          *)
LEMMA HeldOwned ==
  ASSUME NEW b, NEW run, RunOK(b, run), NEW v \in HeldBy(run)
  PROVE  Owned(b, v)
<1>1. DOMAIN run.frames = 1..Len(run.frames)
  BY SeqFacts DEF RunOK, AreFrames, IsSeq
<1>2. CASE v = run.x
  BY <1>2 DEF RunOK
<1>3. CASE v # run.x
  <2>1. PICK i \in DOMAIN run.frames :
          v \in {run.frames[i].x} \cup {run.frames[i].outs[k] : k \in DOMAIN run.frames[i].outs}
    BY <1>3 DEF HeldBy
  <2>2. IsFrame(b, run.frames[i])
    BY <1>1 DEF RunOK, AreFrames
  <2>3. DOMAIN run.frames[i].outs = 1..Len(run.frames[i].outs)
    BY <2>2, SeqFacts DEF IsFrame, IsSeq
  <2>4. QED
    BY <2>1, <2>2, <2>3 DEF IsFrame
<1>4. QED
  BY <1>2, <1>3

-----------------------------------------------------------------------------
(* The inductive invariant, bundle by bundle.                                *)

Runnable(u, name) == name \in DOMAIN u.pipes /\ ~u.pipes[name].skipped
Parts == {"tagger", "parser", "ner"}

(* A loaded bundle has its own maps and closures; its components are pipes   *)
(* that run and were made, with a lemmatizer of its own, by the first call.  *)
BundleOK(b, u) ==
  /\ u = [field \in {"loaded", "strings", "lexemes", "pipes", "ready", "parts", "posCache"} |-> u[field]]
  /\ u.loaded => u.strings = b /\ u.lexemes = b
  /\ \A name \in DOMAIN u.pipes : Runnable(u, name) => u.pipes[name].closures = b
  /\ u.ready => u.posCache = b
  /\ \A part \in u.parts : u.ready /\ part \in Parts /\ Runnable(u, part)

(* The stages after todoc that a call of bundle u may go through.            *)
StagesOf(u) ==
  {"tok2vec"}
    \cup (IF u.ready THEN {"annotate"} ELSE {})
    \cup (IF u.ready /\ Runnable(u, "tagger") THEN {"tagger"} ELSE {})
    \cup (IF u.ready /\ Runnable(u, "parser") THEN {"project", "lower", "decode"} ELSE {})
    \cup (IF u.ready /\ Runnable(u, "ner") THEN {"nertok2vec", "nerlower", "nerdecode"} ELSE {})

(* A call comes to its stages by way of todoc; that of one document makes    *)
(* the components first.                                                     *)
PlanOK(u, call) ==
  \/ call.plan = <<"components", "todoc">>
  \/ call.plan = <<"todoc">> /\ (u.ready \/ IsBatch(call))
  \/ call.plan \in Seq(StagesOf(u))

HoldsOwn(b, call) ==
  /\ call = [field \in {"docs", "skipNER", "plan", "run", "vectors", "out"} |-> call[field]]
  /\ RunOK(b, call.run)
  /\ Owned(b, call.vectors)
  /\ Owned(b, call.out)

(* A call holds memory of its own bundle only and runs a pipe that is there. *)
CallOK(b, u, call) ==
  /\ HoldsOwn(b, call)
  /\ PlanOK(u, call)
  /\ call.plan # <<>> => u.loaded
  /\ call.plan # <<>> /\ Head(call.plan) \in RunStages => Runnable(u, call.run.pipe)

KnownTo(store) == store \cup Symbols \cup {""}

(* What resolves: the lexemes in the cache, the labels of the components and *)
(* what was returned.                                                        *)
StoreOK(u, labels, store, cache, docs) ==
  /\ \A word \in cache : LexemeStrings(word) \subseteq KnownTo(store)
  /\ docs \subseteq KnownTo(store)
  /\ ~u.loaded => docs = {}
  /\ u.ready => /\ \A name \in Parts : Runnable(u, name) => labels[name] \subseteq KnownTo(store)
                /\ Runnable(u, "parser") => "ROOT" \in KnownTo(store)

InvOf(b) ==
  /\ BundleOK(b, bundles[b])
  /\ CallOK(b, bundles[b], calls[b])
  /\ StoreOK(bundles[b], disk.labels, strings[b], lexemes[b], documents[b])

Tables ==
  /\ bundles = [b \in Bundles |-> bundles[b]]
  /\ calls = [b \in Bundles |-> calls[b]]
  /\ strings = [b \in Bundles |-> strings[b]]
  /\ lexemes = [b \in Bundles |-> lexemes[b]]
  /\ documents = [b \in Bundles |-> documents[b]]

Phases ==
  /\ phase = "load" => \A b \in Bundles : ~bundles[b].loaded
  /\ phase = "build" => bundles[1].loaded
  /\ phase = "run" => \A b \in Bundles : bundles[b].loaded

IInv == Tables /\ Phases /\ \A b \in Bundles : InvOf(b)

-----------------------------------------------------------------------------
(* Idle and absent bundles.                                                  *)

(* A call that is not running is well formed,                               *)
LEMMA IdleOK ==
  ASSUME NEW b, NEW u
  PROVE  CallOK(b, u, Idle)
<1>1. HoldsOwn(b, Idle)
  BY NoRunOK, OwnedValue DEF Idle, HoldsOwn, Nothing
<1>2. Idle.plan = <<>> /\ <<>> \in Seq(StagesOf(u))
  BY DEF Idle
<1>3. QED
  BY <1>1, <1>2 DEF CallOK, PlanOK

(* and so is a bundle that was not made yet.                                *)
LEMMA AbsentOK ==
  ASSUME NEW b
  PROVE  BundleOK(b, Absent)
  BY DEF BundleOK, Absent, Runnable

(* The invariant holds at the start.                                        *)
LEMMA InitInv == Init => IInv
<1> SUFFICES ASSUME Init PROVE IInv
  OBVIOUS
<1>1. Tables
  BY DEF Init, Tables
<1>2. \A b \in Bundles : ~bundles[b].loaded /\ ~bundles[b].ready
  BY DEF Init, Absent
<1>3. Phases
  BY <1>2 DEF Init, Phases
<1>4. ASSUME NEW b \in Bundles PROVE InvOf(b)
  <2>1. BundleOK(b, bundles[b])
    BY AbsentOK DEF Init
  <2>2. CallOK(b, bundles[b], calls[b])
    BY IdleOK DEF Init
  <2>3. StoreOK(bundles[b], disk.labels, strings[b], lexemes[b], documents[b])
    BY <1>2 DEF Init, StoreOK
  <2>4. QED
    BY <2>1, <2>2, <2>3 DEF InvOf
<1>5. QED
  BY <1>1, <1>3, <1>4 DEF IInv

(* A step of one bundle leaves the tables of the others as they are.         *)
OnlyOf(b) ==
  \A c \in Bundles \ {b} :
    /\ bundles'[c] = bundles[c]
    /\ calls'[c] = calls[c]
    /\ strings'[c] = strings[c]
    /\ lexemes'[c] = lexemes[c]
    /\ documents'[c] = documents[c]

(* A step that changes one bundle's part of the state has only that part to *)
(* keep.                                                                    *)
LEMMA LocalStep ==
  ASSUME IInv, NEW b \in Bundles, OnlyOf(b), Tables', Phases', disk' = disk, InvOf(b)'
  PROVE  IInv'
<1>1. ASSUME NEW c \in Bundles \ {b} PROVE InvOf(c)'
  <2>1. InvOf(c)
    BY DEF IInv
  <2>2. QED
    BY <2>1 DEF InvOf, OnlyOf
<1>2. QED
  BY <1>1 DEF IInv

-----------------------------------------------------------------------------
(* Entering the next stage of a plan.                                        *)

(* The first stage of a plan, and what is left after it.                    *)
LEMMA HeadPlan ==
  ASSUME NEW u, NEW call, PlanOK(u, call), call.plan # <<>>
  PROVE  LET plan == call.plan
         IN \/ plan = <<"components", "todoc">> /\ Head(plan) = "components" /\ Tail(plan) = <<"todoc">>
            \/ plan = <<"todoc">> /\ Head(plan) = "todoc" /\ (u.ready \/ IsBatch(call))
            \/ plan \in Seq(StagesOf(u)) /\ Head(plan) \in StagesOf(u) /\ Tail(plan) \in Seq(StagesOf(u))
<1> DEFINE plan == call.plan
<1>1. CASE plan \in Seq(StagesOf(u))
  <2>1. Head(plan) \in StagesOf(u) /\ Tail(plan) \in Seq(StagesOf(u))
    BY <1>1, HeadTailProperties
  <2>2. QED
    BY <1>1, <2>1
<1>2. CASE plan = <<"components", "todoc">>
  BY <1>2
<1>3. CASE plan = <<"todoc">> /\ (u.ready \/ IsBatch(call))
  BY <1>3
<1>4. QED
  BY <1>1, <1>2, <1>3 DEF PlanOK

(* The run of a stage is in a pipe that runs, and of its bundle.            *)
LEMMA RunOfOK ==
  ASSUME NEW b \in Bundles, NEW call, HoldsOwn(b, call), call.plan # <<>>,
         Head(call.plan) \in StagesOf(bundles[b]) \cap RunStages,
         Head(call.plan) = "tok2vec" => Runs(b, "tok2vec")
  PROVE  RunOK(b, RunOf(b, call)) /\ Runnable(bundles[b], RunOf(b, call).pipe)
<1> DEFINE stage == Head(call.plan)
<1>1. Owned(b, Docs(Lens(call.docs)))
  BY OwnedValue DEF Docs
<1>2. Owned(b, call.vectors) /\ Owned(b, [call.vectors EXCEPT !.kind = "ragged"]) /\ Owned(b, call.out)
  BY OwnedUpdate DEF HoldsOwn
<1>3. CASE stage = "tok2vec"
  <2>1. PICK from, last : RunOf(b, call) = Start("tok2vec", Tree(b, "tok2vec"), from, last, Docs(Lens(call.docs)))
    BY <1>3 DEF RunOf
  <2>2. QED
    BY <1>1, <1>3, <2>1, StartOK DEF Runs, Runnable
<1>4. CASE stage = "tagger"
  <2>1. PICK from, last :
          RunOf(b, call) = Start("tagger", Tree(b, "tagger"), from, last, [call.vectors EXCEPT !.kind = "ragged"])
    BY <1>4 DEF RunOf
  <2>2. Runnable(bundles[b], "tagger")
    BY <1>4 DEF StagesOf
  <2>3. QED
    BY <1>2, <2>1, <2>2, StartOK
<1>5. CASE stage = "project"
  <2>1. PICK from, last : RunOf(b, call) = Start("parser", Tree(b, "parser"), from, last, call.vectors)
    BY <1>5 DEF RunOf
  <2>2. Runnable(bundles[b], "parser")
    BY <1>5 DEF StagesOf
  <2>3. QED
    BY <1>2, <2>1, <2>2, StartOK
<1>6. CASE stage = "lower"
  <2>1. PICK from, last : RunOf(b, call) = Start("parser", Tree(b, "parser"), from, last, call.out)
    BY <1>6 DEF RunOf
  <2>2. Runnable(bundles[b], "parser")
    BY <1>6 DEF StagesOf
  <2>3. QED
    BY <1>2, <2>1, <2>2, StartOK
<1>7. CASE stage = "nertok2vec"
  <2>1. PICK from, last : RunOf(b, call) = Start("ner", Tree(b, "ner"), from, last, Docs(Lens(call.docs)))
    BY <1>7 DEF RunOf
  <2>2. Runnable(bundles[b], "ner")
    BY <1>7 DEF StagesOf
  <2>3. QED
    BY <1>1, <2>1, <2>2, StartOK
<1>8. CASE stage = "nerlower"
  <2>1. PICK from, last : RunOf(b, call) = Start("ner", Tree(b, "ner"), from, last, call.out)
    BY <1>8 DEF RunOf
  <2>2. Runnable(bundles[b], "ner")
    BY <1>8 DEF StagesOf
  <2>3. QED
    BY <1>2, <2>1, <2>2, StartOK
<1>9. QED
  BY <1>3, <1>4, <1>5, <1>6, <1>7, <1>8 DEF RunStages

(* A call is well formed when it enters a stage.                            *)
LEMMA EnteredOK ==
  ASSUME NEW b \in Bundles, NEW call, HoldsOwn(b, call), bundles[b].loaded,
         call.plan \in Seq(StagesOf(bundles[b])),
         call.plan # <<>> /\ Head(call.plan) = "tok2vec" => Runs(b, "tok2vec")
  PROVE  CallOK(b, bundles[b], Entered(b, call))
<1>1. CASE call.plan = <<>>
  BY <1>1, IdleOK DEF Entered
<1>2. CASE call.plan # <<>>
  <2> DEFINE run == IF Head(call.plan) \in RunStages THEN RunOf(b, call) ELSE NoRun
  <2>1. Entered(b, call) = [call EXCEPT !.run = run]
    BY <1>2 DEF Entered
  <2>2. Head(call.plan) \in StagesOf(bundles[b])
    BY <1>2, HeadTailProperties
  <2>3. RunOK(b, run) /\ (Head(call.plan) \in RunStages => Runnable(bundles[b], run.pipe))
    BY <1>2, <2>2, RunOfOK, NoRunOK
  <2> HIDE DEF run
  <2>4. HoldsOwn(b, [call EXCEPT !.run = run])
    BY <2>3 DEF HoldsOwn
  <2>5. [call EXCEPT !.run = run].plan = call.plan /\ [call EXCEPT !.run = run].run = run
    BY DEF HoldsOwn
  <2>6. QED
    BY <2>1, <2>3, <2>4, <2>5 DEF CallOK, PlanOK
<1>3. QED
  BY <1>1, <1>2

(* Entering a stage, or failing for want of a tok2vec.                       *)
LEMMA EnterOK ==
  ASSUME NEW b \in Bundles, Tables, NEW call, HoldsOwn(b, call), bundles[b].loaded,
         call.plan \in Seq(StagesOf(bundles[b])), Enter(b, call)
  PROVE  CallOK(b, bundles[b], calls'[b]) /\ \E new : calls' = [calls EXCEPT ![b] = new]
<1>1. CASE call.plan # <<>> /\ Head(call.plan) = "tok2vec" /\ ~Runs(b, "tok2vec")
  <2>1. calls' = [calls EXCEPT ![b] = Idle]
    BY <1>1 DEF Enter
  <2>2. calls'[b] = Idle
    BY <2>1 DEF Tables
  <2>3. QED
    BY <2>1, <2>2, IdleOK
<1>2. CASE ~(call.plan # <<>> /\ Head(call.plan) = "tok2vec" /\ ~Runs(b, "tok2vec"))
  <2>1. calls' = [calls EXCEPT ![b] = Entered(b, call)]
    BY <1>2 DEF Enter
  <2>2. calls'[b] = Entered(b, call)
    BY <2>1 DEF Tables
  <2>3. QED
    BY <1>2, <2>1, <2>2, EnteredOK
<1>3. QED
  BY <1>1, <1>2

-----------------------------------------------------------------------------
(* The string store only grows.                                              *)

(* A string store only grows,                                               *)
LEMMA AddedKnown ==
  ASSUME NEW store, NEW new
  PROVE  KnownTo(store) \subseteq KnownTo(Added(store, new)) /\ new \subseteq KnownTo(Added(store, new))
  BY DEF KnownTo, Added

(* so the hashes it could resolve stay resolvable.                          *)
LEMMA StoreGrows ==
  ASSUME NEW u, NEW labels, NEW store, NEW more, NEW cache, NEW docs, NEW new,
         StoreOK(u, labels, store, cache, docs), u.loaded,
         KnownTo(store) \subseteq KnownTo(more), new \subseteq KnownTo(more)
  PROVE  StoreOK(u, labels, more, cache, docs \cup new)
  BY DEF StoreOK

(* After Vocab.Get every string of every lexeme asked for can be resolved.   *)
LEMMA GetKnown ==
  ASSUME NEW store, NEW cache, NEW words,
         \A word \in cache : LexemeStrings(word) \subseteq KnownTo(store)
  PROVE  /\ KnownTo(store) \subseteq KnownTo(StoreAfterGet(store, cache, words))
         /\ \A word \in CacheAfterGet(cache, words) :
              LexemeStrings(word) \subseteq KnownTo(StoreAfterGet(store, cache, words))
<1> DEFINE new == UNION {LexemeStrings(word) : word \in words \ cache}
<1>1. /\ KnownTo(store) \subseteq KnownTo(Added(store, new))
      /\ new \subseteq KnownTo(Added(store, new))
  BY AddedKnown
<1>2. \A word \in words \ cache : LexemeStrings(word) \subseteq new
  OBVIOUS
<1> HIDE DEF new
<1>3. StoreAfterGet(store, cache, words) = Added(store, new)
  BY DEF StoreAfterGet, new
<1>4. QED
  BY <1>1, <1>2, <1>3 DEF CacheAfterGet

(* The strings a document hashes belong to lexemes that were asked for.      *)
LEMMA TokensAsked ==
  ASSUME NEW tokens, NEW t \in tokens, NEW store,
         \A word \in WordsOf(tokens) : LexemeStrings(word) \subseteq KnownTo(store)
  PROVE  TokenStrings(t) \subseteq KnownTo(store)
<1>1. t.orth \in WordsOf(tokens) /\ (t.norm # "" => t.norm \in WordsOf(tokens))
  BY DEF WordsOf
<1>2. LexemeStrings(t.orth) \subseteq KnownTo(store)
  BY <1>1
<1>3. t.norm # "" => t.norm \in KnownTo(store)
  BY <1>1 DEF LexemeStrings
<1>4. QED
  BY <1>2, <1>3 DEF TokenStrings, LexemeStrings

-----------------------------------------------------------------------------
(* The steps, one by one.                                                    *)

(* The phases only depend on which bundles are loaded.                      *)
LEMMA PhasesKept ==
  ASSUME Phases, phase' = phase, \A c \in Bundles : bundles'[c].loaded = bundles[c].loaded
  PROVE  Phases'
  BY BundlesAssumption DEF Phases

(* Making the components interns their labels and the strings of the ruler  *)
(* in the bundle's own store, and makes a lemmatizer of its own.            *)
LEMMA EnsureComponentsInv ==
  ASSUME IInv, NEW b \in Bundles, EnsureComponents(b)
  PROVE  IInv'
<1> DEFINE u == bundles[b]
<1>1. Tables /\ Phases /\ BundleOK(b, u) /\ CallOK(b, u, calls[b])
      /\ StoreOK(u, disk.labels, strings[b], lexemes[b], documents[b])
  BY DEF IInv, InvOf
<1>2. calls[b].plan = <<"components", "todoc">> /\ Tail(calls[b].plan) = <<"todoc">> /\ u.loaded
  <2>1. calls[b].plan # <<>> /\ Head(calls[b].plan) = "components"
    BY DEF EnsureComponents, Busy
  <2>2. "components" \notin StagesOf(u) /\ "components" # "todoc"
    BY DEF StagesOf
  <2>3. QED
    BY <1>1, <2>1, <2>2, HeadPlan DEF CallOK
<1>3. u.strings = b /\ u.lexemes = b
  BY <1>1, <1>2 DEF BundleOK
<1>4. calls' = [calls EXCEPT ![b] = [calls[b] EXCEPT !.plan = <<"todoc">>]]
  BY <1>1, <1>2 DEF EnsureComponents, Tables
<1>5. calls'[b] = [calls[b] EXCEPT !.plan = <<"todoc">>]
  BY <1>1, <1>4 DEF Tables
<1>6. HoldsOwn(b, calls'[b]) /\ calls'[b].plan = <<"todoc">> /\ Head(calls'[b].plan) \notin RunStages
  <2>1. HoldsOwn(b, calls'[b]) /\ calls'[b].plan = <<"todoc">>
    BY <1>1, <1>5 DEF CallOK, HoldsOwn
  <2>2. Head(<<"todoc">>) = "todoc"
    OBVIOUS
  <2>3. QED
    BY <2>1, <2>2 DEF RunStages
<1>7. lexemes' = lexemes /\ documents' = documents /\ disk' = disk /\ phase' = phase
  BY DEF EnsureComponents
<1>8. CASE u.ready
  <2>1. bundles' = bundles /\ strings' = strings
    BY <1>8 DEF EnsureComponents
  <2>2. InvOf(b)'
    BY <1>1, <1>2, <1>6, <1>7, <1>8, <2>1 DEF InvOf, CallOK, PlanOK
  <2>3. Tables' /\ OnlyOf(b)
    BY <1>1, <1>4, <1>7, <2>1 DEF Tables, OnlyOf
  <2>4. Phases'
    BY <1>1, <1>7, <2>1, PhasesKept
  <2>5. QED
    BY <1>7, <2>2, <2>3, <2>4, LocalStep
<1>9. CASE ~u.ready
  <2> DEFINE v == [u EXCEPT !.ready = TRUE, !.parts = Components(b), !.posCache = b]
  <2>1. /\ bundles' = [bundles EXCEPT ![b].ready = TRUE, ![b].parts = Components(b), ![b].posCache = b]
        /\ strings' = [strings EXCEPT ![b] = Added(strings[b], ComponentStrings(b))]
    BY <1>3, <1>9 DEF EnsureComponents
  <2>2. bundles' = [bundles EXCEPT ![b] = v]
    BY <1>1, <2>1 DEF Tables
  <2>3. bundles'[b] = v /\ strings'[b] = Added(strings[b], ComponentStrings(b))
    BY <1>1, <2>1, <2>2 DEF Tables
  <2>4. /\ v = [field \in {"loaded", "strings", "lexemes", "pipes", "ready", "parts", "posCache"} |-> v[field]]
        /\ v.loaded = u.loaded /\ v.strings = u.strings /\ v.lexemes = u.lexemes /\ v.pipes = u.pipes
        /\ v.ready = TRUE /\ v.parts = Components(b) /\ v.posCache = b
    BY <1>1 DEF BundleOK
  <2>5. \A name : Runnable(v, name) <=> Runs(b, name)
    BY <2>4 DEF Runnable, Runs
  <2> HIDE DEF v
  <2>6. BundleOK(b, v)
    <3>1. \A part \in Components(b) : part \in Parts /\ Runs(b, part)
      BY DEF Components, Parts
    <3>2. \A name \in DOMAIN v.pipes : Runnable(v, name) => v.pipes[name].closures = b
      BY <1>1, <2>4, <2>5 DEF BundleOK, Runnable, Runs
    <3>3. QED
      BY <1>1, <2>4, <2>5, <3>1, <3>2 DEF BundleOK
  <2>7. CallOK(b, v, calls'[b])
    BY <1>2, <1>6, <2>4 DEF CallOK, PlanOK
  <2>8. StoreOK(v, disk.labels, Added(strings[b], ComponentStrings(b)), lexemes[b], documents[b])
    <3>1. /\ KnownTo(strings[b]) \subseteq KnownTo(Added(strings[b], ComponentStrings(b)))
          /\ LabelStrings(b) \subseteq KnownTo(Added(strings[b], ComponentStrings(b)))
      BY AddedKnown DEF ComponentStrings
    <3>2. ASSUME NEW name \in Parts, Runnable(v, name)
          PROVE  disk.labels[name] \subseteq LabelStrings(b)
      BY <2>5, <3>2 DEF LabelStrings, Parts
    <3>3. Runnable(v, "parser") => "ROOT" \in LabelStrings(b)
      BY <2>5 DEF LabelStrings
    <3>4. QED
      BY <1>1, <1>2, <2>4, <3>1, <3>2, <3>3 DEF StoreOK
  <2>9. InvOf(b)'
    BY <1>7, <2>3, <2>6, <2>7, <2>8 DEF InvOf
  <2>10. Tables' /\ OnlyOf(b)
    BY <1>1, <1>4, <1>7, <2>1, <2>2 DEF Tables, OnlyOf
  <2>11. \A c \in Bundles : bundles'[c].loaded = bundles[c].loaded
    BY <1>1, <2>2, <2>4 DEF Tables
  <2>12. QED
    BY <1>1, <1>7, <2>9, <2>10, <2>11, PhasesKept, LocalStep
<1>10. QED
  BY <1>8, <1>9

(* A call starts idle but for its docs and its plan.                        *)
LEMMA CallInv ==
  ASSUME IInv, NEW b \in Bundles, NEW docs, NEW skipNER, Call(b, docs, skipNER)
  PROVE  IInv'
<1> DEFINE plan == IF Len(docs) > 1 THEN <<"todoc">> ELSE <<"components", "todoc">>
           call == [Idle EXCEPT !.docs = docs, !.skipNER = skipNER, !.plan = plan]
<1>1. Tables /\ Phases /\ InvOf(b)
  BY DEF IInv
<1>2. /\ plan = <<"components", "todoc">> \/ (plan = <<"todoc">> /\ Len(docs) > 1)
      /\ Head(plan) \notin RunStages
  <2>1. Head(<<"todoc">>) = "todoc" /\ Head(<<"components", "todoc">>) = "components"
    OBVIOUS
  <2>2. QED
    BY <2>1 DEF RunStages
<1> HIDE DEF plan
<1>3. calls' = [calls EXCEPT ![b] = call]
  BY DEF Call, plan
<1>4. /\ call = [field \in {"docs", "skipNER", "plan", "run", "vectors", "out"} |-> call[field]]
      /\ call.plan = plan /\ call.run = NoRun /\ call.vectors = Nothing /\ call.out = Nothing
      /\ call.docs = docs
  BY DEF Idle
<1> HIDE DEF call
<1>5. CallOK(b, bundles[b], call)
  <2>1. Owned(b, Nothing)
    BY OwnedValue DEF Nothing
  <2>2. HoldsOwn(b, call)
    BY <1>4, <2>1, NoRunOK DEF HoldsOwn
  <2>3. bundles[b].loaded
    BY DEF Call
  <2>4. PlanOK(bundles[b], call)
    BY <1>2, <1>4 DEF PlanOK, IsBatch
  <2>5. QED
    BY <1>2, <1>4, <2>2, <2>3, <2>4 DEF CallOK
<1>6. /\ disk' = disk /\ phase' = phase /\ bundles' = bundles /\ strings' = strings
      /\ lexemes' = lexemes /\ documents' = documents
  BY DEF Call, stores
<1>7. Tables' /\ OnlyOf(b) /\ calls'[b] = call
  BY <1>1, <1>3, <1>6 DEF Tables, OnlyOf
<1>8. Phases'
  BY <1>1, <1>6, PhasesKept
<1>9. InvOf(b)'
  BY <1>1, <1>5, <1>6, <1>7 DEF InvOf
<1>10. QED
  BY <1>6, <1>7, <1>8, <1>9, LocalStep

(* The plan of a call is made of stages the bundle has.                      *)
LEMMA StagesOK ==
  ASSUME NEW b, NEW call, BundleOK(b, bundles[b]), bundles[b].ready \/ IsBatch(call)
  PROVE  Stages(b, call) \in Seq(StagesOf(bundles[b]))
<1> DEFINE u == bundles[b]
           S == StagesOf(u)
<1>1. /\ <<>> \in Seq(S)
      /\ "tok2vec" \in S /\ (u.ready => "annotate" \in S)
      /\ "tagger" \in u.parts => "tagger" \in S
      /\ "parser" \in u.parts => {"project", "lower", "decode"} \subseteq S
      /\ "ner" \in u.parts => {"nertok2vec", "nerlower", "nerdecode"} \subseteq S
  BY DEF BundleOK, StagesOf
<1> HIDE DEF S
<1>2. \A x \in Seq(S), y \in Seq(S) : x \o y \in Seq(S)
  BY ConcatProperties
<1>3. <<"tok2vec">> \in Seq(S) /\ (u.ready => <<"annotate">> \in Seq(S))
  BY <1>1
<1>4. "tagger" \in u.parts => <<"tagger">> \in Seq(S)
  BY <1>1
<1>5. "parser" \in u.parts => <<"project", "lower", "decode">> \in Seq(S)
  BY <1>1
<1>6. "ner" \in u.parts => <<"nertok2vec">> \in Seq(S) /\ <<"nerlower", "nerdecode">> \in Seq(S)
  BY <1>1
<1>7. CASE IsBatch(call)
  BY <1>3, <1>7 DEF Stages, S
<1>8. CASE ~IsBatch(call)
  <2> DEFINE some == Lens(call.docs)[1] > 0
             s1 == IF u.parts \cap {"tagger", "parser"} # {} THEN <<"tok2vec">> ELSE <<>>
             s2 == IF "tagger" \in u.parts /\ some THEN <<"tagger">> ELSE <<>>
             s3 == IF "parser" \in u.parts /\ some THEN <<"project", "lower", "decode">> ELSE <<>>
             s4 == <<"annotate">>
             s5 == IF "ner" \in u.parts /\ ~call.skipNER THEN <<"nertok2vec">> ELSE <<>>
             s6 == IF "ner" \in u.parts /\ ~call.skipNER /\ some THEN <<"nerlower", "nerdecode">> ELSE <<>>
  <2>1. Stages(b, call) = s1 \o s2 \o s3 \o s4 \o s5 \o s6
    BY <1>8 DEF Stages
  <2>2. s1 \in Seq(S) /\ s2 \in Seq(S) /\ s3 \in Seq(S) /\ s4 \in Seq(S) /\ s5 \in Seq(S) /\ s6 \in Seq(S)
    BY <1>1, <1>3, <1>4, <1>5, <1>6, <1>8
  <2> HIDE DEF s1, s2, s3, s4, s5, s6
  <2>3. s1 \o s2 \o s3 \in Seq(S)
    BY <1>2, <2>2
  <2>4. s1 \o s2 \o s3 \o s4 \o s5 \o s6 \in Seq(S)
    BY <1>2, <2>2, <2>3
  <2>5. QED
    BY <2>1, <2>4 DEF S
<1>9. QED
  BY <1>7, <1>8

(* A call of one document is tokenized when its components are made.        *)
LEMMA ReadyToDoc ==
  ASSUME NEW b, NEW u, NEW call, CallOK(b, u, call), call.plan # <<>>, Head(call.plan) = "todoc"
  PROVE  u.ready \/ IsBatch(call)
<1>1. "todoc" \notin StagesOf(u)
  BY DEF StagesOf
<1>2. QED
  BY <1>1, HeadPlan DEF CallOK

(* Tokenizing interns the words of the docs in the bundle's own store.      *)
LEMMA ToDocInv ==
  ASSUME IInv, NEW b \in Bundles, ToDoc(b)
  PROVE  IInv'
<1> DEFINE words == WordsOf(CallTokens(calls[b]))
           begun == [calls[b] EXCEPT !.plan = Stages(b, calls[b])]
           hashed == UNION {TokenStrings(t) : t \in CallTokens(calls[b])}
           store == StoreAfterGet(strings[b], lexemes[b], words)
           cache == CacheAfterGet(lexemes[b], words)
<1>1. /\ Tables /\ Phases /\ BundleOK(b, bundles[b]) /\ CallOK(b, bundles[b], calls[b])
      /\ StoreOK(bundles[b], disk.labels, strings[b], lexemes[b], documents[b])
  BY DEF IInv, InvOf
<1>2. /\ bundles[b].loaded /\ bundles[b].strings = b /\ bundles[b].lexemes = b
      /\ bundles[b].ready \/ IsBatch(calls[b])
  BY <1>1, ReadyToDoc DEF ToDoc, Busy, CallOK, BundleOK
<1>3. /\ strings' = [strings EXCEPT ![b] = store] /\ lexemes' = [lexemes EXCEPT ![b] = cache]
      /\ documents' = [documents EXCEPT ![b] = documents[b] \cup hashed]
      /\ Enter(b, begun) /\ disk' = disk /\ phase' = phase /\ bundles' = bundles
  BY <1>2 DEF ToDoc
<1>4. HoldsOwn(b, begun) /\ begun.plan = Stages(b, calls[b])
  BY <1>1 DEF CallOK, HoldsOwn
<1>5. /\ KnownTo(strings[b]) \subseteq KnownTo(store)
      /\ \A word \in cache : LexemeStrings(word) \subseteq KnownTo(store)
  BY <1>1, GetKnown DEF StoreOK
<1>6. hashed \subseteq KnownTo(store)
  <2>1. \A word \in words : LexemeStrings(word) \subseteq KnownTo(store)
    BY <1>5 DEF CacheAfterGet
  <2>2. ASSUME NEW t \in CallTokens(calls[b]) PROVE TokenStrings(t) \subseteq KnownTo(store)
    BY <2>1, TokensAsked
  <2>3. QED
    BY <2>2
<1> HIDE DEF words, begun, hashed, store, cache
<1>7. CallOK(b, bundles[b], calls'[b]) /\ \E new : calls' = [calls EXCEPT ![b] = new]
  BY <1>1, <1>2, <1>3, <1>4, StagesOK, EnterOK
<1>8. Tables' /\ OnlyOf(b)
  BY <1>1, <1>3, <1>7 DEF Tables, OnlyOf
<1>9. strings'[b] = store /\ lexemes'[b] = cache /\ documents'[b] = documents[b] \cup hashed
  BY <1>1, <1>3 DEF Tables
<1>10. StoreOK(bundles[b], disk.labels, store, cache, documents[b] \cup hashed)
  BY <1>1, <1>2, <1>5, <1>6 DEF StoreOK
<1>11. InvOf(b)'
  BY <1>1, <1>3, <1>7, <1>9, <1>10 DEF InvOf
<1>12. Phases'
  BY <1>1, <1>3, PhasesKept
<1>13. QED
  BY <1>3, <1>8, <1>11, <1>12, LocalStep

(* The scratch slice a layer stores its result in is one of its bundle.      *)
LEMMA OwnBuffer ==
  ASSUME NEW b, BundleOK(b, bundles[b]), CallOK(b, bundles[b], calls[b]), InRun(b)
  PROVE  BufferOf(b)[1] = b /\ bundles[b].loaded
<1>1. Runnable(bundles[b], calls[b].run.pipe) /\ bundles[b].loaded
  BY DEF CallOK, InRun, Busy
<1>2. bundles[b].pipes[calls[b].run.pipe].closures = b
  BY <1>1 DEF BundleOK, Runnable
<1>3. QED
  BY <1>1, <1>2 DEF BufferOf, Buffer

(* A layer reads what its run holds, stores in a slice of its own model     *)
(* and, in the feature extractor, interns in the bundle's own store.        *)
LEMMA LayerInv ==
  ASSUME IInv, NEW b \in Bundles, Layer(b)
  PROVE  IInv'
<1> DEFINE run == calls[b].run
           tree == CurrentTree(b)
           y == Result(tree, run)
           stored == Stored(memory, BufferOf(b), CurrentNode(b).at, y.rows)
           place == [buf |-> BufferOf(b), gen |-> stored[BufferOf(b)].gen, by |-> CurrentNode(b).at]
           kept == [y EXCEPT !.at = place]
           more == Added(strings[b], ShapesHashed(b))
<1>1. /\ Tables /\ Phases /\ BundleOK(b, bundles[b]) /\ CallOK(b, bundles[b], calls[b])
      /\ StoreOK(bundles[b], disk.labels, strings[b], lexemes[b], documents[b])
  BY DEF IInv, InvOf
<1>2. InRun(b) /\ calls[b].plan # <<>> /\ bundles[b].loaded /\ bundles[b].strings = b /\ BufferOf(b)[1] = b
  BY <1>1, OwnBuffer DEF Layer, InRun, Busy, BundleOK
<1>3. RunOK(b, run)
  BY <1>1 DEF CallOK, HoldsOwn
<1>4. Owned(b, y) /\ Owned(b, kept)
  <2>1. Owned(b, y)
    BY <1>3, ResultOwned
  <2>2. place.buf[1] = b
    BY <1>2
  <2> HIDE DEF place, y
  <2>3. QED
    BY <2>1, <2>2, OwnedUpdate
<1>5. /\ disk' = disk /\ phase' = phase /\ bundles' = bundles /\ lexemes' = lexemes /\ documents' = documents
      /\ strings' = [strings EXCEPT ![b] = more]
  BY <1>2 DEF Layer
<1>6. \/ calls' = [calls EXCEPT ![b] = Idle]
      \/ calls' = [calls EXCEPT ![b].run = Advanced(tree, run, kept)]
      \/ calls' = [calls EXCEPT ![b].run = Advanced(tree, run, y)]
  BY DEF Layer, Fail
<1> HIDE DEF y, kept, tree, more
<1>7. CallOK(b, bundles[b], calls'[b]) /\ \E new : calls' = [calls EXCEPT ![b] = new]
  <2>1. CASE calls' = [calls EXCEPT ![b] = Idle]
    BY <1>1, <2>1, IdleOK DEF Tables
  <2>2. ASSUME NEW z, Owned(b, z), calls' = [calls EXCEPT ![b].run = Advanced(tree, run, z)]
        PROVE  CallOK(b, bundles[b], calls'[b]) /\ \E new : calls' = [calls EXCEPT ![b] = new]
    <3> DEFINE next == Advanced(tree, run, z)
    <3>1. RunOK(b, next) /\ next.pipe = run.pipe
      BY <1>3, <2>2, AdvancedOK
    <3> HIDE DEF next
    <3>2. calls' = [calls EXCEPT ![b] = [calls[b] EXCEPT !.run = next]]
      BY <1>1, <2>2 DEF Tables, next
    <3>3. calls'[b] = [calls[b] EXCEPT !.run = next]
      BY <1>1, <3>2 DEF Tables
    <3>4. HoldsOwn(b, [calls[b] EXCEPT !.run = next])
      BY <1>1, <3>1 DEF CallOK, HoldsOwn
    <3>5. calls'[b].plan = calls[b].plan /\ calls'[b].docs = calls[b].docs /\ calls'[b].run = next
      BY <1>1, <3>3 DEF CallOK, HoldsOwn
    <3>6. CallOK(b, bundles[b], calls'[b])
      BY <1>1, <3>1, <3>3, <3>4, <3>5 DEF CallOK, PlanOK, IsBatch
    <3>7. QED
      BY <3>2, <3>6
  <2>3. QED
    BY <1>4, <1>6, <2>1, <2>2
<1>8. Tables' /\ OnlyOf(b) /\ strings'[b] = more
  BY <1>1, <1>5, <1>7 DEF Tables, OnlyOf
<1>9. StoreOK(bundles[b], disk.labels, more, lexemes[b], documents[b])
  <2>1. KnownTo(strings[b]) \subseteq KnownTo(more)
    BY AddedKnown DEF more
  <2>2. StoreOK(bundles[b], disk.labels, more, lexemes[b], documents[b] \cup {})
    BY <1>1, <1>2, <2>1, StoreGrows
  <2>3. QED
    BY <2>2
<1>10. InvOf(b)'
  BY <1>1, <1>5, <1>7, <1>8, <1>9 DEF InvOf
<1>11. Phases'
  BY <1>1, <1>5, PhasesKept
<1>12. QED
  BY <1>5, <1>8, <1>10, <1>11, LocalStep

(* A call past todoc: the rest of its plan.                                  *)
LEMMA RestOfPlan ==
  ASSUME NEW b, CallOK(b, bundles[b], calls[b]), Busy(b), Head(calls[b].plan) \notin {"components", "todoc"}
  PROVE  /\ bundles[b].loaded
         /\ Head(calls[b].plan) \in StagesOf(bundles[b])
         /\ Tail(calls[b].plan) \in Seq(StagesOf(bundles[b]))
  BY HeadPlan DEF CallOK, Busy

(* The labels of a component are known to its bundle.                        *)
LEMMA LabelsKnown ==
  ASSUME NEW b, NEW labels, NEW store, NEW cache, NEW docs, StoreOK(bundles[b], labels, store, cache, docs)
  PROVE  /\ "decode" \in StagesOf(bundles[b]) => labels.parser \cup {"ROOT"} \subseteq KnownTo(store)
         /\ "nerdecode" \in StagesOf(bundles[b]) => labels.ner \subseteq KnownTo(store)
  BY DEF StagesOf, StoreOK, Parts

(* A step that enters a stage or fails, and writes strings that the store    *)
(* knew or that it interns.                                                  *)
LEMMA WritingStep ==
  ASSUME IInv, NEW b \in Bundles, bundles[b].loaded, NEW hashed, NEW interned,
         hashed \subseteq KnownTo(strings[b]) \cup interned,
         disk' = disk, phase' = phase, bundles' = bundles, lexemes' = lexemes,
         strings' = [strings EXCEPT ![b] = Added(strings[b], interned)],
         documents' = [documents EXCEPT ![b] = documents[b] \cup hashed],
         CallOK(b, bundles[b], calls'[b]), \E new : calls' = [calls EXCEPT ![b] = new]
  PROVE  IInv'
<1>1. Tables /\ Phases /\ InvOf(b)
  BY DEF IInv
<1> DEFINE more == Added(strings[b], interned)
<1>2. KnownTo(strings[b]) \subseteq KnownTo(more) /\ hashed \subseteq KnownTo(more)
  <2>1. KnownTo(strings[b]) \subseteq KnownTo(more) /\ interned \subseteq KnownTo(more)
    BY AddedKnown
  <2>2. QED
    BY <2>1
<1>3. Tables' /\ OnlyOf(b) /\ documents'[b] = documents[b] \cup hashed /\ strings'[b] = more
  BY <1>1 DEF Tables, OnlyOf
<1> HIDE DEF more
<1>4. StoreOK(bundles[b], disk.labels, more, lexemes[b], documents[b] \cup hashed)
  BY <1>1, <1>2, StoreGrows DEF InvOf
<1>5. InvOf(b)'
  BY <1>1, <1>3, <1>4 DEF InvOf
<1>6. Phases'
  BY <1>1, PhasesKept
<1>7. QED
  BY <1>3, <1>5, <1>6, LocalStep

(* Interning nothing leaves the stores as they are.                         *)
LEMMA SameStores ==
  ASSUME Tables, NEW b
  PROVE  /\ Added(strings[b], {}) = strings[b]
         /\ strings = [strings EXCEPT ![b] = Added(strings[b], {})]
         /\ documents = [documents EXCEPT ![b] = documents[b] \cup {}]
<1>1. Added(strings[b], {}) = strings[b] /\ documents[b] \cup {} = documents[b]
  BY DEF Added
<1>2. strings = [strings EXCEPT ![b] = strings[b]] /\ documents = [documents EXCEPT ![b] = documents[b]]
  BY DEF Tables
<1>3. QED
  BY <1>1, <1>2

(* A run that has finished hands its value to the next stage; the tagger    *)
(* interns the tags it writes.                                              *)
LEMMA ReturnInv ==
  ASSUME IInv, NEW b \in Bundles, Return(b)
  PROVE  IInv'
<1> DEFINE u == bundles[b]
           stage == Head(calls[b].plan)
           rest == [calls[b] EXCEPT !.plan = Tail(calls[b].plan)]
           x == calls[b].run.x
           next == CASE stage = "tok2vec" -> [rest EXCEPT !.vectors = x]
                     [] stage = "tagger" -> rest
                     [] OTHER -> [rest EXCEPT !.out = x]
<1>1. Tables /\ BundleOK(b, u) /\ CallOK(b, u, calls[b])
  BY DEF IInv, InvOf
<1>2. disk' = disk /\ phase' = phase /\ bundles' = bundles /\ lexemes' = lexemes
  BY DEF Return
<1>3. u.loaded /\ stage \in StagesOf(u) /\ Tail(calls[b].plan) \in Seq(StagesOf(u)) /\ u.strings = b
  BY <1>1, RestOfPlan DEF Return, InRun, RunStages, BundleOK
<1>4. CASE ~ReturnFits(b)
  <2>1. calls' = [calls EXCEPT ![b] = Idle] /\ strings' = strings /\ documents' = documents
    BY <1>4 DEF Return, Fail
  <2>2. CallOK(b, u, calls'[b])
    BY <1>1, <2>1, IdleOK DEF Tables
  <2>3. /\ strings' = [strings EXCEPT ![b] = Added(strings[b], {})]
        /\ documents' = [documents EXCEPT ![b] = documents[b] \cup {}]
    BY <1>1, <2>1, SameStores
  <2>4. \E new : calls' = [calls EXCEPT ![b] = new]
    BY <2>1
  <2> HIDE DEF next, x, rest
  <2>5. QED
    BY <1>2, <1>3, <2>2, <2>3, <2>4, WritingStep
<1>5. CASE ReturnFits(b)
  <2>1. PICK tags \in Tags(b) :
          /\ strings' = [strings EXCEPT ![u.strings] = Added(strings[u.strings], tags)]
          /\ documents' = [documents EXCEPT ![b] = documents[b] \cup tags]
    BY <1>5 DEF Return
  <2>2. Enter(b, next)
    BY <1>5 DEF Return
  <2>3. HoldsOwn(b, rest) /\ rest.plan = Tail(calls[b].plan) /\ Owned(b, x)
    BY <1>1 DEF CallOK, HoldsOwn, RunOK
  <2>4. /\ HoldsOwn(b, [rest EXCEPT !.vectors = x]) /\ [rest EXCEPT !.vectors = x].plan = rest.plan
        /\ HoldsOwn(b, [rest EXCEPT !.out = x]) /\ [rest EXCEPT !.out = x].plan = rest.plan
    <3> HIDE DEF rest, x
    <3>1. QED
      BY <2>3 DEF HoldsOwn
  <2>5. HoldsOwn(b, next) /\ next.plan \in Seq(StagesOf(u))
    BY <1>3, <2>3, <2>4
  <2> HIDE DEF next
  <2>6. CallOK(b, u, calls'[b]) /\ \E new : calls' = [calls EXCEPT ![b] = new]
    BY <1>1, <1>3, <2>2, <2>5, EnterOK
  <2>7. QED
    BY <1>2, <1>3, <2>1, <2>6, WritingStep
<1>6. QED
  BY <1>4, <1>5

(* What Deprojectivize leaves of labels the store knows, it knows or the    *)
(* call interns.                                                            *)
LEMMA LoweredKnown ==
  ASSUME NEW store, NEW deps, deps \subseteq KnownTo(store)
  PROVE  (deps \ Lifted(store, deps)) \cup Lowered(store, deps) \subseteq KnownTo(store) \cup Lowered(store, deps)
  OBVIOUS

(* The parser writes labels that were interned when the components were     *)
(* made, or that Deprojectivize interns.                                    *)
LEMMA DecodeInv ==
  ASSUME IInv, NEW b \in Bundles, Decode(b)
  PROVE  IInv'
<1> DEFINE u == bundles[b]
           next == [calls[b] EXCEPT !.plan = Tail(calls[b].plan), !.out = Nothing]
           store == strings[b]
<1>1. /\ Tables /\ BundleOK(b, u) /\ CallOK(b, u, calls[b])
      /\ StoreOK(u, disk.labels, strings[b], lexemes[b], documents[b])
  BY DEF IInv, InvOf
<1>2. /\ disk' = disk /\ phase' = phase /\ bundles' = bundles /\ lexemes' = lexemes
      /\ Head(calls[b].plan) = "decode" /\ Enter(b, next)
  BY DEF Decode
<1>3. u.loaded /\ "decode" \in StagesOf(u) /\ Tail(calls[b].plan) \in Seq(StagesOf(u)) /\ u.strings = b
  BY <1>1, <1>2, RestOfPlan DEF Decode, BundleOK
<1>4. PICK won \in AtMost(TokenCount(calls[b]) - 1, disk.labels.parser) :
        LET deps == won \cup {"ROOT"}
        IN /\ strings' = [strings EXCEPT ![b] = Added(store, Lowered(store, deps))]
           /\ documents' = [documents EXCEPT ![b] =
                documents[b] \cup (deps \ Lifted(store, deps)) \cup Lowered(store, deps)]
  BY <1>3 DEF Decode
<1> DEFINE deps == won \cup {"ROOT"}
           lowered == Lowered(store, deps)
           hashed == (deps \ Lifted(store, deps)) \cup lowered
<1>5. hashed \subseteq KnownTo(store) \cup lowered
  <2>1. won \subseteq disk.labels.parser
    BY DEF AtMost
  <2>2. deps \subseteq KnownTo(store)
    BY <1>1, <1>3, <2>1, LabelsKnown
  <2>3. QED
    BY <2>2, LoweredKnown
<1>6. /\ strings' = [strings EXCEPT ![b] = Added(strings[b], lowered)]
      /\ documents' = [documents EXCEPT ![b] = documents[b] \cup hashed]
  <2>1. documents[b] \cup (deps \ Lifted(store, deps)) \cup lowered = documents[b] \cup hashed
    OBVIOUS
  <2>2. QED
    BY <1>4, <2>1
<1> HIDE DEF hashed, lowered, deps
<1>7. HoldsOwn(b, next) /\ next.plan = Tail(calls[b].plan)
  <2>1. Owned(b, Nothing)
    BY OwnedValue DEF Nothing
  <2>2. QED
    BY <1>1, <2>1 DEF CallOK, HoldsOwn
<1> HIDE DEF next
<1>8. CallOK(b, u, calls'[b]) /\ \E new : calls' = [calls EXCEPT ![b] = new]
  BY <1>1, <1>2, <1>3, <1>7, EnterOK
<1>9. QED
  BY <1>2, <1>3, <1>5, <1>6, <1>8, WritingStep

(* The recognizer writes labels that were interned when it was made.        *)
LEMMA DecodeEntitiesInv ==
  ASSUME IInv, NEW b \in Bundles, DecodeEntities(b)
  PROVE  IInv'
<1> DEFINE u == bundles[b]
           next == [calls[b] EXCEPT !.plan = Tail(calls[b].plan), !.out = Nothing]
<1>1. /\ Tables /\ CallOK(b, u, calls[b])
      /\ StoreOK(u, disk.labels, strings[b], lexemes[b], documents[b])
  BY DEF IInv, InvOf
<1>2. /\ disk' = disk /\ phase' = phase /\ bundles' = bundles /\ strings' = strings /\ lexemes' = lexemes
      /\ Head(calls[b].plan) = "nerdecode" /\ Enter(b, next)
  BY DEF DecodeEntities, stores
<1>3. u.loaded /\ "nerdecode" \in StagesOf(u) /\ Tail(calls[b].plan) \in Seq(StagesOf(u))
  BY <1>1, <1>2, RestOfPlan DEF DecodeEntities
<1>4. PICK types \in AtMost(TokenCount(calls[b]), disk.labels.ner) :
        documents' = [documents EXCEPT ![b] = documents[b] \cup types]
  BY DEF DecodeEntities
<1>5. types \subseteq KnownTo(strings[b])
  BY <1>1, <1>3, LabelsKnown DEF AtMost
<1>6. strings' = [strings EXCEPT ![b] = Added(strings[b], {})]
  BY <1>1, <1>2, SameStores
<1>7. HoldsOwn(b, next) /\ next.plan = Tail(calls[b].plan)
  <2>1. Owned(b, Nothing)
    BY OwnedValue DEF Nothing
  <2>2. QED
    BY <1>1, <2>1 DEF CallOK, HoldsOwn
<1> HIDE DEF next
<1>8. CallOK(b, u, calls'[b]) /\ \E new : calls' = [calls EXCEPT ![b] = new]
  BY <1>1, <1>2, <1>3, <1>7, EnterOK
<1>9. QED
  BY <1>2, <1>3, <1>4, <1>5, <1>6, <1>8, WritingStep

(* The attribute ruler writes only what the store knows; the lemmatizer     *)
(* interns what it writes.                                                  *)
LEMMA AnnotateInv ==
  ASSUME IInv, NEW b \in Bundles, Annotate(b)
  PROVE  IInv'
<1> DEFINE u == bundles[b]
           next == [calls[b] EXCEPT !.plan = Tail(calls[b].plan)]
           store == strings[b]
<1>1. Tables /\ BundleOK(b, u) /\ CallOK(b, u, calls[b])
  BY DEF IInv, InvOf
<1>2. u.loaded /\ Tail(calls[b].plan) \in Seq(StagesOf(u)) /\ u.strings = b
  BY <1>1, RestOfPlan DEF Annotate, BundleOK
<1>3. disk' = disk /\ phase' = phase /\ bundles' = bundles /\ lexemes' = lexemes /\ Enter(b, next)
  BY DEF Annotate
<1>4. PICK ruled, lemmas :
        /\ \A s \in ruled : Resolves(store, s)
        /\ strings' = [strings EXCEPT ![b] = Added(store, lemmas)]
        /\ documents' = [documents EXCEPT ![b] = documents[b] \cup ruled \cup lemmas]
  <2>1. PICK assigned \in SUBSET (IF TokenCount(calls[b]) > 0 THEN disk.ruler.attrs ELSE {}) :
          LET ruled == {s \in assigned : Resolves(strings[bundles[b].strings], s)}
          IN \E lemmas \in LemmasOf(calls[b], ruled \cap disk.ruler.lemmas) :
               /\ strings' = [strings EXCEPT ![bundles[b].strings] = Added(strings[bundles[b].strings], lemmas)]
               /\ documents' = [documents EXCEPT ![b] = documents[b] \cup ruled \cup lemmas]
    BY DEF Annotate
  <2> DEFINE kept == {s \in assigned : Resolves(store, s)}
  <2>2. PICK lemmas :
          /\ strings' = [strings EXCEPT ![b] = Added(store, lemmas)]
          /\ documents' = [documents EXCEPT ![b] = documents[b] \cup kept \cup lemmas]
    BY <1>2, <2>1
  <2>3. \A s \in kept : Resolves(store, s)
    OBVIOUS
  <2> HIDE DEF kept
  <2>4. QED
    BY <2>2, <2>3
<1> DEFINE hashed == ruled \cup lemmas
<1>5. hashed \subseteq KnownTo(store) \cup lemmas
  BY <1>4 DEF Resolves, KnownTo
<1>6. documents' = [documents EXCEPT ![b] = documents[b] \cup hashed]
  <2>1. documents[b] \cup ruled \cup lemmas = documents[b] \cup hashed
    OBVIOUS
  <2>2. QED
    BY <1>4, <2>1
<1>7. HoldsOwn(b, next) /\ next.plan = Tail(calls[b].plan)
  BY <1>1 DEF CallOK, HoldsOwn
<1> HIDE DEF next, hashed
<1>8. CallOK(b, u, calls'[b]) /\ \E new : calls' = [calls EXCEPT ![b] = new]
  BY <1>1, <1>2, <1>3, <1>7, EnterOK
<1>9. QED
  BY <1>2, <1>3, <1>4, <1>5, <1>6, <1>8, WritingStep

(* A new bundle: its maps under its own number, closures of its own.         *)
LEMMA NewBundle ==
  ASSUME NEW b, NEW pipes, \A name \in DOMAIN pipes : pipes[name].skipped \/ pipes[name].closures = b,
         NEW v, v = [Absent EXCEPT !.loaded = TRUE, !.strings = b, !.lexemes = b, !.pipes = pipes]
  PROVE  BundleOK(b, v) /\ v.loaded /\ ~v.ready
<1>1. /\ v = [field \in {"loaded", "strings", "lexemes", "pipes", "ready", "parts", "posCache"} |-> v[field]]
      /\ v.loaded /\ v.strings = b /\ v.lexemes = b /\ v.pipes = pipes /\ v.ready = FALSE /\ v.parts = {}
  BY DEF Absent
<1>2. QED
  BY <1>1 DEF BundleOK, Runnable

(* It starts without a call and without documents.                           *)
LEMMA NewCall ==
  ASSUME NEW b, NEW u, NEW v, NEW call, CallOK(b, u, call), ~u.loaded
  PROVE  CallOK(b, v, call)
<1>1. call.plan = <<>>
  BY DEF CallOK
<1>2. <<>> \in Seq(StagesOf(v))
  OBVIOUS
<1>3. QED
  BY <1>1, <1>2 DEF CallOK, PlanOK

(* A clone has its own models, and shares only what no call writes.         *)
LEMMA CloneInv ==
  ASSUME IInv, NEW b \in Bundles, Clone(b)
  PROVE  IInv'
<1> DEFINE pipes == [name \in DOMAIN bundles[1].pipes |-> ClonePipe(bundles[1].pipes[name], name, b)]
           v == [Absent EXCEPT !.loaded = TRUE, !.strings = b, !.lexemes = b, !.pipes = pipes]
<1>1. /\ Tables /\ Phases /\ CallOK(b, bundles[b], calls[b])
      /\ StoreOK(bundles[b], disk.labels, strings[b], lexemes[b], documents[b])
      /\ BundleOK(1, bundles[1]) /\ StoreOK(bundles[1], disk.labels, strings[1], lexemes[1], documents[1])
  BY BundlesAssumption DEF IInv, InvOf
<1>2. /\ phase = "build" /\ ~bundles[b].loaded /\ bundles[1].loaded
      /\ bundles[1].strings = 1 /\ bundles[1].lexemes = 1
  BY <1>1 DEF Clone, Phases, BundleOK
<1>3. /\ bundles' = [bundles EXCEPT ![b] = v]
      /\ strings' = [strings EXCEPT ![b] = strings[1]] /\ lexemes' = [lexemes EXCEPT ![b] = lexemes[1]]
      /\ calls' = calls /\ documents' = documents /\ disk' = disk /\ phase' = phase
  BY <1>2 DEF Clone
<1>4. \A name \in DOMAIN pipes : pipes[name].skipped \/ pipes[name].closures = b
  BY DEF ClonePipe, Skipped, Loaded
<1> HIDE DEF pipes
<1>5. BundleOK(b, v) /\ v.loaded /\ ~v.ready
  BY <1>4, NewBundle
<1> HIDE DEF v
<1>6. CallOK(b, v, calls[b])
  BY <1>1, <1>2, NewCall
<1>7. StoreOK(v, disk.labels, strings[1], lexemes[1], documents[b])
  BY <1>1, <1>2, <1>5 DEF StoreOK
<1>8. /\ Tables' /\ OnlyOf(b)
      /\ bundles'[b] = v /\ strings'[b] = strings[1] /\ lexemes'[b] = lexemes[1]
  BY <1>1, <1>3 DEF Tables, OnlyOf
<1>9. InvOf(b)'
  BY <1>3, <1>5, <1>6, <1>7, <1>8 DEF InvOf
<1>10. Phases'
  BY <1>2, <1>3, <1>5, <1>8, BundlesAssumption DEF Phases, OnlyOf
<1>11. QED
  BY <1>3, <1>8, <1>9, <1>10, LocalStep

(* FromDisk makes the first bundle, with everything its own.                *)
LEMMA FromDiskInv ==
  ASSUME IInv, FromDisk
  PROVE  IInv'
<1>1. CASE phase' = "failed"
  <2>1. /\ bundles' = bundles /\ calls' = calls /\ strings' = strings /\ lexemes' = lexemes
        /\ documents' = documents /\ disk' = disk
    BY <1>1 DEF FromDisk, stores
  <2>2. Tables' /\ Phases'
    BY <1>1, <2>1 DEF IInv, Tables, Phases
  <2>3. ASSUME NEW c \in Bundles PROVE InvOf(c)'
    <3>1. InvOf(c)
      BY DEF IInv
    <3>2. QED
      BY <2>1, <3>1 DEF InvOf
  <2>4. QED
    BY <2>2, <2>3 DEF IInv
<1>2. CASE phase' # "failed"
  <2> DEFINE pipes == [name \in ToSet(Pipeline) |-> LoadPipe(name)]
             v == [Absent EXCEPT !.loaded = TRUE, !.strings = 1, !.lexemes = 1, !.pipes = pipes]
             store == Added({}, disk.strings)
  <2>1. /\ Tables /\ Phases /\ CallOK(1, bundles[1], calls[1])
        /\ StoreOK(bundles[1], disk.labels, strings[1], lexemes[1], documents[1])
    BY BundlesAssumption DEF IInv, InvOf
  <2>2. phase = "load" /\ ~bundles[1].loaded
    BY <2>1, BundlesAssumption DEF FromDisk, Phases
  <2>3. /\ bundles' = [bundles EXCEPT ![1] = v]
        /\ strings' = [strings EXCEPT ![1] = store] /\ lexemes' = [lexemes EXCEPT ![1] = {}]
        /\ calls' = calls /\ documents' = documents /\ disk' = disk /\ phase' = "build"
    BY <1>2 DEF FromDisk
  <2>4. \A name \in DOMAIN pipes : pipes[name].skipped \/ pipes[name].closures = 1
    BY DEF LoadPipe, LoadBuilt, Filled, Skipped, Loaded
  <2> HIDE DEF pipes, store
  <2>5. BundleOK(1, v) /\ v.loaded /\ ~v.ready
    BY <2>4, NewBundle
  <2> HIDE DEF v
  <2>6. CallOK(1, v, calls[1])
    BY <2>1, <2>2, NewCall
  <2>7. StoreOK(v, disk.labels, store, {}, documents[1])
    BY <2>1, <2>2, <2>5 DEF StoreOK
  <2>8. /\ Tables' /\ OnlyOf(1)
        /\ bundles'[1] = v /\ strings'[1] = store /\ lexemes'[1] = {}
    BY <2>1, <2>3, BundlesAssumption DEF Tables, OnlyOf
  <2>9. InvOf(1)'
    BY <2>3, <2>5, <2>6, <2>7, <2>8 DEF InvOf
  <2>10. Phases'
    BY <2>3, <2>5, <2>8 DEF Phases
  <2>11. QED
    BY <2>3, <2>8, <2>9, <2>10, LocalStep, BundlesAssumption
<1>3. QED
  BY <1>1, <1>2

(* Launching calls and stuttering change no bundle.                         *)
LEMMA QuietInv ==
  ASSUME IInv, Launch \/ UNCHANGED vars
  PROVE  IInv'
<1>1. /\ bundles' = bundles /\ calls' = calls /\ strings' = strings /\ lexemes' = lexemes
      /\ documents' = documents /\ disk' = disk
  BY DEF Launch, vars, stores
<1>2. Tables' /\ Phases'
  BY <1>1 DEF IInv, Tables, Phases, Launch, vars
<1>3. ASSUME NEW c \in Bundles PROVE InvOf(c)'
  <2>1. InvOf(c)
    BY DEF IInv
  <2>2. QED
    BY <1>1, <2>1 DEF InvOf
<1>4. QED
  BY <1>2, <1>3 DEF IInv

(* Every bundle has its own memory and its store knows what it returned.     *)
THEOREM OwnMemory == Spec => []IInv
<1>1. Init => IInv
  BY InitInv
<1>2. IInv /\ [Next]_vars => IInv'
  <2> SUFFICES ASSUME IInv, [Next]_vars PROVE IInv'
    OBVIOUS
  <2>1. CASE FromDisk
    BY <2>1, FromDiskInv
  <2>2. CASE Launch \/ UNCHANGED vars
    BY <2>2, QuietInv
  <2>3. ASSUME NEW b \in Bundles, Clone(b) PROVE IInv'
    BY <2>3, CloneInv
  <2>4. ASSUME NEW b \in Bundles, NEW docs \in Batches, NEW skipNER \in BOOLEAN, Call(b, docs, skipNER)
        PROVE  IInv'
    BY <2>4, CallInv
  <2>5. ASSUME NEW b \in Bundles, EnsureComponents(b) PROVE IInv'
    BY <2>5, EnsureComponentsInv
  <2>6. ASSUME NEW b \in Bundles, ToDoc(b) PROVE IInv'
    BY <2>6, ToDocInv
  <2>7. ASSUME NEW b \in Bundles, Layer(b) PROVE IInv'
    BY <2>7, LayerInv
  <2>8. ASSUME NEW b \in Bundles, Return(b) PROVE IInv'
    BY <2>8, ReturnInv
  <2>9. ASSUME NEW b \in Bundles, Decode(b) PROVE IInv'
    BY <2>9, DecodeInv
  <2>10. ASSUME NEW b \in Bundles, DecodeEntities(b) PROVE IInv'
    BY <2>10, DecodeEntitiesInv
  <2>11. ASSUME NEW b \in Bundles, Annotate(b) PROVE IInv'
    BY <2>11, AnnotateInv
  <2>12. QED
    BY <2>1, <2>2, <2>3, <2>4, <2>5, <2>6, <2>7, <2>8, <2>9, <2>10, <2>11 DEF Next
<1>3. QED
  BY <1>1, <1>2, PTL DEF Spec

-----------------------------------------------------------------------------
(* Every hash in a document that Bundle.PipeWith returned resolves in the    *)
(* string store of its bundle, clones included: the labels of the decoders   *)
(* were interned when the components were made, the tagger, Deprojectivize   *)
(* and the lemmatizer intern what they write, the ruler writes only what the *)
(* store knows, and a word cached before the clone was copied has its        *)
(* strings in the copied store (vocab.go, nonproj.go:36, bundle.go:Clone).   *)
THEOREM Resolving == Spec => []DocsResolve
<1>1. IInv => DocsResolve
  <2> SUFFICES ASSUME IInv, NEW b \in Bundles, NEW s \in documents[b]
               PROVE  Resolves(strings[bundles[b].strings], s)
    BY DEF DocsResolve
  <2>1. BundleOK(b, bundles[b]) /\ StoreOK(bundles[b], disk.labels, strings[b], lexemes[b], documents[b])
    BY DEF IInv, InvOf
  <2>2. bundles[b].loaded /\ s \in KnownTo(strings[b])
    BY <2>1 DEF StoreOK
  <2>3. QED
    BY <2>1, <2>2 DEF BundleOK, Resolves, KnownTo
<1>2. QED
  BY <1>1, OwnMemory, PTL

(* The memory of a bundle, by the number a location carries.                 *)
Own(b) == {<<"strings", b>>, <<"lexemes", b>>, <<"posCache", b>>}
IsOwn(b, place) == place \in Own(b) \/ \E buf : place = <<"slice", buf>> /\ buf[1] = b

(* A call that annotates has the lemmatizer of its own bundle.              *)
LEMMA OwnCache ==
  ASSUME NEW b, BundleOK(b, bundles[b]), CallOK(b, bundles[b], calls[b]), Busy(b), Head(calls[b].plan) = "annotate"
  PROVE  bundles[b].posCache = b
<1>1. "annotate" \in StagesOf(bundles[b])
  BY RestOfPlan
<1>2. QED
  BY <1>1 DEF StagesOf, BundleOK

(* Every place a bundle's step writes is the bundle's own,                  *)
LEMMA OwnWrites ==
  ASSUME IInv, NEW b \in Bundles, NEW place \in Writes(b)
  PROVE  IsOwn(b, place)
<1>1. BundleOK(b, bundles[b]) /\ CallOK(b, bundles[b], calls[b])
  BY DEF IInv, InvOf
<1>2. Busy(b) /\ bundles[b].loaded
  BY <1>1 DEF Writes, CallOK, Busy
<1>3. bundles[b].strings = b /\ bundles[b].lexemes = b
  BY <1>1, <1>2 DEF BundleOK
<1>4. \/ place = <<"strings", b>> \/ place = <<"lexemes", b>>
      \/ Head(calls[b].plan) = "annotate" /\ place = <<"posCache", bundles[b].posCache>>
      \/ InRun(b) /\ place = <<"slice", BufferOf(b)>>
  BY <1>2, <1>3 DEF Writes
<1>5. CASE place = <<"strings", b>> \/ place = <<"lexemes", b>>
  BY <1>5 DEF IsOwn, Own
<1>6. CASE Head(calls[b].plan) = "annotate" /\ place = <<"posCache", bundles[b].posCache>>
  BY <1>1, <1>2, <1>6, OwnCache DEF IsOwn, Own
<1>7. CASE InRun(b) /\ place = <<"slice", BufferOf(b)>>
  BY <1>1, <1>7, OwnBuffer DEF IsOwn
<1>8. QED
  BY <1>4, <1>5, <1>6, <1>7

(* and so is every place it reads.                                          *)
LEMMA OwnReads ==
  ASSUME IInv, NEW b \in Bundles, NEW place \in Reads(b)
  PROVE  IsOwn(b, place)
<1>1. BundleOK(b, bundles[b]) /\ CallOK(b, bundles[b], calls[b])
  BY DEF IInv, InvOf
<1>2. Busy(b) /\ bundles[b].loaded
  BY <1>1 DEF Reads, CallOK, Busy
<1>3. bundles[b].strings = b /\ bundles[b].lexemes = b
  BY <1>1, <1>2 DEF BundleOK
<1>4. \/ place = <<"strings", b>> \/ place = <<"lexemes", b>>
      \/ Head(calls[b].plan) = "annotate" /\ place = <<"posCache", bundles[b].posCache>>
      \/ \E v \in HeldBy(calls[b].run) \cup {calls[b].vectors, calls[b].out} :
           v.at # Fresh /\ place = <<"slice", v.at.buf>>
  BY <1>2, <1>3 DEF Reads
<1>5. CASE place = <<"strings", b>> \/ place = <<"lexemes", b>>
  BY <1>5 DEF IsOwn, Own
<1>6. CASE Head(calls[b].plan) = "annotate" /\ place = <<"posCache", bundles[b].posCache>>
  BY <1>1, <1>2, <1>6, OwnCache DEF IsOwn, Own
<1>7. ASSUME NEW v \in HeldBy(calls[b].run) \cup {calls[b].vectors, calls[b].out}, v.at # Fresh,
             place = <<"slice", v.at.buf>>
      PROVE  IsOwn(b, place)
  <2>1. Owned(b, v)
    BY <1>1, HeldOwned DEF CallOK, HoldsOwn
  <2>2. QED
    BY <1>7, <2>1 DEF Owned, IsOwn
<1>8. QED
  BY <1>4, <1>5, <1>6, <1>7

(* However many goroutines there are, each with a bundle of its own, no two  *)
(* of them touch the same map or scratch slice while one writes it: the      *)
(* promise of Bundle.Clone (bundle.go:252-270).                              *)
THEOREM RaceFree == Spec => []NoRace
<1>1. IInv => NoRace
  <2> SUFFICES ASSUME IInv, NEW b \in Bundles, NEW c \in Bundles, b # c,
                      NEW place \in Writes(b) \cap (Reads(c) \cup Writes(c))
               PROVE  FALSE
    BY DEF NoRace
  <2>1. IsOwn(b, place) /\ IsOwn(c, place)
    BY OwnWrites, OwnReads
  <2>2. QED
    BY <2>1 DEF IsOwn, Own
<1>2. QED
  BY <1>1, OwnMemory, PTL

-----------------------------------------------------------------------------
(* Paths.                                                                    *)

(* The path of a node: the number of the child to take, level by level      *)
(* (thinc counts its layers from 0, the model from 1).                      *)
Path == Seq(Nat \ {0})

(* A path below child k of a node: the same order, child by child. *)
LEMMA Prefixed ==
  ASSUME NEW k \in Nat \ {0}, NEW p \in Path
  PROVE  /\ <<k>> \o p \in Path /\ Len(<<k>> \o p) = Len(p) + 1 /\ Len(p) \in Nat
         /\ (<<k>> \o p)[1] = k
         /\ \A i \in 1..Len(p) : (<<k>> \o p)[i + 1] = p[i]
         /\ \A i \in 2..Len(<<k>> \o p) : (<<k>> \o p)[i] = p[i - 1] /\ i - 1 \in 1..Len(p)
<1>1. <<k>> \in Path /\ Len(<<k>>) = 1 /\ <<k>>[1] = k /\ Len(p) \in Nat
  BY DEF Path
<1> DEFINE s == <<k>>
<1> HIDE DEF s
<1>2. s \in Seq(Nat \ {0}) /\ p \in Seq(Nat \ {0}) /\ Len(s) = 1 /\ s[1] = k
  BY <1>1 DEF s, Path
<1> DEFINE Z == Nat \ {0}
<1>3. /\ s \o p \in Seq(Nat \ {0}) /\ Len(s \o p) = Len(p) + 1
      /\ (s \o p)[1] = k
      /\ \A i \in 1..Len(p) : (s \o p)[i + 1] = p[i]
  <2>1. s \in Seq(Z) /\ p \in Seq(Z)
    BY <1>2
  <2> HIDE DEF Z
  <2>2. s \o p \in Seq(Z)
    BY <2>1
  <2>3. Len(s \o p) = Len(s) + Len(p) /\ Len(s) \in Nat /\ Len(p) \in Nat
    BY <2>1
  <2>4. \A i \in 1..(Len(s) + Len(p)) : (s \o p)[i] = IF i <= Len(s) THEN s[i] ELSE p[i - Len(s)]
    BY <2>1
  <2>5. (s \o p)[1] = k
    BY <1>2, <2>3, <2>4
  <2>6. ASSUME NEW i \in 1..Len(p) PROVE (s \o p)[i + 1] = p[i]
    <3>1. i + 1 \in 1..(Len(s) + Len(p)) /\ ~(i + 1 <= Len(s)) /\ (i + 1) - Len(s) = i
      BY <1>2, <2>3
    <3>2. QED
      BY <2>4, <3>1
  <2>7. QED
    BY <1>2, <2>2, <2>3, <2>5, <2>6 DEF Z
<1>4. \A i \in 2..Len(s \o p) : (s \o p)[i] = p[i - 1] /\ i - 1 \in 1..Len(p)
  BY <1>1, <1>2, <1>3
<1>5. QED
  BY <1>1, <1>3, <1>4 DEF s, Path

-----------------------------------------------------------------------------
(* The places of the elements of a flattening: those of an earlier part come *)
(* before those of a later one.                                              *)
Comes(seqs, x, y) ==
  \E k, l \in 1..Len(seqs) : \E g \in 1..Len(seqs[k]), h \in 1..Len(seqs[l]) :
    x = seqs[k][g] /\ y = seqs[l][h] /\ (k < l \/ (k = l /\ g < h))

(* A flattening holds the elements of the parts, all of them and no other,  *)
(* in the order of the parts.                                               *)
LEMMA FlattenOrder ==
  ASSUME NEW A, NEW seqs \in Seq(Seq(A))
  PROVE  /\ FlattenSeq(seqs) \in Seq(A)
         /\ \A i \in 1..Len(FlattenSeq(seqs)) :
              \E k \in 1..Len(seqs) : \E h \in 1..Len(seqs[k]) : FlattenSeq(seqs)[i] = seqs[k][h]
         /\ \A i, j \in 1..Len(FlattenSeq(seqs)) : i < j => Comes(seqs, FlattenSeq(seqs)[i], FlattenSeq(seqs)[j])
         /\ \A k \in 1..Len(seqs) : \A h \in 1..Len(seqs[k]) :
              \E i \in 1..Len(FlattenSeq(seqs)) : FlattenSeq(seqs)[i] = seqs[k][h]
<1> DEFINE N == Len(seqs)
           flat(n) == FlattenSeq(SubSeq(seqs, 1, n))
           Found(n) == \A i \in 1..Len(flat(n)) : \E k \in 1..n : \E h \in 1..Len(seqs[k]) : flat(n)[i] = seqs[k][h]
           Sorted(n) == \A i, j \in 1..Len(flat(n)) : i < j => Comes(seqs, flat(n)[i], flat(n)[j])
           T == {n \in 0..N : Found(n) /\ Sorted(n)}
<1>1. N \in Nat /\ \A k \in 1..N : seqs[k] \in Seq(A)
  OBVIOUS
<1>2. (\A n \in 0..N : flat(n) \in Seq(A)) /\ flat(N) = FlattenSeq(seqs) /\ flat(0) = <<>>
  BY FlattenType
<1>3. \A n \in 1..N : flat(n) = flat(n - 1) \o seqs[n]
  BY FlattenStep
<1> HIDE DEF flat
<1>4. 0 \in T
  <2>1. Len(flat(0)) = 0
    BY <1>2
  <2>2. QED
    BY <1>1, <2>1
<1>5. ASSUME NEW n \in 0..(N - 1), n \in T PROVE n + 1 \in T
  <2> DEFINE x == flat(n)
             y == seqs[n + 1]
             z == flat(n + 1)
  <2>1. n \in 0..N /\ n + 1 \in 1..N /\ n + 1 \in 0..N /\ (n + 1) - 1 = n /\ n \in Nat
    BY <1>1
  <2>2. x \in Seq(A) /\ y \in Seq(A) /\ z = x \o y
    <3>1. flat(n + 1) = flat((n + 1) - 1) \o seqs[n + 1]
      BY <1>3, <2>1
    <3>2. QED
      BY <1>1, <1>2, <2>1, <3>1
  <2>3. Found(n) /\ Sorted(n)
    BY <1>5
  <2> HIDE DEF x, y, z
  <2>4. /\ Len(x) \in Nat /\ Len(y) \in Nat /\ Len(z) = Len(x) + Len(y)
        /\ \A i \in 1..Len(x) : z[i] = x[i]
        /\ \A i \in 1..Len(y) : z[Len(x) + i] = y[i]
    BY <2>2
  <2>5. ASSUME NEW i \in 1..Len(z)
        PROVE  \/ i \in 1..Len(x) /\ z[i] = x[i]
               \/ i - Len(x) \in 1..Len(y) /\ z[i] = y[i - Len(x)] /\ i > Len(x)
    <3>1. CASE i <= Len(x)
      BY <2>4, <3>1
    <3>2. CASE i > Len(x)
      <4>1. i - Len(x) \in 1..Len(y) /\ Len(x) + (i - Len(x)) = i
        BY <2>4, <3>2
      <4>2. QED
        BY <2>4, <3>2, <4>1
    <3>3. QED
      BY <2>4, <3>1, <3>2
  <2>6. \A i \in 1..Len(x) : \E k \in 1..n : \E h \in 1..Len(seqs[k]) : x[i] = seqs[k][h]
    BY <2>3 DEF x
  <2>7. ASSUME NEW i \in 1..Len(z)
        PROVE  \E k \in 1..(n + 1) : \E h \in 1..Len(seqs[k]) : z[i] = seqs[k][h]
    <3>1. CASE i \in 1..Len(x) /\ z[i] = x[i]
      <4>1. PICK k \in 1..n : \E h \in 1..Len(seqs[k]) : x[i] = seqs[k][h]
        BY <2>6, <3>1
      <4>2. k \in 1..(n + 1)
        BY <2>1
      <4>3. QED
        BY <3>1, <4>1, <4>2
    <3>2. CASE i - Len(x) \in 1..Len(y) /\ z[i] = y[i - Len(x)]
      <4>1. n + 1 \in 1..(n + 1)
        BY <2>1
      <4>2. QED
        BY <3>2, <4>1 DEF y
    <3>3. QED
      BY <2>5, <3>1, <3>2
  <2>8. ASSUME NEW i \in 1..Len(z), NEW j \in 1..Len(z), i < j PROVE Comes(seqs, z[i], z[j])
    <3>1. CASE i \in 1..Len(x) /\ j \in 1..Len(x) /\ z[i] = x[i] /\ z[j] = x[j]
      BY <2>3, <2>8, <3>1 DEF x
    <3>2. CASE i \in 1..Len(x) /\ z[i] = x[i] /\ j - Len(x) \in 1..Len(y) /\ z[j] = y[j - Len(x)]
      <4>1. PICK k \in 1..n : \E h \in 1..Len(seqs[k]) : x[i] = seqs[k][h]
        BY <2>6, <3>2
      <4>2. k \in 1..N /\ n + 1 \in 1..N /\ k < n + 1
        BY <1>1, <2>1
      <4>3. QED
        BY <3>2, <4>1, <4>2 DEF Comes, y
    <3>3. CASE i - Len(x) \in 1..Len(y) /\ z[i] = y[i - Len(x)] /\ j - Len(x) \in 1..Len(y) /\ z[j] = y[j - Len(x)]
      <4>1. i - Len(x) < j - Len(x)
        BY <2>4, <2>8
      <4>2. n + 1 \in 1..Len(seqs)
        BY <2>1
      <4>3. QED
        BY <3>3, <4>1, <4>2 DEF Comes, y
    <3>4. ~(i > Len(x) /\ j \in 1..Len(x))
      BY <2>4, <2>8
    <3>5. QED
      BY <2>5, <3>1, <3>2, <3>3, <3>4
  <2>9. Found(n + 1) /\ Sorted(n + 1)
    BY <2>7, <2>8 DEF z
  <2>10. QED
    BY <2>1, <2>9
<1>6. 0..N \subseteq T
  <2> HIDE DEF T, N
  <2> QED
    BY <1>1, <1>4, <1>5, InductionUpTo
<1>7. Found(N) /\ Sorted(N)
  <2>1. N \in T
    BY <1>1, <1>6
  <2>2. QED
    BY <2>1
<1>8. ASSUME NEW k \in 1..N, NEW h \in 1..Len(seqs[k])
      PROVE  \E i \in 1..Len(FlattenSeq(seqs)) : FlattenSeq(seqs)[i] = seqs[k][h]
  <2> DEFINE a == Len(FlattenSeq(SubSeq(seqs, 1, k - 1)))
             b == Len(FlattenSeq(SubSeq(seqs, 1, k)))
  <2>1. /\ a \in Nat /\ b = a + Len(seqs[k]) /\ b <= Len(FlattenSeq(seqs))
        /\ \A i \in 1..Len(seqs[k]) : FlattenSeq(seqs)[a + i] = seqs[k][i]
    BY FlattenPart
  <2>2. Len(FlattenSeq(seqs)) \in Nat /\ Len(seqs[k]) \in Nat
    <3>1. N \in 0..N
      BY <1>1
    <3>2. FlattenSeq(seqs) \in Seq(A) /\ seqs[k] \in Seq(A)
      BY <1>1, <1>2, <3>1
    <3>3. QED
      BY <3>2
  <2> HIDE DEF a, b
  <2>3. a + h \in 1..Len(FlattenSeq(seqs))
    BY <2>1, <2>2
  <2>4. QED
    BY <2>1, <2>3
<1>9. FlattenSeq(seqs) \in Seq(A)
  <2>1. N \in 0..N
    BY <1>1
  <2>2. QED
    BY <1>2, <2>1
<1>10. /\ \A i \in 1..Len(FlattenSeq(seqs)) :
             \E k \in 1..N : \E h \in 1..Len(seqs[k]) : FlattenSeq(seqs)[i] = seqs[k][h]
       /\ \A i, j \in 1..Len(FlattenSeq(seqs)) : i < j => Comes(seqs, FlattenSeq(seqs)[i], FlattenSeq(seqs)[j])
  <2>1. flat(N) = FlattenSeq(seqs)
    BY <1>2
  <2> HIDE DEF N
  <2>2. QED
    BY <1>7, <2>1
<1>11. QED
  BY <1>8, <1>9, <1>10

-----------------------------------------------------------------------------
(* Trees.  A tree is a sequence of nodes with different paths, the root      *)
(* first and the parts below its children in their order; the children of a  *)
(* node are numbered from 1, and a layer that runs children has at least one.*)

(* A node as the layer constructors make it: the padding of a with_array    *)
(* and the nF of a precomputable_affine are integers.                       *)
IsNode(n) ==
  /\ n = [at |-> n.at, kind |-> n.kind, dims |-> n.dims, params |-> n.params, attrs |-> n.attrs]
  /\ n.kind = "with_array" => n.attrs.pad \in Int
  /\ n.kind = "precomputable_affine" => "nF" \in DOMAIN n.dims /\ n.dims.nF \in Int
AreNodes(t) == \A i \in 1..Len(t) : IsNode(t[i])

(* The tree has a node at the path p.                                       *)
HasPath(t, p) == \E j \in 1..Len(t) : t[j].at = p

(* The children of the node at place i are numbered 1 to c, without a gap.  *)
Numbered(t, i, c) == c \in Nat /\ \A m \in Nat \ {0} : HasPath(t, Append(t[i].at, m)) <=> m <= c

(* The nodes of a model in the order of model.go's Walk: the root first, no *)
(* path twice, everything below the first child of the root before anything *)
(* below the second, and children numbered without gaps.                    *)
IsTree(t) ==
  /\ IsSeq(t) /\ Len(t) > 0 /\ t[1].at = <<>>
  /\ \A i \in 1..Len(t) : t[i].at \in Path
  /\ \A i, j \in 1..Len(t) : i < j =>
       t[i].at # t[j].at /\ t[j].at # <<>> /\ (i # 1 => t[i].at[1] <= t[j].at[1])
  /\ \A i \in 1..Len(t) : \E c : Numbered(t, i, c) /\ (t[i].kind \in Compounds => c > 0)

(* The path of a child: one longer than that of its parent, and with the    *)
(* same start.                                                              *)
LEMMA AppendPath ==
  ASSUME NEW p \in Path, NEW m \in Nat \ {0}
  PROVE  /\ Append(p, m) \in Path /\ Append(p, m) # <<>> /\ Append(p, m) # p
         /\ Len(Append(p, m)) = Len(p) + 1 /\ Len(p) \in Nat
         /\ \A i \in 1..Len(p) : Append(p, m)[i] = p[i]
         /\ Append(p, m)[Len(p) + 1] = m
<1> DEFINE Z == Nat \ {0}
<1>1. p \in Seq(Z) /\ m \in Z
  BY DEF Path
<1> HIDE DEF Z
<1>2. Append(p, m) \in Seq(Z) /\ Len(Append(p, m)) = Len(p) + 1 /\ Len(p) \in Nat
  BY <1>1
<1>3. (\A i \in 1..Len(p) : Append(p, m)[i] = p[i]) /\ Append(p, m)[Len(p) + 1] = m
  BY <1>1
<1>4. Append(p, m) # <<>> /\ Append(p, m) # p
  BY <1>2
<1>5. QED
  BY <1>2, <1>3, <1>4 DEF Z, Path

(* Two paths of one length that agree everywhere are one.                    *)
LEMMA SamePath ==
  ASSUME NEW p \in Path, NEW q \in Path, Len(p) = Len(q), \A i \in 1..Len(p) : p[i] = q[i]
  PROVE  p = q
<1>1. p = [i \in 1..Len(p) |-> p[i]] /\ q = [i \in 1..Len(q) |-> q[i]]
  BY DEF Path
<1>2. [i \in 1..Len(p) |-> p[i]] = [i \in 1..Len(q) |-> q[i]]
  OBVIOUS
<1>3. QED
  BY <1>1, <1>2, Zenon

(* Two paths below the root are the same only below the same child.         *)
LEMMA PrefixedOnce ==
  ASSUME NEW k \in Nat \ {0}, NEW p \in Path, NEW l \in Nat \ {0}, NEW q \in Path, <<k>> \o p = <<l>> \o q
  PROVE  k = l /\ p = q
<1> DEFINE a == <<k>> \o p
           b == <<l>> \o q
<1>1. Len(a) = Len(p) + 1 /\ Len(p) \in Nat /\ a[1] = k /\ (\A i \in 1..Len(p) : a[i + 1] = p[i])
  BY Prefixed
<1>2. Len(b) = Len(q) + 1 /\ Len(q) \in Nat /\ b[1] = l /\ (\A i \in 1..Len(q) : b[i + 1] = q[i])
  BY Prefixed
<1>3. a = b
  OBVIOUS
<1> HIDE DEF a, b
<1>4. k = l /\ Len(p) = Len(q) /\ \A i \in 1..Len(p) : p[i] = q[i]
  BY <1>1, <1>2, <1>3
<1>5. QED
  BY <1>4, SamePath

(* The path of a child of a node that is moved below a new root.            *)
LEMMA PrefixedAppend ==
  ASSUME NEW k \in Nat \ {0}, NEW p \in Path, NEW m \in Nat \ {0}
  PROVE  /\ Append(<<k>> \o p, m) = <<k>> \o Append(p, m)
         /\ <<k>> \o <<>> = <<k>> /\ Append(<<>>, k) = <<k>> /\ <<>> \in Path /\ <<k>> \o p # <<>>
<1> DEFINE a == <<k>> \o p
           q == Append(p, m)
           b == <<k>> \o q
           c == Append(a, m)
<1>1. a \in Path /\ Len(a) = Len(p) + 1 /\ Len(p) \in Nat /\ a[1] = k /\ \A i \in 1..Len(p) : a[i + 1] = p[i]
  BY Prefixed
<1>2. q \in Path /\ Len(q) = Len(p) + 1 /\ (\A i \in 1..Len(p) : q[i] = p[i]) /\ q[Len(p) + 1] = m
  BY AppendPath
<1>3. /\ b \in Path /\ Len(b) = Len(q) + 1 /\ b[1] = k
      /\ \A i \in 2..Len(b) : b[i] = q[i - 1] /\ i - 1 \in 1..Len(q)
  BY <1>2, Prefixed
<1>4. c \in Path /\ Len(c) = Len(a) + 1 /\ (\A i \in 1..Len(a) : c[i] = a[i]) /\ c[Len(a) + 1] = m
  BY <1>1, AppendPath
<1>5. \A i \in 2..Len(a) : a[i] = p[i - 1] /\ i - 1 \in 1..Len(p)
  BY Prefixed
<1> HIDE DEF a, b, c, q
<1>6. ASSUME NEW i \in 1..Len(c) PROVE c[i] = b[i]
  <2>1. CASE i = 1
    BY <1>1, <1>3, <1>4, <2>1
  <2>2. CASE i = Len(a) + 1
    <3>1. i \in 2..Len(b) /\ i - 1 = Len(p) + 1
      BY <1>1, <1>2, <1>3, <2>2
    <3>2. QED
      BY <1>2, <1>3, <1>4, <2>2, <3>1
  <2>3. CASE i \in 2..Len(a)
    <3>1. i \in 2..Len(b) /\ i - 1 \in 1..Len(p) /\ i \in 1..Len(a)
      BY <1>1, <1>2, <1>3, <2>3
    <3>2. QED
      BY <1>2, <1>3, <1>4, <1>5, <2>3, <3>1
  <2>4. QED
    BY <1>1, <1>4, <2>1, <2>2, <2>3
<1>7. c = b
  BY <1>1, <1>2, <1>3, <1>4, <1>6, SamePath
<1>8. a # <<>>
  BY <1>1
<1>9. <<k>> \o <<>> = <<k>> /\ Append(<<>>, k) = <<k>> /\ <<>> \in Path
  BY DEF Path
<1>10. QED
  BY <1>7, <1>8, <1>9 DEF a, b, c, q

(* A layer without children is a tree of one node.                          *)
LEMMA LeafTree ==
  ASSUME NEW kind, NEW dims, NEW params, NEW attrs, kind # "with_array",
         kind = "precomputable_affine" => "nF" \in DOMAIN dims /\ dims.nF \in Int
  PROVE  LET t == Leaf(kind, dims, params, attrs)
         IN  /\ Len(t) = 1 /\ IsSeq(t) /\ t[1].at = <<>> /\ t[1].kind = kind /\ AreNodes(t)
             /\ kind \notin Compounds => IsTree(t)
<1> DEFINE n == [at |-> <<>>, kind |-> kind, dims |-> dims, params |-> [p \in params |-> 0], attrs |-> attrs]
           t == Leaf(kind, dims, params, attrs)
<1>1. t = <<n>> /\ n.at = <<>> /\ n.kind = kind /\ IsNode(n)
  BY DEF Leaf, IsNode
<1> HIDE DEF t, n
<1>2. Len(t) = 1 /\ t[1] = n /\ t \in Seq({n})
  BY <1>1
<1>3. IsSeq(t)
  BY <1>2, SeqFacts
<1>4. \A i \in 1..Len(t) : i = 1 /\ t[i] = n
  BY <1>2
<1>5. AreNodes(t)
  BY <1>1, <1>4 DEF AreNodes
<1>6. ASSUME kind \notin Compounds PROVE IsTree(t)
  <2>1. <<>> \in Path
    BY DEF Path
  <2>2. Numbered(t, 1, 0)
    <3>1. ASSUME NEW m \in Nat \ {0} PROVE ~HasPath(t, Append(<<>>, m))
      <4>1. Append(<<>>, m) # <<>>
        BY <2>1, AppendPath
      <4>2. QED
        BY <1>1, <1>4, <4>1 DEF HasPath
    <3>2. t[1].at = <<>> /\ \A m \in Nat \ {0} : ~(m <= 0)
      BY <1>1, <1>2
    <3>3. QED
      BY <3>1, <3>2 DEF Numbered
  <2>3. \A i \in 1..Len(t) : t[i].at = <<>> /\ t[i].kind \notin Compounds /\ Numbered(t, i, 0)
    BY <1>1, <1>4, <1>6, <2>2
  <2>4. \A i, j \in 1..Len(t) : ~(i < j)
    BY <1>4
  <2>5. QED
    BY <1>1, <1>2, <1>3, <2>1, <2>3, <2>4 DEF IsTree
<1>7. QED
  BY <1>1, <1>2, <1>3, <1>5, <1>6 DEF t

(* A node as it is found below child k of a new root.                       *)
Moved(k, n) == [n EXCEPT !.at = <<k>> \o @]

(* A node moved below a new root is a node, of the same kind.               *)
LEMMA MovedNode ==
  ASSUME NEW k, NEW n, IsNode(n)
  PROVE  IsNode(Moved(k, n)) /\ Moved(k, n).at = <<k>> \o n.at /\ Moved(k, n).kind = n.kind
<1> DEFINE p == <<k>> \o n.at
           m == Moved(k, n)
<1>1. n = [at |-> n.at, kind |-> n.kind, dims |-> n.dims, params |-> n.params, attrs |-> n.attrs]
  BY DEF IsNode
<1>2. m = [n EXCEPT !.at = p]
  BY DEF Moved
<1> HIDE DEF p, m
<1>3. m = [at |-> p, kind |-> n.kind, dims |-> n.dims, params |-> n.params, attrs |-> n.attrs]
  BY <1>1, <1>2
<1>4. m.at = p /\ m.kind = n.kind /\ m.dims = n.dims /\ m.params = n.params /\ m.attrs = n.attrs
  BY <1>3
<1>5. m = [at |-> m.at, kind |-> m.kind, dims |-> m.dims, params |-> m.params, attrs |-> m.attrs]
  BY <1>3, <1>4
<1>6. QED
  BY <1>4, <1>5 DEF IsNode, m, p

\* The parts of a compound layer, each moved below its child number.

(* The parts of a compound, each moved below the new root.                  *)
PartsMoved(children) ==
  [k \in 1..Len(children) |-> [h \in 1..Len(children[k]) |-> Moved(k, children[k][h])]]

(* A tree has a root, in its first place.                                   *)
LEMMA TreeNodes ==
  ASSUME NEW t, IsTree(t)
  PROVE  /\ Len(t) \in Nat \ {0} /\ DOMAIN t = 1..Len(t)
         /\ t[1].at = <<>> /\ 1 \in 1..Len(t)
         /\ \A i \in 1..Len(t) : t[i].at \in Path
<1>1. Len(t) \in Nat /\ DOMAIN t = 1..Len(t)
  BY SeqFacts DEF IsTree, IsSeq
<1>2. QED
  BY <1>1 DEF IsTree

MovedNodes(children) == UNION {{Moved(k, children[k][h]) : h \in 1..Len(children[k])} : k \in 1..Len(children)}

(* A compound is its root and, after it, its children moved below the root. *)
LEMMA CompoundParts ==
  ASSUME NEW kind, NEW attrs, NEW children, IsSeq(children), \A k \in 1..Len(children) : IsTree(children[k])
  PROVE  /\ PartsMoved(children) \in Seq(Seq(MovedNodes(children)))
         /\ Len(PartsMoved(children)) = Len(children) /\ Len(children) \in Nat
         /\ \A k \in 1..Len(children) : /\ Len(PartsMoved(children)[k]) = Len(children[k])
                                        /\ \A h \in 1..Len(children[k]) :
                                             PartsMoved(children)[k][h] = Moved(k, children[k][h])
         /\ Compound(kind, attrs, children) = Leaf(kind, <<>>, {}, attrs) \o FlattenSeq(PartsMoved(children))
<1> DEFINE N == Len(children)
           A == UNION {{Moved(k, children[k][h]) : h \in 1..Len(children[k])} : k \in 1..Len(children)}
           part(k) == [h \in 1..Len(children[k]) |-> Moved(k, children[k][h])]
           s == PartsMoved(children)
<1>1. N \in Nat /\ DOMAIN children = 1..N
  BY SeqFacts DEF IsSeq
<1>2. ASSUME NEW k \in 1..N PROVE part(k) \in Seq(A) /\ Len(part(k)) = Len(children[k]) /\ DOMAIN children[k] = 1..Len(children[k])
  <2>1. Len(children[k]) \in Nat /\ DOMAIN children[k] = 1..Len(children[k])
    BY TreeNodes
  <2>2. \A h \in 1..Len(children[k]) : Moved(k, children[k][h]) \in A
    OBVIOUS
  <2> HIDE DEF A
  <2>3. QED
    BY <2>1, <2>2
<1>3. s = [k \in 1..N |-> part(k)]
  BY DEF PartsMoved
<1>4. s \in Seq(Seq(A)) /\ Len(s) = N /\ \A k \in 1..N : s[k] = part(k)
  <2> HIDE DEF A, part, s, N
  <2>1. s \in [1..N -> Seq(A)]
    BY <1>2, <1>3
  <2>2. QED
    BY <1>1, <1>3, <2>1
<1>5. \A k \in 1..N : \A h \in 1..Len(children[k]) : part(k)[h] = Moved(k, children[k][h])
  OBVIOUS
<1>6. s = [k \in DOMAIN children |-> [i \in DOMAIN children[k] |-> [children[k][i] EXCEPT !.at = <<k>> \o @]]]
  <2>1. \A k \in 1..N : part(k) = [i \in DOMAIN children[k] |-> [children[k][i] EXCEPT !.at = <<k>> \o @]]
    BY <1>2 DEF Moved
  <2> DEFINE e(k) == [i \in DOMAIN children[k] |-> [children[k][i] EXCEPT !.at = <<k>> \o @]]
  <2>2. \A k \in 1..N : part(k) = e(k)
    BY <2>1
  <2> HIDE DEF e, part, s
  <2>3. s = [k \in 1..N |-> e(k)]
    BY <1>3, <2>2
  <2>4. QED
    BY <1>1, <2>3 DEF e
<1>7. Compound(kind, attrs, children) = Leaf(kind, <<>>, {}, attrs) \o FlattenSeq(s)
  <2> HIDE DEF s
  <2>1. QED
    BY <1>6, Zenon DEF Compound
<1>8. \A k \in 1..N : Len(s[k]) = Len(children[k]) /\ \A h \in 1..Len(children[k]) : s[k][h] = Moved(k, children[k][h])
  <2> HIDE DEF s, part
  <2> QED
    BY <1>2, <1>4, <1>5
<1>9. A = MovedNodes(children)
  BY DEF MovedNodes
<1> HIDE DEF A, s, part
<1>10. QED
  BY <1>1, <1>4, <1>7, <1>8, <1>9 DEF s

\* A tree whose root has the parts of the given trees below it.

(* The nodes of t after the first are those of the children, each below the *)
(* number of its child.                                                     *)
IsCompound(t, children) ==
  /\ \A j \in 2..Len(t) : \E k \in 1..Len(children) : \E h \in 1..Len(children[k]) :
       t[j].at = <<k>> \o children[k][h].at /\ t[j].kind = children[k][h].kind
  /\ \A k \in 1..Len(children) : \A h \in 1..Len(children[k]) : \E j \in 2..Len(t) :
       t[j].at = <<k>> \o children[k][h].at /\ t[j].kind = children[k][h].kind

(* ... in the order of the children.                                        *)
InOrder(t, children) ==
  \A i, j \in 2..Len(t) : i < j =>
    \E k, l \in 1..Len(children) : \E g \in 1..Len(children[k]), h \in 1..Len(children[l]) :
      /\ t[i].at = <<k>> \o children[k][g].at
      /\ t[j].at = <<l>> \o children[l][h].at
      /\ k < l \/ (k = l /\ g < h)

(* A compound has the nodes of its children below its root, in their order. *)
LEMMA CompoundShape ==
  ASSUME NEW kind, NEW attrs, NEW children, IsSeq(children),
         \A k \in 1..Len(children) : IsTree(children[k]) /\ AreNodes(children[k]),
         kind = "with_array" => attrs.pad \in Int, kind # "precomputable_affine",
         NEW t, t = Compound(kind, attrs, children)
  PROVE  /\ IsSeq(t) /\ Len(t) \in Nat \ {0} /\ t[1].at = <<>> /\ t[1].kind = kind /\ AreNodes(t)
         /\ IsCompound(t, children)
         /\ InOrder(t, children)
<1> DEFINE N == Len(children)
           A == MovedNodes(children)
           seqs == PartsMoved(children)
           flat == FlattenSeq(seqs)
           root == Leaf(kind, <<>>, {}, attrs)
           r == root[1]
<1>1. /\ seqs \in Seq(Seq(A)) /\ Len(seqs) = N /\ N \in Nat
      /\ \A k \in 1..N : Len(seqs[k]) = Len(children[k])
      /\ \A k \in 1..N : \A h \in 1..Len(children[k]) : seqs[k][h] = Moved(k, children[k][h])
      /\ t = root \o flat
  <2>1. \A k \in 1..Len(children) : IsTree(children[k])
    OBVIOUS
  <2>2. QED
    BY <2>1, CompoundParts
<1>2. /\ flat \in Seq(A)
      /\ \A i \in 1..Len(flat) : \E k \in 1..Len(seqs) : \E h \in 1..Len(seqs[k]) : flat[i] = seqs[k][h]
      /\ \A i, j \in 1..Len(flat) : i < j => Comes(seqs, flat[i], flat[j])
      /\ \A k \in 1..Len(seqs) : \A h \in 1..Len(seqs[k]) : \E i \in 1..Len(flat) : flat[i] = seqs[k][h]
  <2> HIDE DEF A, seqs
  <2> QED
    BY <1>1, FlattenOrder
<1>3. root = <<r>> /\ r.at = <<>> /\ r.kind = kind /\ IsNode(r)
  BY DEF Leaf, IsNode
<1>4. \A k \in 1..N : \A h \in 1..Len(children[k]) :
        IsNode(seqs[k][h]) /\ seqs[k][h].at = <<k>> \o children[k][h].at /\ seqs[k][h].kind = children[k][h].kind
  <2> TAKE k \in 1..N
  <2> TAKE h \in 1..Len(children[k])
  <2>1. IsNode(children[k][h])
    BY DEF AreNodes
  <2> HIDE DEF seqs
  <2>2. seqs[k][h] = Moved(k, children[k][h])
    BY <1>1
  <2>3. QED
    BY <2>1, <2>2, MovedNode
<1> HIDE DEF A, seqs, flat, root, r, N
<1>5. /\ Len(flat) \in Nat /\ Len(t) = Len(flat) + 1 /\ t[1] = r /\ t \in Seq(A \cup {r})
      /\ \A i \in 1..Len(flat) : t[i + 1] = flat[i]
  <2>1. root \in Seq(A \cup {r}) /\ flat \in Seq(A \cup {r}) /\ Len(root) = 1 /\ root[1] = r
    BY <1>2, <1>3
  <2> DEFINE B == A \cup {r}
  <2> HIDE DEF B
  <2>2. root \in Seq(B) /\ flat \in Seq(B)
    BY <2>1 DEF B
  <2>3. Len(flat) \in Nat /\ root \o flat \in Seq(B) /\ Len(root \o flat) = Len(root) + Len(flat)
        /\ \A i \in 1..(Len(root) + Len(flat)) : (root \o flat)[i] = IF i <= Len(root) THEN root[i] ELSE flat[i - Len(root)]
    BY <2>2
  <2>4. (root \o flat)[1] = r
    BY <2>1, <2>3
  <2>5. ASSUME NEW i \in 1..Len(flat) PROVE (root \o flat)[i + 1] = flat[i]
    <3>1. i + 1 \in 1..(Len(root) + Len(flat)) /\ ~(i + 1 <= Len(root)) /\ (i + 1) - Len(root) = i
      BY <2>1, <2>3
    <3>2. QED
      BY <2>3, <3>1
  <2>6. QED
    BY <1>1, <2>1, <2>3, <2>4, <2>5 DEF B
<1>6. IsSeq(t)
  BY <1>5, SeqFacts
<1>7. \A j \in 2..Len(t) : j - 1 \in 1..Len(flat) /\ t[j] = flat[j - 1]
  <2> TAKE j \in 2..Len(t)
  <2>1. j - 1 \in 1..Len(flat) /\ (j - 1) + 1 = j
    BY <1>5
  <2>2. QED
    BY <1>5, <2>1
<1>8. \A j \in 2..Len(t) : \E k \in 1..N : \E h \in 1..Len(children[k]) : t[j] = seqs[k][h]
  <2> TAKE j \in 2..Len(t)
  <2>1. j - 1 \in 1..Len(flat) /\ t[j] = flat[j - 1]
    BY <1>7
  <2>2. PICK k \in 1..N : \E h \in 1..Len(seqs[k]) : flat[j - 1] = seqs[k][h]
    BY <1>1, <1>2, <2>1
  <2>3. Len(seqs[k]) = Len(children[k])
    BY <1>1
  <2>4. QED
    BY <2>1, <2>2, <2>3
<1>9. \A k \in 1..N : \A h \in 1..Len(children[k]) : \E j \in 2..Len(t) : t[j] = seqs[k][h]
  <2> TAKE k \in 1..N
  <2> TAKE h \in 1..Len(children[k])
  <2>1. PICK i \in 1..Len(flat) : flat[i] = seqs[k][h]
    BY <1>1, <1>2
  <2>2. i + 1 \in 2..Len(t) /\ t[i + 1] = flat[i]
    BY <1>5
  <2>3. QED
    BY <2>1, <2>2
<1>10. AreNodes(t)
  <2> SUFFICES ASSUME NEW j \in 1..Len(t) PROVE IsNode(t[j])
    BY DEF AreNodes
  <2>1. CASE j = 1
    BY <1>3, <1>5, <2>1
  <2>2. CASE j # 1
    <3>1. j \in 2..Len(t)
      BY <1>5, <2>2
    <3>2. QED
      BY <1>4, <1>8, <3>1
  <2>3. QED
    BY <2>1, <2>2
<1>11. IsCompound(t, children)
  <2>1. \A j \in 2..Len(t) : \E k \in 1..N : \E h \in 1..Len(children[k]) :
          t[j].at = <<k>> \o children[k][h].at /\ t[j].kind = children[k][h].kind
    <3> TAKE j \in 2..Len(t)
    <3>1. PICK k \in 1..N : \E h \in 1..Len(children[k]) : t[j] = seqs[k][h]
      BY <1>8
    <3>2. PICK h \in 1..Len(children[k]) : t[j] = seqs[k][h]
      BY <3>1
    <3>3. QED
      BY <1>4, <3>2
  <2>2. \A k \in 1..N : \A h \in 1..Len(children[k]) : \E j \in 2..Len(t) :
          t[j].at = <<k>> \o children[k][h].at /\ t[j].kind = children[k][h].kind
    <3> TAKE k \in 1..N
    <3> TAKE h \in 1..Len(children[k])
    <3>1. PICK j \in 2..Len(t) : t[j] = seqs[k][h]
      BY <1>9
    <3>2. QED
      BY <1>4, <3>1
  <2>3. QED
    BY <2>1, <2>2 DEF IsCompound, N
<1>12. ASSUME NEW i \in 2..Len(t), NEW j \in 2..Len(t), i < j
       PROVE  \E k, l \in 1..N : \E g \in 1..Len(children[k]), h \in 1..Len(children[l]) :
                /\ t[i].at = <<k>> \o children[k][g].at
                /\ t[j].at = <<l>> \o children[l][h].at
                /\ k < l \/ (k = l /\ g < h)
  <2>1. i - 1 < j - 1
    BY <1>5, <1>12
  <2>2. Comes(seqs, t[i], t[j])
    BY <1>2, <1>7, <2>1
  <2>3. PICK k \in 1..N, l \in 1..N : \E g \in 1..Len(seqs[k]), h \in 1..Len(seqs[l]) :
          t[i] = seqs[k][g] /\ t[j] = seqs[l][h] /\ (k < l \/ (k = l /\ g < h))
    BY <1>1, <2>2 DEF Comes
  <2>4. PICK g \in 1..Len(children[k]), h \in 1..Len(children[l]) :
          t[i] = seqs[k][g] /\ t[j] = seqs[l][h] /\ (k < l \/ (k = l /\ g < h))
    BY <1>1, <2>3
  <2>5. QED
    <3>1. t[i].at = <<k>> \o children[k][g].at /\ t[j].at = <<l>> \o children[l][h].at
      BY <1>4, <2>4
    <3>2. QED
      BY <2>4, <3>1
<1>13. Len(t) \in Nat \ {0} /\ t[1].at = <<>> /\ t[1].kind = kind
  BY <1>3, <1>5
<1>14. InOrder(t, children)
  BY <1>12 DEF InOrder, N
<1>15. QED
  BY <1>6, <1>10, <1>11, <1>13, <1>14

(* A compound of trees is a tree.                                           *)
LEMMA CompoundTree ==
  ASSUME NEW kind, NEW attrs, NEW children, IsSeq(children),
         \A k \in 1..Len(children) : IsTree(children[k]) /\ AreNodes(children[k]),
         kind \in Compounds => Len(children) > 0,
         kind = "with_array" => attrs.pad \in Int, kind # "precomputable_affine"
  PROVE  IsTree(Compound(kind, attrs, children)) /\ AreNodes(Compound(kind, attrs, children))
<1> DEFINE t == Compound(kind, attrs, children)
           N == Len(children)
<1>1. /\ IsSeq(t) /\ Len(t) \in Nat \ {0} /\ t[1].at = <<>> /\ t[1].kind = kind /\ AreNodes(t)
      /\ IsCompound(t, children) /\ InOrder(t, children)
  BY CompoundShape
<1>2. N \in Nat /\ \A k \in 1..N : k \in Nat \ {0}
  BY SeqFacts DEF IsSeq
<1>3. \A k \in 1..N : \A h \in 1..Len(children[k]) : children[k][h].at \in Path
  BY TreeNodes
<1>4. \A k \in 1..N : Len(children[k]) \in Nat \ {0} /\ children[k][1].at = <<>> /\ 1 \in 1..Len(children[k])
  BY TreeNodes
<1> HIDE DEF t, N
<1>5. ASSUME NEW j \in 2..Len(t)
      PROVE  \E k \in 1..N : \E h \in 1..Len(children[k]) :
               t[j].at = <<k>> \o children[k][h].at /\ t[j].kind = children[k][h].kind
  BY <1>1 DEF IsCompound, N
<1>6. \A j \in 2..Len(t) : t[j].at \in Path /\ t[j].at # <<>>
  <2> TAKE j \in 2..Len(t)
  <2>1. PICK k \in 1..N : \E h \in 1..Len(children[k]) : t[j].at = <<k>> \o children[k][h].at
    BY <1>5
  <2>2. PICK h \in 1..Len(children[k]) : t[j].at = <<k>> \o children[k][h].at
    BY <2>1
  <2> DEFINE p == children[k][h].at
  <2>3. p \in Path /\ k \in Nat \ {0}
    BY <1>2, <1>3
  <2> HIDE DEF p
  <2>4. <<k>> \o p \in Path /\ <<k>> \o p # <<>>
    BY <2>3, Prefixed, PrefixedAppend
  <2>5. QED
    BY <2>2, <2>4 DEF p
<1>7. <<>> \in Path
  BY DEF Path
<1>8. \A j \in 1..Len(t) : j = 1 \/ j \in 2..Len(t)
  BY <1>1
<1>9. \A i \in 1..Len(t) : t[i].at \in Path
  BY <1>1, <1>6, <1>7, <1>8
<1>10. ASSUME NEW i \in 1..Len(t), NEW j \in 1..Len(t), i < j
       PROVE  t[i].at # t[j].at /\ t[j].at # <<>> /\ (i # 1 => t[i].at[1] <= t[j].at[1])
  <2>1. j \in 2..Len(t) /\ t[j].at # <<>>
    <3>1. j \in 2..Len(t)
      BY <1>1, <1>10
    <3>2. QED
      BY <1>6, <3>1
  <2>2. CASE i = 1
    BY <1>1, <2>1, <2>2
  <2>3. CASE i # 1
    <3>1. i \in 2..Len(t)
      BY <1>8, <2>3
    <3>2. PICK k \in 1..N, l \in 1..N : \E g \in 1..Len(children[k]), h \in 1..Len(children[l]) :
             /\ t[i].at = <<k>> \o children[k][g].at
             /\ t[j].at = <<l>> \o children[l][h].at
             /\ k < l \/ (k = l /\ g < h)
      BY <1>1, <1>10, <2>1, <3>1 DEF N, InOrder
    <3>3. PICK g \in 1..Len(children[k]), h \in 1..Len(children[l]) :
             /\ t[i].at = <<k>> \o children[k][g].at
             /\ t[j].at = <<l>> \o children[l][h].at
             /\ k < l \/ (k = l /\ g < h)
      BY <3>2
    <3> DEFINE p == children[k][g].at
               q == children[l][h].at
    <3>4. p \in Path /\ q \in Path /\ k \in Nat \ {0} /\ l \in Nat \ {0}
      BY <1>2, <1>3
    <3>5. k = l /\ g < h => p # q
      <4>1. IsTree(children[k])
        BY DEF N
      <4>2. QED
        BY <4>1 DEF IsTree
    <3>6. t[i].at = <<k>> \o p /\ t[j].at = <<l>> \o q
      BY <3>3
    <3> HIDE DEF p, q
    <3>7. (<<k>> \o p)[1] = k /\ (<<l>> \o q)[1] = l
      BY <3>4, Prefixed
    <3>8. <<k>> \o p = <<l>> \o q => k = l /\ p = q
      BY <3>4, PrefixedOnce
    <3>9. k <= l /\ ~(k = l /\ p = q)
      BY <3>3, <3>4, <3>5
    <3>10. QED
      BY <2>1, <3>6, <3>7, <3>8, <3>9
  <2>4. QED
    BY <2>2, <2>3
<1>11. ASSUME NEW k \in 1..N, NEW p \in Path
       PROVE  HasPath(t, <<k>> \o p) <=> HasPath(children[k], p)
  <2>1. k \in Nat \ {0} /\ <<k>> \o p # <<>>
    BY <1>2, PrefixedAppend
  <2>2. ASSUME HasPath(t, <<k>> \o p) PROVE HasPath(children[k], p)
    <3>1. PICK j \in 1..Len(t) : t[j].at = <<k>> \o p
      BY <2>2 DEF HasPath
    <3>2. j \in 2..Len(t)
      BY <1>1, <1>8, <2>1, <3>1
    <3>3. PICK l \in 1..N : \E h \in 1..Len(children[l]) : t[j].at = <<l>> \o children[l][h].at
      BY <1>5, <3>2
    <3>4. PICK h \in 1..Len(children[l]) : t[j].at = <<l>> \o children[l][h].at
      BY <3>3
    <3> DEFINE q == children[l][h].at
    <3>5. q \in Path /\ l \in Nat \ {0}
      BY <1>2, <1>3
    <3>6. <<k>> \o p = <<l>> \o q
      BY <3>1, <3>4
    <3> HIDE DEF q
    <3>7. k = l /\ p = q
      BY <2>1, <3>5, <3>6, PrefixedOnce
    <3>8. QED
      BY <3>7 DEF HasPath, q
  <2>3. ASSUME HasPath(children[k], p) PROVE HasPath(t, <<k>> \o p)
    <3>1. PICK h \in 1..Len(children[k]) : children[k][h].at = p
      BY <2>3 DEF HasPath
    <3>2. PICK j \in 2..Len(t) : t[j].at = <<k>> \o children[k][h].at
      BY <1>1 DEF IsCompound, N
    <3>3. j \in 1..Len(t) /\ t[j].at = <<k>> \o p
      BY <3>1, <3>2
    <3>4. QED
      BY <3>3 DEF HasPath
  <2>4. QED
    BY <2>2, <2>3
<1>12. ASSUME NEW m \in Nat \ {0} PROVE HasPath(t, Append(<<>>, m)) <=> m <= N
  <2>0. Append(<<>>, m) = <<m>> /\ <<m>> \o <<>> = <<m>>
    BY <1>7, PrefixedAppend
  <2>1. CASE m <= N
    <3>1. m \in 1..N
      BY <1>2, <2>1
    <3>2. HasPath(children[m], <<>>)
      BY <1>4, <3>1 DEF HasPath
    <3>3. HasPath(t, <<m>> \o <<>>)
      BY <1>7, <1>11, <3>1, <3>2
    <3>4. QED
      BY <2>0, <2>1, <3>3
  <2>2. ASSUME HasPath(t, Append(<<>>, m)) PROVE m <= N
    <3>1. PICK j \in 1..Len(t) : t[j].at = <<m>> \o <<>>
      BY <2>0, <2>2 DEF HasPath
    <3>2. <<m>> \o <<>> # <<>>
      BY <1>7, PrefixedAppend
    <3>3. j \in 2..Len(t)
      BY <1>1, <1>8, <3>1, <3>2
    <3>4. PICK l \in 1..N : \E h \in 1..Len(children[l]) : t[j].at = <<l>> \o children[l][h].at
      BY <1>5, <3>3
    <3>5. PICK h \in 1..Len(children[l]) : t[j].at = <<l>> \o children[l][h].at
      BY <3>4
    <3> DEFINE q == children[l][h].at
    <3>6. q \in Path /\ l \in Nat \ {0}
      BY <1>2, <1>3
    <3>7. <<m>> \o <<>> = <<l>> \o q
      BY <3>1, <3>5
    <3> HIDE DEF q
    <3>8. m = l
      BY <1>7, <3>6, <3>7, PrefixedOnce
    <3>9. QED
      BY <1>2, <3>8
  <2>3. QED
    BY <2>1, <2>2
<1>13. ASSUME NEW i \in 1..Len(t)
       PROVE  \E c : Numbered(t, i, c) /\ (t[i].kind \in Compounds => c > 0)
  <2>1. CASE i = 1
    <3>1. Numbered(t, i, N)
      BY <1>1, <1>2, <1>12, <2>1 DEF Numbered
    <3>2. t[i].kind \in Compounds => N > 0
      BY <1>1, <2>1 DEF N
    <3>3. QED
      BY <3>1, <3>2
  <2>2. CASE i \in 2..Len(t)
    <3>1. PICK k \in 1..N : \E h \in 1..Len(children[k]) :
            t[i].at = <<k>> \o children[k][h].at /\ t[i].kind = children[k][h].kind
      BY <1>5, <2>2
    <3>2. PICK h \in 1..Len(children[k]) : t[i].at = <<k>> \o children[k][h].at /\ t[i].kind = children[k][h].kind
      BY <3>1
    <3>3. IsTree(children[k])
      BY DEF N
    <3>4. PICK c : Numbered(children[k], h, c) /\ (children[k][h].kind \in Compounds => c > 0)
      BY <3>3 DEF IsTree
    <3> DEFINE p == children[k][h].at
    <3>5. p \in Path /\ k \in Nat \ {0}
      BY <1>2, <1>3
    <3>6. c \in Nat /\ \A m \in Nat \ {0} : HasPath(children[k], Append(p, m)) <=> m <= c
      BY <3>4 DEF Numbered
    <3>7. t[i].at = <<k>> \o p
      BY <3>2
    <3> HIDE DEF p
    <3>8. ASSUME NEW m \in Nat \ {0} PROVE HasPath(t, Append(t[i].at, m)) <=> m <= c
      <4>1. Append(<<k>> \o p, m) = <<k>> \o Append(p, m) /\ Append(p, m) \in Path
        BY <3>5, PrefixedAppend, AppendPath
      <4>2. HasPath(t, <<k>> \o Append(p, m)) <=> HasPath(children[k], Append(p, m))
        BY <1>11, <4>1
      <4>3. QED
        BY <3>6, <3>7, <4>1, <4>2
    <3>9. Numbered(t, i, c)
      BY <3>6, <3>8 DEF Numbered
    <3>10. QED
      BY <3>2, <3>4, <3>9
  <2>3. QED
    BY <1>8, <2>1, <2>2
<1>14. IsTree(t)
  BY <1>1, <1>9, <1>10, <1>13 DEF IsTree
<1>15. QED
  BY <1>1, <1>14 DEF t

(* A tree the constructors in nn/layers can make.                           *)
GoodTree(t) == IsTree(t) /\ AreNodes(t)
GoodParts(children) == IsSeq(children) /\ \A k \in 1..Len(children) : GoodTree(children[k])

(* A compound of good trees is a good tree.                                 *)
LEMMA GoodCompound ==
  ASSUME NEW kind, NEW attrs, NEW children, GoodParts(children), kind \in Compounds => Len(children) > 0,
         kind = "with_array" => attrs.pad \in Int, kind # "precomputable_affine"
  PROVE  GoodTree(Compound(kind, attrs, children))
BY CompoundTree DEF GoodParts, GoodTree

(* A good tree alone, two or three of them are the parts of a compound.     *)
LEMMA GoodTuples ==
  ASSUME NEW a, GoodTree(a)
  PROVE  /\ GoodParts(<<a>>) /\ Len(<<a>>) = 1
         /\ \A b : GoodTree(b) => /\ GoodParts(<<a, b>>) /\ Len(<<a, b>>) = 2
                                  /\ \A c : GoodTree(c) => GoodParts(<<a, b, c>>) /\ Len(<<a, b, c>>) = 3
<1>1. GoodParts(<<a>>) /\ Len(<<a>>) = 1
  <2> DEFINE s == <<a>>
  <2>1. s \in Seq({a}) /\ Len(s) = 1 /\ s[1] = a
    OBVIOUS
  <2> HIDE DEF s
  <2>2. IsSeq(s)
    BY <2>1, SeqFacts
  <2>3. \A k \in 1..Len(s) : s[k] = a
    BY <2>1
  <2>4. QED
    BY <2>1, <2>2, <2>3 DEF GoodParts, s
<1>2. ASSUME NEW b, GoodTree(b) PROVE GoodParts(<<a, b>>) /\ Len(<<a, b>>) = 2
  <2> DEFINE s == <<a, b>>
  <2>1. s \in Seq({a, b}) /\ Len(s) = 2 /\ s[1] = a /\ s[2] = b
    OBVIOUS
  <2> HIDE DEF s
  <2>2. IsSeq(s)
    BY <2>1, SeqFacts
  <2>3. \A k \in 1..Len(s) : k = 1 \/ k = 2
    BY <2>1
  <2>4. QED
    BY <1>2, <2>1, <2>2, <2>3 DEF GoodParts, s
<1>3. ASSUME NEW b, GoodTree(b), NEW c, GoodTree(c) PROVE GoodParts(<<a, b, c>>) /\ Len(<<a, b, c>>) = 3
  <2> DEFINE s == <<a, b, c>>
  <2>1. s \in Seq({a, b, c}) /\ Len(s) = 3 /\ s[1] = a /\ s[2] = b /\ s[3] = c
    OBVIOUS
  <2> HIDE DEF s
  <2>2. IsSeq(s)
    BY <2>1, SeqFacts
  <2>3. \A k \in 1..Len(s) : k = 1 \/ k = 2 \/ k = 3
    BY <2>1
  <2>4. QED
    BY <1>3, <2>1, <2>2, <2>3 DEF GoodParts, s
<1>4. QED
  BY <1>1, <1>2, <1>3

(* So are the layers an encoder repeats depth times.                        *)
LEMMA GoodRepeat ==
  ASSUME NEW n \in Int, NEW e, GoodTree(e)
  PROVE  GoodParts([d \in 1..n |-> e])
<1> DEFINE s == [d \in 1..n |-> e]
<1>1. s \in Seq({e})
  OBVIOUS
<1>2. IsSeq(s) /\ DOMAIN s = 1..Len(s)
  BY <1>1, SeqFacts
<1>3. \A k \in DOMAIN s : s[k] = e
  OBVIOUS
<1> HIDE DEF s
<1>4. GoodParts(s)
  BY <1>2, <1>3 DEF GoodParts
<1>5. QED
  BY <1>4 DEF s

(* So is a list made by a loop (the embeddings of MultiHashEmbed).          *)
LEMMA GoodList ==
  ASSUME NEW n \in Nat, NEW s, s = [k \in 1..n |-> s[k]], \A k \in 1..n : GoodTree(s[k])
  PROVE  GoodParts(s) /\ Len(s) = n
<1>1. s \in Seq({s[k] : k \in 1..n}) /\ Len(s) = n
  OBVIOUS
<1>2. IsSeq(s)
  BY <1>1, SeqFacts
<1>3. QED
  BY <1>1, <1>2 DEF GoodParts

(* So are two such lists, one after the other.                              *)
LEMMA GoodJoin ==
  ASSUME NEW x, GoodParts(x), NEW y, GoodParts(y)
  PROVE  GoodParts(x \o y)
<1> DEFINE T == {x[i] : i \in 1..Len(x)} \cup {y[i] : i \in 1..Len(y)}
           z == x \o y
<1>1. x \in Seq(T) /\ y \in Seq(T) /\ \A e \in T : GoodTree(e)
  BY DEF GoodParts, IsSeq
<1> HIDE DEF T
<1>2. z \in Seq(T)
  BY <1>1
<1> HIDE DEF z
<1>3. IsSeq(z) /\ \A k \in 1..Len(z) : z[k] \in T
  BY <1>2, SeqFacts
<1>4. QED
  BY <1>1, <1>3 DEF GoodParts, z

(* Every layer without children is a good tree, whatever its dimensions.    *)
LEMMA GoodLeaves ==
  /\ \A nO, nV, seed : GoodTree(HashEmbed(nO, nV, seed))
  /\ \A column : GoodTree(IntsGetitem(column))
  /\ \A nO, nI, nP : GoodTree(Maxout(nO, nI, nP))
  /\ \A nO, nI : GoodTree(Mish(nO, nI)) /\ GoodTree(Linear(nO, nI)) /\ GoodTree(Softmax(nO, nI))
                 /\ GoodTree(StaticVectors(nO, nI))
  /\ \A nI : GoodTree(LayerNorm(nI))
  /\ \A nW : GoodTree(ExpandWindow(nW))
  /\ \A columns : GoodTree(FeatureExtractor(columns))
  /\ GoodTree(Dropout) /\ GoodTree(List2Ragged) /\ GoodTree(Ragged2List) /\ GoodTree(List2Array)
  /\ GoodTree(Listener) /\ GoodTree(CharEmbed)
<1>1. ASSUME NEW kind, NEW dims, NEW params, NEW attrs, kind \notin {"with_array", "precomputable_affine"} \cup Compounds
      PROVE  GoodTree(Leaf(kind, dims, params, attrs))
  BY <1>1, LeafTree DEF GoodTree
<1>2. \A nO, nV, seed : GoodTree(HashEmbed(nO, nV, seed))
  BY <1>1 DEF HashEmbed, Compounds
<1>3. \A column : GoodTree(IntsGetitem(column))
  BY <1>1 DEF IntsGetitem, Compounds
<1>4. \A nO, nI, nP : GoodTree(Maxout(nO, nI, nP))
  BY <1>1 DEF Maxout, Compounds
<1>5. \A nO, nI : GoodTree(Mish(nO, nI))
  BY <1>1 DEF Mish, Compounds
<1>6. \A nO, nI : GoodTree(Linear(nO, nI)) /\ GoodTree(Softmax(nO, nI))
  BY <1>1 DEF Linear, Softmax, Compounds
<1>7. \A nO, nI : GoodTree(StaticVectors(nO, nI))
  BY <1>1 DEF StaticVectors, Compounds
<1>8. \A nI : GoodTree(LayerNorm(nI))
  BY <1>1 DEF LayerNorm, Compounds
<1>9. \A nW : GoodTree(ExpandWindow(nW))
  BY <1>1 DEF ExpandWindow, Compounds
<1>10. \A columns : GoodTree(FeatureExtractor(columns))
  BY <1>1 DEF FeatureExtractor, Compounds
<1>11. GoodTree(Dropout) /\ GoodTree(List2Ragged) /\ GoodTree(Ragged2List)
  BY <1>1 DEF Dropout, List2Ragged, Ragged2List, Compounds
<1>12. GoodTree(List2Array) /\ GoodTree(Listener) /\ GoodTree(CharEmbed)
  BY <1>1 DEF List2Array, Listener, CharEmbed, Compounds
<1>13. QED
  BY <1>2, <1>3, <1>4, <1>5, <1>6, <1>7, <1>8, <1>9, <1>10, <1>11, <1>12

(* So is the lower model of a parser, given the number of its features.     *)
LEMMA GoodAffine ==
  ASSUME NEW nO, NEW nI, NEW nF \in Int, NEW nP
  PROVE  GoodTree(PrecomputableAffine(nO, nI, nF, nP))
<1> DEFINE dims == [nO |-> nO, nI |-> nI, nF |-> nF, nP |-> nP]
<1>1. "nF" \in DOMAIN dims /\ dims.nF \in Int /\ "precomputable_affine" \notin Compounds
  BY DEF Compounds
<1> HIDE DEF dims
<1>2. GoodTree(Leaf("precomputable_affine", dims, {"W", "b", "pad"}, <<>>))
  BY <1>1, LeafTree DEF GoodTree
<1>3. QED
  BY <1>2 DEF PrecomputableAffine, dims

(* Chain, concatenate, residual and with_array of good trees are good       *)
(* trees.                                                                   *)
LEMMA GoodLayers ==
  /\ \A children : GoodParts(children) => GoodTree(Chain(children))
  /\ \A children : GoodParts(children) /\ Len(children) > 0 => GoodTree(Concatenate(children))
  /\ \A inner : GoodTree(inner) => GoodTree(Residual(inner))
  /\ \A inner : \A pad \in Int : GoodTree(inner) => GoodTree(WithArray(inner, pad))
<1>1. ASSUME NEW children, GoodParts(children) PROVE GoodTree(Chain(children))
  BY <1>1, GoodCompound DEF Chain, Compounds
<1>2. ASSUME NEW children, GoodParts(children), Len(children) > 0 PROVE GoodTree(Concatenate(children))
  BY <1>2, GoodCompound DEF Concatenate
<1>3. ASSUME NEW inner, GoodTree(inner) PROVE GoodTree(Residual(inner))
  <2> DEFINE s == <<inner>>
  <2>1. GoodParts(s) /\ Len(s) > 0
    BY <1>3, GoodTuples
  <2> HIDE DEF s
  <2>2. GoodTree(Compound("residual", <<>>, s))
    BY <2>1, GoodCompound
  <2>3. QED
    BY <2>2 DEF Residual, s
<1>4. ASSUME NEW inner, NEW pad \in Int, GoodTree(inner) PROVE GoodTree(WithArray(inner, pad))
  <2> DEFINE s == <<inner>>
             attrs == [pad |-> pad]
  <2>1. GoodParts(s) /\ Len(s) > 0 /\ attrs.pad \in Int
    BY <1>4, GoodTuples
  <2> HIDE DEF s, attrs
  <2>2. GoodTree(Compound("with_array", attrs, s))
    BY <2>1, GoodCompound
  <2>3. QED
    BY <2>2 DEF WithArray, s, attrs
<1>5. QED
  BY <1>1, <1>2, <1>3, <1>4

-----------------------------------------------------------------------------
(* Config sections: the integers and the lists of columns in them.           *)

(* A value the config reader gives a type: an int or a float (the model has *)
(* one kind of number), or a list of strings that is not empty.             *)
TypedValue(v) ==
  /\ v.type \in {"int", "float"} => v.val \in Int
  /\ v.type = "strings" => IsSeq(v.val) /\ v.val # <<>>

(* A section of a config whose values have their types.                     *)
Typed(cfg) == \A p \in DOMAIN cfg : IsSeq(p) /\ TypedValue(cfg[p])

(* An integer read from a section, or its default, is an integer.           *)
LEMMA TypedInt ==
  ASSUME NEW cfg, Typed(cfg), NEW key, NEW default \in Int
  PROVE  CfgInt(cfg, key, default) \in Int
<1>1. CASE HasA(cfg, key, "int")
  <2>1. cfg[<<key>>].val \in Int
    BY <1>1 DEF HasA, Has, Typed, TypedValue
  <2>2. CfgInt(cfg, key, default) = cfg[<<key>>].val
    <3>1. ~HasA(cfg, key, "float")
      BY <1>1 DEF HasA
    <3>2. QED
      BY <1>1, <3>1 DEF CfgInt
  <2>3. QED
    BY <2>1, <2>2
<1>2. CASE ~HasA(cfg, key, "int") /\ HasA(cfg, key, "float")
  <2>1. cfg[<<key>>].val \in Int
    BY <1>2 DEF HasA, Has, Typed, TypedValue
  <2>2. CfgInt(cfg, key, default) = cfg[<<key>>].val \div 10
    BY <1>2 DEF CfgInt
  <2>3. QED
    BY <2>1, <2>2
<1>3. CASE ~HasA(cfg, key, "int") /\ ~HasA(cfg, key, "float")
  BY <1>3 DEF CfgInt
<1>4. QED
  BY <1>1, <1>2, <1>3

(* The columns of an embedding are a sequence, and there is one.            *)
LEMMA TypedColumns ==
  ASSUME NEW cfg, Typed(cfg), NEW key, HasA(cfg, key, "strings")
  PROVE  IsSeq(cfg[<<key>>].val) /\ cfg[<<key>>].val # <<>>
BY DEF Typed, TypedValue, HasA, Has

(* A path is its start and its rest.                                        *)
LEMMA SplitPath ==
  ASSUME NEW p, IsSeq(p)
  PROVE  /\ \A n \in 0..Len(p) : /\ IsSeq(SubSeq(p, n + 1, Len(p)))
                                 /\ SubSeq(p, 1, n) \o SubSeq(p, n + 1, Len(p)) = p
         /\ Len(p) > 1 => IsSeq(Tail(p)) /\ <<p[1]>> \o Tail(p) = p
<1> DEFINE S == {p[i] : i \in 1..Len(p)}
<1>1. p \in Seq(S) /\ Len(p) \in Nat /\ p = [i \in 1..Len(p) |-> p[i]]
  BY DEF IsSeq
<1> HIDE DEF S
<1>2. ASSUME NEW n \in 0..Len(p)
      PROVE  SubSeq(p, n + 1, Len(p)) \in Seq(S) /\ SubSeq(p, 1, n) \o SubSeq(p, n + 1, Len(p)) = p
  <2> DEFINE a == SubSeq(p, 1, n)
             b == SubSeq(p, n + 1, Len(p))
             z == a \o b
  <2>1. a \in Seq(S) /\ Len(a) = n /\ \A i \in 1..n : a[i] = p[i]
    BY <1>1
  <2>2. b \in Seq(S) /\ Len(b) = Len(p) - n /\ \A i \in 1..(Len(p) - n) : b[i] = p[n + i]
    BY <1>1
  <2> HIDE DEF a, b
  <2>3. z \in Seq(S) /\ Len(z) = Len(p)
    <3>1. a \in Seq(S) /\ b \in Seq(S)
      BY <2>1, <2>2
    <3>2. z \in Seq(S) /\ Len(z) = Len(a) + Len(b)
      BY <3>1
    <3>3. QED
      BY <1>1, <2>1, <2>2, <3>2
  <2>4. \A i \in 1..(Len(a) + Len(b)) : z[i] = IF i <= Len(a) THEN a[i] ELSE b[i - Len(a)]
    BY <2>1, <2>2
  <2> HIDE DEF z
  <2>5. ASSUME NEW i \in 1..Len(p) PROVE z[i] = p[i]
    <3>1. CASE i <= n
      BY <1>1, <2>1, <2>2, <2>4, <3>1
    <3>2. CASE i > n
      <4>1. i - n \in 1..(Len(p) - n) /\ n + (i - n) = i /\ ~(i <= Len(a)) /\ i \in 1..(Len(a) + Len(b))
        BY <1>1, <2>1, <2>2, <3>2
      <4>2. z[i] = b[i - n]
        BY <2>1, <2>4, <4>1
      <4>3. QED
        BY <2>2, <4>1, <4>2
    <3>3. QED
      BY <1>1, <3>1, <3>2
  <2>6. z = [i \in 1..Len(z) |-> z[i]]
    BY <2>3
  <2>7. z = p
    BY <1>1, <2>3, <2>5, <2>6
  <2>8. QED
    BY <2>2, <2>7 DEF a, b, z
<1>3. ASSUME Len(p) > 1 PROVE Tail(p) \in Seq(S) /\ <<p[1]>> \o Tail(p) = p
  <2> DEFINE a == <<p[1]>>
             b == Tail(p)
             z == a \o b
  <2>1. p[1] \in S
    BY <1>1, <1>3
  <2>2. a \in Seq(S) /\ Len(a) = 1 /\ a[1] = p[1]
    BY <2>1
  <2>3. b \in Seq(S) /\ Len(b) = Len(p) - 1 /\ \A i \in 1..(Len(p) - 1) : b[i] = p[i + 1]
    BY <1>1, <1>3
  <2> HIDE DEF a, b
  <2>4. z \in Seq(S) /\ Len(z) = Len(p)
    <3>1. a \in Seq(S) /\ b \in Seq(S)
      BY <2>2, <2>3
    <3>2. z \in Seq(S) /\ Len(z) = Len(a) + Len(b)
      BY <3>1
    <3>3. QED
      BY <1>1, <2>2, <2>3, <3>2
  <2>5. \A i \in 1..(Len(a) + Len(b)) : z[i] = IF i <= Len(a) THEN a[i] ELSE b[i - Len(a)]
    <3>1. a \in Seq(S) /\ b \in Seq(S)
      BY <2>2, <2>3
    <3>2. QED
      BY <3>1
  <2> HIDE DEF z
  <2>6. ASSUME NEW i \in 1..Len(p) PROVE z[i] = p[i]
    <3>1. CASE i = 1
      BY <1>1, <2>2, <2>3, <2>5, <3>1
    <3>2. CASE i # 1
      <4>1. i - 1 \in 1..(Len(p) - 1) /\ (i - 1) + 1 = i /\ ~(i <= Len(a)) /\ i \in 1..(Len(a) + Len(b))
        BY <1>1, <2>2, <2>3, <3>2
      <4>2. z[i] = b[i - 1]
        BY <2>2, <2>5, <4>1
      <4>3. QED
        BY <2>3, <4>1, <4>2
    <3>3. QED
      BY <1>1, <3>1, <3>2
  <2>7. z = [i \in 1..Len(z) |-> z[i]]
    BY <2>4
  <2>8. z = p
    BY <1>1, <2>4, <2>6, <2>7
  <2>9. QED
    BY <2>3, <2>8 DEF a, b, z
<1>4. QED
  BY <1>2, <1>3, SeqFacts

(* A subsection of a typed section is typed.                                *)
LEMMA TypedSection ==
  ASSUME NEW cfg, Typed(cfg), NEW key
  PROVE  Typed(Section(cfg, key))
<1> DEFINE s == Section(cfg, key)
           below == {r \in DOMAIN cfg : Len(r) > 1 /\ r[1] = key}
<1>1. DOMAIN s = {Tail(p) : p \in below} /\ \A q \in DOMAIN s : s[q] = cfg[<<key>> \o q]
  BY DEF Section
<1> HIDE DEF s
<1>2. ASSUME NEW q \in DOMAIN s PROVE IsSeq(q) /\ TypedValue(s[q])
  <2>1. PICK p \in below : q = Tail(p)
    BY <1>1
  <2>2. IsSeq(p) /\ Len(p) > 1 /\ p[1] = key /\ p \in DOMAIN cfg
    BY DEF Typed
  <2>3. IsSeq(q) /\ <<key>> \o q = p
    <3>1. IsSeq(Tail(p)) /\ <<p[1]>> \o Tail(p) = p
      BY <2>2, SplitPath
    <3>2. QED
      BY <2>1, <2>2, <3>1
  <2>4. QED
    BY <1>1, <2>2, <2>3 DEF Typed
<1>3. QED
  BY <1>2 DEF Typed, s

(* So is a value converted to the types the factory takes.                  *)
LEMMA TypedRead ==
  ASSUME NEW v, v.type = "strings" => IsSeq(v.val) /\ v.val # <<>>, v.type \in {"int", "float"} => v.val \in Int
  PROVE  TypedValue(ReadAny(v))
<1>1. CASE v.type \in {"strings", "ints"}
  <2>1. ReadAny(v) = v
    BY <1>1 DEF ReadAny
  <2>2. QED
    BY <1>1, <2>1 DEF TypedValue
<1>2. CASE v.type = "float"
  <2>1. v.val \in Int /\ v.val \div 10 \in Int
    BY <1>2
  <2>2. ReadAny(v) = IF v.val >= 10 THEN Number(v.val \div 10) ELSE IF v.val \in 1..9 THEN v ELSE Number(0)
    BY <1>2, <2>1 DEF ReadAny
  <2>3. QED
    BY <1>2, <2>1, <2>2 DEF TypedValue, Number
<1>3. CASE v.type = "int"
  <2>1. ReadAny(v) = v
    BY <1>3 DEF ReadAny
  <2>2. QED
    BY <1>3, <2>1 DEF TypedValue
<1>4. CASE v.type \notin {"strings", "ints", "float", "int"}
  <2>1. ReadAny(v) = v \/ ReadAny(v) = Number(0)
    BY <1>4 DEF ReadAny
  <2>2. QED
    BY <1>4, <2>1 DEF TypedValue, Number
<1>5. QED
  BY <1>1, <1>2, <1>3, <1>4

(* So is the section of a component's model, in any directory whose config  *)
(* is well formed.                                                          *)
LEMMA TypedModel ==
  ASSUME NEW d, WellFormed(d), NEW name
  PROVE  Typed(BuildFactoryCfg(d.config, <<"components", name, "model">>))
<1> DEFINE pre == <<"components", name, "model">>
           below == {p \in DOMAIN d.config : Len(p) > Len(pre) /\ SubSeq(p, 1, Len(pre)) = pre}
           s == BuildFactoryCfg(d.config, pre)
<1>0. Len(pre) = 3 /\ pre[1] = "components"
  OBVIOUS
<1>1. DOMAIN s = {SubSeq(p, Len(pre) + 1, Len(p)) : p \in below} /\ \A q \in DOMAIN s : s[q] = ReadAny(d.config[pre \o q])
  BY DEF BuildFactoryCfg
<1> HIDE DEF s, pre
<1>2. ASSUME NEW q \in DOMAIN s PROVE IsSeq(q) /\ TypedValue(s[q])
  <2>1. PICK p \in below : q = SubSeq(p, Len(pre) + 1, Len(p))
    BY <1>1
  <2>2. IsSeq(p) /\ p \in DOMAIN d.config /\ Len(p) > 3 /\ SubSeq(p, 1, 3) = pre /\ q = SubSeq(p, 3 + 1, Len(p))
    <3>1. p \in Seq(STRING)
      BY DEF WellFormed
    <3>2. QED
      BY <1>0, <2>1, <3>1, SeqFacts
  <2>3. IsSeq(q) /\ pre \o q = p
    <3>1. 3 \in 0..Len(p)
      BY <2>2
    <3>2. IsSeq(SubSeq(p, 3 + 1, Len(p))) /\ SubSeq(p, 1, 3) \o SubSeq(p, 3 + 1, Len(p)) = p
      BY <2>2, <3>1, SplitPath
    <3>3. QED
      BY <2>2, <3>2
  <2>4. p[1] = "components"
    <3>1. SubSeq(p, 1, 3)[1] = p[1]
      BY <2>2 DEF IsSeq
    <3>2. QED
      BY <1>0, <2>2, <3>1
  <2> DEFINE v == d.config[p]
  <2>5. v.type = "strings" => IsSeq(v.val) /\ v.val # <<>>
    <3>1. v.type = "strings" => v.val \in Seq(STRING) \ {<<>>}
      BY <2>2, <2>4 DEF WellFormed
    <3>2. QED
      BY <3>1, SeqFacts
  <2>6. v.type \in {"int", "float"} => v.val \in Int
    BY <2>2 DEF WellFormed
  <2>7. s[q] = ReadAny(v)
    BY <1>1, <2>3
  <2> HIDE DEF v
  <2>8. QED
    BY <2>3, <2>5, <2>6, <2>7, TypedRead
<1>3. QED
  BY <1>2 DEF Typed, s, pre

-----------------------------------------------------------------------------
(* What the factories build are trees.                                       *)

(* If anything was built, it is a good tree.                                *)
BuiltOK(result) == result.out = "built" => GoodTree(result.tree)

(* A failure and a stub build nothing.                                      *)
LEMMA NotBuilt == Failed.out # "built" /\ Stub.out # "built" /\ BuiltOK(Failed) /\ BuiltOK(Stub)
BY DEF Failed, Stub, BuiltOK

(* What is built from a good tree is that tree.                             *)
LEMMA BuiltTree ==
  ASSUME NEW t, GoodTree(t)
  PROVE  BuiltOK(Built(t)) /\ Built(t).out = "built" /\ Built(t).tree = t
BY DEF BuiltOK, Built

(* spacy.HashEmbedCNN builds a good tree.                                   *)
LEMMA HashEmbedCNNOK ==
  ASSUME NEW cfg, Typed(cfg)
  PROVE  BuiltOK(HashEmbedCNN(cfg))
<1> DEFINE w == Width(cfg)
           nW == WindowSize(cfg)
           tables == [i \in 1..4 |-> HashEmbed(w, CfgInt(cfg, "embed_size", 2000), i - 1)]
           block == Chain(<<ExpandWindow(nW), Maxout(w, Window(nW, w), Pieces(cfg))>>)
           blocks == [d \in 1..Depth(cfg) |-> Residual(block)]
           embed == Chain(<<Concatenate(tables), Linear(w, 4 * w)>>)
           t == Chain(<<embed, Chain(blocks)>>)
<1>1. GoodParts(tables) /\ Len(tables) = 4
  <2>1. \A k \in 1..4 : GoodTree(tables[k])
    BY GoodLeaves
  <2>2. tables = [k \in 1..4 |-> tables[k]]
    OBVIOUS
  <2> HIDE DEF tables
  <2>3. QED
    BY <2>1, <2>2, GoodList
<1>2. GoodTree(block)
  <2>1. GoodTree(ExpandWindow(nW)) /\ GoodTree(Maxout(w, Window(nW, w), Pieces(cfg)))
    BY GoodLeaves
  <2>2. QED
    BY <2>1, GoodTuples, GoodLayers
<1> HIDE DEF tables, block
<1>3. GoodParts(blocks)
  <2>1. Depth(cfg) \in Int
    BY TypedInt DEF Depth
  <2>2. GoodTree(Residual(block))
    BY <1>2, GoodLayers
  <2>3. QED
    BY <2>1, <2>2, GoodRepeat
<1> HIDE DEF blocks
<1>4. GoodTree(embed)
  <2>1. GoodTree(Concatenate(tables)) /\ GoodTree(Linear(w, 4 * w))
    BY <1>1, GoodLayers, GoodLeaves
  <2>2. QED
    BY <2>1, GoodTuples, GoodLayers
<1> HIDE DEF embed
<1>5. GoodTree(t)
  <2>1. GoodTree(Chain(blocks))
    BY <1>3, GoodLayers
  <2>2. QED
    BY <1>4, <2>1, GoodTuples, GoodLayers
<1>6. HashEmbedCNN(cfg) = IF w <= 0 \/ Depth(cfg) <= 0 THEN Failed ELSE Built(t)
  BY DEF HashEmbedCNN, t, embed, blocks, block, tables
<1> HIDE DEF t
<1>7. QED
  BY <1>5, <1>6, BuiltTree, NotBuilt

(* So do the window encoders, and the section that chooses one.             *)
LEMMA EncodersOK ==
  ASSUME NEW cfg, Typed(cfg)
  PROVE  /\ BuiltOK(MaxoutWindowEncoder(cfg)) /\ BuiltOK(MishWindowEncoder(cfg))
         /\ BuiltOK(Tok2VecEncode(cfg))
<1> DEFINE w == Width(cfg)
           nW == WindowSize(cfg)
           maxout == Maxout(w, Window(nW, w), Pieces(cfg))
           flat == Chain(<<ExpandWindow(nW), maxout, LayerNorm(w), Dropout>>)
           mish == Chain(<<ExpandWindow(nW), Mish(w, Window(nW, w))>>)
           nested == Chain(<<ExpandWindow(nW), Chain(<<Chain(<<maxout, LayerNorm(w)>>), Dropout>>)>>)
           times(block) == [d \in 1..Depth(cfg) |-> Residual(block)]
<1>1. Depth(cfg) \in Int /\ nW \in Int /\ nW * Depth(cfg) \in Int
  <2>1. Depth(cfg) \in Int /\ nW \in Int
    BY TypedInt DEF Depth, WindowSize
  <2>2. QED
    BY <2>1
<1>2. GoodTree(maxout) /\ GoodTree(ExpandWindow(nW)) /\ GoodTree(LayerNorm(w)) /\ GoodTree(Dropout)
      /\ GoodTree(Mish(w, Window(nW, w)))
  BY GoodLeaves
<1> HIDE DEF maxout, nW, w
<1>3. GoodTree(flat)
  <2> DEFINE s == <<ExpandWindow(nW), maxout, LayerNorm(w), Dropout>>
  <2>1. s = [k \in 1..4 |-> s[k]] /\ s[1] = ExpandWindow(nW) /\ s[2] = maxout /\ s[3] = LayerNorm(w) /\ s[4] = Dropout
    OBVIOUS
  <2> HIDE DEF s
  <2>2. \A k \in 1..4 : GoodTree(s[k])
    <3>1. \A k \in 1..4 : k = 1 \/ k = 2 \/ k = 3 \/ k = 4
      OBVIOUS
    <3>2. QED
      BY <1>2, <2>1, <3>1
  <2>3. GoodParts(s)
    BY <2>1, <2>2, GoodList
  <2>4. QED
    BY <2>3, GoodLayers DEF s
<1>4. GoodTree(mish)
  BY <1>2, GoodTuples, GoodLayers
<1>5. GoodTree(nested)
  <2>1. GoodTree(Chain(<<maxout, LayerNorm(w)>>))
    BY <1>2, GoodTuples, GoodLayers
  <2>2. GoodTree(Chain(<<Chain(<<maxout, LayerNorm(w)>>), Dropout>>))
    BY <1>2, <2>1, GoodTuples, GoodLayers
  <2>3. QED
    BY <1>2, <2>2, GoodTuples, GoodLayers
<1>6. ASSUME NEW block, GoodTree(block) PROVE GoodTree(Chain(times(block)))
  <2>1. GoodTree(Residual(block))
    BY <1>6, GoodLayers
  <2>2. GoodParts(times(block))
    BY <1>1, <2>1, GoodRepeat
  <2>3. QED
    BY <2>2, GoodLayers
<1>7. BuiltOK(MaxoutWindowEncoder(cfg))
  <2> DEFINE t == WithArray(Chain(times(flat)), 0)
  <2>1. GoodTree(t)
    <3>1. GoodTree(Chain(times(flat)))
      BY <1>3, <1>6
    <3> HIDE DEF times, flat
    <3>2. QED
      BY <3>1, GoodLayers
  <2>2. MaxoutWindowEncoder(cfg) = IF Depth(cfg) <= 0 THEN Failed ELSE Built(t)
    BY DEF MaxoutWindowEncoder, maxout, w, nW
  <2> HIDE DEF t
  <2>3. QED
    BY <2>1, <2>2, BuiltTree, NotBuilt
<1>8. BuiltOK(MishWindowEncoder(cfg))
  <2> DEFINE t == Chain(times(mish))
  <2>1. GoodTree(t)
    BY <1>4, <1>6
  <2>2. MishWindowEncoder(cfg) = Built(t)
    BY DEF MishWindowEncoder, w, nW
  <2> HIDE DEF t
  <2>3. QED
    BY <2>1, <2>2, BuiltTree
<1>9. BuiltOK(Tok2VecEncode(cfg))
  <2> DEFINE t == WithArray(Chain(times(nested)), nW * Depth(cfg))
  <2>1. GoodTree(t)
    <3> DEFINE pad == nW * Depth(cfg)
               inner == Chain(times(nested))
    <3>1. pad \in Int /\ GoodTree(inner)
      BY <1>1, <1>5, <1>6
    <3> HIDE DEF pad, inner
    <3>2. GoodTree(WithArray(inner, pad))
      BY <3>1, GoodLayers
    <3>3. QED
      BY <3>2 DEF inner, pad
  <2>2. Tok2VecEncode(cfg) = IF Depth(cfg) <= 0 THEN Failed ELSE Built(t)
    BY DEF Tok2VecEncode, maxout, w, nW
  <2> HIDE DEF t
  <2>3. QED
    BY <2>1, <2>2, BuiltTree, NotBuilt
<1>10. QED
  BY <1>7, <1>8, <1>9

(* So does spacy.MultiHashEmbed.                                            *)
LEMMA MultiHashEmbedOK ==
  ASSUME NEW cfg, Typed(cfg)
  PROVE  BuiltOK(MultiHashEmbed(cfg))
<1> DEFINE columns == cfg[<<"attrs">>].val
           rows == cfg[<<"rows">>].val
           w == Width(cfg)
           static == CfgBool(cfg, "include_static_vectors", FALSE)
           arms == IF static THEN Len(columns) + 1 ELSE Len(columns)
           column(i) == Chain(<<IntsGetitem(i - 1), HashEmbed(w, rows[i], 7 + i)>>)
           tables == [i \in DOMAIN columns |-> column(i)]
           hashes == WithArray(Concatenate(tables), 0)
           reduce == WithArray(Chain(<<Chain(<<Maxout(w, w * arms, Pieces(cfg)), LayerNorm(w)>>), Dropout>>), 0)
           features == <<FeatureExtractor(columns), List2Ragged, hashes>>
           first == IF static THEN <<Concatenate(<<Chain(features), StaticVectors(w, 300)>>)>> ELSE features
           t == Chain(first \o <<reduce, Ragged2List>>)
<1>0. CASE ~HasA(cfg, "attrs", "strings")
  BY <1>0, NotBuilt DEF MultiHashEmbed
<1>1. CASE HasA(cfg, "attrs", "strings")
  <2>1. IsSeq(columns) /\ columns # <<>>
    BY <1>1, TypedColumns
  <2> DEFINE n == Len(columns)
  <2>2. n \in Nat /\ n > 0 /\ DOMAIN columns = 1..n
    <3> HIDE DEF columns
    <3>1. n \in Nat /\ DOMAIN columns = 1..n
      BY <2>1, SeqFacts DEF IsSeq
    <3>2. n # 0
      BY <2>1, EmptySeq DEF IsSeq
    <3> QED
      BY <3>1, <3>2
  <2> HIDE DEF n
  <2>3. GoodParts(tables) /\ Len(tables) = n
    <3>1. ASSUME NEW i \in 1..n PROVE GoodTree(tables[i])
      <4>1. GoodTree(IntsGetitem(i - 1)) /\ GoodTree(HashEmbed(w, rows[i], 7 + i))
        BY GoodLeaves
      <4>2. GoodTree(column(i))
        BY <4>1, GoodTuples, GoodLayers
      <4> HIDE DEF column
      <4>3. QED
        BY <2>2, <4>2
    <3> HIDE DEF column
    <3>2. tables = [k \in 1..n |-> tables[k]]
      BY <2>2
    <3> HIDE DEF tables
    <3>3. QED
      BY <2>2, <3>1, <3>2, GoodList
  <2> HIDE DEF tables
  <2>4. GoodTree(hashes)
    BY <2>2, <2>3, GoodLayers
  <2>5. GoodTree(reduce)
    <3>1. GoodTree(Chain(<<Maxout(w, w * arms, Pieces(cfg)), LayerNorm(w)>>))
      BY GoodLeaves, GoodTuples, GoodLayers
    <3>2. GoodTree(Chain(<<Chain(<<Maxout(w, w * arms, Pieces(cfg)), LayerNorm(w)>>), Dropout>>))
      BY <3>1, GoodLeaves, GoodTuples, GoodLayers
    <3>3. QED
      BY <3>2, GoodLayers
  <2> HIDE DEF hashes, reduce
  <2>6. GoodParts(features)
    BY <2>4, GoodLeaves, GoodTuples
  <2> HIDE DEF features
  <2>7. GoodParts(first)
    <3>1. GoodTree(Chain(features)) /\ GoodTree(StaticVectors(w, 300))
      BY <2>6, GoodLayers, GoodLeaves
    <3> DEFINE both == <<Chain(features), StaticVectors(w, 300)>>
    <3>2. GoodParts(both) /\ Len(both) > 0
      <4>1. GoodParts(both) /\ Len(both) = 2
        BY <3>1, GoodTuples
      <4> HIDE DEF both
      <4>2. QED
        BY <4>1
    <3> HIDE DEF both
    <3>3. GoodTree(Concatenate(both))
      BY <3>2, GoodLayers
    <3>4. GoodParts(<<Concatenate(both)>>)
      BY <3>3, GoodTuples
    <3>5. QED
      BY <2>6, <3>4 DEF both
  <2> HIDE DEF first
  <2>8. GoodTree(t)
    <3>1. GoodParts(<<reduce, Ragged2List>>)
      BY <2>5, GoodLeaves, GoodTuples
    <3>2. GoodParts(first \o <<reduce, Ragged2List>>)
      BY <2>7, <3>1, GoodJoin
    <3>3. QED
      BY <3>2, GoodLayers
  <2> HIDE DEF t
  <2>9. MultiHashEmbed(cfg) = Failed \/ MultiHashEmbed(cfg) = Built(t)
    BY DEF MultiHashEmbed, t, first, features, hashes, reduce, tables
  <2>10. QED
    BY <2>8, <2>9, BuiltTree, NotBuilt
<1>2. QED
  BY <1>0, <1>1

(* So do the architectures of one layer.                                    *)
LEMMA SimpleOK ==
  ASSUME NEW cfg, Typed(cfg)
  PROVE  /\ BuiltOK(StaticVectorsArch(cfg)) /\ BuiltOK(FeatureExtractorArch(cfg)) /\ BuiltOK(CharacterEmbed(cfg))
         /\ BuiltOK(ListenerArch(cfg)) /\ BuiltOK(PrecomputableAffineArch(cfg))
<1>1. BuiltOK(StaticVectorsArch(cfg))
  BY GoodLeaves, BuiltTree DEF StaticVectorsArch
<1>2. BuiltOK(FeatureExtractorArch(cfg))
  BY GoodLeaves, BuiltTree, NotBuilt DEF FeatureExtractorArch
<1>3. BuiltOK(CharacterEmbed(cfg)) /\ BuiltOK(ListenerArch(cfg))
  BY GoodLeaves, BuiltTree, NotBuilt DEF CharacterEmbed, ListenerArch
<1>4. BuiltOK(PrecomputableAffineArch(cfg))
  <2> DEFINE t == PrecomputableAffine(CfgInt(cfg, "nO", 0), CfgInt(cfg, "nI", 0), CfgInt(cfg, "nF", 0), CfgInt(cfg, "nP", 1))
  <2>1. CfgInt(cfg, "nF", 0) \in Int
    BY TypedInt
  <2>2. GoodTree(t)
    BY <2>1, GoodAffine
  <2>3. PrecomputableAffineArch(cfg) = Failed \/ PrecomputableAffineArch(cfg) = Built(t)
    BY DEF PrecomputableAffineArch
  <2> HIDE DEF t
  <2>4. QED
    BY <2>2, <2>3, BuiltTree, NotBuilt
<1>5. QED
  BY <1>1, <1>2, <1>3, <1>4

(* So does spacy.Tagger, and its second child is the one tagger.go takes as *)
(* the output layer.                                                        *)
LEMMA TaggerOK ==
  ASSUME NEW cfg, Typed(cfg)
  PROVE  BuiltOK(Tagger(cfg)) /\ HasPath(Tagger(cfg).tree, <<2>>)
<1> DEFINE nO == IF CfgInt(cfg, "nO", 50) <= 0 THEN 50 ELSE CfgInt(cfg, "nO", 50)
           out == WithArray(Softmax(nO, Width(cfg)), 0)
           s == <<Listener, out>>
           t == Chain(s)
<1>1. GoodTree(Listener) /\ GoodTree(out)
  BY GoodLeaves, GoodLayers
<1> HIDE DEF out
<1>2. GoodParts(s) /\ Len(s) = 2 /\ s[2] = out
  BY <1>1, GoodTuples
<1> HIDE DEF s
<1>3. GoodTree(t)
  BY <1>2, GoodLayers
<1>4. IsCompound(t, s)
  BY <1>2, CompoundShape DEF Chain, GoodParts, GoodTree, Compounds
<1>5. HasPath(t, <<2>>)
  <2>1. Len(out) \in Nat \ {0} /\ out[1].at = <<>> /\ 1 \in 1..Len(out) /\ 2 \in 1..Len(s)
    BY <1>1, <1>2, TreeNodes DEF GoodTree
  <2>2. PICK j \in 2..Len(t) : t[j].at = <<2>> \o s[2][1].at
    BY <1>2, <1>4, <2>1 DEF IsCompound
  <2>3. <<2>> \o <<>> = <<2>>
    BY PrefixedAppend, EmptySeq DEF Path
  <2>4. j \in 1..Len(t) /\ t[j].at = <<2>>
    <3>1. s[2][1].at = <<>>
      BY <1>2, <2>1
    <3>2. QED
      BY <2>2, <2>3, <3>1
  <2>5. QED
    BY <2>4 DEF HasPath
<1>6. Tagger(cfg) = Built(t)
  BY DEF Tagger, t, s, out
<1> HIDE DEF t
<1>7. QED
  BY <1>3, <1>5, <1>6, BuiltTree

(* So does the architecture of an inner section, whichever it names.        *)
LEMMA BuildInnerOK ==
  ASSUME NEW cfg, Typed(cfg), NEW arch
  PROVE  BuiltOK(BuildInner(arch, cfg))
<1>1. BuiltOK(HashEmbedCNN(cfg)) /\ BuiltOK(MultiHashEmbed(cfg)) /\ BuiltOK(MaxoutWindowEncoder(cfg))
      /\ BuiltOK(MishWindowEncoder(cfg)) /\ BuiltOK(Tagger(cfg))
  BY HashEmbedCNNOK, MultiHashEmbedOK, EncodersOK, TaggerOK
<1>2. BuiltOK(StaticVectorsArch(cfg)) /\ BuiltOK(FeatureExtractorArch(cfg)) /\ BuiltOK(CharacterEmbed(cfg))
      /\ BuiltOK(ListenerArch(cfg)) /\ BuiltOK(PrecomputableAffineArch(cfg))
  BY SimpleOK
<1>3. QED
  BY <1>1, <1>2, NotBuilt DEF BuildInner

(* So does spacy.Tok2Vec.                                                   *)
LEMMA Tok2VecOK ==
  ASSUME NEW cfg, Typed(cfg)
  PROVE  BuiltOK(Tok2Vec(cfg))
<1> DEFINE columns == IF HasA(cfg, "columns", "strings") THEN cfg[<<"columns">>] ELSE Texts(DefaultColumns)
           defaults == [p \in {<<"attrs">>, <<"rows">>} |-> IF p = <<"attrs">> THEN columns ELSE Numbers(DefaultRows)]
           sub == Section(cfg, "embed")
           flat == IF Has(cfg, "attrs") THEN cfg ELSE OrElse(cfg, defaults)
           embed == Tok2VecEmbed(cfg)
           encode == Tok2VecEncode(cfg)
<1>1. TypedValue(columns) /\ TypedValue(Numbers(DefaultRows))
  <2>1. HasA(cfg, "columns", "strings") => TypedValue(cfg[<<"columns">>])
    BY DEF HasA, Has, Typed
  <2>2. IsSeq(DefaultColumns) /\ DefaultColumns # <<>>
    <3> DEFINE S == {"NORM", "PREFIX", "SUFFIX", "SHAPE", "SPACY", "IS_SPACE"}
    <3>1. DefaultColumns \in Seq(S) /\ DefaultColumns # <<>>
      BY DEF DefaultColumns
    <3>2. QED
      BY <3>1, SeqFacts
  <2>3. TypedValue(Texts(DefaultColumns))
    BY <2>2 DEF TypedValue, Texts
  <2>4. TypedValue(Numbers(DefaultRows))
    BY DEF TypedValue, Numbers
  <2>5. QED
    BY <2>1, <2>3, <2>4
<1> HIDE DEF columns
<1>2. Typed(defaults)
  <2>1. <<"attrs">> \in Seq({"attrs"}) /\ <<"rows">> \in Seq({"rows"})
    OBVIOUS
  <2>2. \A p \in DOMAIN defaults : IsSeq(p)
    BY <2>1, SeqFacts
  <2>3. \A p \in DOMAIN defaults : TypedValue(defaults[p])
    BY <1>1
  <2> HIDE DEF defaults
  <2>4. QED
    BY <2>2, <2>3 DEF Typed
<1> HIDE DEF defaults
<1>3. Typed(flat)
  BY <1>2 DEF Typed, OrElse
<1>4. Typed(sub)
  BY TypedSection
<1> HIDE DEF flat, sub
<1>5. BuiltOK(embed)
  <2>1. BuiltOK(MultiHashEmbed(flat)) /\ BuiltOK(BuildInner(Architecture(sub, "spacy.MultiHashEmbed.v2"), sub))
    BY <1>3, <1>4, MultiHashEmbedOK, BuildInnerOK
  <2>2. embed \in {MultiHashEmbed(flat), BuildInner(Architecture(sub, "spacy.MultiHashEmbed.v2"), sub), Failed}
    BY DEF Tok2VecEmbed, flat, sub, defaults, columns
  <2>3. QED
    BY <2>1, <2>2, NotBuilt
<1>6. BuiltOK(encode)
  BY EncodersOK
<1> HIDE DEF embed, encode
<1>7. BuiltOK(Encoded(embed, encode))
  <2>1. CASE embed.out = "built" /\ encode.out = "built"
    <3>1. GoodTree(Chain(<<embed.tree, encode.tree>>))
      BY <1>5, <1>6, <2>1, GoodTuples, GoodLayers DEF BuiltOK
    <3>2. QED
      BY <2>1, <3>1, BuiltTree DEF Encoded
  <2>2. CASE ~(embed.out = "built" /\ encode.out = "built")
    BY <1>5, <1>6, <2>2 DEF Encoded
  <2>3. QED
    BY <2>1, <2>2
<1>8. QED
  BY <1>7 DEF Tok2Vec, embed, encode

(* The paths of a child are paths of the compound, below the child's        *)
(* number.                                                                  *)
LEMMA PathBelow ==
  ASSUME NEW t, NEW children, IsCompound(t, children), NEW k \in 1..Len(children), NEW p, HasPath(children[k], p)
  PROVE  HasPath(t, <<k>> \o p)
<1>1. PICK h \in 1..Len(children[k]) : children[k][h].at = p
  BY DEF HasPath
<1>2. PICK j \in 2..Len(t) : t[j].at = <<k>> \o children[k][h].at
  BY DEF IsCompound
<1>3. j \in 1..Len(t)
  OBVIOUS
<1>4. QED
  BY <1>1, <1>2, <1>3 DEF HasPath

\* The tree of a transition model: the tok2vec with its projection, the lower
\* layer, which is a leaf, and the upper layer.

(* The parts parser.go:120-128 and ner.go take from the model: its first    *)
(* child with the children <<1, 2>> and <<1, 3>>, its second child, the     *)
(* lower model, and the second child is a leaf, a precomputable_affine.     *)
ParserShape(t) ==
  /\ HasPath(t, <<1>>) /\ HasPath(t, <<1, 2>>) /\ HasPath(t, <<1, 3>>) /\ HasPath(t, <<2>>)
  /\ \A j \in 2..Len(t) : t[j].at[1] = 2 => t[j].at = <<2>> /\ t[j].kind = "precomputable_affine"

(* A tree has a root.                                                       *)
LEMMA RootPath ==
  ASSUME NEW t, GoodTree(t)
  PROVE  HasPath(t, <<>>)
BY TreeNodes DEF GoodTree, HasPath

(* The model of a parser has the shape its pipe relies on, whatever its     *)
(* tok2vec and its upper layer are.                                         *)
LEMMA TransitionModelOK ==
  ASSUME NEW tok2vec, GoodTree(tok2vec), NEW x, GoodTree(x), NEW nO, NEW nI, NEW nF \in Int, NEW nP, NEW upper, GoodTree(upper)
  PROVE  LET t == TransitionModel(Chain(<<tok2vec, List2Array, x>>), PrecomputableAffine(nO, nI, nF, nP), upper)
         IN  GoodTree(t) /\ ParserShape(t)
<1> DEFINE inner == <<tok2vec, List2Array, x>>
           first == Chain(inner)
           lower == PrecomputableAffine(nO, nI, nF, nP)
           s == <<first, lower, upper>>
           t == TransitionModel(first, lower, upper)
<1>1. GoodTree(List2Array) /\ GoodTree(lower)
  BY GoodLeaves, GoodAffine
<1>2. Len(lower) = 1 /\ lower[1].at = <<>> /\ lower[1].kind = "precomputable_affine"
  <2> DEFINE dims == [nO |-> nO, nI |-> nI, nF |-> nF, nP |-> nP]
  <2>1. "nF" \in DOMAIN dims /\ dims.nF \in Int
    OBVIOUS
  <2>2. lower = Leaf("precomputable_affine", dims, {"W", "b", "pad"}, <<>>)
    BY DEF PrecomputableAffine
  <2> HIDE DEF dims, lower
  <2>3. QED
    BY <2>1, <2>2, LeafTree
<1> HIDE DEF lower
<1>3. GoodParts(inner) /\ Len(inner) = 3 /\ inner[2] = List2Array /\ inner[3] = x
  BY <1>1, GoodTuples
<1> HIDE DEF inner
<1>4. GoodTree(first) /\ IsCompound(first, inner)
  <2>1. GoodTree(first)
    BY <1>3, GoodLayers
  <2>2. IsCompound(first, inner)
    BY <1>3, CompoundShape DEF Chain, GoodParts, GoodTree, Compounds
  <2>3. QED
    BY <2>1, <2>2
<1> HIDE DEF first
<1>5. GoodParts(s) /\ Len(s) = 3 /\ s[1] = first /\ s[2] = lower
  BY <1>1, <1>4, GoodTuples
<1> HIDE DEF s
<1>6. t = Compound("parser_model", <<>>, s)
  BY DEF TransitionModel, s
<1> HIDE DEF t
<1>7. GoodTree(t)
  BY <1>5, <1>6, GoodCompound DEF Compounds
<1>8. IsCompound(t, s)
  BY <1>5, <1>6, CompoundShape DEF GoodParts, GoodTree, Compounds
<1>9. <<1>> \o <<>> = <<1>> /\ <<2>> \o <<>> = <<2>> /\ <<3>> \o <<>> = <<3>>
      /\ <<1>> \o <<2>> = <<1, 2>> /\ <<1>> \o <<3>> = <<1, 3>>
  <2>1. \A k \in Nat \ {0} : <<k>> \o <<>> = <<k>> /\ Append(<<>>, k) = <<k>>
    BY PrefixedAppend, EmptySeq DEF Path
  <2>2. <<>> \in Path
    BY DEF Path
  <2>3. \A k, m \in Nat \ {0} : Append(<<k>>, m) = <<k>> \o <<m>>
    <3> TAKE k \in Nat \ {0}, m \in Nat \ {0}
    <3>1. Append(<<k>> \o <<>>, m) = <<k>> \o Append(<<>>, m)
      BY <2>2, PrefixedAppend
    <3>2. QED
      BY <2>1, <3>1
  <2>4. \A m \in Nat \ {0} : Append(<<1>>, m) = <<1, m>>
    <3> TAKE m \in Nat \ {0}
    <3> DEFINE a == <<1>>
               y == <<1, m>>
               z == Append(a, m)
    <3>1. a \in Path /\ Len(a) = 1 /\ a[1] = 1
      BY DEF Path
    <3>2. y \in Path /\ Len(y) = 2 /\ y[1] = 1 /\ y[2] = m
      BY DEF Path
    <3> HIDE DEF a, y
    <3>3. z \in Path /\ Len(z) = Len(a) + 1 /\ (\A i \in 1..Len(a) : z[i] = a[i]) /\ z[Len(a) + 1] = m
      BY <3>1, AppendPath
    <3> HIDE DEF z
    <3>4. \A i \in 1..Len(z) : i = 1 \/ i = 2
      BY <3>1, <3>3
    <3>5. Len(z) = Len(y) /\ \A i \in 1..Len(z) : z[i] = y[i]
      BY <3>1, <3>2, <3>3, <3>4
    <3>6. z = y
      BY <3>2, <3>3, <3>5, SamePath
    <3>7. QED
      BY <3>6 DEF a, y, z
  <2>5. QED
    BY <2>1, <2>3, <2>4
<1>10. HasPath(first, <<2>>) /\ HasPath(first, <<3>>)
  <2>1. HasPath(inner[2], <<>>) /\ HasPath(inner[3], <<>>) /\ 2 \in 1..Len(inner) /\ 3 \in 1..Len(inner)
    BY <1>1, <1>3, RootPath
  <2>2. HasPath(first, <<2>> \o <<>>) /\ HasPath(first, <<3>> \o <<>>)
    BY <1>4, <2>1, PathBelow
  <2>3. QED
    BY <1>9, <2>2
<1>11. HasPath(t, <<1>>) /\ HasPath(t, <<1, 2>>) /\ HasPath(t, <<1, 3>>) /\ HasPath(t, <<2>>)
  <2>1. HasPath(s[1], <<>>) /\ HasPath(s[2], <<>>) /\ 1 \in 1..Len(s) /\ 2 \in 1..Len(s)
    BY <1>1, <1>4, <1>5, RootPath
  <2>2. HasPath(t, <<1>> \o <<>>) /\ HasPath(t, <<2>> \o <<>>) /\ HasPath(t, <<1>> \o <<2>>) /\ HasPath(t, <<1>> \o <<3>>)
    BY <1>5, <1>8, <1>10, <2>1, PathBelow
  <2>3. QED
    BY <1>9, <2>2
<1>12. ASSUME NEW j \in 2..Len(t), t[j].at[1] = 2 PROVE t[j].at = <<2>> /\ t[j].kind = "precomputable_affine"
  <2>1. PICK k \in 1..Len(s) : \E h \in 1..Len(s[k]) : t[j].at = <<k>> \o s[k][h].at /\ t[j].kind = s[k][h].kind
    BY <1>8 DEF IsCompound
  <2>2. PICK h \in 1..Len(s[k]) : t[j].at = <<k>> \o s[k][h].at /\ t[j].kind = s[k][h].kind
    BY <2>1
  <2> DEFINE p == s[k][h].at
  <2>3. p \in Path /\ k \in Nat \ {0}
    BY <1>5, TreeNodes DEF GoodParts, GoodTree
  <2>4. t[j].at = <<k>> \o p
    BY <2>2
  <2> HIDE DEF p
  <2>5. k = 2
    BY <1>12, <2>3, <2>4, Prefixed
  <2>6. h = 1
    BY <1>2, <1>5, <2>5
  <2>7. p = <<>> /\ s[k][h].kind = "precomputable_affine"
    BY <1>2, <1>5, <2>5, <2>6 DEF p
  <2>8. QED
    BY <1>9, <2>2, <2>4, <2>5, <2>7
<1>13. ParserShape(t)
  BY <1>11, <1>12 DEF ParserShape
<1>14. QED
  BY <1>7, <1>13 DEF t, first, inner, lower

(* spacy.TransitionBasedParser builds a good tree of that shape.            *)
LEMMA TransitionBasedParserOK ==
  ASSUME NEW cfg, Typed(cfg)
  PROVE  /\ BuiltOK(TransitionBasedParser(cfg))
         /\ TransitionBasedParser(cfg).out = "built" => ParserShape(TransitionBasedParser(cfg).tree)
<1> DEFINE sub == IF HasSection(cfg, "tok2vec") THEN Section(cfg, "tok2vec") ELSE DefaultListener
           inner == ParserTok2Vec(Architecture(sub, "spacy.Tok2VecListener.v1"), sub)
           width == Width(sub)
           nF == IF CfgBool(cfg, "extra_state_tokens", FALSE) THEN 13 ELSE 8
           hidden == CfgInt(cfg, "hidden_width", 64)
           result == TransitionBasedParser(cfg)
<1>1. Typed(sub)
  <2>1. Typed(DefaultListener)
    <3>1. <<"upstream">> \in Seq({"upstream"}) /\ <<"width">> \in Seq({"width"})
      OBVIOUS
    <3>2. \A p \in DOMAIN DefaultListener : IsSeq(p)
      BY <3>1, SeqFacts DEF DefaultListener
    <3>3. \A p \in DOMAIN DefaultListener : TypedValue(DefaultListener[p])
      BY DEF DefaultListener, TypedValue, Number, Text
    <3>4. QED
      BY <3>2, <3>3 DEF Typed
  <2>2. QED
    BY <2>1, TypedSection
<1> HIDE DEF sub
<1>2. BuiltOK(inner)
  BY <1>1, Tok2VecOK, BuildInnerOK DEF ParserTok2Vec
<1>3. result \in {Stub, Failed, Parser(cfg, inner, width)}
  BY DEF TransitionBasedParser, sub
<1> HIDE DEF inner, width, result
<1>4. CASE inner.out # "built"
  <2>1. Parser(cfg, inner, width) = inner
    BY <1>4 DEF Parser
  <2>2. result.out # "built"
    BY <1>3, <1>4, <2>1, NotBuilt
  <2>3. QED
    BY <2>2 DEF BuiltOK, result
<1>5. CASE inner.out = "built"
  <2> DEFINE lower == PrecomputableAffine(hidden, hidden, nF, CfgInt(cfg, "maxout_pieces", 2))
             t == TransitionModel(Chain(<<inner.tree, List2Array, Linear(hidden, width)>>), lower, Linear(1, hidden))
  <2>1. nF \in Int
    OBVIOUS
  <2>2. GoodTree(inner.tree) /\ GoodTree(Linear(hidden, width)) /\ GoodTree(Linear(1, hidden))
    BY <1>2, <1>5, GoodLeaves DEF BuiltOK
  <2>3. Parser(cfg, inner, width) = Built(t)
    BY <1>5 DEF Parser
  <2> HIDE DEF nF
  <2>4. GoodTree(t) /\ ParserShape(t)
    BY <2>1, <2>2, TransitionModelOK
  <2> HIDE DEF t
  <2>5. BuiltOK(Built(t)) /\ Built(t).tree = t
    BY <2>4, BuiltTree
  <2>6. QED
    BY <1>3, <2>3, <2>4, <2>5, NotBuilt DEF result
<1>6. QED
  BY <1>4, <1>5

(* What a factory builds for a component of a well formed directory is a    *)
(* good tree, and has the parts the component's code takes by their places. *)
LEMMA FactoryOK ==
  ASSUME disk \in Disks, NEW name, Factory(name).out = "built"
  PROVE  /\ GoodTree(Factory(name).tree)
         /\ name = "tagger" => HasPath(Factory(name).tree, <<2>>)
         /\ name \in {"parser", "ner"} => ParserShape(Factory(name).tree)
<1> DEFINE cfg == ModelCfg(name)
           arch == Architecture(cfg, "")
<1>1. WellFormed(disk)
  BY DisksAssumption
<1>2. Typed(cfg)
  BY <1>1, TypedModel DEF ModelCfg
<1>3. Factory(name) = Build(arch, cfg)
  BY DEF Factory, BuildSection
<1>4. name \in DOMAIN Expected => arch = Expected[name]
  BY <1>1 DEF WellFormed, Factory, ModelCfg
<1> HIDE DEF cfg, arch
<1>5. BuiltOK(Tok2Vec(cfg)) /\ BuiltOK(BuildInner(arch, cfg)) /\ BuiltOK(TransitionBasedParser(cfg))
  BY <1>2, Tok2VecOK, BuildInnerOK, TransitionBasedParserOK
<1>6. BuiltOK(Factory(name))
  BY <1>3, <1>5, NotBuilt DEF Build
<1>7. CASE name = "tagger"
  <2>1. arch = "spacy.Tagger.v2"
    BY <1>4, <1>7 DEF Expected
  <2>2. Factory(name) = Tagger(cfg)
    <3>1. Factory(name) = BuildInner(arch, cfg)
      BY <1>3, <2>1 DEF Build
    <3>2. BuildInner(arch, cfg) = Tagger(cfg)
      BY <2>1 DEF BuildInner, StubNames
    <3>3. QED
      BY <3>1, <3>2
  <2>3. QED
    BY <1>2, <1>6, <1>7, <2>2, TaggerOK DEF BuiltOK
<1>8. CASE name \in {"parser", "ner"}
  <2>1. arch = "spacy.TransitionBasedParser.v2"
    BY <1>4, <1>8 DEF Expected
  <2>2. Factory(name) = TransitionBasedParser(cfg)
    BY <1>3, <2>1 DEF Build
  <2>3. QED
    BY <1>2, <1>6, <1>8, <2>2, TransitionBasedParserOK DEF BuiltOK
<1>9. QED
  BY <1>6, <1>7, <1>8 DEF BuiltOK

-----------------------------------------------------------------------------
(* Places in a tree.                                                         *)

(* A path that exists has a place.                                          *)
LEMMA PlaceFound ==
  ASSUME NEW t, IsTree(t), NEW p, HasPath(t, p)
  PROVE  PlaceOf(t, p) \in 1..Len(t) /\ t[PlaceOf(t, p)].at = p
<1>1. \E j \in DOMAIN t : t[j].at = p
  BY TreeNodes DEF HasPath
<1>2. PlaceOf(t, p) \in DOMAIN t /\ t[PlaceOf(t, p)].at = p
  BY <1>1 DEF PlaceOf
<1>3. QED
  BY <1>2, TreeNodes

(* A path starts with all of itself.                                        *)
LEMMA WholePath ==
  ASSUME NEW p \in Path
  PROVE  SubSeq(p, 1, Len(p)) = p /\ Len(p) \in Nat
<1>1. Len(p) \in Nat /\ p = [i \in 1..Len(p) |-> p[i]]
  BY DEF Path
<1>2. SubSeq(p, 1, Len(p)) = [i \in 1..Len(p) |-> p[i]]
  BY DEF Path
<1>3. QED
  BY <1>1, <1>2

(* What is below a node other than the root is below the same child of the  *)
(* root.                                                                    *)
LEMMA BelowFirst ==
  ASSUME NEW t, IsTree(t), NEW i \in 1..Len(t), NEW j \in 1..Len(t), Below(t, i, j), t[i].at # <<>>
  PROVE  t[j].at[1] = t[i].at[1]
<1> DEFINE p == t[i].at
           q == t[j].at
<1>1. p \in Path /\ q \in Path /\ p # <<>>
  BY TreeNodes
<1>2. Len(q) >= Len(p) /\ SubSeq(q, 1, Len(p)) = p
  BY DEF Below
<1> HIDE DEF p, q
<1>3. Len(p) \in Nat \ {0} /\ Len(q) \in Nat
  BY <1>1, EmptySeq DEF Path
<1>4. SubSeq(q, 1, Len(p))[1] = q[1]
  BY <1>1, <1>2, <1>3 DEF Path
<1>5. QED
  BY <1>2, <1>4 DEF p, q

(* The last node below a node is not before it.                             *)
LEMMA LastFound ==
  ASSUME NEW t, IsTree(t), NEW i \in 1..Len(t)
  PROVE  LastOf(t, i) \in i..Len(t) /\ Below(t, i, LastOf(t, i))
<1> DEFINE S == {j \in 0..Len(t) : j >= i /\ \A k \in i..j : Below(t, i, k)}
<1>1. Len(t) \in Nat /\ DOMAIN t = 1..Len(t) /\ t[i].at \in Path
  BY TreeNodes
<1>2. Below(t, i, i)
  BY <1>1, WholePath DEF Below
<1>3. i \in S
  BY <1>1, <1>2
<1>4. S \in SUBSET (0..Len(t)) /\ S # {}
  BY <1>3
<1>5. PICK j \in S : \A k \in S : k <= j
  <2> HIDE DEF S
  <2>1. QED
    BY <1>1, <1>4, Greatest
<1>6. j \in 1..Len(t) /\ j >= i /\ Below(t, i, j)
  BY <1>1, <1>5
<1>7. j = Len(t) \/ ~Below(t, i, j + 1)
  <2>1. SUFFICES ASSUME j # Len(t), Below(t, i, j + 1) PROVE FALSE
    OBVIOUS
  <2>2. j + 1 \in 0..Len(t) /\ j + 1 >= i /\ \A k \in i..(j + 1) : k \in i..j \/ k = j + 1
    <3> DEFINE n == Len(t)
    <3>1. n \in Nat /\ j \in 1..n /\ j >= i /\ i \in 1..n /\ j # n
      BY <1>1, <1>6, <2>1
    <3> HIDE DEF n
    <3>2. j + 1 \in 0..n /\ j + 1 >= i
      BY <3>1
    <3>3. \A k \in i..(j + 1) : k \in i..j \/ k = j + 1
      BY <3>1
    <3>4. QED
      BY <3>2, <3>3 DEF n
  <2>3. \A k \in i..j : Below(t, i, k)
    BY <1>5
  <2>4. j + 1 \in S
    BY <2>1, <2>2, <2>3
  <2>5. QED
    BY <1>5, <1>6, <2>4
<1>8. \E k \in DOMAIN t : Below(t, i, k) /\ (k = Len(t) \/ ~Below(t, i, k + 1)) /\ k >= i
  BY <1>1, <1>6, <1>7
<1>9. LastOf(t, i) \in DOMAIN t /\ Below(t, i, LastOf(t, i)) /\ LastOf(t, i) >= i
  BY <1>8 DEF LastOf
<1>10. QED
  BY <1>1, <1>9

(* The children of a node are where their numbers say.                       *)
LEMMA ChildCount ==
  ASSUME NEW t, IsTree(t), NEW i \in 1..Len(t), NEW c, Numbered(t, i, c)
  PROVE  Cardinality({j \in DOMAIN t : Below(t, i, j) /\ Len(t[j].at) = Len(t[i].at) + 1}) = c
<1> DEFINE p == t[i].at
           K == {j \in DOMAIN t : Below(t, i, j) /\ Len(t[j].at) = Len(p) + 1}
           f == [m \in 1..c |-> PlaceOf(t, Append(p, m))]
<1>1. c \in Nat /\ p \in Path /\ DOMAIN t = 1..Len(t) /\ Len(t) \in Nat
  BY TreeNodes DEF Numbered
<1>2. ASSUME NEW m \in 1..c
      PROVE  f[m] \in K /\ t[f[m]].at = Append(p, m)
  <2>1. m \in Nat \ {0} /\ m <= c
    BY <1>1
  <2>2. HasPath(t, Append(p, m))
    BY <2>1 DEF Numbered
  <2>3. f[m] \in 1..Len(t) /\ t[f[m]].at = Append(p, m)
    BY <2>2, PlaceFound
  <2> HIDE DEF f
  <2>4. Len(Append(p, m)) = Len(p) + 1 /\ Len(p) \in Nat /\ SubSeq(Append(p, m), 1, Len(p)) = p
    <3> HIDE DEF p
    <3>1. /\ Append(p, m) \in Path /\ Len(Append(p, m)) = Len(p) + 1 /\ Len(p) \in Nat
          /\ \A h \in 1..Len(p) : Append(p, m)[h] = p[h]
      BY <1>1, <2>1, AppendPath
    <3> DEFINE q == Append(p, m)
    <3> HIDE DEF q
    <3>2. q \in Seq(Nat \ {0}) /\ Len(q) = Len(p) + 1 /\ \A h \in 1..Len(p) : q[h] = p[h]
      BY <3>1 DEF q, Path
    <3>3. SubSeq(q, 1, Len(p)) = [h \in 1..Len(p) |-> q[h]]
      BY <3>1, <3>2
    <3>4. p = [h \in 1..Len(p) |-> p[h]]
      BY <1>1 DEF Path
    <3>5. [h \in 1..Len(p) |-> q[h]] = [h \in 1..Len(p) |-> p[h]]
      BY <3>2
    <3>6. QED
      BY <3>1, <3>3, <3>4, <3>5 DEF q
  <2> DEFINE q == Append(p, m)
             j == f[m]
  <2>5. j \in 1..Len(t) /\ t[j].at = q /\ Len(q) = Len(p) + 1 /\ Len(p) \in Nat /\ SubSeq(q, 1, Len(p)) = p
    BY <2>3, <2>4
  <2> HIDE DEF q, j
  <2>6. Len(t[j].at) >= Len(p) /\ SubSeq(t[j].at, 1, Len(p)) = p /\ Len(t[j].at) = Len(p) + 1
    BY <2>5
  <2>7. j \in K /\ t[j].at = q
    BY <1>1, <2>5, <2>6 DEF Below
  <2>8. QED
    BY <2>7 DEF q, j
<1>3. ASSUME NEW j \in K PROVE \E m \in 1..c : f[m] = j
  <2> DEFINE q == t[j].at
             m == q[Len(p) + 1]
  <2>1. j \in 1..Len(t) /\ q \in Path /\ Len(q) = Len(p) + 1 /\ SubSeq(q, 1, Len(p)) = p /\ Len(p) \in Nat
    BY <1>1, TreeNodes, WholePath DEF Below
  <2> HIDE DEF p, q
  <2>2. m \in Nat \ {0}
    BY <2>1 DEF Path
  <2>3. Append(p, m) = q
    <3>1. /\ Append(p, m) \in Path /\ Len(Append(p, m)) = Len(p) + 1
          /\ \A h \in 1..Len(p) : Append(p, m)[h] = p[h]
          /\ Append(p, m)[Len(p) + 1] = m
      <4> HIDE DEF m
      <4>1. QED
        BY <1>1, <2>2, AppendPath
    <3>2. \A h \in 1..Len(p) : SubSeq(q, 1, Len(p))[h] = q[h]
      BY <2>1 DEF Path
    <3>3. \A h \in 1..Len(q) : h \in 1..Len(p) \/ h = Len(p) + 1
      BY <2>1
    <3>4. \A h \in 1..Len(q) : Append(p, m)[h] = q[h]
      BY <2>1, <3>1, <3>2, <3>3
    <3>5. Len(Append(p, m)) = Len(q)
      BY <2>1, <3>1
    <3> HIDE DEF m
    <3>6. QED
      BY <2>1, <3>1, <3>4, <3>5, SamePath
  <2> HIDE DEF m
  <2>4. HasPath(t, Append(p, m))
    BY <2>1, <2>3 DEF HasPath, q
  <2>5. m <= c
    BY <2>2, <2>4 DEF Numbered, p
  <2>6. m \in 1..c
    BY <1>1, <2>2, <2>5
  <2>7. f[m] \in 1..Len(t) /\ t[f[m]].at = t[j].at
    BY <1>1, <1>2, <2>3, <2>6 DEF q
  <2> HIDE DEF f
  <2>8. f[m] = j
    BY <1>1, <2>1, <2>7 DEF IsTree
  <2>9. QED
    BY <2>6, <2>8
<1>4. ASSUME NEW m \in 1..c, NEW n \in 1..c, f[m] = f[n] PROVE m = n
  <2>1. Append(p, m) = Append(p, n)
    BY <1>2, <1>4
  <2>2. m \in Nat \ {0} /\ n \in Nat \ {0}
    BY <1>1
  <2> HIDE DEF p, f
  <2>3. QED
    BY <1>1, <2>1, <2>2, AppendPath
<1>5. f \in Bijection(1..c, K)
  <2>1. f \in [1..c -> K]
    BY <1>2
  <2> HIDE DEF f, K
  <2>2. f \in Injection(1..c, K)
    BY <1>4, <2>1 DEF Injection, IsInjective
  <2>3. f \in Surjection(1..c, K)
    BY <1>3, <2>1 DEF Surjection
  <2>4. QED
    BY <2>2, <2>3 DEF Bijection
<1> HIDE DEF f, K
<1>6. IsFiniteSet(1..c) /\ Cardinality(1..c) = c
  BY <1>1, FS_Interval
<1>7. Cardinality(1..c) = Cardinality(K)
  BY <1>5, <1>6, FS_Bijection DEF ExistsBijection
<1>8. QED
  BY <1>6, <1>7 DEF K

(* The sub-trees of the children of a layer end in the tree, below the same  *)
(* child of the root as the layer itself.                                    *)
LEMMA ChildEndsOK ==
  ASSUME NEW t, IsTree(t), NEW i \in 1..Len(t), t[i].kind \in Compounds
  PROVE  LET ends == ChildEnds(t, i)
         IN  /\ IsSeq(ends) /\ Len(ends) > 0
             /\ \A k \in 1..Len(ends) :
                  ends[k] \in 1..Len(t) /\ (i # 1 => ends[k] # 1 /\ t[ends[k]].at[1] = t[i].at[1])
<1> DEFINE p == t[i].at
           ends == ChildEnds(t, i)
           end(k) == LastOf(t, PlaceOf(t, Append(p, k)))
<1>1. PICK c : Numbered(t, i, c) /\ c > 0
  BY DEF IsTree
<1>2. c \in Nat /\ p \in Path /\ Len(t) \in Nat /\ t[1].at = <<>>
  BY <1>1, TreeNodes DEF Numbered
<1>3. ends = [k \in 1..c |-> end(k)]
  BY <1>1, ChildCount DEF ChildEnds
<1>4. ASSUME NEW k \in 1..c
      PROVE  end(k) \in 1..Len(t) /\ (i # 1 => end(k) # 1 /\ t[end(k)].at[1] = p[1])
  <2> DEFINE q == Append(p, k)
             h == PlaceOf(t, q)
  <2>1. k \in Nat \ {0} /\ k <= c
    BY <1>2
  <2>2. q # <<>> /\ Len(p) \in Nat /\ \A j \in 1..Len(p) : q[j] = p[j]
    <3> HIDE DEF p
    <3>1. p \in Path /\ k \in Nat \ {0}
      BY <1>2, <2>1
    <3>2. QED
      BY <3>1, AppendPath
  <2>3. HasPath(t, q)
    BY <1>1, <2>1 DEF Numbered
  <2> HIDE DEF q
  <2>4. h \in 1..Len(t) /\ t[h].at = q
    BY <2>3, PlaceFound
  <2>5. end(k) = LastOf(t, h)
    BY DEF q
  <2> HIDE DEF h, end
  <2>6. end(k) \in h..Len(t) /\ Below(t, h, end(k))
    BY <2>4, <2>5, LastFound
  <2>7. end(k) \in 1..Len(t)
    BY <1>2, <2>4, <2>6
  <2>8. t[end(k)].at[1] = q[1]
    BY <2>2, <2>4, <2>6, <2>7, BelowFirst
  <2>9. h # 1
    BY <1>2, <2>2, <2>4
  <2>10. end(k) # 1
    BY <1>2, <2>4, <2>6, <2>9
  <2>11. ASSUME i # 1 PROVE q[1] = p[1]
    <3>1. p # <<>>
      BY <1>2, <2>11 DEF IsTree
    <3>2. 1 \in 1..Len(p)
      BY <1>2, <2>2, <3>1, EmptySeq DEF Path
    <3>3. QED
      BY <2>2, <3>2
  <2>12. QED
    BY <2>7, <2>8, <2>10, <2>11
<1> HIDE DEF end
<1>5. Len(ends) = c /\ \A k \in 1..c : ends[k] = end(k)
  BY <1>2, <1>3
<1>6. ends \in Seq({end(k) : k \in 1..c})
  BY <1>2, <1>3
<1>7. IsSeq(ends)
  BY <1>6, SeqFacts
<1> HIDE DEF ends
<1>8. QED
  BY <1>1, <1>4, <1>5, <1>7 DEF ends

\* The place after a layer: past the chains, not past anything else.

(* Skipping dropout and the like never passes a node that computes.         *)
LEMMA SkipOK ==
  ASSUME NEW t, IsTree(t), NEW i \in 1..(Len(t) + 1)
  PROVE  /\ Skip(t, i) \in i..(Len(t) + 1)
         /\ \A p \in i..Len(t) : t[p].kind \notin Transparent => Skip(t, i) <= p
<1> DEFINE n == Len(t)
           S == {j \in 0..(n + 1) : j >= i /\ \A k \in i..(j - 1) : t[k].kind \in Transparent}
<1>1. n \in Nat /\ DOMAIN t = 1..n
  BY TreeNodes
<1>2. i \in 1..(n + 1)
  OBVIOUS
<1> HIDE DEF n
<1>3. i \in S
  BY <1>1, <1>2
<1>4. PICK j \in S : \A k \in S : k <= j
  <2>1. S \in SUBSET (0..(n + 1)) /\ S # {} /\ n + 1 \in Nat
    BY <1>1, <1>3
  <2> HIDE DEF S
  <2>2. QED
    BY <2>1, Greatest
<1>5. j \in i..(n + 1) /\ \A k \in i..(j - 1) : t[k].kind \in Transparent
  BY <1>1, <1>2, <1>4
<1>6. ASSUME j \in 1..n PROVE t[j].kind \notin Transparent
  <2> SUFFICES ASSUME t[j].kind \in Transparent PROVE FALSE
    OBVIOUS
  <2>1. j + 1 \in 0..(n + 1) /\ j + 1 >= i
    BY <1>1, <1>2, <1>5, <1>6
  <2>2. ASSUME NEW k \in i..((j + 1) - 1) PROVE t[k].kind \in Transparent
    <3>1. k \in i..(j - 1) \/ k = j
      BY <1>2, <1>5, <1>6
    <3>2. QED
      BY <1>5, <3>1
  <2>3. j + 1 \in S
    BY <2>1, <2>2
  <2>4. QED
    BY <1>4, <1>6, <2>3
<1>7. \E m \in i..(n + 1) : /\ m \in DOMAIN t => t[m].kind \notin Transparent
                            /\ \A k \in i..(m - 1) : t[k].kind \in Transparent
  BY <1>1, <1>5, <1>6
<1>8. /\ Skip(t, i) \in i..(n + 1)
      /\ \A k \in i..(Skip(t, i) - 1) : t[k].kind \in Transparent
  BY <1>7 DEF Skip, n
<1>9. ASSUME NEW p \in i..n, t[p].kind \notin Transparent PROVE Skip(t, i) <= p
  <2> DEFINE s == Skip(t, i)
  <2> HIDE DEF s
  <2>1. s \in i..(n + 1) /\ \A k \in i..(s - 1) : t[k].kind \in Transparent
    BY <1>8 DEF s
  <2>2. ~(p <= s - 1)
    BY <1>1, <1>2, <1>9, <2>1
  <2>3. s <= p
    BY <1>1, <1>2, <2>1, <2>2
  <2>4. QED
    BY <2>3 DEF s
<1>10. QED
  BY <1>8, <1>9 DEF n

-----------------------------------------------------------------------------
(* Filling a tree from a file, with a table, or for a clone keeps its shape. *)

(* The same nodes, with other dimensions and parameters.                    *)
SameShape(s, t) ==
  /\ IsSeq(s) /\ Len(s) = Len(t)
  /\ \A i \in 1..Len(t) : s[i].at = t[i].at /\ s[i].kind = t[i].kind

(* A tree built from t by reading a file, injecting vectors or cloning: t's *)
(* nodes with other dimensions and parameters.                              *)
Filling(s, t) == SameShape(s, t) /\ AreNodes(s)

(* Such trees have the same paths,                                          *)
LEMMA ShapePaths ==
  ASSUME NEW s, NEW t, SameShape(s, t), NEW p
  PROVE  HasPath(s, p) <=> HasPath(t, p)
BY DEF SameShape, HasPath

(* and what is true of the shape of one is true of the other's.             *)
LEMMA ShapeTree ==
  ASSUME NEW s, NEW t, IsTree(t), SameShape(s, t)
  PROVE  IsTree(s) /\ (ParserShape(t) => ParserShape(s))
<1>1. /\ Len(t) \in Nat \ {0} /\ Len(s) = Len(t) /\ IsSeq(s)
      /\ \A i \in 1..Len(t) : s[i].at = t[i].at /\ s[i].kind = t[i].kind
  BY TreeNodes DEF SameShape
<1>2. \A p : HasPath(s, p) <=> HasPath(t, p)
  BY ShapePaths
<1>3. s[1].at = <<>> /\ \A i \in 1..Len(s) : s[i].at \in Path
  BY <1>1, TreeNodes
<1>4. ASSUME NEW i \in 1..Len(s), NEW j \in 1..Len(s), i < j
      PROVE  s[i].at # s[j].at /\ s[j].at # <<>> /\ (i # 1 => s[i].at[1] <= s[j].at[1])
  <2>1. t[i].at # t[j].at /\ t[j].at # <<>> /\ (i # 1 => t[i].at[1] <= t[j].at[1])
    BY <1>1, <1>4 DEF IsTree
  <2>2. QED
    BY <1>1, <2>1
<1>5. ASSUME NEW i \in 1..Len(s) PROVE \E c : Numbered(s, i, c) /\ (s[i].kind \in Compounds => c > 0)
  <2>1. PICK c : Numbered(t, i, c) /\ (t[i].kind \in Compounds => c > 0)
    BY <1>1 DEF IsTree
  <2>2. Numbered(s, i, c)
    BY <1>1, <1>2, <2>1 DEF Numbered
  <2>3. QED
    BY <1>1, <2>1, <2>2
<1>6. IsTree(s)
  BY <1>1, <1>3, <1>4, <1>5 DEF IsTree
<1>7. ASSUME ParserShape(t) PROVE ParserShape(s)
  <2>1. HasPath(s, <<1>>) /\ HasPath(s, <<1, 2>>) /\ HasPath(s, <<1, 3>>) /\ HasPath(s, <<2>>)
    BY <1>2, <1>7 DEF ParserShape
  <2>2. ASSUME NEW j \in 2..Len(s), s[j].at[1] = 2
        PROVE  s[j].at = <<2>> /\ s[j].kind = "precomputable_affine"
    <3>1. j \in 1..Len(t) /\ j \in 2..Len(t)
      BY <1>1
    <3>2. t[j].at[1] = 2
      BY <1>1, <2>2, <3>1
    <3>3. t[j].at = <<2>> /\ t[j].kind = "precomputable_affine"
      BY <1>7, <3>1, <3>2 DEF ParserShape
    <3>4. QED
      BY <1>1, <3>1, <3>3
  <2>3. QED
    BY <2>1, <2>2 DEF ParserShape
<1>8. QED
  BY <1>6, <1>7

(* A sequence of nodes, each filled in, is a filling.                       *)
LEMMA FilledSeq ==
  ASSUME NEW t, IsTree(t), NEW s, s = [i \in DOMAIN t |-> s[i]],
         \A i \in 1..Len(t) : IsNode(s[i]) /\ s[i].at = t[i].at /\ s[i].kind = t[i].kind
  PROVE  Filling(s, t)
<1>1. Len(t) \in Nat /\ s = [i \in 1..Len(t) |-> s[i]]
  BY TreeNodes
<1>2. s \in Seq({s[i] : i \in 1..Len(t)}) /\ Len(s) = Len(t)
  BY <1>1
<1>3. IsSeq(s)
  BY <1>2, SeqFacts
<1>4. QED
  BY <1>2, <1>3 DEF Filling, SameShape, AreNodes

(* A node with other dimensions and parameters.                             *)
NodeWith(n, dims, params) == [n EXCEPT !.dims = dims, !.params = params]

(* A node stays a node when it is filled in.                                *)
LEMMA NodeFilled ==
  ASSUME NEW n, IsNode(n), NEW dims, NEW params,
         n.kind = "precomputable_affine" => "nF" \in DOMAIN dims /\ dims.nF \in Int
  PROVE  /\ IsNode(NodeWith(n, dims, params))
         /\ NodeWith(n, dims, params).at = n.at /\ NodeWith(n, dims, params).kind = n.kind
<1> DEFINE m == NodeWith(n, dims, params)
           l == [n EXCEPT !.dims = dims]
<1>1. m = [l EXCEPT !.params = params]
  BY DEF NodeWith
<1>2. n = [at |-> n.at, kind |-> n.kind, dims |-> n.dims, params |-> n.params, attrs |-> n.attrs]
  BY DEF IsNode
<1> HIDE DEF m
<1>3. m = [at |-> n.at, kind |-> n.kind, dims |-> dims, params |-> params, attrs |-> n.attrs]
  <2>1. l = [at |-> n.at, kind |-> n.kind, dims |-> dims, params |-> n.params, attrs |-> n.attrs]
    BY <1>2
  <2> HIDE DEF l
  <2>2. QED
    BY <1>1, <2>1
<1>4. m.at = n.at /\ m.kind = n.kind /\ m.dims = dims /\ m.params = params /\ m.attrs = n.attrs
  BY <1>3
<1>5. IsNode(m)
  BY <1>3, <1>4 DEF IsNode
<1>6. QED
  BY <1>4, <1>5 DEF m

(* The index of a node in breadth-first order is a place of the tree.       *)
LEMMA WalkIndexOK ==
  ASSUME NEW t, IsTree(t), NEW i \in 1..Len(t)
  PROVE  WalkIndex(t, i) \in 1..Len(t)
<1> DEFINE before == {j \in DOMAIN t :
        Len(t[j].at) < Len(t[i].at) \/ (Len(t[j].at) = Len(t[i].at) /\ j <= i)}
<1>1. Len(t) \in Nat \ {0} /\ DOMAIN t = 1..Len(t)
  BY TreeNodes
<1>2. IsFiniteSet(1..Len(t)) /\ Cardinality(1..Len(t)) = Len(t)
  BY <1>1, FS_Interval
<1>3. before \subseteq 1..Len(t) /\ i \in before
  BY <1>1
<1>4. WalkIndex(t, i) = Cardinality(before)
  BY DEF WalkIndex
<1> HIDE DEF before
<1>5. IsFiniteSet(before) /\ Cardinality(before) <= Len(t)
  BY <1>2, <1>3, FS_Subset
<1>6. Cardinality(before) \in Nat /\ Cardinality(before) # 0
  BY <1>3, <1>5, FS_EmptySet, FS_CardinalityType
<1>7. QED
  BY <1>1, <1>4, <1>5, <1>6

(* Reading a model's file fills in the tree, unless it fails.               *)
LEMMA FromBytesOK ==
  ASSUME NEW t, GoodTree(t), NEW file, NEW s,
         \A k \in 1..Len(file) : \A dim \in DOMAIN file[k].dims : file[k].dims[dim] \in Int,
         FromBytes(t, file).out # "error", s = FromBytes(t, file).tree
  PROVE  Filling(s, t)
<1> DEFINE saved(i) == file[WalkIndex(t, i)]
           node(i) == NodeWith(t[i], Overwritten(t[i].dims, saved(i).dims),
                               Overwritten(t[i].params, saved(i).params))
<1>1. Len(t) = Len(file)
  BY DEF FromBytes, Failed
<1>2. s = [i \in DOMAIN t |-> node(i)]
  BY <1>1 DEF FromBytes, Built, NodeWith
<1>3. ASSUME NEW i \in 1..Len(t)
      PROVE  IsNode(node(i)) /\ node(i).at = t[i].at /\ node(i).kind = t[i].kind
  <2> DEFINE dims == Overwritten(t[i].dims, saved(i).dims)
             params == Overwritten(t[i].params, saved(i).params)
  <2>1. WalkIndex(t, i) \in 1..Len(file)
    BY <1>1, WalkIndexOK DEF GoodTree
  <2>2. \A dim \in DOMAIN saved(i).dims : saved(i).dims[dim] \in Int
    BY <2>1
  <2>3. IsNode(t[i])
    BY DEF GoodTree, AreNodes
  <2> HIDE DEF saved
  <2>4. t[i].kind = "precomputable_affine" => "nF" \in DOMAIN dims /\ dims.nF \in Int
    BY <2>2, <2>3 DEF Overwritten, IsNode
  <2> HIDE DEF dims, params
  <2>5. /\ IsNode(NodeWith(t[i], dims, params))
        /\ NodeWith(t[i], dims, params).at = t[i].at /\ NodeWith(t[i], dims, params).kind = t[i].kind
    BY <2>3, <2>4, NodeFilled
  <2>6. QED
    BY <2>5 DEF dims, params
<1> HIDE DEF node
<1>4. DOMAIN t = 1..Len(t) /\ \A i \in 1..Len(t) : s[i] = node(i)
  BY <1>2, TreeNodes DEF GoodTree
<1>5. s = [i \in DOMAIN t |-> s[i]]
  BY <1>2
<1>6. QED
  BY <1>3, <1>4, <1>5, FilledSeq DEF GoodTree

(* Injecting the vectors into the static_vectors layers keeps a filling     *)
(* one.                                                                     *)
LEMMA InjectOK ==
  ASSUME NEW t, IsTree(t), NEW s, Filling(s, t), NEW cols
  PROVE  Filling(InjectVectors(s, cols), t)
<1> DEFINE r == InjectVectors(s, cols)
           node(i) == IF s[i].kind = "static_vectors" /\ cols > 0 THEN [s[i] EXCEPT !.attrs.vectors = cols] ELSE s[i]
<1>1. DOMAIN s = 1..Len(s) /\ Len(s) = Len(t) /\ DOMAIN t = 1..Len(t)
  BY SeqFacts, TreeNodes DEF Filling, SameShape, IsSeq
<1>2. r = [i \in DOMAIN t |-> node(i)]
  BY <1>1 DEF InjectVectors
<1>3. ASSUME NEW i \in 1..Len(t)
      PROVE  IsNode(node(i)) /\ node(i).at = t[i].at /\ node(i).kind = t[i].kind
  <2>1. IsNode(s[i]) /\ s[i].at = t[i].at /\ s[i].kind = t[i].kind
    BY <1>1 DEF Filling, SameShape, AreNodes
  <2>2. CASE s[i].kind = "static_vectors" /\ cols > 0
    <3> DEFINE attrs == [s[i].attrs EXCEPT !.vectors = cols]
               n == s[i]
    <3>1. node(i) = [n EXCEPT !.attrs = attrs]
      BY <2>2
    <3> HIDE DEF attrs, n
    <3>2. n = [at |-> n.at, kind |-> n.kind, dims |-> n.dims, params |-> n.params, attrs |-> n.attrs]
      BY <2>1 DEF IsNode, n
    <3>3. node(i) = [at |-> n.at, kind |-> n.kind, dims |-> n.dims, params |-> n.params, attrs |-> attrs]
      BY <3>1, <3>2
    <3> HIDE DEF node
    <3>4. node(i) = [at |-> node(i).at, kind |-> node(i).kind, dims |-> node(i).dims, params |-> node(i).params, attrs |-> node(i).attrs]
          /\ node(i).at = n.at /\ node(i).kind = n.kind
      BY <3>3
    <3>5. QED
      BY <2>1, <2>2, <3>4 DEF n, IsNode
  <2>3. CASE ~(s[i].kind = "static_vectors" /\ cols > 0)
    BY <2>1, <2>3
  <2>4. QED
    BY <2>2, <2>3
<1> HIDE DEF node, r
<1>4. \A i \in 1..Len(t) : r[i] = node(i)
  BY <1>1, <1>2
<1>5. r = [i \in DOMAIN t |-> r[i]]
  BY <1>2
<1>6. QED
  BY <1>3, <1>4, <1>5, FilledSeq DEF r

(* So does copying the parameters into a newly built tree (Bundle.Clone).   *)
LEMMA CloneOK ==
  ASSUME NEW t, GoodTree(t), NEW s, Filling(s, t)
  PROVE  Filling(CloneModelParams(s, t).tree, t)
<1> DEFINE r == CloneModelParams(s, t).tree
           node(i) == NodeWith(t[i], s[i].dims, s[i].params)
<1>1. Len(s) = Len(t) /\ DOMAIN t = 1..Len(t)
  BY TreeNodes DEF GoodTree, Filling, SameShape
<1>2. r = [i \in DOMAIN t |-> node(i)]
  BY <1>1 DEF CloneModelParams, Built, NodeWith
<1>3. ASSUME NEW i \in 1..Len(t)
      PROVE  IsNode(node(i)) /\ node(i).at = t[i].at /\ node(i).kind = t[i].kind
  <2>1. IsNode(s[i]) /\ s[i].kind = t[i].kind /\ IsNode(t[i])
    BY <1>1 DEF Filling, SameShape, AreNodes, GoodTree
  <2>2. t[i].kind = "precomputable_affine" => "nF" \in DOMAIN s[i].dims /\ s[i].dims.nF \in Int
    BY <2>1 DEF IsNode
  <2>3. QED
    BY <2>1, <2>2, NodeFilled
<1> HIDE DEF node, r
<1>4. \A i \in 1..Len(t) : r[i] = node(i)
  BY <1>1, <1>2
<1>5. r = [i \in DOMAIN t |-> r[i]]
  BY <1>2
<1>6. QED
  BY <1>3, <1>4, <1>5, FilledSeq DEF r, GoodTree

(* A factory builds a tree, is a stub or fails.                              *)
Settled(result) == result.out \in {"built", "stub", "error"}

(* A factory builds, is a stub or fails, and nothing else.                  *)
LEMMA FactorySettled ==
  ASSUME NEW name
  PROVE  Settled(Factory(name))
<1>1. Settled(Failed) /\ Settled(Stub) /\ \A t : Settled(Built(t))
  BY DEF Settled, Failed, Stub, Built
<1>2. ASSUME NEW cfg
      PROVE  /\ Settled(HashEmbedCNN(cfg)) /\ Settled(MultiHashEmbed(cfg)) /\ Settled(MaxoutWindowEncoder(cfg))
             /\ Settled(MishWindowEncoder(cfg)) /\ Settled(StaticVectorsArch(cfg)) /\ Settled(FeatureExtractorArch(cfg))
             /\ Settled(CharacterEmbed(cfg)) /\ Settled(ListenerArch(cfg)) /\ Settled(PrecomputableAffineArch(cfg))
             /\ Settled(Tagger(cfg)) /\ Settled(Tok2VecEncode(cfg))
  <2>1. Settled(HashEmbedCNN(cfg)) /\ Settled(MultiHashEmbed(cfg))
    BY <1>1 DEF HashEmbedCNN, MultiHashEmbed
  <2>2. Settled(MaxoutWindowEncoder(cfg)) /\ Settled(MishWindowEncoder(cfg)) /\ Settled(Tok2VecEncode(cfg))
    BY <1>1 DEF MaxoutWindowEncoder, MishWindowEncoder, Tok2VecEncode
  <2>3. Settled(StaticVectorsArch(cfg)) /\ Settled(FeatureExtractorArch(cfg)) /\ Settled(CharacterEmbed(cfg))
    BY <1>1 DEF StaticVectorsArch, FeatureExtractorArch, CharacterEmbed
  <2>4. Settled(ListenerArch(cfg)) /\ Settled(PrecomputableAffineArch(cfg)) /\ Settled(Tagger(cfg))
    BY <1>1 DEF ListenerArch, PrecomputableAffineArch, Tagger
  <2>5. QED
    BY <2>1, <2>2, <2>3, <2>4
<1>3. \A arch, cfg : Settled(BuildInner(arch, cfg))
  BY <1>1, <1>2 DEF BuildInner
<1>4. \A cfg : Settled(Tok2VecEmbed(cfg))
  BY <1>1, <1>2, <1>3 DEF Tok2VecEmbed
<1>5. \A cfg : Settled(Tok2Vec(cfg))
  BY <1>1, <1>2, <1>4 DEF Tok2Vec, Encoded
<1>6. \A arch, cfg : Settled(ParserTok2Vec(arch, cfg))
  BY <1>3, <1>5 DEF ParserTok2Vec
<1>7. \A cfg, tok2vec, width : Settled(tok2vec) => Settled(Parser(cfg, tok2vec, width))
  BY <1>1 DEF Parser
<1>8. \A cfg : Settled(TransitionBasedParser(cfg))
  BY <1>1, <1>6, <1>7 DEF TransitionBasedParser
<1>9. QED
  BY <1>1, <1>3, <1>5, <1>8 DEF Factory, BuildSection, Build

(* A pipe that runs has the tree its factory builds, filled in.             *)
PipeOK(name, pipe) ==
  ~pipe.skipped => Factory(name).out = "built" /\ Filling(pipe.tree, Factory(name).tree)

(* A pipe that FromDisk loads is such a pipe,                               *)
LEMMA LoadPipeOK ==
  ASSUME disk \in Disks, NEW name, ~Aborts(name)
  PROVE  PipeOK(name, LoadPipe(name))
<1> DEFINE built == Factory(name)
           file == disk.files[name]
           result == FromBytes(built.tree, file)
<1>1. Skipped.skipped
  BY DEF Skipped
<1>2. SUFFICES ASSUME LoadPipe(name) # Skipped PROVE PipeOK(name, LoadPipe(name))
  BY <1>1 DEF PipeOK
<1>3. /\ name \notin Disabled /\ Has(ModelCfg(name), "@architectures")
      /\ built.out # "stub" /\ name \in DOMAIN disk.files
      /\ LoadPipe(name) = Filled(result)
  BY <1>2 DEF LoadPipe, LoadBuilt
<1>4. built.out = "built"
  BY <1>3, FactorySettled DEF Aborts, Settled
<1>5. result.out # "error" /\ LoadPipe(name) = Loaded(InjectVectors(result.tree, disk.vectors), 1)
  BY <1>2, <1>3 DEF Filled
<1>6. GoodTree(built.tree)
  BY <1>4, FactoryOK
<1>7. \A k \in 1..Len(file) : \A dim \in DOMAIN file[k].dims : file[k].dims[dim] \in Int
  BY <1>3, DisksAssumption DEF WellFormed
<1> HIDE DEF built, file
<1>8. Filling(result.tree, built.tree)
  BY <1>5, <1>6, <1>7, FromBytesOK
<1> HIDE DEF result
<1>9. Filling(InjectVectors(result.tree, disk.vectors), built.tree)
  BY <1>6, <1>8, InjectOK DEF GoodTree
<1>10. QED
  BY <1>4, <1>5, <1>9 DEF PipeOK, Loaded, built

(* and so is a clone of one.                                                *)
LEMMA ClonePipeOK ==
  ASSUME disk \in Disks, NEW name, NEW pipe, PipeOK(name, pipe), NEW b
  PROVE  PipeOK(name, ClonePipe(pipe, name, b))
<1> DEFINE t == Factory(name).tree
           s == CloneModelParams(pipe.tree, t).tree
<1>1. CASE pipe.skipped
  BY <1>1 DEF ClonePipe, Skipped, PipeOK
<1>2. CASE ~pipe.skipped
  <2>1. Factory(name).out = "built" /\ Filling(pipe.tree, t)
    BY <1>2 DEF PipeOK
  <2>2. GoodTree(t)
    BY <2>1, FactoryOK
  <2>3. ClonePipe(pipe, name, b) = Loaded(InjectVectors(s, disk.vectors), b)
    BY <1>2 DEF ClonePipe
  <2> HIDE DEF t
  <2>4. Filling(s, t)
    BY <2>1, <2>2, CloneOK
  <2> HIDE DEF s
  <2>5. Filling(InjectVectors(s, disk.vectors), t)
    BY <2>2, <2>4, InjectOK DEF GoodTree
  <2>6. QED
    BY <2>1, <2>3, <2>5 DEF PipeOK, Loaded, t
<1>3. QED
  BY <1>1, <1>2

(* The tree of a pipe that runs.                                             *)
LEMMA PipeTree ==
  ASSUME disk \in Disks, NEW name, NEW pipe, PipeOK(name, pipe), ~pipe.skipped
  PROVE  /\ GoodTree(pipe.tree)
         /\ HasPath(pipe.tree, <<>>)
         /\ name = "tagger" => HasPath(pipe.tree, <<2>>)
         /\ name \in {"parser", "ner"} => ParserShape(pipe.tree)
<1> DEFINE t == Factory(name).tree
           s == pipe.tree
<1>1. Factory(name).out = "built" /\ Filling(s, t)
  BY DEF PipeOK
<1>2. GoodTree(t) /\ (name = "tagger" => HasPath(t, <<2>>)) /\ (name \in {"parser", "ner"} => ParserShape(t))
  BY <1>1, FactoryOK
<1> HIDE DEF s, t
<1>3. GoodTree(s) /\ (ParserShape(t) => ParserShape(s))
  BY <1>1, <1>2, ShapeTree DEF GoodTree, Filling
<1>4. \A p : HasPath(s, p) <=> HasPath(t, p)
  BY <1>1, ShapePaths DEF Filling
<1>5. HasPath(s, <<>>)
  BY <1>3, RootPath
<1>6. QED
  BY <1>2, <1>3, <1>4, <1>5 DEF s

-----------------------------------------------------------------------------
(* Values whose rows and lengths are sequences.                              *)

(* A value has a sequence of rows and the lengths of the docs it is for.    *)
RowsOK(v) == IsSeq(v.rows) /\ v.lens \in Seq(Nat)

(* A sum of lengths is a number.                                             *)
LEMMA SumInt ==
  ASSUME NEW lens \in Seq(Nat)
  PROVE  Sum(lens) \in Nat
<1> DEFINE N == Len(lens)
           step(k, d) == d + lens[k]
           Def(f) == [n \in 0..N |-> IF n = 0 THEN 0 ELSE f[n - 1] + lens[n]]
           G == [i \in 1..N |-> [d \in Nat |-> step(i, d)]]
           F == CHOOSE f : f = Def(f)
<1>1. N \in Nat /\ \A k \in 1..N : lens[k] \in Nat
  OBVIOUS
<1>2. G \in [1..N -> [Nat -> Nat]]
  BY <1>1
<1>3. PICK f : IsIteration(f, N, Nat, 0, G)
  <2> HIDE DEF G, N
  <2> QED
    BY <1>1, <1>2, Recursion
<1>4. f \in [0..N -> Nat] /\ f[0] = 0
  BY <1>3 DEF IsIteration
<1> HIDE DEF N
<1>5. \A i \in 1..N : f[i] = step(i, f[i - 1])
  <2> HIDE DEF step
  <2> TAKE i \in 1..N
  <2>1. f[i - 1] \in Nat
    BY <1>1, <1>4
  <2>2. f[i] = G[i][f[i - 1]]
    <3> HIDE DEF G
    <3> QED
      BY <1>3 DEF IsIteration
  <2>3. QED
    BY <2>1, <2>2
<1>6. f = Def(f)
  <2> DEFINE e(k) == IF k = 0 THEN 0 ELSE f[k - 1] + lens[k]
  <2>1. \A k \in 0..N : f[k] = e(k)
    <3> TAKE k \in 0..N
    <3>1. CASE k = 0
      BY <3>1, <1>4
    <3>2. CASE k \in 1..N
      BY <3>2, <1>5
    <3>3. QED
      BY <1>1, <3>1, <3>2
  <2>2. f = [k \in 0..N |-> f[k]]
    BY <1>4
  <2> HIDE DEF e
  <2>3. [k \in 0..N |-> f[k]] = [k \in 0..N |-> e(k)]
    BY <2>1
  <2>4. QED
    BY <2>2, <2>3 DEF e
<1>7. F = Def(F)
  <2> HIDE DEF Def
  <2> QED
    BY <1>6, Zenon
<1>8. Sum(lens) = F[N]
  BY DEF Sum, N
<1>9. \A k \in 0..N : F[k] = IF k = 0 THEN 0 ELSE F[k - 1] + lens[k]
  <2> HIDE DEF F
  <2>1. \A k \in 0..N : Def(F)[k] = IF k = 0 THEN 0 ELSE F[k - 1] + lens[k]
    OBVIOUS
  <2> HIDE DEF Def
  <2>2. QED
    BY <2>1, <1>7
<1> HIDE DEF F
<1> DEFINE S == {k \in 0..N : F[k] \in Nat}
<1>10. 0 \in S
  BY <1>1, <1>9
<1>11. \A k \in 0..(N - 1) : k \in S => k + 1 \in S
  <2> TAKE k \in 0..(N - 1)
  <2> HAVE k \in S
  <2>1. k + 1 \in 1..N /\ (k + 1) - 1 = k /\ F[k] \in Nat
    BY <1>1
  <2>2. F[k + 1] = F[k] + lens[k + 1]
    BY <1>9, <2>1
  <2>3. QED
    BY <1>1, <2>1, <2>2
<1> HIDE DEF S
<1>12. 0..N \subseteq S
  BY <1>1, <1>10, <1>11, InductionUpTo
<1>13. N \in S
  BY <1>1, <1>12
<1>14. QED
  BY <1>8, <1>13 DEF S

(* A part of a sequence is the sequence of its elements.                    *)
LEMMA CutSeq ==
  ASSUME NEW s, IsSeq(s), NEW m \in Int, NEW n \in Int
  PROVE  SubSeq(s, m, n) = [i \in 1..(n - m + 1) |-> s[m + i - 1]] /\ n - m + 1 \in Int
<1> DEFINE T == {s[i] : i \in 1..Len(s)}
<1>1. s \in Seq(T)
  BY DEF IsSeq
<1> HIDE DEF T
<1>2. QED
  BY <1>1

(* A function on 1..k is a sequence.                                        *)
LEMMA FunctionSeq ==
  ASSUME NEW k \in Nat, NEW T, NEW f \in [1..k -> T]
  PROVE  f \in Seq(T)
<1>1. \A i \in 1..k : f[i] \in T
  OBVIOUS
<1>2. [i \in 1..k |-> f[i]] \in Seq(T)
  BY <1>1, IsASeq
<1>3. QED
  BY <1>2

(* A sequence comprehension is a sequence, an empty one if n is not         *)
(* positive.                                                                *)
LEMMA MadeSeq ==
  ASSUME NEW n \in Int, NEW s, s = [i \in 1..n |-> s[i]]
  PROVE  IsSeq(s) /\ DOMAIN s = 1..n
<1> DEFINE T == {s[i] : i \in 1..n}
           k == IF n < 0 THEN 0 ELSE n
<1>1. k \in Nat /\ 1..k = 1..n
  OBVIOUS
<1>2. s = [i \in 1..k |-> s[i]]
  BY <1>1
<1>3. \A i \in 1..k : s[i] \in T
  BY <1>1
<1> HIDE DEF T, k
<1>4. s \in [1..k -> T]
  BY <1>2, <1>3
<1>5. s \in Seq(T)
  BY <1>1, <1>4, FunctionSeq
<1>6. DOMAIN s = 1..k
  BY <1>4
<1>7. QED
  BY <1>1, <1>5, <1>6, SeqFacts

(* The concatenation of two sequences is a sequence.                        *)
LEMMA ConcatSeq ==
  ASSUME NEW r, IsSeq(r), NEW s, IsSeq(s)
  PROVE  IsSeq(r \o s)
<1> DEFINE T == {r[i] : i \in 1..Len(r)} \cup {s[i] : i \in 1..Len(s)}
<1>1. /\ Len(r) \in Nat /\ r \in [1..Len(r) -> {r[i] : i \in 1..Len(r)}]
      /\ Len(s) \in Nat /\ s \in [1..Len(s) -> {s[i] : i \in 1..Len(s)}]
  BY LenProperties DEF IsSeq
<1>2. r \in [1..Len(r) -> T] /\ s \in [1..Len(s) -> T]
  BY <1>1
<1> HIDE DEF T
<1>3. r \in Seq(T) /\ s \in Seq(T)
  BY <1>1, <1>2, FunctionSeq
<1>4. r \o s \in Seq(T)
  BY <1>3, ConcatProperties
<1>5. QED
  BY <1>4, SeqFacts

(* So is the flattening of sequences.                                       *)
LEMMA FlattenRows ==
  ASSUME NEW n \in Nat, NEW seqs, seqs = [d \in 1..n |-> seqs[d]], \A d \in 1..n : IsSeq(seqs[d])
  PROVE  IsSeq(FlattenSeq(seqs))
<1> DEFINE A == UNION {{seqs[d][i] : i \in 1..Len(seqs[d])} : d \in 1..n}
<1>1. ASSUME NEW d \in 1..n PROVE seqs[d] \in Seq(A)
  <2> DEFINE s == seqs[d]
             B == {s[i] : i \in 1..Len(s)}
  <2>1. IsSeq(s)
    OBVIOUS
  <2>2. B \subseteq A
    OBVIOUS
  <2> HIDE DEF s, A
  <2>3. Len(s) \in Nat /\ s \in [1..Len(s) -> B]
    BY <2>1, LenProperties DEF IsSeq
  <2> HIDE DEF B
  <2>4. s \in [1..Len(s) -> A]
    BY <2>2, <2>3
  <2>5. s \in Seq(A)
    BY <2>3, <2>4, FunctionSeq
  <2>6. QED
    BY <2>5 DEF s
<1> HIDE DEF A
<1>2. seqs \in [1..n -> Seq(A)]
  BY <1>1
<1>3. seqs \in Seq(Seq(A))
  BY <1>2, FunctionSeq
<1>4. FlattenSeq(seqs) \in Seq(A)
  BY <1>3, FlattenOrder
<1>5. QED
  BY <1>4, SeqFacts

(* The values the layers make have rows.                                    *)
LEMMA ValueRows ==
  ASSUME NEW kind, NEW cols, NEW lens \in Seq(Nat), NEW rows, IsSeq(rows)
  PROVE  /\ RowsOK(Value(kind, cols, lens, rows))
         /\ RowsOK(Matrix(cols, rows))
         /\ RowsOK(Refused)
         /\ <<>> \in Seq(Nat)
<1>1. <<>> \in Seq(Nat) /\ IsSeq(<<>>)
  BY EmptyIsSeq
<1>2. QED
  BY <1>1 DEF RowsOK, Value, Matrix, Refused

(* So has the part of a value that belongs to one doc.                      *)
LEMMA RowsOfOK ==
  ASSUME NEW x, RowsOK(x), NEW d \in DOMAIN x.lens
  PROVE  IsSeq(RowsOf(x, d))
<1> DEFINE before == Sum(SubSeq(x.lens, 1, d - 1))
           cut == RowsOf(x, d)
<1>1. d \in Nat /\ x.lens[d] \in Nat /\ SubSeq(x.lens, 1, d - 1) \in Seq(Nat)
  <2> DEFINE lens == x.lens
  <2>1. lens \in Seq(Nat) /\ d \in 1..Len(lens)
    BY LenProperties DEF RowsOK
  <2> HIDE DEF lens
  <2>2. d \in Nat /\ lens[d] \in Nat /\ SubSeq(lens, 1, d - 1) \in Seq(Nat)
    BY <2>1
  <2>3. QED
    BY <2>2 DEF lens
<1>2. before \in Nat
  BY <1>1, SumInt
<1> HIDE DEF before
<1>3. cut = SubSeq(x.rows, before + 1, before + x.lens[d])
  BY DEF RowsOf, before
<1> HIDE DEF cut
<1> DEFINE m == before + 1
           n == before + x.lens[d]
<1>4. m \in Int /\ n \in Int /\ IsSeq(x.rows)
  BY <1>1, <1>2 DEF RowsOK
<1> HIDE DEF m, n
<1>5. SubSeq(x.rows, m, n) = [i \in 1..(n - m + 1) |-> x.rows[m + i - 1]] /\ n - m + 1 \in Int
  BY <1>4, CutSeq
<1>6. cut = [i \in 1..(n - m + 1) |-> x.rows[m + i - 1]]
  BY <1>3, <1>5 DEF m, n
<1>7. cut = [i \in 1..(n - m + 1) |-> cut[i]]
  BY <1>6
<1>8. IsSeq(cut)
  BY <1>5, <1>7, MadeSeq
<1>9. QED
  BY <1>8 DEF cut

(* So has the input of a tok2vec run.                                       *)
LEMMA DocsRows ==
  ASSUME NEW lens \in Seq(Nat)
  PROVE  RowsOK(Docs(lens))
<1> DEFINE part(d) == [i \in 1..lens[d] |-> {<<d, i>>}]
           parts == [d \in DOMAIN lens |-> part(d)]
<1>1. Len(lens) \in Nat /\ DOMAIN lens = 1..Len(lens) /\ \A d \in 1..Len(lens) : lens[d] \in Int
  BY LenProperties
<1>2. ASSUME NEW d \in 1..Len(lens) PROVE IsSeq(part(d))
  <2> DEFINE s == part(d)
  <2>1. s = [i \in 1..lens[d] |-> s[i]] /\ lens[d] \in Int
    BY <1>1
  <2> HIDE DEF s
  <2>2. IsSeq(s)
    BY <2>1, MadeSeq
  <2>3. QED
    BY <2>2 DEF s
<1> HIDE DEF part
<1>3. parts = [d \in 1..Len(lens) |-> parts[d]] /\ \A d \in 1..Len(lens) : parts[d] = part(d)
  BY <1>1
<1>4. Docs(lens) = Value("docs", 0, lens, FlattenSeq(parts))
  BY DEF Docs, part
<1> HIDE DEF parts
<1>5. IsSeq(FlattenSeq(parts))
  BY <1>1, <1>2, <1>3, FlattenRows
<1>6. QED
  BY <1>4, <1>5, ValueRows

(* So has a value that a layer may refuse.                                  *)
LEMMA RowsIf ==
  ASSUME NEW accepted, NEW y, RowsOK(y)
  PROVE  RowsOK(If(accepted, y))
<1>1. RowsOK(Refused)
  BY EmptyIsSeq DEF RowsOK, Refused, Value
<1>2. QED
  BY <1>1 DEF If

(* A value keeps its rows when its kind, its lengths or its slice is set.   *)
LEMMA RowsUpdate ==
  ASSUME NEW x, IsValue(x), RowsOK(x)
  PROVE  /\ \A kind : RowsOK([x EXCEPT !.kind = kind])
         /\ \A kind, at : RowsOK([x EXCEPT !.kind = kind, !.at = at])
         /\ \A at : RowsOK([x EXCEPT !.at = at]) /\ [x EXCEPT !.at = at].rows = x.rows
         /\ \A kind : \A lens \in Seq(Nat) : RowsOK([x EXCEPT !.kind = kind, !.lens = lens])
<1>1. ASSUME NEW kind, NEW lens \in Seq(Nat) PROVE RowsOK([x EXCEPT !.kind = kind, !.lens = lens])
  BY DEF RowsOK, IsValue
<1>2. QED
  BY <1>1 DEF RowsOK, IsValue

(* A leaf returns rows for rows.                                             *)
LEMMA LeafRows ==
  ASSUME NEW n, IsNode(n), NEW x, IsValue(x), RowsOK(x)
  PROVE  RowsOK(LeafForward(n, x))
<1>1. /\ IsSeq(x.rows) /\ x.lens \in Seq(Nat) /\ <<>> \in Seq(Nat)
      /\ Len(x.rows) \in Nat /\ DOMAIN x.rows = 1..Len(x.rows)
  BY SeqFacts DEF RowsOK, IsSeq
<1>2. \A kind, cols, rows : IsSeq(rows) => RowsOK(Matrix(cols, rows)) /\ RowsOK(Value(kind, cols, <<>>, rows))
                                           /\ RowsOK(Value(kind, cols, x.lens, rows))
  BY <1>1, ValueRows
<1>3. RowsOK(HashEmbedForward(n, x))
  BY <1>1, <1>2, RowsIf DEF HashEmbedForward
<1>4. RowsOK(MaxoutForward(n, x))
  BY <1>1, <1>2, RowsIf DEF MaxoutForward
<1>5. RowsOK(LayerNormForward(n, x))
  BY <1>1, <1>2, RowsIf DEF LayerNormForward
<1>6. RowsOK(LinearForward(n, x)) /\ RowsOK(SoftmaxForward(n, x)) /\ RowsOK(MishForward(n, x))
  BY <1>1, <1>2, RowsIf DEF LinearForward, SoftmaxForward, MishForward
<1>7. RowsOK(DropoutForward(x))
  BY RowsIf DEF DropoutForward
<1>8. RowsOK(ExpandWindowForward(n, x))
  <2> DEFINE rows == Neighbours(x.rows, n.attrs.nW)
  <2>1. rows = [i \in 1..Len(x.rows) |-> rows[i]]
    BY <1>1 DEF Neighbours
  <2>2. IsSeq(rows)
    <3> HIDE DEF rows
    <3>1. QED
      BY <1>1, <2>1, MadeSeq
  <2> HIDE DEF rows
  <2>3. QED
    BY <1>2, <2>2, RowsIf DEF ExpandWindowForward, rows
<1>9. ASSUME n.kind = "precomputable_affine" PROVE RowsOK(PrecomputableAffineForward(n, x))
  <2> DEFINE nF == n.dims.nF
             rows == Slots(x.rows, nF)
             k == (Len(x.rows) + 1) * nF
  <2>1. nF \in Int
    BY <1>9 DEF IsNode
  <2> HIDE DEF nF
  <2>2. k \in Int
    BY <1>1, <2>1
  <2>3. rows = [i \in 1..k |-> rows[i]]
    BY DEF Slots
  <2> HIDE DEF rows, k
  <2>4. IsSeq(rows)
    BY <2>2, <2>3, MadeSeq
  <2>5. QED
    BY <1>2, <2>4, RowsIf DEF PrecomputableAffineForward, rows, nF
<1>10. RowsOK(StaticVectorsForward(n, x))
  BY <1>1, <1>2, RowsIf DEF StaticVectorsForward
<1>11. RowsOK(ExtractFeatures(n, x))
  BY <1>1, <1>2, RowsIf DEF ExtractFeatures
<1>12. RowsOK(List2RaggedForward(x)) /\ RowsOK(Ragged2ListForward(x))
  BY RowsUpdate, RowsIf DEF List2RaggedForward, Ragged2ListForward
<1>13. RowsOK(List2ArrayForward(x))
  BY <1>1, <1>2, RowsIf DEF List2ArrayForward
<1>14. RowsOK(IntsGetitemForward(n, x))
  BY <1>1, <1>2, RowsIf DEF IntsGetitemForward
<1>15. QED
  BY <1>3, <1>4, <1>5, <1>6, <1>7, <1>8, <1>9, <1>10, <1>11, <1>12, <1>13, <1>14 DEF LeafForward

(* So does a layer with children.                                            *)
LEMMA FlattenedRows ==
  ASSUME NEW n, IsNode(n), n.kind = "with_array", NEW x, IsValue(x), RowsOK(x)
  PROVE  RowsOK(Flattened(n, x))
<1> DEFINE zeros == [i \in 1..n.attrs.pad |-> {}]
           part(d) == zeros \o RowsOf(x, d) \o zeros
           parts == [d \in DOMAIN x.lens |-> part(d)]
<1>1. Len(x.lens) \in Nat /\ DOMAIN x.lens = 1..Len(x.lens) /\ <<>> \in Seq(Nat)
  BY LenProperties DEF RowsOK
<1>2. IsSeq(zeros)
  <2>1. zeros = [i \in 1..n.attrs.pad |-> zeros[i]] /\ n.attrs.pad \in Int
    BY DEF IsNode
  <2> HIDE DEF zeros
  <2>2. QED
    BY <2>1, MadeSeq
<1> HIDE DEF zeros
<1>3. ASSUME NEW d \in 1..Len(x.lens) PROVE IsSeq(part(d))
  <2>1. IsSeq(RowsOf(x, d))
    BY <1>1, RowsOfOK
  <2>2. IsSeq(zeros \o RowsOf(x, d))
    BY <1>2, <2>1, ConcatSeq
  <2>3. QED
    BY <1>2, <2>2, ConcatSeq
<1> HIDE DEF part
<1>4. parts = [d \in 1..Len(x.lens) |-> parts[d]] /\ \A d \in 1..Len(x.lens) : parts[d] = part(d)
  BY <1>1
<1>5. Flattened(n, x) =
        CASE x.kind = "ragged" -> [x EXCEPT !.kind = "floats2d", !.lens = <<>>]
          [] x.kind = "raggedu64" -> [x EXCEPT !.kind = "u642d", !.lens = <<>>]
          [] x.kind = "floatlist" -> Matrix(x.cols, FlattenSeq(parts))
          [] OTHER -> Refused
  BY DEF Flattened, part, zeros
<1> HIDE DEF parts
<1>6. IsSeq(FlattenSeq(parts))
  BY <1>1, <1>3, <1>4, FlattenRows
<1>7. RowsOK(Matrix(x.cols, FlattenSeq(parts))) /\ RowsOK(Refused)
  BY <1>1, <1>6, ValueRows
<1>8. RowsOK([x EXCEPT !.kind = "floats2d", !.lens = <<>>]) /\ RowsOK([x EXCEPT !.kind = "u642d", !.lens = <<>>])
  BY <1>1, RowsUpdate
<1>9. QED
  BY <1>5, <1>7, <1>8

(* What a compound gives its first child has rows.                          *)
LEMMA OpenedRows ==
  ASSUME NEW n, IsNode(n), n.kind \in Compounds, NEW x, IsValue(x), RowsOK(x)
  PROVE  RowsOK(Opened(n, x))
<1>1. n.kind = "with_array" => RowsOK(Flattened(n, x))
  BY FlattenedRows
<1>2. QED
  BY <1>1, RowsIf DEF Opened, Compounds

(* Removing the padding of with_array leaves a sequence of rows.            *)
LEMMA StrippedRows ==
  ASSUME NEW n, IsNode(n), n.kind = "with_array", NEW x, RowsOK(x), NEW rows, IsSeq(rows)
  PROVE  IsSeq(Stripped(n, x, rows))
<1> DEFINE start(d) == Sum(SubSeq(x.lens, 1, d - 1)) + n.attrs.pad * (2 * d - 1)
           part(d) == SubSeq(rows, start(d) + 1, start(d) + x.lens[d])
           parts == [d \in DOMAIN x.lens |-> part(d)]
<1>1. Len(x.lens) \in Nat /\ DOMAIN x.lens = 1..Len(x.lens)
  BY LenProperties DEF RowsOK
<1>2. ASSUME NEW d \in 1..Len(x.lens) PROVE IsSeq(part(d))
  <2>1. d \in Nat /\ x.lens[d] \in Nat /\ SubSeq(x.lens, 1, d - 1) \in Seq(Nat)
    <3> DEFINE lens == x.lens
    <3>1. lens \in Seq(Nat) /\ d \in 1..Len(lens)
      BY DEF RowsOK
    <3> HIDE DEF lens
    <3>2. d \in Nat /\ lens[d] \in Nat /\ SubSeq(lens, 1, d - 1) \in Seq(Nat)
      BY <3>1
    <3>3. QED
      BY <3>2 DEF lens
  <2>2. Sum(SubSeq(x.lens, 1, d - 1)) \in Nat
    BY <2>1, SumInt
  <2>3. n.attrs.pad * (2 * d - 1) \in Int
    <3>1. n.attrs.pad \in Int /\ 2 * d - 1 \in Int
      BY <2>1 DEF IsNode
    <3>2. QED
      BY <3>1
  <2>4. start(d) \in Int
    BY <2>2, <2>3
  <2> HIDE DEF start
  <2> DEFINE m == start(d) + 1
             k == start(d) + x.lens[d]
             cut == part(d)
  <2>5. m \in Int /\ k \in Int
    BY <2>1, <2>4
  <2>6. cut = SubSeq(rows, m, k)
    OBVIOUS
  <2> HIDE DEF m, k, cut
  <2>7. SubSeq(rows, m, k) = [i \in 1..(k - m + 1) |-> rows[m + i - 1]] /\ k - m + 1 \in Int
    BY <2>5, CutSeq
  <2>8. cut = [i \in 1..(k - m + 1) |-> cut[i]]
    BY <2>6, <2>7
  <2>9. IsSeq(cut)
    BY <2>7, <2>8, MadeSeq
  <2>10. QED
    BY <2>9 DEF cut
<1>3. Stripped(n, x, rows) = FlattenSeq(parts)
  BY DEF Stripped
<1> HIDE DEF part
<1>4. parts = [d \in 1..Len(x.lens) |-> parts[d]] /\ \A d \in 1..Len(x.lens) : parts[d] = part(d)
  BY <1>1
<1> HIDE DEF parts
<1>5. QED
  BY <1>1, <1>2, <1>3, <1>4, FlattenRows

(* What a compound makes of its children's outputs has rows.                *)
LEMMA JoinedRows ==
  ASSUME NEW n, IsNode(n), n.kind \in Compounds, NEW x, IsValue(x), RowsOK(x),
         NEW outs, IsValue(outs[1]), RowsOK(outs[1])
  PROVE  RowsOK(Joined(n, x, outs))
<1> DEFINE y == outs[1]
<1>1. IsSeq(x.rows) /\ Len(x.rows) \in Nat /\ DOMAIN x.rows = 1..Len(x.rows) /\ x.lens \in Seq(Nat) /\ <<>> \in Seq(Nat)
  BY SeqFacts DEF RowsOK, IsSeq
<1>2. IsSeq(y.rows) /\ Len(y.rows) \in Nat /\ DOMAIN y.rows = 1..Len(y.rows) /\ y.lens \in Seq(Nat)
  BY SeqFacts DEF RowsOK, IsSeq
<1>3. RowsOK(SideBySide(outs))
  <2> DEFINE rows == [i \in DOMAIN y.rows |-> UNION {outs[k].rows[i] : k \in DOMAIN outs}]
             cols == Sum([k \in DOMAIN outs |-> outs[k].cols])
  <2>1. rows = [i \in 1..Len(y.rows) |-> rows[i]]
    BY <1>2
  <2>2. IsSeq(rows)
    <3> HIDE DEF rows
    <3>1. QED
      BY <1>2, <2>1, MadeSeq
  <2> HIDE DEF cols
  <2>3. RowsOK(Value(y.kind, cols, y.lens, rows))
    <3> HIDE DEF rows
    <3>1. QED
      BY <1>2, <2>2, ValueRows
  <2>4. PICK accepted : SideBySide(outs) = If(accepted, Value(y.kind, cols, y.lens, rows))
    BY DEF SideBySide, cols
  <2> HIDE DEF rows
  <2>5. QED
    BY <2>3, <2>4, RowsIf
<1>4. RowsOK(ResidualSum(x, y))
  <2> DEFINE rows == [i \in DOMAIN x.rows |-> x.rows[i] \cup y.rows[i]]
  <2>1. rows = [i \in 1..Len(x.rows) |-> rows[i]]
    BY <1>1
  <2>2. PICK accepted : ResidualSum(x, y) = If(accepted, Matrix(x.cols, rows))
    BY DEF ResidualSum
  <2> HIDE DEF rows
  <2>3. IsSeq(rows)
    BY <1>1, <2>1, MadeSeq
  <2>4. RowsOK(Matrix(x.cols, rows))
    BY <1>1, <2>3, ValueRows
  <2>5. QED
    BY <2>2, <2>4, RowsIf
<1>5. ASSUME n.kind = "with_array" PROVE RowsOK(Unflattened(n, x, y))
  <2>1. RowsOK(Value("floatlist", y.cols, x.lens, Stripped(n, x, y.rows)))
    BY <1>1, <1>2, <1>5, StrippedRows, ValueRows
  <2>2. RowsOK([y EXCEPT !.kind = "ragged", !.lens = x.lens])
    BY <1>1, RowsUpdate
  <2>3. QED
    BY <2>1, <2>2, RowsIf DEF Unflattened
<1>6. QED
  BY <1>3, <1>4, <1>5 DEF Joined, Compounds

-----------------------------------------------------------------------------
(* What a run holds.                                                         *)

(* What a run holds: its current value, and for each open compound the      *)
(* compound's input and the outputs it has so far.                          *)
LEMMA HeldParts ==
  ASSUME NEW b, NEW run, RunOK(b, run), NEW v
  PROVE  v \in HeldBy(run) <=>
           \/ v = run.x
           \/ \E i \in 1..Len(run.frames) :
                v = run.frames[i].x \/ \E k \in 1..Len(run.frames[i].outs) : v = run.frames[i].outs[k]
<1>1. DOMAIN run.frames = 1..Len(run.frames)
  BY SeqFacts DEF RunOK, AreFrames, IsSeq
<1>2. ASSUME NEW i \in 1..Len(run.frames) PROVE DOMAIN run.frames[i].outs = 1..Len(run.frames[i].outs)
  BY SeqFacts DEF RunOK, AreFrames, IsFrame, IsSeq
<1>3. ASSUME v \in HeldBy(run), v # run.x
      PROVE  \E i \in 1..Len(run.frames) :
                v = run.frames[i].x \/ \E k \in 1..Len(run.frames[i].outs) : v = run.frames[i].outs[k]
  <2>1. PICK i \in DOMAIN run.frames :
          v \in {run.frames[i].x} \cup {run.frames[i].outs[k] : k \in DOMAIN run.frames[i].outs}
    BY <1>3 DEF HeldBy
  <2>2. QED
    BY <1>1, <1>2, <2>1
<1>4. ASSUME NEW i \in 1..Len(run.frames),
             v = run.frames[i].x \/ \E k \in 1..Len(run.frames[i].outs) : v = run.frames[i].outs[k]
      PROVE  v \in HeldBy(run)
  <2>1. v \in {run.frames[i].x} \cup {run.frames[i].outs[k] : k \in DOMAIN run.frames[i].outs}
    BY <1>2, <1>4
  <2>2. QED
    BY <1>1, <2>1 DEF HeldBy
<1>5. run.x \in HeldBy(run)
  BY DEF HeldBy
<1>6. QED
  BY <1>3, <1>4, <1>5

(* A run holds what its open compounds hold.                                *)
LEMMA HeldFrame ==
  ASSUME NEW b, NEW run, RunOK(b, run), NEW i \in 1..Len(run.frames)
  PROVE  run.frames[i].x \in HeldBy(run) /\ \A k \in 1..Len(run.frames[i].outs) : run.frames[i].outs[k] \in HeldBy(run)
<1> DEFINE f == run.frames[i]
<1>1. f.x \in HeldBy(run)
  BY HeldParts
<1>2. ASSUME NEW k \in 1..Len(f.outs) PROVE f.outs[k] \in HeldBy(run)
  BY HeldParts
<1>3. QED
  BY <1>1, <1>2

(* A value of one of the values in S, or newly made.                         *)
From(y, S) == y.at = Fresh \/ \E v \in S : y.at = v.at /\ y.rows = v.rows

(* What a leaf computes is new, or it is its input itself.                  *)
LEMMA LeafFrom ==
  ASSUME NEW n, NEW x, IsValue(x)
  PROVE  From(LeafForward(n, x), {x})
<1>1. \A accepted, kind, cols, lens, rows : From(If(accepted, Value(kind, cols, lens, rows)), {x})
  BY DEF From, If, Value, Refused
<1>2. \A accepted, cols, rows : From(If(accepted, Matrix(cols, rows)), {x})
  BY <1>1 DEF Matrix
<1>3. \A accepted, kind : From(If(accepted, [x EXCEPT !.kind = kind, !.at = Fresh]), {x})
  BY DEF From, If, Value, Refused, IsValue
<1>4. From(x, {x}) /\ \A accepted : From(If(accepted, x), {x})
  BY DEF From, If, Value, Refused
<1>5. /\ From(HashEmbedForward(n, x), {x}) /\ From(MaxoutForward(n, x), {x}) /\ From(LayerNormForward(n, x), {x})
      /\ From(LinearForward(n, x), {x}) /\ From(SoftmaxForward(n, x), {x}) /\ From(MishForward(n, x), {x})
  BY <1>2 DEF HashEmbedForward, MaxoutForward, LayerNormForward, LinearForward, SoftmaxForward, MishForward
<1>6. /\ From(DropoutForward(x), {x}) /\ From(ExpandWindowForward(n, x), {x})
      /\ From(PrecomputableAffineForward(n, x), {x})
  BY <1>2, <1>4 DEF DropoutForward, ExpandWindowForward, PrecomputableAffineForward
<1>7. From(StaticVectorsForward(n, x), {x}) /\ From(ExtractFeatures(n, x), {x})
  BY <1>1 DEF StaticVectorsForward, ExtractFeatures
<1>8. From(List2RaggedForward(x), {x}) /\ From(Ragged2ListForward(x), {x})
  BY <1>3 DEF List2RaggedForward, Ragged2ListForward
<1>9. From(List2ArrayForward(x), {x}) /\ From(IntsGetitemForward(n, x), {x})
  BY <1>1, <1>2 DEF List2ArrayForward, IntsGetitemForward
<1>10. QED
  BY <1>4, <1>5, <1>6, <1>7, <1>8, <1>9 DEF LeafForward

(* What a compound gives its first child is new, or its input.              *)
LEMMA OpenedFrom ==
  ASSUME NEW n, NEW x, IsValue(x)
  PROVE  From(Opened(n, x), {x})
<1>1. \A kind, lens : From([x EXCEPT !.kind = kind, !.lens = lens], {x})
  BY DEF From, IsValue
<1>2. \A cols, rows : From(Matrix(cols, rows), {x}) /\ From(Refused, {x})
  BY DEF From, Matrix, Value, Refused
<1>3. From(Flattened(n, x), {x})
  BY <1>1, <1>2 DEF Flattened
<1>4. From(x, {x}) /\ \A accepted : From(If(accepted, x), {x})
  BY DEF From, If, Value, Refused
<1>5. QED
  BY <1>3, <1>4 DEF Opened

(* What a compound returns is new, or its first output: concatenate copies, *)
(* chain, residual and with_array hand on.                                  *)
LEMMA JoinedFrom ==
  ASSUME NEW n, NEW x, NEW outs, IsValue(outs[1])
  PROVE  From(Joined(n, x, outs), {outs[1]})
<1> DEFINE y == outs[1]
<1>1. \A accepted, kind, cols, lens, rows : From(If(accepted, Value(kind, cols, lens, rows)), {y})
  BY DEF From, If, Value, Refused
<1>2. From(SideBySide(outs), {y})
  BY <1>1 DEF SideBySide
<1>3. From(ResidualSum(x, y), {y})
  BY <1>1 DEF ResidualSum, Matrix
<1>4. From(Unflattened(n, x, y), {y})
  <2>1. From([y EXCEPT !.kind = "ragged", !.lens = x.lens], {y})
    BY DEF From, IsValue
  <2>2. QED
    BY <1>1, <2>1 DEF Unflattened, If, From, Refused, Value
<1>5. QED
  BY <1>2, <1>3, <1>4 DEF Joined

(* The place of the node a run is at.                                        *)
At(run) == IF Returning(run) THEN Last(run.frames).node ELSE run.place

(* So what a step of a run yields is new, or one of the values the run      *)
(* holds.                                                                   *)
LEMMA ResultFrom ==
  ASSUME NEW b, NEW tree, NEW run, RunOK(b, run), \A v \in HeldBy(run) : RowsOK(v),
         IsNode(tree[At(run)]), Returning(run) => tree[At(run)].kind \in Compounds
  PROVE  LET y == Result(tree, run) IN RowsOK(y) /\ From(y, HeldBy(run))
<1> DEFINE n == NodeOf(tree, run)
           f == Last(run.frames)
           y == Result(tree, run)
<1>1. n = tree[At(run)]
  BY DEF NodeOf, At
<1>2. IsNode(n) /\ (Returning(run) => n.kind \in Compounds)
  BY <1>1
<1> HIDE DEF n
<1>3. run.x \in HeldBy(run) /\ IsValue(run.x) /\ RowsOK(run.x)
  BY HeldParts DEF RunOK, Owned
<1>4. CASE Returning(run) /\ Len(f.ends) > 1
  BY <1>3, <1>4 DEF Result, From
<1>5. CASE Returning(run) /\ ~(Len(f.ends) > 1)
  <2> DEFINE outs == Append(f.outs, run.x)
  <2>1. IsFrame(b, f) /\ Len(run.frames) \in Nat \ {0} /\ f = run.frames[Len(run.frames)]
    BY <1>5, TopFrame, FrontSeq DEF Returning, RunOK, AreFrames, Last
  <2>2. f.x \in HeldBy(run) /\ \A k \in 1..Len(f.outs) : f.outs[k] \in HeldBy(run)
    <3> DEFINE i == Len(run.frames)
    <3>1. i \in 1..Len(run.frames) /\ f = run.frames[i]
      BY <2>1
    <3> HIDE DEF i, f
    <3>2. QED
      BY <3>1, HeldFrame
  <2>3. outs[1] \in HeldBy(run)
    <3>1. Len(outs) = Len(f.outs) + 1 /\ Len(f.outs) \in Nat
      BY <2>1, AppendSeq DEF IsFrame
    <3>2. outs[1] = run.x \/ (1 \in 1..Len(f.outs) /\ outs[1] = f.outs[1])
      BY <2>1, <3>1, AppendSeq DEF IsFrame
    <3>3. QED
      BY <1>3, <2>2, <3>2
  <2> HIDE DEF outs, f
  <2>4. IsValue(f.x) /\ RowsOK(f.x) /\ IsValue(outs[1]) /\ RowsOK(outs[1])
    BY <2>2, <2>3, HeldOwned DEF Owned
  <2>5. y = Joined(n, f.x, outs)
    BY <1>5 DEF Result, n, f, outs
  <2>6. RowsOK(Joined(n, f.x, outs))
    BY <1>2, <1>5, <2>4, JoinedRows
  <2>7. From(Joined(n, f.x, outs), {outs[1]})
    BY <2>4, JoinedFrom
  <2>8. QED
    BY <2>3, <2>5, <2>6, <2>7 DEF From
<1>6. CASE ~Returning(run) /\ n.kind \in Compounds
  <2>1. y = Opened(n, run.x)
    BY <1>6 DEF Result, n
  <2>2. RowsOK(Opened(n, run.x)) /\ From(Opened(n, run.x), {run.x})
    BY <1>2, <1>3, <1>6, OpenedRows, OpenedFrom
  <2>3. QED
    BY <1>3, <2>1, <2>2 DEF From
<1>7. CASE ~Returning(run) /\ n.kind \notin Compounds
  <2>1. y = LeafForward(n, run.x)
    BY <1>7 DEF Result, n
  <2>2. RowsOK(LeafForward(n, run.x)) /\ From(LeafForward(n, run.x), {run.x})
    BY <1>2, <1>3, LeafRows, LeafFrom
  <2>3. QED
    BY <1>3, <2>1, <2>2 DEF From
<1>8. QED
  BY <1>4, <1>5, <1>6, <1>7

(* A step holds nothing new but its result.                                  *)
LEMMA AdvancedHeld ==
  ASSUME NEW b, NEW tree, NEW run, RunOK(b, run), NEW y, Owned(b, y), NEW v \in HeldBy(Advanced(tree, run, y))
  PROVE  v = y \/ v \in HeldBy(run)
<1> DEFINE n == NodeOf(tree, run)
           f == Last(run.frames)
           next == Skip(tree, run.place + 1)
           g == [f EXCEPT !.ends = Tail(f.ends), !.outs = Append(f.outs, y)]
           h == [node |-> run.place, ends |-> ChildEnds(tree, run.place), x |-> run.x, outs |-> <<>>]
           after == Advanced(tree, run, y)
<1> HIDE DEF n, next
<1>1. RunOK(b, after)
  BY AdvancedOK
<1>2. run.x \in HeldBy(run)
  BY HeldParts
<1>3. IsSeq(run.frames)
  BY DEF RunOK, AreFrames
<1>4. CASE Returning(run) /\ Len(f.ends) > 1
  <2>1. IsFrame(b, f) /\ f \in {run.frames[i] : i \in 1..Len(run.frames)} /\ run.frames # <<>>
    BY <1>4, TopFrame, FrontSeq DEF Returning, RunOK, AreFrames, Last
  <2>2. f.x \in HeldBy(run) /\ \A k \in 1..Len(f.outs) : f.outs[k] \in HeldBy(run)
    <3> HIDE DEF f
    <3>1. PICK i \in 1..Len(run.frames) : f = run.frames[i]
      BY <2>1
    <3>2. QED
      BY <3>1, HeldFrame
  <2>3. after.x = f.x /\ after.frames = Append(Front(run.frames), g)
    BY <1>4 DEF Advanced, RunOK
  <2>4. g.x = f.x /\ g.outs = Append(f.outs, y)
    BY <2>1 DEF IsFrame
  <2>5. ASSUME NEW k \in 1..Len(g.outs) PROVE g.outs[k] = y \/ g.outs[k] \in HeldBy(run)
    <3>1. g.outs[k] = y \/ (k \in 1..Len(f.outs) /\ g.outs[k] = f.outs[k])
      BY <2>1, <2>4, AppendSeq DEF IsFrame
    <3>2. QED
      BY <2>2, <3>1
  <2> HIDE DEF f, g, after
  <2>6. ASSUME NEW i \in 1..Len(after.frames)
        PROVE  after.frames[i] = g \/ \E j \in 1..Len(run.frames) : after.frames[i] = run.frames[j]
    <3>1. IsSeq(Front(run.frames)) /\ Len(Front(run.frames)) = Len(run.frames) - 1 /\ Len(run.frames) \in Nat
          /\ \A j \in 1..Len(Front(run.frames)) : Front(run.frames)[j] = run.frames[j]
      BY <1>3, <2>1, FrontSeq
    <3>2. after.frames[i] = g \/ (i \in 1..Len(Front(run.frames)) /\ after.frames[i] = Front(run.frames)[i])
      BY <2>3, <3>1, AppendSeq
    <3>3. QED
      BY <3>1, <3>2
  <2>7. CASE v = after.x
    BY <2>2, <2>3, <2>7
  <2>8. CASE v # after.x
    <3>1. PICK i \in 1..Len(after.frames) :
            v = after.frames[i].x \/ \E k \in 1..Len(after.frames[i].outs) : v = after.frames[i].outs[k]
      BY <1>1, <2>8, HeldParts DEF after
    <3>2. CASE after.frames[i] = g
      BY <2>2, <2>4, <2>5, <3>1, <3>2
    <3>3. CASE \E j \in 1..Len(run.frames) : after.frames[i] = run.frames[j]
      BY <3>1, <3>3, HeldFrame
    <3>4. QED
      BY <2>6, <3>2, <3>3
  <2>9. QED
    BY <2>7, <2>8
<1>5. CASE Returning(run) /\ ~(Len(f.ends) > 1)
  <2>1. after.x = y /\ after.frames = Front(run.frames) /\ run.frames # <<>>
    BY <1>5 DEF Advanced, RunOK, Returning
  <2> HIDE DEF after
  <2>2. CASE v = after.x
    BY <2>1, <2>2
  <2>3. CASE v # after.x
    <3>1. PICK i \in 1..Len(after.frames) :
            v = after.frames[i].x \/ \E k \in 1..Len(after.frames[i].outs) : v = after.frames[i].outs[k]
      BY <1>1, <2>3, HeldParts DEF after
    <3>2. i \in 1..Len(run.frames) /\ after.frames[i] = run.frames[i]
      BY <1>3, <2>1, FrontSeq
    <3>3. QED
      BY <3>1, <3>2, HeldFrame
  <2>4. QED
    BY <2>2, <2>3
<1>6. CASE ~Returning(run) /\ n.kind \in Compounds
  <2>1. after.x = y /\ after.frames = Append(run.frames, h)
    BY <1>6 DEF Advanced, RunOK, n
  <2>2. h.x = run.x /\ Len(h.outs) = 0
    BY EmptyIsSeq
  <2> HIDE DEF after, h
  <2>3. CASE v = after.x
    BY <2>1, <2>3
  <2>4. CASE v # after.x
    <3>1. PICK i \in 1..Len(after.frames) :
            v = after.frames[i].x \/ \E k \in 1..Len(after.frames[i].outs) : v = after.frames[i].outs[k]
      BY <1>1, <2>4, HeldParts DEF after
    <3>2. after.frames[i] = h \/ (i \in 1..Len(run.frames) /\ after.frames[i] = run.frames[i])
      BY <1>3, <2>1, AppendSeq
    <3>3. CASE after.frames[i] = h
      BY <1>2, <2>2, <3>1, <3>3
    <3>4. CASE i \in 1..Len(run.frames) /\ after.frames[i] = run.frames[i]
      BY <3>1, <3>4, HeldFrame
    <3>5. QED
      BY <3>2, <3>3, <3>4
  <2>5. QED
    BY <2>3, <2>4
<1>7. CASE ~Returning(run) /\ n.kind \notin Compounds
  <2>1. after.x = y /\ after.frames = run.frames
    BY <1>7 DEF Advanced, RunOK, n
  <2> HIDE DEF after
  <2>2. CASE v = after.x
    BY <2>1, <2>2
  <2>3. CASE v # after.x
    <3>1. PICK i \in 1..Len(after.frames) :
            v = after.frames[i].x \/ \E k \in 1..Len(after.frames[i].outs) : v = after.frames[i].outs[k]
      BY <1>1, <2>3, HeldParts DEF after
    <3>2. QED
      BY <2>1, <3>1, HeldFrame
  <2>4. QED
    BY <2>2, <2>3
<1>8. QED
  BY <1>4, <1>5, <1>6, <1>7

-----------------------------------------------------------------------------
(* Where a run is.  It never goes past place top + 1.                        *)

(* A run that stops at top goes into no node after it: the node after top   *)
(* is not skipped over, and no compound that starts below the root, up to   *)
(* top, ends after it.                                                      *)
Fenced(t, top) ==
  /\ top \in 1..Len(t)
  /\ top < Len(t) => /\ t[top + 1].kind \notin Transparent
                     /\ \A i \in 2..top : t[i].kind \in Compounds =>
                          \A k \in 1..Len(ChildEnds(t, i)) : ChildEnds(t, i)[k] <= top

(* An open compound of a run: it starts before the run's place, has outputs *)
(* to come, and ends within top.                                            *)
Open(t, top, f, place) ==
  /\ f.node \in 1..(place - 1) /\ t[f.node].kind \in Compounds
  /\ IsSeq(f.ends) /\ Len(f.ends) > 0
  /\ \A k \in 1..Len(f.ends) : f.ends[k] \in 1..top

(* A run stays within top, and its open compounds are nested.               *)
Bounds(t, top, run) ==
  /\ run.last \in 1..top /\ run.place \in 1..(top + 1)
  /\ top < Len(t) => run.place > 1
  /\ \A i \in 1..Len(run.frames) : Open(t, top, run.frames[i], run.place)
  /\ \A i, j \in 1..Len(run.frames) : i < j => run.frames[i].node < run.frames[j].node

\* The nodes a run may still visit or return to.

(* The places a run may still store at: those it has not come to, and those *)
(* of its open compounds.                                                   *)
Pending(t, run) == (run.place..Len(t)) \cup {run.frames[i].node : i \in 1..Len(run.frames)}

(* They are places of the tree.                                             *)
LEMMA PendingPlaces ==
  ASSUME NEW t, NEW top, NEW run, IsTree(t), Fenced(t, top), Bounds(t, top, run)
  PROVE  Pending(t, run) \subseteq 1..Len(t)
<1>1. Len(t) \in Nat /\ top \in 1..Len(t) /\ run.place \in 1..(top + 1)
  BY TreeNodes DEF Fenced, Bounds
<1>2. ASSUME NEW i \in 1..Len(run.frames) PROVE run.frames[i].node \in 1..Len(t)
  <2>1. run.frames[i].node \in 1..(run.place - 1)
    BY DEF Bounds, Open
  <2>2. QED
    BY <1>1, <2>1
<1>3. run.place..Len(t) \subseteq 1..Len(t)
  BY <1>1
<1>4. QED
  BY <1>2, <1>3 DEF Pending

(* The node a run is at is one of them.                                      *)
LEMMA AtPending ==
  ASSUME NEW b, NEW t, NEW top, NEW run, RunOK(b, run), IsTree(t), Fenced(t, top), Bounds(t, top, run), ~Finished(run)
  PROVE  /\ At(run) \in Pending(t, run) /\ At(run) \in 1..Len(t)
         /\ Returning(run) => t[At(run)].kind \in Compounds
         /\ ~Returning(run) => run.place \in 1..top
<1> DEFINE f == Last(run.frames)
<1>1. Len(t) \in Nat /\ top \in 1..Len(t) /\ run.place \in 1..(top + 1) /\ run.last \in 1..top
  BY TreeNodes DEF Fenced, Bounds
<1>2. ASSUME run.frames # <<>>
      PROVE  /\ Open(t, top, f, run.place) /\ f.node \in Pending(t, run)
             /\ Head(f.ends) \in 1..top
  <2>1. Len(run.frames) \in Nat \ {0}
    BY <1>2, FrontSeq DEF RunOK, AreFrames
  <2>2. Open(t, top, f, run.place) /\ f.node \in Pending(t, run)
    BY <2>1 DEF Bounds, Pending, Last
  <2> HIDE DEF f
  <2>3. Len(f.ends) \in Nat /\ 1 \in 1..Len(f.ends)
    BY <2>2, LenProperties DEF Open, IsSeq
  <2>4. Head(f.ends) = f.ends[1]
    BY <2>2, <2>3 DEF Open, IsSeq
  <2>5. QED
    BY <2>2, <2>3, <2>4 DEF Open
<1>3. CASE Returning(run)
  <2>1. At(run) = f.node /\ run.frames # <<>>
    BY <1>3 DEF At, Returning
  <2>2. At(run) \in Pending(t, run) /\ t[At(run)].kind \in Compounds
    BY <1>2, <2>1 DEF Open
  <2>3. QED
    BY <1>3, <2>2, PendingPlaces
<1>4. CASE ~Returning(run)
  <2>1. At(run) = run.place
    BY <1>4 DEF At
  <2>2. run.place \in 1..top
    <3>1. CASE run.frames = <<>>
      <4>1. ~(run.place > run.last)
        BY <3>1 DEF Finished
      <4>2. QED
        BY <1>1, <4>1
    <3>2. CASE run.frames # <<>>
      <4> DEFINE e == Head(f.ends)
      <4>1. ~(run.place > e) /\ e \in 1..top
        BY <1>2, <1>4, <3>2 DEF Returning
      <4> HIDE DEF e
      <4>2. QED
        BY <1>1, <4>1
    <3>3. QED
      BY <3>1, <3>2
  <2>3. run.place \in run.place..Len(t) /\ run.place \in 1..Len(t)
    BY <1>1, <2>2
  <2>4. QED
    BY <1>4, <2>1, <2>2, <2>3 DEF Pending
<1>5. QED
  BY <1>3, <1>4

(* A run that starts is within its bounds.                                  *)
LEMMA StartBounds ==
  ASSUME NEW t, NEW top, IsTree(t), Fenced(t, top), NEW from \in 1..top, NEW last \in 1..top,
         top < Len(t) => from > 1, NEW pipe, NEW x
  PROVE  LET run == Start(pipe, t, from, last, x)
         IN  /\ Bounds(t, top, run)
             /\ Pending(t, run) \subseteq from..Len(t)
             /\ HeldBy(run) = {x} /\ run.pipe = pipe
<1> DEFINE run == Start(pipe, t, from, last, x)
           place == Skip(t, from)
<1>1. Len(t) \in Nat /\ top \in 1..Len(t)
  BY TreeNodes DEF Fenced
<1>2. place \in from..(top + 1)
  <2>1. from \in 1..(Len(t) + 1)
    BY <1>1
  <2>2. place \in from..(Len(t) + 1) /\ \A p \in from..Len(t) : t[p].kind \notin Transparent => place <= p
    BY <2>1, SkipOK
  <2> HIDE DEF place
  <2>3. CASE top < Len(t)
    <3>1. top + 1 \in from..Len(t)
      BY <1>1, <2>3
    <3>2. t[top + 1].kind \notin Transparent
      BY <2>3 DEF Fenced
    <3>3. place <= top + 1
      BY <2>2, <3>1, <3>2
    <3>4. QED
      BY <1>1, <2>2, <3>3
  <2>4. CASE ~(top < Len(t))
    BY <1>1, <2>2, <2>4
  <2>5. QED
    BY <2>3, <2>4
<1>3. run.place = place /\ run.last = last /\ run.x = x /\ run.frames = <<>> /\ run.pipe = pipe
  BY DEF Start
<1> HIDE DEF run, place
<1>4. Len(run.frames) = 0 /\ DOMAIN run.frames = {}
  BY <1>3, EmptyIsSeq
<1>5. place \in 1..(top + 1) /\ (top < Len(t) => place > 1) /\ place..Len(t) \subseteq from..Len(t)
  BY <1>1, <1>2
<1>6. Bounds(t, top, run)
  BY <1>3, <1>4, <1>5 DEF Bounds
<1>7. Pending(t, run) \subseteq from..Len(t)
  BY <1>3, <1>4, <1>5 DEF Pending
<1>8. HeldBy(run) = {x}
  BY <1>3, <1>4 DEF HeldBy
<1>9. QED
  BY <1>3, <1>6, <1>7, <1>8 DEF run

(* The place after a step into or past a node.                               *)
LEMMA NextPlace ==
  ASSUME NEW t, NEW top, IsTree(t), Fenced(t, top), NEW place \in 1..top
  PROVE  Skip(t, place + 1) \in (place + 1)..(top + 1)
<1> DEFINE next == Skip(t, place + 1)
<1>1. Len(t) \in Nat /\ top \in 1..Len(t)
  BY TreeNodes DEF Fenced
<1>2. place + 1 \in 1..(Len(t) + 1)
  BY <1>1
<1>3. next \in (place + 1)..(Len(t) + 1) /\ \A p \in (place + 1)..Len(t) : t[p].kind \notin Transparent => next <= p
  <2> DEFINE i == place + 1
  <2> HIDE DEF i
  <2>1. Skip(t, i) \in i..(Len(t) + 1) /\ \A p \in i..Len(t) : t[p].kind \notin Transparent => Skip(t, i) <= p
    BY <1>2, SkipOK DEF i
  <2>2. QED
    BY <2>1 DEF i
<1> HIDE DEF next
<1>4. CASE top < Len(t)
  <2>1. top + 1 \in (place + 1)..Len(t) /\ t[top + 1].kind \notin Transparent
    BY <1>1, <1>4 DEF Fenced
  <2>2. next <= top + 1
    BY <1>3, <2>1
  <2>3. QED
    BY <1>1, <1>3, <2>2 DEF next
<1>5. CASE ~(top < Len(t))
  BY <1>1, <1>3, <1>5 DEF next
<1>6. QED
  BY <1>4, <1>5

\* A later place with the same frames, or fewer of them.

(* A step of a run that opens no compound leaves it within its bounds, with *)
(* no place to store at that it did not have before.                        *)
LEMMA FewerFrames ==
  ASSUME NEW t, NEW top, NEW run, Bounds(t, top, run), NEW next, next.last = run.last,
         IsTree(t), Fenced(t, top),
         next.place \in run.place..(top + 1), NEW k \in Nat, k = Len(next.frames),
         \A i \in 1..k : i \in 1..Len(run.frames) /\ next.frames[i] = run.frames[i]
  PROVE  Bounds(t, top, next) /\ Pending(t, next) \subseteq Pending(t, run)
<1>1. Len(t) \in Nat /\ top \in 1..Len(t) /\ run.place \in 1..(top + 1) /\ run.last \in 1..top
      /\ (top < Len(t) => run.place > 1)
  BY TreeNodes DEF Fenced, Bounds
<1>2. next.place \in 1..(top + 1) /\ (top < Len(t) => next.place > 1) /\ next.place..Len(t) \subseteq run.place..Len(t)
      /\ 1..(run.place - 1) \subseteq 1..(next.place - 1)
  BY <1>1
<1>3. ASSUME NEW i \in 1..Len(next.frames) PROVE Open(t, top, next.frames[i], next.place)
  <2>1. Open(t, top, run.frames[i], run.place) /\ next.frames[i] = run.frames[i]
    BY DEF Bounds
  <2>2. QED
    BY <1>2, <2>1 DEF Open
<1>4. \A i, j \in 1..Len(next.frames) : i < j => next.frames[i].node < next.frames[j].node
  BY DEF Bounds
<1>5. Bounds(t, top, next)
  BY <1>1, <1>2, <1>3, <1>4 DEF Bounds
<1>6. Pending(t, next) \subseteq Pending(t, run)
  BY <1>2 DEF Pending
<1>7. QED
  BY <1>5, <1>6

\* One frame more, or another one in the place of the last.

(* So does a step that opens a compound or goes on to its next child.       *)
LEMMA MoreFrames ==
  ASSUME NEW t, NEW top, NEW run, Bounds(t, top, run), NEW next, next.last = run.last,
         IsTree(t), Fenced(t, top),
         next.place \in run.place..(top + 1), NEW k \in Nat, Len(next.frames) = k + 1,
         \A i \in 1..k : i \in 1..Len(run.frames) /\ next.frames[i] = run.frames[i],
         NEW g, next.frames[k + 1] = g, Open(t, top, g, next.place), g.node \in Pending(t, run),
         \A i \in 1..k : run.frames[i].node < g.node
  PROVE  Bounds(t, top, next) /\ Pending(t, next) \subseteq Pending(t, run)
<1>1. Len(t) \in Nat /\ top \in 1..Len(t) /\ run.place \in 1..(top + 1) /\ run.last \in 1..top
      /\ (top < Len(t) => run.place > 1)
  BY TreeNodes DEF Fenced, Bounds
<1>2. next.place \in 1..(top + 1) /\ (top < Len(t) => next.place > 1) /\ next.place..Len(t) \subseteq run.place..Len(t)
      /\ 1..(run.place - 1) \subseteq 1..(next.place - 1)
  BY <1>1
<1>3. \A i \in 1..Len(next.frames) : i \in 1..k \/ i = k + 1
  OBVIOUS
<1>4. ASSUME NEW i \in 1..Len(next.frames) PROVE Open(t, top, next.frames[i], next.place)
  <2>1. CASE i = k + 1
    BY <2>1
  <2>2. CASE i \in 1..k
    <3>1. Open(t, top, run.frames[i], run.place) /\ next.frames[i] = run.frames[i]
      BY <2>2 DEF Bounds
    <3>2. QED
      BY <1>2, <3>1 DEF Open
  <2>3. QED
    BY <1>3, <2>1, <2>2
<1>5. ASSUME NEW i \in 1..Len(next.frames), NEW j \in 1..Len(next.frames), i < j
      PROVE  next.frames[i].node < next.frames[j].node
  <2>1. i \in 1..k
    BY <1>3, <1>5
  <2>2. CASE j = k + 1
    BY <2>1, <2>2
  <2>3. CASE j \in 1..k
    BY <1>5, <2>1, <2>3 DEF Bounds
  <2>4. QED
    BY <1>3, <2>2, <2>3
<1>6. Bounds(t, top, next)
  BY <1>1, <1>2, <1>4, <1>5 DEF Bounds
<1>7. ASSUME NEW i \in 1..Len(next.frames) PROVE next.frames[i].node \in Pending(t, run)
  <2>1. CASE i = k + 1
    BY <2>1
  <2>2. CASE i \in 1..k
    BY <2>2 DEF Pending
  <2>3. QED
    BY <1>3, <2>1, <2>2
<1>8. Pending(t, next) \subseteq Pending(t, run)
  BY <1>2, <1>7 DEF Pending
<1>9. QED
  BY <1>6, <1>8

(* The tail of a sequence.                                                  *)
LEMMA TailSeq ==
  ASSUME NEW s, IsSeq(s), Len(s) > 0
  PROVE  /\ IsSeq(Tail(s)) /\ Len(s) \in Nat /\ Len(Tail(s)) = Len(s) - 1
         /\ \A i \in 1..Len(Tail(s)) : i + 1 \in 1..Len(s) /\ Tail(s)[i] = s[i + 1]
<1> DEFINE T == {s[i] : i \in 1..Len(s)}
<1>1. s \in Seq(T) /\ Len(s) \in Nat
  BY LenProperties DEF IsSeq
<1> HIDE DEF T
<1>2. Tail(s) \in Seq(T) /\ Len(Tail(s)) = Len(s) - 1
  BY <1>1
<1>3. \A i \in 1..(Len(s) - 1) : Tail(s)[i] = s[i + 1]
  BY <1>1
<1>4. \A i \in 1..(Len(s) - 1) : i + 1 \in 1..Len(s)
  BY <1>1
<1>5. IsSeq(Tail(s))
  BY <1>2, SeqFacts
<1>6. QED
  BY <1>1, <1>2, <1>3, <1>4, <1>5

(* A step stays within the bounds, and a node that has stored its result is  *)
(* not visited again.                                                        *)
LEMMA AdvancedBounds ==
  ASSUME NEW b, NEW t, NEW top, IsTree(t), Fenced(t, top), NEW run, RunOK(b, run), Bounds(t, top, run),
         ~Finished(run), NEW y, Owned(b, y)
  PROVE  LET next == Advanced(t, run, y)
         IN  /\ Bounds(t, top, next)
             /\ Pending(t, next) \subseteq Pending(t, run)
             /\ Storing(t, run) => At(run) \notin Pending(t, next)
<1> DEFINE n == NodeOf(t, run)
           f == Last(run.frames)
           next == Advanced(t, run, y)
           later == Skip(t, run.place + 1)
           goal == /\ Bounds(t, top, next)
                   /\ Pending(t, next) \subseteq Pending(t, run)
                   /\ Storing(t, run) => At(run) \notin Pending(t, next)
<1>1. n = t[At(run)]
  BY DEF NodeOf, At
<1>2. /\ At(run) \in Pending(t, run) /\ At(run) \in 1..Len(t)
      /\ Returning(run) => n.kind \in Compounds
      /\ ~Returning(run) => run.place \in 1..top
  BY <1>1, AtPending
<1>3. /\ Len(t) \in Nat /\ top \in 1..Len(t) /\ run.place \in 1..(top + 1) /\ run.last \in 1..top
      /\ (top < Len(t) => run.place > 1)
  BY TreeNodes DEF Fenced, Bounds
<1>4. IsSeq(run.frames) /\ Len(run.frames) \in Nat
  BY LenProperties DEF RunOK, AreFrames, IsSeq
<1>5. ~Returning(run) => later \in (run.place + 1)..(top + 1)
  BY <1>2, NextPlace
<1>6. Returning(run) =>
        /\ Len(run.frames) \in Nat \ {0} /\ f = run.frames[Len(run.frames)] /\ At(run) = f.node
        /\ IsFrame(b, f) /\ Open(t, top, f, run.place)
        /\ IsSeq(Front(run.frames)) /\ Len(Front(run.frames)) = Len(run.frames) - 1
        /\ \A i \in 1..Len(Front(run.frames)) : Front(run.frames)[i] = run.frames[i]
  <2> SUFFICES ASSUME Returning(run)
               PROVE /\ Len(run.frames) \in Nat \ {0} /\ f = run.frames[Len(run.frames)] /\ At(run) = f.node
                     /\ IsFrame(b, f) /\ Open(t, top, f, run.place)
                     /\ IsSeq(Front(run.frames)) /\ Len(Front(run.frames)) = Len(run.frames) - 1
                     /\ \A i \in 1..Len(Front(run.frames)) : Front(run.frames)[i] = run.frames[i]
    OBVIOUS
  <2>1. run.frames # <<>> /\ At(run) = f.node
    BY DEF Returning, At
  <2>2. Len(run.frames) \in Nat \ {0} /\ f = run.frames[Len(run.frames)]
    BY <1>4, <2>1, FrontSeq DEF Last
  <2>3. IsFrame(b, f)
    BY <2>1, TopFrame DEF RunOK
  <2>4. Open(t, top, f, run.place)
    BY <2>2 DEF Bounds
  <2>5. QED
    BY <1>4, <2>1, <2>2, <2>3, <2>4, FrontSeq
<1> HIDE DEF n, later
<1>7. CASE Returning(run) /\ Len(f.ends) > 1
  <2> DEFINE g == [f EXCEPT !.ends = Tail(f.ends), !.outs = Append(f.outs, y)]
             k == Len(run.frames) - 1
  <2>1. next.place = run.place /\ next.last = run.last /\ next.frames = Append(Front(run.frames), g)
    BY <1>7 DEF Advanced, RunOK
  <2>2. g.node = f.node /\ g.ends = Tail(f.ends)
    BY <1>6, <1>7 DEF IsFrame
  <2> HIDE DEF next, g
  <2>3. k \in Nat /\ Len(next.frames) = k + 1 /\ next.frames[k + 1] = g
        /\ \A i \in 1..k : i \in 1..Len(run.frames) /\ next.frames[i] = run.frames[i]
    <3> DEFINE s == Front(run.frames)
               T == {s[i] : i \in 1..Len(s)} \cup {g}
    <3>1. IsSeq(s) /\ Len(s) = k /\ k \in Nat /\ k + 1 = Len(run.frames) /\ \A i \in 1..k : s[i] = run.frames[i]
      BY <1>6, <1>7
    <3>2. 1..k \subseteq 1..Len(run.frames)
      BY <3>1
    <3>3. s \in [1..Len(s) -> T]
      BY <3>1 DEF IsSeq
    <3> HIDE DEF s, T, k
    <3>4. s \in Seq(T) /\ g \in T
      BY <3>1, <3>3, FunctionSeq DEF T
    <3>5. Len(Append(s, g)) = k + 1 /\ Append(s, g)[k + 1] = g /\ \A i \in 1..k : Append(s, g)[i] = s[i]
      BY <3>1, <3>4, AppendProperties
    <3>6. QED
      BY <2>1, <3>1, <3>2, <3>5 DEF s
  <2>4. Open(t, top, g, next.place)
    <3>1. Open(t, top, f, run.place) /\ IsSeq(f.ends) /\ Len(f.ends) > 0
      BY <1>6, <1>7 DEF Open
    <3>2. IsSeq(Tail(f.ends)) /\ Len(f.ends) \in Nat /\ Len(Tail(f.ends)) = Len(f.ends) - 1
          /\ \A i \in 1..Len(Tail(f.ends)) : i + 1 \in 1..Len(f.ends) /\ Tail(f.ends)[i] = f.ends[i + 1]
      BY <3>1, TailSeq
    <3>3. Len(g.ends) > 0
      BY <1>7, <2>2, <3>2
    <3>4. \A i \in 1..Len(g.ends) : g.ends[i] \in 1..top
      BY <2>2, <3>1, <3>2 DEF Open
    <3>5. QED
      BY <2>1, <2>2, <3>1, <3>2, <3>3, <3>4 DEF Open
  <2>5. g.node \in Pending(t, run)
    BY <1>2, <1>6, <1>7, <2>2
  <2>6. \A i \in 1..k : run.frames[i].node < g.node
    <3> TAKE i \in 1..k
    <3>1. i \in 1..Len(run.frames) /\ Len(run.frames) \in 1..Len(run.frames) /\ i < Len(run.frames)
      BY <1>6, <1>7
    <3>2. QED
      BY <1>6, <1>7, <2>2, <3>1 DEF Bounds
  <2>7. next.place \in run.place..(top + 1)
    BY <1>3, <2>1
  <2> HIDE DEF k
  <2>8. Bounds(t, top, next) /\ Pending(t, next) \subseteq Pending(t, run)
    BY <2>1, <2>3, <2>4, <2>5, <2>6, <2>7, MoreFrames
  <2>9. ~Storing(t, run)
    <3>1. Len(f.ends) # 1
      <4>1. Len(f.ends) \in Nat
        BY <1>6, <1>7, TailSeq DEF Open
      <4> DEFINE len == Len(f.ends)
      <4>2. len \in Nat /\ len > 1
        BY <1>7, <4>1
      <4> HIDE DEF len
      <4>3. len # 1
        BY <4>2
      <4>4. QED
        BY <4>3 DEF len
    <3>2. n.kind \in Compounds
      BY <1>2, <1>7
    <3>3. QED
      BY <3>1, <3>2 DEF Storing, n
  <2>10. QED
    BY <2>8, <2>9 DEF next
<1>8. CASE Returning(run) /\ ~(Len(f.ends) > 1)
  <2> DEFINE k == Len(run.frames) - 1
  <2>1. next.place = run.place /\ next.last = run.last /\ next.frames = Front(run.frames)
    BY <1>8 DEF Advanced, RunOK
  <2> HIDE DEF next
  <2>2. k \in Nat /\ k = Len(next.frames)
        /\ \A i \in 1..k : i \in 1..Len(run.frames) /\ next.frames[i] = run.frames[i]
    BY <1>6, <1>8, <2>1
  <2>3. next.place \in run.place..(top + 1)
    BY <1>3, <2>1
  <2>4. Bounds(t, top, next) /\ Pending(t, next) \subseteq Pending(t, run)
    <3> HIDE DEF k
    <3>1. QED
      BY <2>1, <2>2, <2>3, FewerFrames
  <2>5. f.node \in 1..(run.place - 1)
    BY <1>6, <1>8 DEF Open
  <2>6. f.node \notin run.place..Len(t)
    BY <1>3, <2>5
  <2>7. ASSUME NEW i \in 1..k PROVE run.frames[i].node # f.node
    <3>1. i \in 1..Len(run.frames) /\ Len(run.frames) \in 1..Len(run.frames) /\ i < Len(run.frames)
      BY <1>6, <1>8
    <3>2. run.frames[i].node < f.node
      BY <1>6, <1>8, <3>1 DEF Bounds
    <3>3. run.frames[i].node \in 1..(run.place - 1)
      BY <3>1 DEF Bounds, Open
    <3>4. QED
      BY <2>5, <3>2, <3>3
  <2>8. f.node \notin Pending(t, next)
    BY <2>1, <2>2, <2>6, <2>7 DEF Pending
  <2>9. QED
    BY <1>6, <1>8, <2>4, <2>8 DEF next
<1>9. CASE ~Returning(run) /\ n.kind \in Compounds
  <2> DEFINE ends == ChildEnds(t, run.place)
             g == [node |-> run.place, ends |-> ends, x |-> run.x, outs |-> <<>>]
             k == Len(run.frames)
  <2>1. next.place = later /\ next.last = run.last /\ next.frames = Append(run.frames, g)
    BY <1>9 DEF Advanced, RunOK, n, later
  <2>2. g.node = run.place /\ g.ends = ends
    OBVIOUS
  <2>3. At(run) = run.place /\ run.place \in 1..top /\ later \in (run.place + 1)..(top + 1)
    BY <1>2, <1>5, <1>9 DEF At
  <2>4. t[run.place].kind \in Compounds /\ run.place \in 1..Len(t)
    BY <1>1, <1>2, <1>9, <2>3
  <2> HIDE DEF ends
  <2>5. IsSeq(ends) /\ Len(ends) > 0 /\ \A i \in 1..Len(ends) : ends[i] \in 1..Len(t)
    BY <2>4, ChildEndsOK DEF ends
  <2>6. \A i \in 1..Len(ends) : ends[i] \in 1..top
    <3> TAKE i \in 1..Len(ends)
    <3>1. CASE top < Len(t)
      <4>1. run.place \in 2..top
        BY <1>3, <2>3, <3>1
      <4>2. ends[i] <= top
        BY <2>4, <3>1, <4>1 DEF Fenced, ends
      <4>3. ends[i] \in 1..Len(t)
        BY <2>5
      <4>4. QED
        BY <1>3, <4>2, <4>3
    <3>2. CASE ~(top < Len(t))
      <4>1. top = Len(t)
        BY <1>3, <3>2
      <4>2. QED
        BY <2>5, <4>1
    <3>3. QED
      BY <3>1, <3>2
  <2> HIDE DEF next, g
  <2>7. Open(t, top, g, next.place)
    <3>1. run.place \in 1..(next.place - 1)
      BY <1>3, <2>1, <2>3
    <3>2. QED
      BY <2>2, <2>4, <2>5, <2>6, <3>1 DEF Open
  <2>8. k \in Nat /\ Len(next.frames) = k + 1 /\ next.frames[k + 1] = g
        /\ \A i \in 1..k : i \in 1..Len(run.frames) /\ next.frames[i] = run.frames[i]
    <3> DEFINE s == run.frames
               T == {s[i] : i \in 1..Len(s)} \cup {g}
    <3>1. s \in [1..Len(s) -> T] /\ Len(s) = k /\ k \in Nat
      BY <1>4 DEF IsSeq
    <3> HIDE DEF s, T, k
    <3>2. s \in Seq(T) /\ g \in T
      BY <3>1, FunctionSeq DEF T
    <3>3. Len(Append(s, g)) = k + 1 /\ Append(s, g)[k + 1] = g /\ \A i \in 1..k : Append(s, g)[i] = s[i]
      BY <3>1, <3>2, AppendProperties
    <3>4. QED
      BY <2>1, <3>1, <3>3 DEF s
  <2>9. g.node \in Pending(t, run)
    BY <1>2, <2>2, <2>3
  <2>10. \A i \in 1..k : run.frames[i].node < g.node
    <3> TAKE i \in 1..k
    <3>1. run.frames[i].node \in 1..(run.place - 1)
      BY DEF Bounds, Open
    <3>2. QED
      BY <1>3, <2>2, <3>1
  <2>11. next.place \in run.place..(top + 1)
    BY <1>3, <2>1, <2>3
  <2> HIDE DEF k
  <2>12. Bounds(t, top, next) /\ Pending(t, next) \subseteq Pending(t, run)
    <3>1. next.last = run.last /\ k \in Nat /\ Len(next.frames) = k + 1 /\ next.frames[k + 1] = g
      BY <2>1, <2>8
    <3>2. \A i \in 1..k : i \in 1..Len(run.frames) /\ next.frames[i] = run.frames[i]
      BY <2>8
    <3>3. QED
      BY <2>7, <2>9, <2>10, <2>11, <3>1, <3>2, MoreFrames, SMTT(30)
  <2>13. ~Storing(t, run)
    BY <1>9 DEF Storing, n
  <2>14. QED
    BY <2>12, <2>13 DEF next
<1>10. CASE ~Returning(run) /\ n.kind \notin Compounds
  <2>1. next.place = later /\ next.last = run.last /\ next.frames = run.frames
    BY <1>10 DEF Advanced, RunOK, n, later
  <2>2. At(run) = run.place /\ run.place \in 1..top /\ later \in (run.place + 1)..(top + 1)
    BY <1>2, <1>5, <1>10 DEF At
  <2> HIDE DEF next
  <2>3. next.place \in run.place..(top + 1)
    BY <1>3, <2>1, <2>2
  <2> DEFINE k == Len(run.frames)
  <2>4. k \in Nat /\ k = Len(next.frames)
        /\ \A i \in 1..k : i \in 1..Len(run.frames) /\ next.frames[i] = run.frames[i]
    BY <1>4, <2>1
  <2>5. Bounds(t, top, next) /\ Pending(t, next) \subseteq Pending(t, run)
    <3> HIDE DEF k
    <3>1. QED
      BY <2>1, <2>3, <2>4, FewerFrames
  <2>6. run.place \notin next.place..Len(t)
    BY <1>3, <2>1, <2>2
  <2>7. ASSUME NEW i \in 1..Len(run.frames) PROVE run.frames[i].node # run.place
    <3>1. run.frames[i].node \in 1..(run.place - 1)
      BY DEF Bounds, Open
    <3>2. QED
      BY <1>3, <3>1
  <2>8. At(run) \notin Pending(t, next)
    BY <2>1, <2>2, <2>6, <2>7 DEF Pending
  <2>9. QED
    BY <2>5, <2>8 DEF next
<1>11. QED
  BY <1>7, <1>8, <1>9, <1>10

\* The first layer below the tok2vec of a transition model.

(* The place of the lower model: the second child of the root.              *)
Low(t) == PlaceOf(t, <<2>>)

(* The tok2vec of a transition model lies before its lower layer, which is   *)
(* where a run of it stops.                                                  *)
LEMMA ParserFence ==
  ASSUME NEW t, GoodTree(t), ParserShape(t)
  PROVE  /\ Low(t) \in 2..Len(t) /\ Len(t) \in Nat
         /\ \A i \in 2..Len(t) : i < Low(t) <=> t[i].at[1] = 1
         /\ t[Low(t)].kind = "precomputable_affine"
<1> DEFINE low == Low(t)
<1>1. IsTree(t) /\ Len(t) \in Nat /\ t[1].at = <<>> /\ HasPath(t, <<2>>)
  BY TreeNodes DEF GoodTree, ParserShape
<1>2. low \in 1..Len(t) /\ t[low].at = <<2>>
  BY <1>1, PlaceFound DEF Low
<1>3. \A i, j \in 1..Len(t) : i < j => t[i].at # t[j].at /\ t[j].at # <<>> /\ (i # 1 => t[i].at[1] <= t[j].at[1])
  BY <1>1 DEF IsTree
<1>4. \A i \in 2..Len(t) : t[i].at[1] \in Nat \ {0}
  <2> TAKE i \in 2..Len(t)
  <2>1. i \in 1..Len(t) /\ 1 \in 1..Len(t) /\ 1 < i
    BY <1>1
  <2>2. t[i].at \in Path /\ t[i].at # <<>>
    BY <1>1, <1>3, <2>1, TreeNodes
  <2> DEFINE p == t[i].at
  <2> HIDE DEF p
  <2>3. p \in Path /\ p # <<>> => p[1] \in Nat \ {0}
    <3>1. p \in Path /\ p # <<>> => Len(p) \in Nat \ {0}
      BY EmptySeq DEF Path
    <3>2. QED
      BY <3>1 DEF Path
  <2>4. QED
    BY <2>2, <2>3 DEF p
<1> HIDE DEF low
<1>5. low # 1
  <2>1. <<2>> # <<>>
    OBVIOUS
  <2>2. QED
    BY <1>1, <1>2, <2>1
<1>6. low \in 2..Len(t)
  BY <1>1, <1>2, <1>5
<1>7. t[low].at[1] = 2
  BY <1>2
<1>8. \A i \in 2..Len(t) : t[i].at[1] = 2 => t[i].at = <<2>> /\ t[i].kind = "precomputable_affine"
  BY DEF ParserShape
<1>9. ASSUME NEW i \in 2..Len(t), i < low PROVE t[i].at[1] = 1
  <2>1. i \in 1..Len(t) /\ i # 1
    BY <1>1
  <2>2. t[i].at # t[low].at /\ t[i].at[1] <= t[low].at[1]
    BY <1>2, <1>3, <1>9, <2>1
  <2>3. t[i].at[1] # 2
    BY <1>2, <1>8, <2>2
  <2> DEFINE a == t[i].at[1]
  <2>4. a <= 2 /\ a # 2 /\ a \in Nat \ {0}
    BY <1>4, <1>7, <2>2, <2>3
  <2> HIDE DEF a
  <2>5. a = 1
    BY <2>4
  <2>6. QED
    BY <2>5 DEF a
<1>10. ASSUME NEW i \in 2..Len(t), t[i].at[1] = 1 PROVE i < low
  <2>1. i \in 1..Len(t) /\ low # 1
    BY <1>1, <1>5
  <2>2. low < i => t[low].at[1] <= t[i].at[1]
    BY <1>2, <1>3, <2>1
  <2>3. ~(low < i)
    BY <1>7, <1>10, <2>2
  <2>4. low # i
    BY <1>7, <1>10
  <2>5. QED
    BY <1>2, <2>1, <2>3, <2>4
<1>11. QED
  BY <1>1, <1>6, <1>7, <1>8, <1>9, <1>10 DEF low

(* In the model of a parser the tok2vec run and the projection end before   *)
(* the lower model.                                                         *)
LEMMA ParserFenced ==
  ASSUME NEW t, GoodTree(t), ParserShape(t)
  PROVE  /\ Low(t) \in 3..Len(t) /\ Len(t) \in Nat /\ Fenced(t, Low(t) - 1) /\ Fenced(t, Len(t))
         /\ PlaceOf(t, <<1>>) \in 2..(Low(t) - 1) /\ LastOf(t, PlaceOf(t, <<1>>)) \in 2..(Low(t) - 1)
         /\ PlaceOf(t, <<1, 2>>) \in 2..(Low(t) - 1) /\ PlaceOf(t, <<1, 3>>) \in 2..(Low(t) - 1)
         /\ LastOf(t, Low(t)) \in 1..Len(t)
<1> DEFINE low == Low(t)
<1>1. /\ low \in 2..Len(t) /\ Len(t) \in Nat
      /\ \A i \in 2..Len(t) : i < low <=> t[i].at[1] = 1
      /\ t[low].kind = "precomputable_affine"
      /\ IsTree(t)
  BY ParserFence DEF GoodTree
<1>2. HasPath(t, <<1>>) /\ HasPath(t, <<1, 2>>) /\ HasPath(t, <<1, 3>>)
  BY DEF ParserShape
<1>3. LastOf(t, low) \in 1..Len(t)
  BY <1>1, LastFound
<1> HIDE DEF low
<1>4. ASSUME NEW p, HasPath(t, p), p # <<>>, p[1] = 1 PROVE PlaceOf(t, p) \in 2..(low - 1) /\ t[PlaceOf(t, p)].at = p
  <2> DEFINE i == PlaceOf(t, p)
  <2>1. i \in 1..Len(t) /\ t[i].at = p
    BY <1>1, <1>4, PlaceFound
  <2> HIDE DEF i
  <2>2. i # 1
    BY <1>1, <1>4, <2>1, TreeNodes
  <2>3. i \in 2..Len(t)
    BY <1>1, <2>1, <2>2
  <2>4. i < low
    BY <1>1, <1>4, <2>1, <2>3
  <2>5. i \in 2..(low - 1)
    BY <1>1, <2>3, <2>4
  <2>6. QED
    BY <2>1, <2>5 DEF i
<1>5. /\ PlaceOf(t, <<1>>) \in 2..(low - 1) /\ t[PlaceOf(t, <<1>>)].at = <<1>>
      /\ PlaceOf(t, <<1, 2>>) \in 2..(low - 1) /\ PlaceOf(t, <<1, 3>>) \in 2..(low - 1)
  <2>1. <<1>> # <<>> /\ <<1>>[1] = 1 /\ <<1, 2>> # <<>> /\ <<1, 2>>[1] = 1 /\ <<1, 3>> # <<>> /\ <<1, 3>>[1] = 1
    OBVIOUS
  <2>2. QED
    BY <1>2, <1>4, <2>1
<1>6. LastOf(t, PlaceOf(t, <<1>>)) \in 2..(low - 1)
  <2> DEFINE i == PlaceOf(t, <<1>>)
             j == LastOf(t, i)
  <2>1. i \in 2..(low - 1) /\ t[i].at = <<1>> /\ i \in 1..Len(t)
    BY <1>1, <1>5
  <2> HIDE DEF i
  <2>2. j \in i..Len(t) /\ Below(t, i, j)
    BY <1>1, <2>1, LastFound
  <2> HIDE DEF j
  <2>3. j \in 2..Len(t) /\ j \in 1..Len(t)
    BY <1>1, <2>1, <2>2
  <2>4. t[i].at # <<>> /\ t[i].at[1] = 1
    BY <2>1
  <2>5. t[j].at[1] = 1
    BY <1>1, <2>1, <2>2, <2>3, <2>4, BelowFirst
  <2>6. j < low
    BY <1>1, <2>3, <2>5
  <2>7. j \in 2..(low - 1)
    BY <1>1, <2>3, <2>6
  <2>8. QED
    BY <2>7 DEF i, j
<1>7. low \in 3..Len(t)
  BY <1>1, <1>6
<1>8. Fenced(t, Len(t))
  BY <1>1 DEF Fenced
<1>9. Fenced(t, low - 1)
  <2>1. low - 1 \in 1..Len(t) /\ (low - 1) + 1 = low
    BY <1>1
  <2>2. t[low].kind \notin Transparent
    BY <1>1 DEF Transparent
  <2>3. ASSUME NEW i \in 2..(low - 1), t[i].kind \in Compounds, NEW k \in 1..Len(ChildEnds(t, i))
        PROVE  ChildEnds(t, i)[k] <= low - 1
    <3> DEFINE e == ChildEnds(t, i)[k]
    <3>1. i \in 1..Len(t) /\ i # 1 /\ i \in 2..Len(t) /\ i < low
      BY <1>1
    <3>2. e \in 1..Len(t) /\ e # 1 /\ t[e].at[1] = t[i].at[1]
      BY <1>1, <2>3, <3>1, ChildEndsOK
    <3> HIDE DEF e
    <3>3. t[e].at[1] = 1 /\ e \in 2..Len(t)
      BY <1>1, <3>1, <3>2
    <3>4. e < low
      BY <1>1, <3>3
    <3>5. e <= low - 1
      BY <1>1, <3>3, <3>4
    <3>6. QED
      BY <3>5 DEF e
  <2>4. QED
    BY <2>1, <2>2, <2>3 DEF Fenced
<1>10. QED
  BY <1>1, <1>3, <1>5, <1>6, <1>7, <1>8, <1>9 DEF low

-----------------------------------------------------------------------------
(* The scratch memory.                                                       *)

(* A slice has a generation and rows.                                       *)
MemoryOK(mem) ==
  \A buf \in DOMAIN mem : mem[buf] = [gen |-> mem[buf].gen, rows |-> mem[buf].rows] /\ IsSeq(mem[buf].rows)

(* A bundle starts with no slices.                                          *)
LEMMA NoMemoryOK == MemoryOK(NoMemory)
  BY DEF MemoryOK, NoMemory

(* A slice that was never allocated reads as one of generation 0, without   *)
(* rows.                                                                    *)
LEMMA SliceOK ==
  ASSUME NEW mem, MemoryOK(mem), NEW buf
  PROVE  Slice(mem, buf) = [gen |-> Slice(mem, buf).gen, rows |-> Slice(mem, buf).rows] /\ IsSeq(Slice(mem, buf).rows)
  BY EmptyIsSeq DEF Slice, MemoryOK

(* The rows of a slice after they are stored, and all the other slices.      *)
LEMMA StoredRows ==
  ASSUME NEW mem, MemoryOK(mem), NEW buf, NEW by, NEW rows, IsSeq(rows)
  PROVE  /\ MemoryOK(Stored(mem, buf, by, rows))
         /\ \A i \in 1..Len(rows) : Stored(mem, buf, by, rows)[buf].rows[i] = [by |-> by, of |-> rows[i]]
         /\ buf \in DOMAIN Stored(mem, buf, by, rows)
         /\ \A x : x # buf => Slice(Stored(mem, buf, by, rows), x) = Slice(mem, x)
<1> DEFINE old == Slice(mem, buf)
           new == [i \in DOMAIN rows |-> [by |-> by, of |-> rows[i]]]
           rest == SubSeq(old.rows, Len(rows) + 1, Len(old.rows))
           slice == IF Len(rows) > Len(old.rows) THEN [gen |-> old.gen + 1, rows |-> new]
                    ELSE [old EXCEPT !.rows = new \o rest]
           stored == Stored(mem, buf, by, rows)
<1>1. Len(rows) \in Nat /\ DOMAIN rows = 1..Len(rows)
  BY SeqFacts DEF IsSeq
<1>2. old = [gen |-> old.gen, rows |-> old.rows] /\ IsSeq(old.rows)
  BY SliceOK
<1>3. stored = [x \in DOMAIN mem \cup {buf} |-> IF x = buf THEN slice ELSE mem[x]]
  BY DEF Stored
<1> HIDE DEF old, stored
<1>4. IsSeq(new) /\ Len(new) = Len(rows) /\ \A i \in 1..Len(rows) : new[i] = [by |-> by, of |-> rows[i]]
  <2> DEFINE T == {[by |-> by, of |-> rows[i]] : i \in 1..Len(rows)}
  <2>1. new \in [1..Len(rows) -> T]
    BY <1>1
  <2>2. \A i \in 1..Len(rows) : new[i] = [by |-> by, of |-> rows[i]]
    BY <1>1
  <2> HIDE DEF new, T
  <2>3. new \in Seq(T) /\ DOMAIN new = 1..Len(rows)
    BY <1>1, <2>1, FunctionSeq
  <2>4. IsSeq(new) /\ Len(new) \in Nat /\ DOMAIN new = 1..Len(new)
    BY <2>3, SeqFacts
  <2>5. Len(new) = Len(rows)
    BY <1>1, <2>3, <2>4
  <2>6. QED
    BY <2>2, <2>4, <2>5
<1> HIDE DEF new
<1>5. IsSeq(rest)
  <2> DEFINE S == {old.rows[i] : i \in 1..Len(old.rows)}
  <2>1. old.rows \in Seq(S) /\ Len(old.rows) \in Nat
    BY <1>2, LenProperties DEF IsSeq
  <2> HIDE DEF S
  <2>2. rest \in Seq(S)
    BY <1>1, <2>1, CutSeq
  <2>3. QED
    BY <2>2, SeqFacts
<1> HIDE DEF rest
<1>6. IsSeq(new \o rest) /\ \A i \in 1..Len(rows) : (new \o rest)[i] = new[i]
  <2> DEFINE A == {new[i] : i \in 1..Len(new)} \cup {rest[i] : i \in 1..Len(rest)}
  <2>1. new \in [1..Len(new) -> A] /\ rest \in [1..Len(rest) -> A] /\ Len(new) \in Nat /\ Len(rest) \in Nat
    BY <1>4, <1>5, LenProperties DEF IsSeq
  <2> HIDE DEF A
  <2>2. new \in Seq(A) /\ rest \in Seq(A)
    BY <2>1, FunctionSeq
  <2>3. new \o rest \in Seq(A) /\ \A i \in 1..Len(new) : (new \o rest)[i] = new[i]
    BY <2>2, ConcatProperties
  <2>4. IsSeq(new \o rest)
    BY <2>3, SeqFacts
  <2>5. QED
    BY <1>4, <2>3, <2>4
<1>7. /\ slice = [gen |-> slice.gen, rows |-> slice.rows] /\ IsSeq(slice.rows)
      /\ \A i \in 1..Len(rows) : slice.rows[i] = [by |-> by, of |-> rows[i]]
  <2>1. CASE Len(rows) > Len(old.rows)
    BY <1>4, <2>1
  <2>2. CASE ~(Len(rows) > Len(old.rows))
    <3> DEFINE both == new \o rest
    <3>1. IsSeq(both) /\ \A i \in 1..Len(rows) : both[i] = [by |-> by, of |-> rows[i]]
      BY <1>4, <1>6
    <3> HIDE DEF both
    <3>2. slice = [gen |-> old.gen, rows |-> both]
      BY <1>2, <2>2 DEF both
    <3>3. QED
      BY <3>1, <3>2
  <2>3. QED
    BY <2>1, <2>2
<1> HIDE DEF slice
<1>8. buf \in DOMAIN stored /\ stored[buf] = slice
  BY <1>3
<1>9. \A x \in DOMAIN stored : x # buf => x \in DOMAIN mem /\ stored[x] = mem[x]
  BY <1>3
<1>10. MemoryOK(stored)
  BY <1>7, <1>8, <1>9 DEF MemoryOK
<1>11. ASSUME NEW x, x # buf PROVE Slice(stored, x) = Slice(mem, x)
  BY <1>3, <1>11 DEF Slice
<1>12. QED
  BY <1>7, <1>8, <1>10, <1>11 DEF stored

(* Storing leaves what is held elsewhere as it is ...                        *)
LEMMA IntactStored ==
  ASSUME NEW mem, MemoryOK(mem), NEW buf, NEW by, NEW rows, IsSeq(rows),
         NEW v, Intact(mem, v), v.at = Fresh \/ v.at.buf # buf
  PROVE  Intact(Stored(mem, buf, by, rows), v)
<1>1. v.at.buf # buf => Slice(Stored(mem, buf, by, rows), v.at.buf) = Slice(mem, v.at.buf)
  BY StoredRows
<1> HIDE DEF Intact
<1>2. QED
  BY <1>1 DEF Intact

(* ... and what it stored can be read there.                                 *)
LEMMA IntactKept ==
  ASSUME NEW mem, MemoryOK(mem), NEW buf, NEW by, NEW y, IsSeq(y.rows),
         NEW v, v.rows = y.rows, NEW gen, v.at = [buf |-> buf, gen |-> gen, by |-> by]
  PROVE  Intact(Stored(mem, buf, by, y.rows), v)
<1> DEFINE stored == Stored(mem, buf, by, y.rows)
<1>1. buf \in DOMAIN stored /\ \A i \in 1..Len(y.rows) : stored[buf].rows[i] = [by |-> by, of |-> y.rows[i]]
  BY StoredRows
<1>2. DOMAIN v.rows = 1..Len(y.rows)
  BY SeqFacts DEF IsSeq
<1> HIDE DEF stored
<1>3. Slice(stored, v.at.buf).rows = stored[buf].rows /\ v.at.by = by
  BY <1>1 DEF Slice
<1>4. QED
  BY <1>1, <1>2, <1>3 DEF Intact, stored

(* A value newly made or made of another one is intact if that one is.       *)
LEMMA IntactFrom ==
  ASSUME NEW mem, NEW S, \A v \in S : Intact(mem, v), NEW y, From(y, S)
  PROVE  Intact(mem, y)
  BY DEF From, Intact

-----------------------------------------------------------------------------
(* What a run holds stays readable: a node a run may still reach never has   *)
(* the scratch slice of a value that is held.                                *)

(* No node at one of these places has the slice v was made in.              *)
SparedAt(b, tree, pipe, places, v) == v.at = Fresh \/ \A j \in places : v.at.buf # Buffer(b, pipe, tree[j])
Spared(b, tree, run, v) == SparedAt(b, tree, run.pipe, Pending(tree, run), v)

\* A run with what it and its call hold.

(* The run is in its bounds, and no node it may still store at has the      *)
(* slice of a value the call holds.                                         *)
Safe(b, tree, top, run, mem, others) ==
  /\ Bounds(tree, top, run)
  /\ \A v \in HeldBy(run) \cup others : RowsOK(v) /\ Intact(mem, v) /\ Spared(b, tree, run, v)

(* What is spared at some places is spared at fewer of them.                *)
LEMMA SparedLess ==
  ASSUME NEW b, NEW tree, NEW pipe, NEW places, NEW fewer, fewer \subseteq places, NEW v, SparedAt(b, tree, pipe, places, v)
  PROVE  SparedAt(b, tree, pipe, fewer, v)
  BY DEF SparedAt

(* What a value of spared values is made from is spared as they are.        *)
LEMMA SparedFrom ==
  ASSUME NEW b, NEW tree, NEW pipe, NEW places, NEW S, NEW y, From(y, S), \A v \in S : SparedAt(b, tree, pipe, places, v)
  PROVE  SparedAt(b, tree, pipe, places, y)
  BY DEF From, SparedAt

(* Two nodes of a tree have different slices.                                *)
LEMMA SparedKept ==
  ASSUME NEW b, NEW tree, IsTree(tree), NEW pipe, NEW places, places \subseteq 1..Len(tree),
         NEW i \in 1..Len(tree), i \notin places, NEW v, v.at.buf = Buffer(b, pipe, tree[i])
  PROVE  SparedAt(b, tree, pipe, places, v)
<1> SUFFICES ASSUME NEW j \in places PROVE Buffer(b, pipe, tree[i]) # Buffer(b, pipe, tree[j])
  BY DEF SparedAt
<1>1. j \in 1..Len(tree) /\ j # i
  OBVIOUS
<1>2. i < j \/ j < i
  BY <1>1, TreeNodes
<1>3. tree[i].at # tree[j].at
  BY <1>1, <1>2 DEF IsTree
<1>4. QED
  BY <1>3 DEF Buffer

(* A run that starts with spared values is safe.                            *)
LEMMA StartSafe ==
  ASSUME NEW b, NEW t, NEW top, IsTree(t), Fenced(t, top), NEW from \in 1..top, NEW last \in 1..top,
         top < Len(t) => from > 1, NEW pipe, NEW x, NEW mem, NEW others,
         \A v \in {x} \cup others : RowsOK(v) /\ Intact(mem, v) /\ SparedAt(b, t, pipe, from..Len(t), v)
  PROVE  Safe(b, t, top, Start(pipe, t, from, last, x), mem, others)
<1> DEFINE run == Start(pipe, t, from, last, x)
<1>1. Bounds(t, top, run) /\ Pending(t, run) \subseteq from..Len(t) /\ HeldBy(run) = {x} /\ run.pipe = pipe
  BY StartBounds
<1> HIDE DEF run
<1>2. ASSUME NEW v \in {x} \cup others PROVE Spared(b, t, run, v)
  BY <1>1, SparedLess DEF Spared
<1>3. QED
  BY <1>1, <1>2 DEF Safe, run

(* A step that stores nothing.                                               *)
LEMMA PassedSafe ==
  ASSUME NEW b, NEW t, NEW top, GoodTree(t), Fenced(t, top), NEW run, RunOK(b, run), ~Finished(run),
         NEW mem, NEW others, Safe(b, t, top, run, mem, others)
  PROVE  /\ Safe(b, t, top, Advanced(t, run, Result(t, run)), mem, others)
         /\ RowsOK(Result(t, run)) /\ From(Result(t, run), HeldBy(run))
<1> DEFINE y == Result(t, run)
           next == Advanced(t, run, y)
<1>1. IsTree(t) /\ AreNodes(t) /\ Bounds(t, top, run)
  BY DEF GoodTree, Safe
<1>2. /\ At(run) \in Pending(t, run) /\ At(run) \in 1..Len(t)
      /\ Returning(run) => t[At(run)].kind \in Compounds
  BY <1>1, AtPending
<1>3. RowsOK(y) /\ From(y, HeldBy(run))
  <2>1. IsNode(t[At(run)])
    BY <1>1, <1>2 DEF AreNodes
  <2>2. \A v \in HeldBy(run) : RowsOK(v)
    BY DEF Safe
  <2>3. QED
    BY <1>2, <2>1, <2>2, ResultFrom
<1>4. Owned(b, y)
  BY ResultOwned
<1> HIDE DEF y
<1>5. Bounds(t, top, next) /\ Pending(t, next) \subseteq Pending(t, run)
  BY <1>1, <1>4, AdvancedBounds
<1>6. next.pipe = run.pipe
  BY <1>4, AdvancedOK
<1>7. \A v \in HeldBy(next) : v = y \/ v \in HeldBy(run)
  BY <1>4, AdvancedHeld
<1> HIDE DEF next
<1>8. \A v \in HeldBy(run) \cup others : RowsOK(v) /\ Intact(mem, v) /\ SparedAt(b, t, run.pipe, Pending(t, run), v)
  BY DEF Safe, Spared
<1>9. Intact(mem, y) /\ SparedAt(b, t, run.pipe, Pending(t, run), y)
  BY <1>3, <1>8, IntactFrom, SparedFrom
<1>10. ASSUME NEW v \in HeldBy(next) \cup others PROVE RowsOK(v) /\ Intact(mem, v) /\ Spared(b, t, next, v)
  <2>1. RowsOK(v) /\ Intact(mem, v) /\ SparedAt(b, t, run.pipe, Pending(t, run), v)
    BY <1>3, <1>7, <1>8, <1>9
  <2>2. QED
    BY <1>5, <1>6, <2>1, SparedLess DEF Spared
<1>11. QED
  BY <1>3, <1>5, <1>10 DEF Safe, next, y

(* A step that stores its result in the slice of its node.                   *)
LEMMA StoredSafe ==
  ASSUME NEW b, NEW t, NEW top, GoodTree(t), Fenced(t, top), NEW run, RunOK(b, run), ~Finished(run), Storing(t, run),
         NEW mem, MemoryOK(mem), NEW others, Safe(b, t, top, run, mem, others),
         NEW buf, buf = Buffer(b, run.pipe, NodeOf(t, run)), NEW by, NEW gen, NEW kept,
         kept = [Result(t, run) EXCEPT !.at = [buf |-> buf, gen |-> gen, by |-> by]]
  PROVE  Safe(b, t, top, Advanced(t, run, kept), Stored(mem, buf, by, Result(t, run).rows), others)
<1> DEFINE y == Result(t, run)
           next == Advanced(t, run, kept)
           stored == Stored(mem, buf, by, y.rows)
<1>1. IsTree(t) /\ Bounds(t, top, run)
  BY DEF GoodTree, Safe
<1>2. At(run) \in Pending(t, run) /\ At(run) \in 1..Len(t)
  BY <1>1, AtPending
<1>3. buf = Buffer(b, run.pipe, t[At(run)])
  BY DEF NodeOf, At
<1>4. RowsOK(y) /\ Owned(b, y)
  BY PassedSafe, ResultOwned
<1> HIDE DEF y
<1>5. /\ kept.rows = y.rows /\ kept.lens = y.lens /\ kept.at = [buf |-> buf, gen |-> gen, by |-> by]
      /\ IsValue(kept)
  BY <1>4 DEF y, Owned, IsValue
<1>6. buf[1] = b
  BY DEF Buffer
<1>7. Owned(b, kept) /\ RowsOK(kept) /\ IsSeq(y.rows)
  BY <1>4, <1>5, <1>6 DEF Owned, RowsOK
<1>8. Bounds(t, top, next) /\ Pending(t, next) \subseteq Pending(t, run) /\ At(run) \notin Pending(t, next)
  BY <1>1, <1>7, AdvancedBounds
<1>9. next.pipe = run.pipe
  BY <1>7, AdvancedOK
<1>10. \A v \in HeldBy(next) : v = kept \/ v \in HeldBy(run)
  BY <1>7, AdvancedHeld
<1> HIDE DEF next, stored
<1>11. ASSUME NEW v \in HeldBy(run) \cup others
       PROVE  RowsOK(v) /\ Intact(stored, v) /\ Spared(b, t, next, v)
  <2>1. RowsOK(v) /\ Intact(mem, v) /\ SparedAt(b, t, run.pipe, Pending(t, run), v)
    BY DEF Safe, Spared
  <2>2. v.at = Fresh \/ v.at.buf # buf
    BY <1>2, <1>3, <2>1 DEF SparedAt
  <2>3. Intact(stored, v)
    BY <1>7, <2>1, <2>2, IntactStored DEF stored
  <2>4. QED
    BY <1>8, <1>9, <2>1, <2>3, SparedLess DEF Spared
<1>12. RowsOK(kept) /\ Intact(stored, kept) /\ Spared(b, t, next, kept)
  <2>1. Intact(stored, kept)
    <3>1. IsSeq(y.rows) /\ kept.rows = y.rows /\ kept.at = [buf |-> buf, gen |-> gen, by |-> by]
      BY <1>5, <1>7
    <3>2. Intact(Stored(mem, buf, by, y.rows), kept)
      BY <3>1, IntactKept
    <3>3. QED
      BY <3>2 DEF stored
  <2>2. Pending(t, next) \subseteq 1..Len(t)
    BY <1>1, <1>8, PendingPlaces
  <2>3. kept.at.buf = Buffer(b, run.pipe, t[At(run)])
    BY <1>3, <1>5
  <2>4. SparedAt(b, t, run.pipe, Pending(t, next), kept)
    BY <1>1, <1>2, <1>8, <2>2, <2>3, SparedKept
  <2>5. QED
    BY <1>7, <1>9, <2>1, <2>4 DEF Spared
<1>13. QED
  BY <1>8, <1>10, <1>11, <1>12 DEF Safe, next, stored, y

-----------------------------------------------------------------------------
(* The stages of a call.  The output of tok2vec, the vectors of the call, is *)
(* the only value that outlives the stage after the one that made it.        *)

(* v is new, or was made in a slice of the tok2vec pipe.                    *)
FromT(v) == v.at = Fresh \/ v.at.buf[2] = "tok2vec"

\* What may follow a stage in a plan.

(* The stages that may follow a stage (Bundle.PipeWith).                    *)
After(stage) ==
  CASE stage = "components" -> {"todoc"}
    [] stage = "project" -> {"lower"}
    [] stage = "lower" -> {"decode"}
    [] stage = "nertok2vec" -> {"nerlower"}
    [] stage = "nerlower" -> {"nerdecode"}
    [] OTHER -> {"tagger", "project", "annotate", "nertok2vec"}

(* Every stage of the plan may follow the one before it.                    *)
Linked(plan) == \A i \in 1..(Len(plan) - 1) : plan[i + 1] \in After(plan[i])

(* The pipe a run stage runs in.                                            *)
PipeOf(stage) ==
  CASE stage = "tok2vec" -> "tok2vec"
    [] stage = "tagger" -> "tagger"
    [] stage \in {"project", "lower"} -> "parser"
    [] OTHER -> "ner"

(* The last place a stage's run may come to: that of the tok2vec run and    *)
(* the projection of a parser or an entity recognizer is before its lower   *)
(* model.                                                                   *)
Top(tree, stage) == IF stage \in {"project", "nertok2vec"} THEN Low(tree) - 1 ELSE Len(tree)

\* The stages with a value of the stage before at hand.

(* The stages between the run of the lower model's input and the use of its *)
(* output.                                                                  *)
Passed == {"lower", "decode", "nerlower", "nerdecode"}

(* What a call holds in a stage: no shared vectors before the tok2vec stage *)
(* has made them, no output of a component before it has one.               *)
InStage(b, stage, tree, mem, call) ==
  /\ stage \in {"components", "todoc", "tok2vec"} => call.vectors = Nothing
  /\ stage \notin Passed => call.out = Nothing
  /\ stage \in RunStages =>
       /\ call.run.pipe = PipeOf(stage)
       /\ Safe(b, tree, Top(tree, stage), call.run, mem, {call.vectors, call.out})
       /\ stage = "tok2vec" => \A v \in HeldBy(call.run) : FromT(v)

(* What one call holds is intact, and will be until it is used.             *)
CallKept(b, pipes, mem, call) ==
  /\ \A v \in HeldBy(call.run) \cup {call.vectors, call.out} : RowsOK(v) /\ Intact(mem, v)
  /\ FromT(call.vectors)
  /\ call.plan # <<>> =>
       /\ call.docs \in Batches /\ Linked(call.plan)
       /\ InStage(b, Head(call.plan), pipes[call.run.pipe].tree, mem, call)

(* What holds of one bundle.                                                *)
KeptBy(b) ==
  /\ \A name \in DOMAIN bundles[b].pipes : PipeOK(name, bundles[b].pipes[name])
  /\ CallKept(b, bundles[b].pipes, memory, calls[b])

(* The inductive invariant behind HeldIntact: the memory and the trees are  *)
(* well formed, and what every call holds is intact and spared by every     *)
(* node that may still store.                                               *)
Kept == disk \in Disks /\ MemoryOK(memory) /\ \A b \in Bundles : KeptBy(b)

(* What is made from such values is such a value.                           *)
LEMMA FromTFrom ==
  ASSUME NEW S, \A v \in S : FromT(v), NEW y, From(y, S)
  PROVE  FromT(y)
  BY DEF FromT, From

(* A call that holds nothing holds nothing that can be overwritten.         *)
LEMMA NothingKept ==
  ASSUME NEW mem
  PROVE  /\ RowsOK(Nothing) /\ Intact(mem, Nothing) /\ FromT(Nothing) /\ Nothing.at = Fresh
         /\ HeldBy(NoRun) = {Nothing}
<1>1. Nothing.at = Fresh /\ Nothing.rows = <<>> /\ Nothing.lens = <<>>
  BY DEF Nothing, Value
<1>2. RowsOK(Nothing)
  BY <1>1, EmptyIsSeq DEF RowsOK
<1>3. NoRun.x = Nothing /\ NoRun.frames = <<>> /\ DOMAIN NoRun.frames = {}
  BY DEF NoRun
<1> HIDE DEF Nothing, NoRun
<1>4. HeldBy(NoRun) = {Nothing}
  BY <1>3 DEF HeldBy
<1>5. QED
  BY <1>1, <1>2, <1>4 DEF Intact, FromT

(* A call that is not running has nothing to keep.                          *)
LEMMA IdleKept ==
  ASSUME NEW b, NEW pipes, NEW mem
  PROVE  CallKept(b, pipes, mem, Idle)
<1>1. Idle.run = NoRun /\ Idle.vectors = Nothing /\ Idle.out = Nothing /\ Idle.plan = <<>>
  BY DEF Idle
<1> HIDE DEF Idle
<1>2. QED
  BY <1>1, NothingKept DEF CallKept

(* The rest of a plan is a plan, and begins with a stage that may follow    *)
(* its first.                                                               *)
LEMMA TailLinked ==
  ASSUME NEW plan, IsSeq(plan), plan # <<>>, Linked(plan)
  PROVE  Linked(Tail(plan)) /\ (Tail(plan) # <<>> => Head(Tail(plan)) \in After(Head(plan)))
<1>1. Len(plan) > 0 /\ Len(plan) \in Nat /\ Head(plan) = plan[1]
  BY EmptySeq, LenProperties DEF IsSeq
<1>2. /\ IsSeq(Tail(plan)) /\ Len(Tail(plan)) = Len(plan) - 1
      /\ \A i \in 1..Len(Tail(plan)) : Tail(plan)[i] = plan[i + 1]
  BY <1>1, TailSeq
<1> DEFINE rest == Tail(plan)
<1> HIDE DEF rest
<1>3. ASSUME NEW i \in 1..(Len(rest) - 1) PROVE rest[i + 1] \in After(rest[i])
  <2>1. /\ i \in 1..Len(rest) /\ i + 1 \in 1..Len(rest) /\ i + 1 \in 1..(Len(plan) - 1)
    BY <1>1, <1>2 DEF rest
  <2>2. rest[i] = plan[i + 1] /\ rest[i + 1] = plan[(i + 1) + 1]
    BY <1>2, <2>1 DEF rest
  <2>3. plan[(i + 1) + 1] \in After(plan[i + 1])
    BY <2>1 DEF Linked
  <2>4. QED
    BY <2>2, <2>3
<1>4. ASSUME rest # <<>> PROVE Head(rest) \in After(Head(plan))
  <2>1. Len(rest) \in Nat \ {0}
    BY <1>2, <1>4, EmptySeq, LenProperties DEF IsSeq, rest
  <2>2. Head(rest) = rest[1]
    BY <1>2, <2>1 DEF rest, IsSeq
  <2>3. 1 \in 1..Len(rest) /\ 1 \in 1..(Len(plan) - 1)
    BY <1>1, <1>2, <2>1 DEF rest
  <2>4. rest[1] = plan[1 + 1] /\ plan[1 + 1] \in After(plan[1])
    BY <1>2, <2>3 DEF rest, Linked
  <2>5. QED
    BY <1>1, <2>2, <2>4
<1>5. QED
  BY <1>3, <1>4 DEF Linked, rest

\* A plan that stages of S may follow, and one that may follow the first and be
\* followed by stages of R.

(* A plan after which a stage of S may come.                                *)
Ending(s, S) == IsSeq(s) /\ Linked(s) /\ (Len(s) > 0 => S \subseteq After(s[Len(s)]))

(* A part of a plan that may come before one of the stages R, given that a  *)
(* stage of S may come next.                                                *)
Piece(s, S, R) == Ending(s, R) /\ (Len(s) > 0 => s[1] \in S) /\ (Len(s) = 0 => R \subseteq S)

(* A plan goes on with a piece that may follow it.                          *)
LEMMA JoinLinked ==
  ASSUME NEW S, NEW R, NEW s, Ending(s, S), NEW t, Piece(t, S, R)
  PROVE  Ending(s \o t, R)
<1> DEFINE st == s \o t
<1>1. IsSeq(s) /\ IsSeq(t) /\ Len(s) \in Nat /\ Len(t) \in Nat
  BY LenProperties DEF Ending, Piece, IsSeq
<1>2. /\ IsSeq(st) /\ Len(st) = Len(s) + Len(t)
      /\ \A i \in 1..Len(s) : st[i] = s[i]
      /\ \A i \in 1..Len(t) : st[Len(s) + i] = t[i]
  <2> DEFINE T == {s[i] : i \in 1..Len(s)} \cup {t[i] : i \in 1..Len(t)}
  <2>1. s \in [1..Len(s) -> {s[i] : i \in 1..Len(s)}] /\ t \in [1..Len(t) -> {t[i] : i \in 1..Len(t)}]
    BY <1>1, LenProperties DEF IsSeq
  <2>2. s \in [1..Len(s) -> T] /\ t \in [1..Len(t) -> T]
    BY <2>1
  <2> HIDE DEF T
  <2>3. s \in Seq(T) /\ t \in Seq(T)
    BY <1>1, <2>2, FunctionSeq
  <2>4. st \in Seq(T) /\ Len(st) = Len(s) + Len(t)
    BY <2>3, ConcatProperties
  <2>5. \A i \in 1..(Len(s) + Len(t)) : st[i] = IF i <= Len(s) THEN s[i] ELSE t[i - Len(s)]
    BY <2>3, ConcatProperties
  <2> HIDE DEF st
  <2>6. \A i \in 1..Len(s) : st[i] = s[i]
    BY <1>1, <2>5
  <2>7. \A i \in 1..Len(t) : st[Len(s) + i] = t[i]
    <3> TAKE i \in 1..Len(t)
    <3> DEFINE m == Len(s)
               n == Len(t)
    <3>1. m \in Nat /\ n \in Nat /\ i \in 1..n
      BY <1>1
    <3> HIDE DEF m, n
    <3>2. m + i \in 1..(m + n) /\ ~(m + i <= m) /\ (m + i) - m = i
      BY <3>1
    <3>3. QED
      BY <2>5, <3>2 DEF m, n
  <2>8. QED
    BY <2>4, <2>6, <2>7, SeqFacts
<1> HIDE DEF st
<1>3. ASSUME NEW i \in 1..(Len(st) - 1) PROVE st[i + 1] \in After(st[i])
  <2>1. CASE i < Len(s)
    <3>1. i \in 1..(Len(s) - 1) /\ i \in 1..Len(s) /\ i + 1 \in 1..Len(s)
      BY <1>1, <1>2, <2>1
    <3>2. QED
      BY <1>2, <3>1 DEF Ending, Linked
  <2>2. CASE i = Len(s)
    <3>1. Len(s) > 0 /\ Len(t) > 0 /\ i \in 1..Len(s) /\ 1 \in 1..Len(t)
      BY <1>1, <1>2, <2>2
    <3>2. st[i] = s[Len(s)] /\ st[i + 1] = t[1]
      BY <1>2, <2>2, <3>1
    <3>3. QED
      BY <3>1, <3>2 DEF Ending, Piece
  <2>3. CASE i > Len(s)
    <3> DEFINE k == i - Len(s)
    <3>1. k \in 1..(Len(t) - 1) /\ k \in 1..Len(t) /\ k + 1 \in 1..Len(t) /\ i = Len(s) + k /\ i + 1 = Len(s) + (k + 1)
      BY <1>1, <1>2, <2>3
    <3> HIDE DEF k
    <3>2. st[i] = t[k] /\ st[i + 1] = t[k + 1]
      BY <1>2, <3>1
    <3>3. QED
      BY <3>1, <3>2 DEF Piece, Ending, Linked
  <2>4. QED
    BY <1>1, <1>2, <2>1, <2>2, <2>3
<1>4. Len(st) > 0 => R \subseteq After(st[Len(st)])
  <2>1. CASE Len(t) > 0
    <3>1. Len(t) \in 1..Len(t)
      BY <1>1, <2>1
    <3>2. st[Len(st)] = t[Len(t)]
      BY <1>2, <3>1
    <3>3. QED
      BY <2>1, <3>2 DEF Piece, Ending
  <2>2. CASE ~(Len(t) > 0)
    <3>1. Len(t) = 0 /\ Len(st) = Len(s)
      BY <1>1, <1>2, <2>2
    <3>2. Len(s) > 0 => st[Len(st)] = s[Len(s)]
      BY <1>1, <1>2, <3>1
    <3>3. QED
      BY <3>1, <3>2 DEF Piece, Ending
  <2>3. QED
    BY <2>1, <2>2
<1>5. QED
  BY <1>2, <1>3, <1>4 DEF Ending, Linked, st

(* Pieces of up to three stages.                                            *)
LEMMA ShortPlans ==
  /\ \A S, R : R \subseteq S => Piece(<<>>, S, R)
  /\ \A S, R, a : a \in S /\ R \subseteq After(a) => Piece(<<a>>, S, R)
  /\ \A S, R, a, b : a \in S /\ b \in After(a) /\ R \subseteq After(b) => Piece(<<a, b>>, S, R)
  /\ \A S, R, a, b, c :
       a \in S /\ b \in After(a) /\ c \in After(b) /\ R \subseteq After(c) => Piece(<<a, b, c>>, S, R)
<1>1. ASSUME NEW S, NEW R, R \subseteq S PROVE Piece(<<>>, S, R)
  BY <1>1, EmptyIsSeq DEF Piece, Ending, Linked
<1>2. ASSUME NEW S, NEW R, NEW a, a \in S, R \subseteq After(a) PROVE Piece(<<a>>, S, R)
  <2> DEFINE s == <<a>>
  <2>1. s \in Seq({a}) /\ Len(s) = 1 /\ s[1] = a
    OBVIOUS
  <2> HIDE DEF s
  <2>2. IsSeq(s)
    BY <2>1, SeqFacts
  <2>3. QED
    BY <1>2, <2>1, <2>2 DEF Piece, Ending, Linked, s
<1>3. ASSUME NEW S, NEW R, NEW a, NEW b, a \in S, b \in After(a), R \subseteq After(b)
      PROVE  Piece(<<a, b>>, S, R)
  <2> DEFINE s == <<a, b>>
  <2>1. s \in Seq({a, b}) /\ Len(s) = 2 /\ s[1] = a /\ s[2] = b
    OBVIOUS
  <2> HIDE DEF s
  <2>2. IsSeq(s)
    BY <2>1, SeqFacts
  <2>3. \A i \in 1..(Len(s) - 1) : i = 1 /\ i + 1 = 2
    BY <2>1
  <2>4. Linked(s)
    BY <1>3, <2>1, <2>3 DEF Linked
  <2>5. QED
    BY <1>3, <2>1, <2>2, <2>4 DEF Piece, Ending, s
<1>4. ASSUME NEW S, NEW R, NEW a, NEW b, NEW c, a \in S, b \in After(a), c \in After(b), R \subseteq After(c)
      PROVE  Piece(<<a, b, c>>, S, R)
  <2> DEFINE s == <<a, b, c>>
  <2>1. s \in Seq({a, b, c}) /\ Len(s) = 3 /\ s[1] = a /\ s[2] = b /\ s[3] = c
    OBVIOUS
  <2> HIDE DEF s
  <2>2. IsSeq(s)
    BY <2>1, SeqFacts
  <2>3. \A i \in 1..(Len(s) - 1) : (i = 1 /\ i + 1 = 2) \/ (i = 2 /\ i + 1 = 3)
    BY <2>1
  <2>4. Linked(s)
    BY <1>4, <2>1, <2>3 DEF Linked
  <2>5. QED
    BY <1>4, <2>1, <2>2, <2>4 DEF Piece, Ending, s
<1>5. QED
  BY <1>1, <1>2, <1>3, <1>4

(* The plan of a call is linked.                                            *)
LEMMA StagesLinked ==
  ASSUME NEW b, NEW call
  PROVE  Linked(Stages(b, call))
<1> DEFINE parts == bundles[b].parts
           some == Lens(call.docs)[1] > 0
           ner == "ner" \in parts /\ ~call.skipNER
           s1 == IF parts \cap {"tagger", "parser"} # {} THEN <<"tok2vec">> ELSE <<>>
           s2 == IF "tagger" \in parts /\ some THEN <<"tagger">> ELSE <<>>
           s3 == IF "parser" \in parts /\ some THEN <<"project", "lower", "decode">> ELSE <<>>
           s4 == <<"annotate">>
           s5 == IF ner THEN <<"nertok2vec">> ELSE <<>>
           s6 == IF ner /\ some THEN <<"nerlower", "nerdecode">> ELSE <<>>
           S1 == {"tok2vec"}
           S2 == {"tagger", "project", "annotate"}
           S3 == {"project", "annotate"}
           S4 == {"annotate"}
           S5 == {"nertok2vec"}
           S6 == IF ner THEN {"nerlower"} ELSE {}
<1>1. CASE IsBatch(call)
  <2>1. Piece(<<"tok2vec">>, S1, {})
    BY ShortPlans
  <2>2. QED
    BY <1>1, <2>1 DEF Stages, Piece, Ending
<1>2. CASE ~IsBatch(call)
  <2>1. Stages(b, call) = s1 \o s2 \o s3 \o s4 \o s5 \o s6
    BY <1>2 DEF Stages
  <2>2. Ending(s1, S2)
    <3>1. S2 \subseteq After("tok2vec")
      BY DEF After
    <3> HIDE DEF S2
    <3>2. Piece(<<"tok2vec">>, S1, S2) /\ Piece(<<>>, S2, S2)
      BY <3>1, ShortPlans
    <3>3. QED
      BY <3>2 DEF Piece
  <2>3. Piece(s2, S2, S3)
    <3>1. S3 \subseteq After("tagger") /\ S3 \subseteq S2 /\ "tagger" \in S2
      BY DEF After
    <3> HIDE DEF S2, S3
    <3>2. QED
      BY <3>1, ShortPlans
  <2>4. Piece(s3, S3, S4)
    <3>1. /\ S4 \subseteq After("decode") /\ S4 \subseteq S3 /\ "project" \in S3
          /\ "lower" \in After("project") /\ "decode" \in After("lower")
      BY DEF After
    <3> HIDE DEF S3, S4
    <3>2. QED
      BY <3>1, ShortPlans
  <2>5. Piece(s4, S4, S5)
    <3>1. S5 \subseteq After("annotate") /\ "annotate" \in S4
      BY DEF After
    <3> HIDE DEF S4, S5
    <3>2. QED
      BY <3>1, ShortPlans
  <2>6. Piece(s5, S5, S6)
    <3>1. S6 \subseteq After("nertok2vec") /\ "nertok2vec" \in S5 /\ (~ner => S6 \subseteq S5)
      BY DEF After
    <3> HIDE DEF S5, S6
    <3>2. QED
      BY <3>1, ShortPlans
  <2>7. Piece(s6, S6, {})
    <3>1. {} \subseteq After("nerdecode") /\ {} \subseteq S6 /\ (ner => "nerlower" \in S6) /\ "nerdecode" \in After("nerlower")
      BY DEF After
    <3> HIDE DEF S6
    <3>2. QED
      BY <3>1, ShortPlans
  <2> HIDE DEF s1, s2, s3, s4, s5, s6, S1, S2, S3, S4, S5, S6
  <2>8. Ending(s1 \o s2 \o s3, S4)
    BY <2>2, <2>3, <2>4, JoinLinked
  <2>9. Ending(s1 \o s2 \o s3 \o s4 \o s5, S6)
    BY <2>5, <2>6, <2>8, JoinLinked
  <2>10. Ending(s1 \o s2 \o s3 \o s4 \o s5 \o s6, {})
    BY <2>7, <2>9, JoinLinked
  <2>11. QED
    BY <2>1, <2>10 DEF Ending
<1>3. QED
  BY <1>1, <1>2

-----------------------------------------------------------------------------
(* Entering a stage.                                                         *)

(* The input of a tok2vec run has rows.                                     *)
LEMMA LensOK ==
  ASSUME NEW docs \in Batches
  PROVE  RowsOK(Docs(Lens(docs)))
<1>1. docs \in Seq(DOMAIN Tokens) /\ \A text \in DOMAIN Tokens : Len(Tokens[text]) \in Nat
  BY TextsAssumption
<1>2. Len(docs) \in Nat /\ DOMAIN docs = 1..Len(docs) /\ \A d \in 1..Len(docs) : docs[d] \in DOMAIN Tokens
  BY <1>1, LenProperties, ElementOfSeq
<1>3. \A d \in 1..Len(docs) : Len(Tokens[docs[d]]) \in Nat
  BY <1>1, <1>2
<1>4. Lens(docs) \in [1..Len(docs) -> Nat]
  BY <1>2, <1>3 DEF Lens
<1>5. Lens(docs) \in Seq(Nat)
  BY <1>2, <1>4, FunctionSeq
<1>6. QED
  BY <1>5, DocsRows

\* The part of the tree of a pipe that a stage runs.

(* Where the run of a stage starts in the tree,                             *)
FirstAt(tree, stage) ==
  CASE stage = "tok2vec" -> PlaceOf(tree, <<>>)
    [] stage = "project" -> PlaceOf(tree, <<1, 2>>)
    [] stage = "nertok2vec" -> PlaceOf(tree, <<1>>)
    [] OTHER -> PlaceOf(tree, <<2>>)

(* the last place at which it goes on,                                      *)
LastAt(tree, stage) == IF stage = "project" THEN PlaceOf(tree, <<1, 3>>) ELSE LastOf(tree, FirstAt(tree, stage))

(* and the value it starts with.                                            *)
Given(stage, call) ==
  CASE stage \in {"tok2vec", "nertok2vec"} -> Docs(Lens(call.docs))
    [] stage = "tagger" -> [call.vectors EXCEPT !.kind = "ragged"]
    [] stage = "project" -> call.vectors
    [] OTHER -> call.out

(* The run of a stage, stage by stage.                                      *)
LEMMA RunOfStage ==
  ASSUME NEW b, NEW call, Head(call.plan) \in RunStages
  PROVE  LET stage == Head(call.plan)
             tree == bundles[b].pipes[PipeOf(stage)].tree
         IN  RunOf(b, call) = Start(PipeOf(stage), tree, FirstAt(tree, stage), LastAt(tree, stage), Given(stage, call))
<1> DEFINE stage == Head(call.plan)
           tree == bundles[b].pipes[PipeOf(stage)].tree
<1> USE DEF FirstAt, LastAt, Given, PipeOf, RunOf, Tree
<1>1. CASE stage = "tok2vec"
  BY <1>1
<1>2. CASE stage = "tagger"
  BY <1>2
<1>3. CASE stage = "project"
  BY <1>3
<1>4. CASE stage = "lower"
  BY <1>4
<1>5. CASE stage = "nertok2vec"
  BY <1>5
<1>6. CASE stage = "nerlower"
  BY <1>6
<1>7. QED
  BY <1>1, <1>2, <1>3, <1>4, <1>5, <1>6 DEF RunStages

(* The run of a stage starts and ends within its fence, and the run of a    *)
(* lower model starts at it.                                                *)
LEMMA StageTree ==
  ASSUME disk \in Disks, NEW stage \in RunStages, NEW pipe, PipeOK(PipeOf(stage), pipe), ~pipe.skipped
  PROVE  LET tree == pipe.tree
             top == Top(tree, stage)
         IN  /\ GoodTree(tree) /\ Len(tree) \in Nat /\ Fenced(tree, top)
             /\ FirstAt(tree, stage) \in 1..top /\ LastAt(tree, stage) \in 1..top
             /\ top < Len(tree) => FirstAt(tree, stage) > 1
             /\ stage \in {"project", "nertok2vec"} => Low(tree) \in 1..Len(tree) /\ top + 1 = Low(tree)
             /\ stage \in {"tagger", "lower", "nerlower"} => FirstAt(tree, stage) = Low(tree)
<1> DEFINE tree == pipe.tree
           top == Top(tree, stage)
<1>1. /\ GoodTree(tree) /\ HasPath(tree, <<>>)
      /\ PipeOf(stage) = "tagger" => HasPath(tree, <<2>>)
      /\ PipeOf(stage) \in {"parser", "ner"} => ParserShape(tree)
  BY PipeTree
<1> HIDE DEF tree
<1>2. IsTree(tree) /\ Len(tree) \in Nat \ {0}
  BY <1>1, TreeNodes DEF GoodTree
<1>3. Fenced(tree, Len(tree))
  BY <1>2 DEF Fenced
<1>4. \A p : HasPath(tree, p) => PlaceOf(tree, p) \in 1..Len(tree) /\ LastOf(tree, PlaceOf(tree, p)) \in 1..Len(tree)
  <2> SUFFICES ASSUME NEW p, HasPath(tree, p)
               PROVE  PlaceOf(tree, p) \in 1..Len(tree) /\ LastOf(tree, PlaceOf(tree, p)) \in 1..Len(tree)
    OBVIOUS
  <2>1. PlaceOf(tree, p) \in 1..Len(tree)
    BY <1>2, PlaceFound
  <2> DEFINE i == PlaceOf(tree, p)
  <2> HIDE DEF i
  <2>2. i \in 1..Len(tree) => LastOf(tree, i) \in i..Len(tree)
    BY <1>2, LastFound
  <2>3. i \in 1..Len(tree) => LastOf(tree, i) \in 1..Len(tree)
    BY <1>2, <2>2
  <2>4. QED
    BY <2>1, <2>3 DEF i
<1>5. CASE stage \in {"project", "nertok2vec"}
  <2>1. ParserShape(tree)
    BY <1>1, <1>5 DEF PipeOf
  <2>2. /\ Low(tree) \in 3..Len(tree) /\ Fenced(tree, Low(tree) - 1)
        /\ PlaceOf(tree, <<1>>) \in 2..(Low(tree) - 1) /\ LastOf(tree, PlaceOf(tree, <<1>>)) \in 2..(Low(tree) - 1)
        /\ PlaceOf(tree, <<1, 2>>) \in 2..(Low(tree) - 1) /\ PlaceOf(tree, <<1, 3>>) \in 2..(Low(tree) - 1)
    BY <1>1, <2>1, ParserFenced
  <2>3. top = Low(tree) - 1
    BY <1>5 DEF Top
  <2>4. FirstAt(tree, stage) \in 2..top /\ LastAt(tree, stage) \in 2..top
    BY <1>5, <2>2, <2>3 DEF FirstAt, LastAt
  <2> DEFINE from == FirstAt(tree, stage)
             to == LastAt(tree, stage)
             low == Low(tree)
  <2> HIDE DEF from, to, low, top
  <2>5. from \in 1..top /\ to \in 1..top /\ from > 1 /\ low \in 1..Len(tree) /\ top + 1 = low
    BY <1>2, <2>2, <2>3, <2>4 DEF from, to, low
  <2>6. QED
    BY <1>1, <1>2, <1>5, <2>2, <2>3, <2>5 DEF from, to, low, top, tree
<1>6. CASE stage \notin {"project", "nertok2vec"}
  <2>1. top = Len(tree)
    BY <1>6 DEF Top
  <2>2. stage = "tok2vec" \/ stage \in {"tagger", "lower", "nerlower"}
    BY <1>6 DEF RunStages
  <2>3. CASE stage = "tok2vec"
    <3>1. FirstAt(tree, stage) = PlaceOf(tree, <<>>) /\ LastAt(tree, stage) = LastOf(tree, PlaceOf(tree, <<>>))
      BY <2>3 DEF FirstAt, LastAt
    <3>2. FirstAt(tree, stage) \in 1..top /\ LastAt(tree, stage) \in 1..top
      BY <1>1, <1>4, <2>1, <3>1
    <3>3. ~(top < Len(tree))
      BY <1>2, <2>1
    <3>4. QED
      BY <1>1, <1>2, <1>3, <2>1, <2>3, <3>2, <3>3 DEF tree
  <2>4. CASE stage \in {"tagger", "lower", "nerlower"}
    <3>1. HasPath(tree, <<2>>)
      BY <1>1, <2>4 DEF PipeOf, ParserShape
    <3>2. FirstAt(tree, stage) = PlaceOf(tree, <<2>>) /\ LastAt(tree, stage) = LastOf(tree, PlaceOf(tree, <<2>>))
      BY <2>4 DEF FirstAt, LastAt
    <3>3. FirstAt(tree, stage) \in 1..top /\ LastAt(tree, stage) \in 1..top
      BY <1>4, <2>1, <3>1, <3>2
    <3>4. ~(top < Len(tree))
      BY <1>2, <2>1
    <3>5. QED
      BY <1>1, <1>2, <1>3, <2>1, <2>4, <3>2, <3>3, <3>4 DEF tree, Low
  <2>5. QED
    BY <2>2, <2>3, <2>4
<1>7. QED
  BY <1>5, <1>6

\* What a call needs to enter the first stage of its plan.

(* A call between two stages: what it holds is intact, and spared by the    *)
(* run of the next stage.                                                   *)
Ready(b, mem, call) ==
  /\ call.docs \in Batches /\ Linked(call.plan)
  /\ \A v \in {call.vectors, call.out} : RowsOK(v) /\ Intact(mem, v)
  /\ FromT(call.vectors)
  /\ call.plan # <<>> =>
       LET stage == Head(call.plan)
           tree == bundles[b].pipes[PipeOf(stage)].tree
       IN  /\ stage \notin {"components", "todoc"}
           /\ stage = "tok2vec" => call.vectors = Nothing
           /\ stage \notin Passed => call.out = Nothing
           /\ stage \in Passed \cap RunStages => SparedAt(b, tree, PipeOf(stage), Low(tree)..Len(tree), call.out)

(* The value a stage starts with, and what the call holds besides, are      *)
(* spared by the nodes of its run.                                          *)
LEMMA GivenKept ==
  ASSUME NEW b, NEW mem, NEW call, HoldsOwn(b, call), Ready(b, mem, call), call.plan # <<>>,
         Head(call.plan) \in RunStages
  PROVE  LET stage == Head(call.plan)
             tree == bundles[b].pipes[PipeOf(stage)].tree
             x == Given(stage, call)
         IN  /\ RowsOK(x) /\ Intact(mem, x)
             /\ stage = "tok2vec" => FromT(x)
             /\ \A v \in {x, call.vectors, call.out} :
                  SparedAt(b, tree, PipeOf(stage), FirstAt(tree, stage)..Len(tree), v)
<1> DEFINE stage == Head(call.plan)
           tree == bundles[b].pipes[PipeOf(stage)].tree
           x == Given(stage, call)
           places == FirstAt(tree, stage)..Len(tree)
<1>1. /\ RowsOK(call.vectors) /\ Intact(mem, call.vectors) /\ FromT(call.vectors)
      /\ RowsOK(call.out) /\ Intact(mem, call.out) /\ IsValue(call.vectors)
  BY DEF Ready, HoldsOwn, Owned
<1>2. LET docs == Docs(Lens(call.docs)) IN RowsOK(docs) /\ docs.at = Fresh
  BY LensOK DEF Ready, Docs, Value
<1>3. Nothing.at = Fresh
  BY NothingKept
<1>4. PipeOf(stage) # "tok2vec" => SparedAt(b, tree, PipeOf(stage), places, call.vectors)
  BY <1>1 DEF SparedAt, FromT, Buffer
<1>5. stage = "tok2vec" \/ PipeOf(stage) # "tok2vec"
  BY DEF PipeOf
<1>6. SparedAt(b, tree, PipeOf(stage), places, call.vectors)
  <2>1. CASE stage = "tok2vec"
    BY <1>3, <2>1 DEF Ready, SparedAt
  <2>2. QED
    BY <1>4, <1>5, <2>1
<1>7. SparedAt(b, tree, PipeOf(stage), places, call.out)
  <2>1. CASE stage \in Passed
    <3>1. SparedAt(b, tree, PipeOf(stage), Low(tree)..Len(tree), call.out)
      BY <2>1 DEF Ready
    <3>2. stage \in {"lower", "nerlower"}
      BY <2>1 DEF Passed, RunStages
    <3>3. FirstAt(tree, stage) = Low(tree)
      BY <3>2 DEF FirstAt, Low
    <3>4. QED
      BY <3>1, <3>3
  <2>2. CASE stage \notin Passed
    BY <1>3, <2>2 DEF Ready, SparedAt
  <2>3. QED
    BY <2>1, <2>2
<1>8. CASE stage \in {"tok2vec", "nertok2vec"}
  <2>1. x = Docs(Lens(call.docs))
    BY <1>8 DEF Given
  <2>2. RowsOK(x) /\ x.at = Fresh
    BY <1>2, <2>1
  <2> HIDE DEF x, places, tree
  <2>3. Intact(mem, x) /\ FromT(x) /\ SparedAt(b, tree, PipeOf(stage), places, x)
    BY <2>2 DEF Intact, FromT, SparedAt
  <2>4. QED
    BY <1>6, <1>7, <2>2, <2>3 DEF x, places, tree
<1>9. CASE stage = "tagger"
  <2>1. x = [call.vectors EXCEPT !.kind = "ragged"]
    BY <1>9 DEF Given
  <2>2. RowsOK(x)
    <3> DEFINE v == call.vectors
    <3>1. IsValue(v) /\ RowsOK(v)
      BY <1>1
    <3> HIDE DEF v, x
    <3>2. \A kind : RowsOK([v EXCEPT !.kind = kind])
      BY <3>1, RowsUpdate
    <3>3. x = [v EXCEPT !.kind = "ragged"]
      BY <2>1 DEF v
    <3>4. QED
      BY <3>2, <3>3
  <2>3. x.at = call.vectors.at /\ x.rows = call.vectors.rows
    BY <1>1, <2>1 DEF IsValue
  <2> HIDE DEF x, places, tree
  <2>4. Intact(mem, x) /\ SparedAt(b, tree, PipeOf(stage), places, x)
    BY <1>1, <1>6, <2>3 DEF Intact, SparedAt
  <2>5. QED
    BY <1>6, <1>7, <1>9, <2>2, <2>4 DEF x, places, tree
<1>10. CASE stage = "project"
  <2>1. x = call.vectors
    BY <1>10 DEF Given
  <2>2. QED
    BY <1>1, <1>6, <1>7, <1>10, <2>1
<1>11. CASE stage \in {"lower", "nerlower"}
  <2>1. x = call.out
    BY <1>11 DEF Given
  <2>2. QED
    BY <1>1, <1>6, <1>7, <1>11, <2>1
<1>12. QED
  BY <1>8, <1>9, <1>10, <1>11 DEF RunStages

(* A call that enters its next stage keeps what it holds,                   *)
LEMMA EnteredKept ==
  ASSUME disk \in Disks, NEW b \in Bundles, NEW mem, NEW call, HoldsOwn(b, call), Ready(b, mem, call),
         \A name \in DOMAIN bundles[b].pipes : PipeOK(name, bundles[b].pipes[name]),
         call.plan \in Seq(StagesOf(bundles[b])),
         call.plan # <<>> /\ Head(call.plan) = "tok2vec" => Runs(b, "tok2vec")
  PROVE  CallKept(b, bundles[b].pipes, mem, Entered(b, call))
<1>1. CASE call.plan = <<>>
  BY <1>1, IdleKept DEF Entered
<1>2. CASE call.plan # <<>>
  <2> DEFINE stage == Head(call.plan)
             run == IF stage \in RunStages THEN RunOf(b, call) ELSE NoRun
             new == [call EXCEPT !.run = run]
             pipes == bundles[b].pipes
  <2>1. Entered(b, call) = new
    BY <1>2 DEF Entered
  <2> HIDE DEF run
  <2>2. /\ new.run = run /\ new.plan = call.plan /\ new.docs = call.docs
        /\ new.vectors = call.vectors /\ new.out = call.out
    BY DEF HoldsOwn
  <2> HIDE DEF new
  <2>3. /\ call.docs \in Batches /\ Linked(call.plan)
        /\ \A v \in {call.vectors, call.out} : RowsOK(v) /\ Intact(mem, v)
        /\ FromT(call.vectors)
        /\ stage \notin {"components", "todoc"}
        /\ stage = "tok2vec" => call.vectors = Nothing
        /\ stage \notin Passed => call.out = Nothing
    BY <1>2 DEF Ready
  <2>4. stage \in StagesOf(bundles[b])
    BY <1>2, HeadTailProperties
  <2>5. CASE stage \notin RunStages
    <3>1. run = NoRun
      BY <2>5 DEF run
    <3>2. \A v \in HeldBy(run) \cup {call.vectors, call.out} : RowsOK(v) /\ Intact(mem, v)
      BY <2>3, <3>1, NothingKept
    <3>3. InStage(b, stage, pipes[run.pipe].tree, mem, new)
      BY <2>2, <2>3, <2>5 DEF InStage
    <3>4. QED
      BY <2>1, <2>2, <2>3, <3>2, <3>3 DEF CallKept
  <2>6. CASE stage \in RunStages
    <3> DEFINE name == PipeOf(stage)
               tree == pipes[name].tree
               from == FirstAt(tree, stage)
               last == LastAt(tree, stage)
               top == Top(tree, stage)
               x == Given(stage, call)
               others == {call.vectors, call.out}
    <3>1. run = Start(name, tree, from, last, x)
      BY <2>6, RunOfStage DEF run
    <3>2. run.pipe = name
      BY <3>1 DEF Start
    <3>3. Runnable(bundles[b], name)
      <4>1. Runnable(bundles[b], RunOf(b, call).pipe)
        BY <1>2, <2>4, <2>6, RunOfOK
      <4>2. run = RunOf(b, call)
        BY <2>6 DEF run
      <4>3. QED
        BY <3>2, <4>1, <4>2
    <3>4. PipeOK(name, pipes[name]) /\ ~pipes[name].skipped
      BY <3>3 DEF Runnable
    <3>5. /\ GoodTree(tree) /\ Fenced(tree, top) /\ from \in 1..top /\ last \in 1..top
          /\ top < Len(tree) => from > 1
      <4> HIDE DEF name, tree
      <4>1. pipes[name].tree = tree
        BY DEF tree
      <4>2. QED
        BY <2>6, <3>4, <4>1, StageTree DEF name
    <3>6. /\ RowsOK(x) /\ Intact(mem, x) /\ (stage = "tok2vec" => FromT(x))
          /\ \A v \in {x, call.vectors, call.out} : SparedAt(b, tree, name, from..Len(tree), v)
      BY <1>2, <2>6, GivenKept
    <3>7. IsTree(tree)
      BY <3>5 DEF GoodTree
    <3> HIDE DEF name, tree, from, last, x, top
    <3>8. Safe(b, tree, top, Start(name, tree, from, last, x), mem, others)
      <4>1. \A v \in {x} \cup others : RowsOK(v) /\ Intact(mem, v) /\ SparedAt(b, tree, name, from..Len(tree), v)
        BY <2>3, <3>6
      <4> HIDE DEF others
      <4>2. QED
        BY <3>5, <3>7, <4>1, StartSafe
    <3>9. HeldBy(run) = {x}
      BY <3>1, <3>5, <3>7, StartBounds
    <3>10. \A v \in HeldBy(run) \cup {call.vectors, call.out} : RowsOK(v) /\ Intact(mem, v)
      BY <2>3, <3>6, <3>9
    <3>11. pipes[run.pipe].tree = tree
      BY <3>2 DEF tree
    <3>12. InStage(b, stage, tree, mem, new)
      BY <2>2, <2>3, <3>1, <3>2, <3>6, <3>8, <3>9 DEF InStage, name, top
    <3>13. QED
      BY <2>1, <2>2, <2>3, <3>10, <3>11, <3>12 DEF CallKept
  <2>7. QED
    BY <2>5, <2>6
<1>3. QED
  BY <1>1, <1>2

(* and so does one whose next stage has nothing to do.                      *)
LEMMA EnterKept ==
  ASSUME Tables, disk \in Disks, NEW b \in Bundles, NEW mem, NEW call, HoldsOwn(b, call), Ready(b, mem, call),
         \A name \in DOMAIN bundles[b].pipes : PipeOK(name, bundles[b].pipes[name]),
         call.plan \in Seq(StagesOf(bundles[b])), Enter(b, call)
  PROVE  CallKept(b, bundles[b].pipes, mem, calls'[b])
<1>1. CASE call.plan # <<>> /\ Head(call.plan) = "tok2vec" /\ ~Runs(b, "tok2vec")
  <2>1. calls' = [calls EXCEPT ![b] = Idle]
    BY <1>1 DEF Enter
  <2>2. calls'[b] = Idle
    BY <2>1 DEF Tables
  <2>3. QED
    BY <2>2, IdleKept
<1>2. CASE ~(call.plan # <<>> /\ Head(call.plan) = "tok2vec" /\ ~Runs(b, "tok2vec"))
  <2>1. calls' = [calls EXCEPT ![b] = Entered(b, call)]
    BY <1>2 DEF Enter
  <2>2. calls'[b] = Entered(b, call)
    BY <2>1 DEF Tables
  <2>3. QED
    BY <1>2, <2>2, EnteredKept
<1>3. QED
  BY <1>1, <1>2

-----------------------------------------------------------------------------
(* The steps, one by one, again.                                             *)

(* A store in another bundle's slices leaves a call as it is.               *)
LEMMA CallStays ==
  ASSUME NEW c, NEW pipes, NEW mem, NEW call, HoldsOwn(c, call), CallKept(c, pipes, mem, call),
         NEW after, \A v : Owned(c, v) /\ Intact(mem, v) => Intact(after, v)
  PROVE  CallKept(c, pipes, after, call)
<1>1. \A v \in HeldBy(call.run) \cup {call.vectors, call.out} : Owned(c, v)
  BY HeldOwned DEF HoldsOwn
<1>2. \A v \in HeldBy(call.run) \cup {call.vectors, call.out} : RowsOK(v) /\ Intact(mem, v)
  BY DEF CallKept
<1>3. \A v \in HeldBy(call.run) \cup {call.vectors, call.out} : RowsOK(v) /\ Intact(after, v)
  BY <1>1, <1>2
<1>4. ASSUME NEW stage, NEW tree, InStage(c, stage, tree, mem, call)
      PROVE  InStage(c, stage, tree, after, call)
  <2>1. stage \in RunStages => Safe(c, tree, Top(tree, stage), call.run, after, {call.vectors, call.out})
    BY <1>3, <1>4 DEF InStage, Safe
  <2>2. QED
    BY <1>4, <2>1 DEF InStage
<1>5. QED
  BY <1>3, <1>4 DEF CallKept

(* A step of one bundle that keeps its own values keeps those of the others *)
(* too.                                                                     *)
LEMMA KeptStep ==
  ASSUME IInv, Kept, NEW b \in Bundles, disk' = disk, MemoryOK(memory'),
         \A c \in Bundles \ {b} : bundles'[c] = bundles[c] /\ calls'[c] = calls[c],
         \A c \in Bundles \ {b} : \A v : Owned(c, v) /\ Intact(memory, v) => Intact(memory', v),
         \A name \in DOMAIN bundles'[b].pipes : PipeOK(name, bundles'[b].pipes[name]),
         CallKept(b, bundles'[b].pipes, memory', calls'[b])
  PROVE  Kept'
<1>1. ASSUME NEW c \in Bundles \ {b} PROVE KeptBy(c)'
  <2>1. KeptBy(c) /\ HoldsOwn(c, calls[c])
    BY DEF Kept, IInv, InvOf, CallOK
  <2>2. CallKept(c, bundles[c].pipes, memory', calls[c])
    BY <2>1, CallStays DEF KeptBy
  <2>3. \A name \in DOMAIN bundles[c].pipes : PipeOK(name, bundles[c].pipes[name])
    BY <2>1 DEF KeptBy
  <2>4. QED
    BY <2>2, <2>3 DEF KeptBy, PipeOK, Factory, ModelCfg
<1>2. KeptBy(b)'
  BY DEF KeptBy, PipeOK, Factory, ModelCfg
<1>3. disk' \in Disks
  BY DEF Kept
<1>4. QED
  BY <1>1, <1>2, <1>3 DEF Kept

(* A step that stores nothing and loads nothing.                             *)
LEMMA QuietKept ==
  ASSUME IInv, Kept, NEW b \in Bundles, disk' = disk, memory' = memory,
         \E u : bundles' = [bundles EXCEPT ![b] = u] /\ u.pipes = bundles[b].pipes,
         \E call : calls' = [calls EXCEPT ![b] = call], CallKept(b, bundles[b].pipes, memory, calls'[b])
  PROVE  Kept'
<1>1. Tables /\ MemoryOK(memory) /\ KeptBy(b)
  BY DEF IInv, Kept
<1>2. bundles'[b].pipes = bundles[b].pipes /\ \A c \in Bundles \ {b} : bundles'[c] = bundles[c]
  BY <1>1 DEF Tables
<1>3. \A c \in Bundles \ {b} : calls'[c] = calls[c]
  BY <1>1 DEF Tables
<1>4. \A name \in DOMAIN bundles'[b].pipes : PipeOK(name, bundles'[b].pipes[name])
  BY <1>1, <1>2 DEF KeptBy
<1>5. QED
  BY <1>1, <1>2, <1>3, <1>4, KeptStep

(* Every call starts without values.                                        *)
LEMMA InitKept == Init => Kept
<1> SUFFICES ASSUME Init PROVE Kept
  OBVIOUS
<1>1. disk \in Disks /\ MemoryOK(memory)
  BY NoMemoryOK DEF Init
<1>2. ASSUME NEW b \in Bundles PROVE KeptBy(b)
  <2>1. bundles[b] = Absent /\ calls[b] = Idle
    BY DEF Init
  <2>2. DOMAIN Absent.pipes = {}
    BY DEF Absent
  <2>3. QED
    BY <2>1, <2>2, IdleKept DEF KeptBy
<1>3. QED
  BY <1>1, <1>2 DEF Kept

(* A call that is not made keeps what it holds, which is nothing of a pipe.  *)
LEMMA StillIdle ==
  ASSUME NEW b, NEW pipes, NEW more, NEW mem, NEW call, call.plan = <<>>, CallKept(b, pipes, mem, call)
  PROVE  CallKept(b, more, mem, call)
  BY DEF CallKept

(* FromDisk makes pipes from what the factories build.                      *)
LEMMA FromDiskKept ==
  ASSUME IInv, Kept, FromDisk
  PROVE  Kept'
<1>1. Tables /\ Phases /\ MemoryOK(memory) /\ KeptBy(1) /\ CallOK(1, bundles[1], calls[1]) /\ 1 \in Bundles
  BY BundlesAssumption DEF IInv, InvOf, Kept
<1>2. disk' = disk /\ memory' = memory /\ calls' = calls
  BY DEF FromDisk
<1>3. CASE phase' = "failed"
  <2>1. bundles' = bundles
    BY <1>3 DEF FromDisk
  <2>2. \A name \in DOMAIN bundles'[1].pipes : PipeOK(name, bundles'[1].pipes[name])
    BY <1>1, <2>1 DEF KeptBy
  <2>3. CallKept(1, bundles'[1].pipes, memory', calls'[1])
    BY <1>1, <1>2, <2>1 DEF KeptBy
  <2>4. QED
    BY <1>1, <1>2, <2>1, <2>2, <2>3, KeptStep
<1>4. CASE phase' # "failed"
  <2> DEFINE pipes == [name \in ToSet(Pipeline) |-> LoadPipe(name)]
             u == [Absent EXCEPT !.loaded = TRUE, !.strings = 1, !.lexemes = 1, !.pipes = pipes]
  <2>1. /\ \A name \in ToSet(Pipeline) : ~Aborts(name)
        /\ bundles' = [bundles EXCEPT ![1] = u] /\ phase = "load"
    BY <1>4 DEF FromDisk
  <2>2. u.pipes = pipes
    BY DEF Absent
  <2>3. ASSUME NEW name \in DOMAIN pipes PROVE PipeOK(name, pipes[name])
    <3>1. name \in ToSet(Pipeline) /\ pipes[name] = LoadPipe(name)
      OBVIOUS
    <3>2. PipeOK(name, LoadPipe(name))
      BY <2>1, <3>1, LoadPipeOK DEF Kept
    <3>3. QED
      BY <3>1, <3>2
  <2> HIDE DEF u, pipes
  <2>4. bundles'[1] = u /\ \A c \in Bundles \ {1} : bundles'[c] = bundles[c]
    BY <1>1, <2>1 DEF Tables
  <2>5. calls[1].plan = <<>>
    BY <1>1, <2>1 DEF Phases, CallOK
  <2>6. CallKept(1, u.pipes, memory, calls[1])
    BY <1>1, <2>5, StillIdle DEF KeptBy
  <2>7. \A name \in DOMAIN bundles'[1].pipes : PipeOK(name, bundles'[1].pipes[name])
    BY <2>2, <2>3, <2>4
  <2>8. QED
    BY <1>1, <1>2, <2>4, <2>6, <2>7, KeptStep
<1>5. QED
  BY <1>3, <1>4

(* Clone fills in a newly built tree, and stores nothing.                   *)
LEMMA CloneKept ==
  ASSUME IInv, Kept, NEW b \in Bundles, Clone(b)
  PROVE  Kept'
<1> DEFINE pipes == [name \in DOMAIN bundles[1].pipes |-> ClonePipe(bundles[1].pipes[name], name, b)]
           v == [Absent EXCEPT !.loaded = TRUE, !.strings = b, !.lexemes = b, !.pipes = pipes]
<1>1. /\ Tables /\ MemoryOK(memory) /\ KeptBy(1) /\ KeptBy(b) /\ CallOK(b, bundles[b], calls[b]) /\ disk \in Disks
  BY BundlesAssumption DEF IInv, InvOf, Kept
<1>2. disk' = disk /\ memory' = memory /\ calls' = calls /\ bundles' = [bundles EXCEPT ![b] = v] /\ ~bundles[b].loaded
  BY DEF Clone
<1>3. v.pipes = pipes
  BY DEF Absent
<1>4. ASSUME NEW name \in DOMAIN pipes PROVE PipeOK(name, pipes[name])
  <2>1. name \in DOMAIN bundles[1].pipes /\ pipes[name] = ClonePipe(bundles[1].pipes[name], name, b)
    OBVIOUS
  <2>2. PipeOK(name, bundles[1].pipes[name])
    BY <1>1, <2>1 DEF KeptBy
  <2>3. PipeOK(name, ClonePipe(bundles[1].pipes[name], name, b))
    BY <1>1, <2>2, ClonePipeOK
  <2>4. QED
    BY <2>1, <2>3
<1> HIDE DEF v, pipes
<1>5. bundles'[b] = v /\ \A c \in Bundles \ {b} : bundles'[c] = bundles[c]
  BY <1>1, <1>2 DEF Tables
<1>6. calls[b].plan = <<>>
  BY <1>1, <1>2 DEF CallOK
<1>7. CallKept(b, v.pipes, memory, calls[b])
  BY <1>1, <1>6, StillIdle DEF KeptBy
<1>8. \A name \in DOMAIN bundles'[b].pipes : PipeOK(name, bundles'[b].pipes[name])
  BY <1>3, <1>4, <1>5
<1>9. QED
  BY <1>1, <1>2, <1>5, <1>7, <1>8, KeptStep

(* A call starts with a linked plan and holds nothing.                      *)
LEMMA CallStepKept ==
  ASSUME IInv, Kept, NEW b \in Bundles, NEW docs \in Batches, NEW skipNER, Call(b, docs, skipNER)
  PROVE  Kept'
<1> DEFINE plan == IF Len(docs) > 1 THEN <<"todoc">> ELSE <<"components", "todoc">>
           call == [Idle EXCEPT !.docs = docs, !.skipNER = skipNER, !.plan = plan]
<1>1. Tables /\ disk' = disk /\ memory' = memory /\ bundles' = bundles /\ calls' = [calls EXCEPT ![b] = call]
  BY DEF IInv, Call
<1>2. /\ call.docs = docs /\ call.plan = plan /\ call.run = NoRun /\ call.vectors = Nothing /\ call.out = Nothing
  BY DEF Idle
<1>3. Linked(plan) /\ Head(plan) \notin RunStages
  <2>1. CASE Len(docs) > 1
    <3>1. Piece(<<"todoc">>, {"todoc"}, {})
      BY ShortPlans
    <3>2. plan = <<"todoc">> /\ Head(<<"todoc">>) = "todoc"
      BY <2>1
    <3>3. QED
      BY <3>1, <3>2 DEF Piece, Ending, RunStages
  <2>2. CASE ~(Len(docs) > 1)
    <3>1. Piece(<<"components", "todoc">>, {"components"}, {})
      <4>1. "todoc" \in After("components")
        BY DEF After
      <4>2. QED
        BY <4>1, ShortPlans
    <3>2. plan = <<"components", "todoc">> /\ Head(<<"components", "todoc">>) = "components"
      BY <2>2
    <3>3. QED
      BY <3>1, <3>2 DEF Piece, Ending, RunStages
  <2>3. QED
    BY <2>1, <2>2
<1> HIDE DEF plan, call
<1>4. CallKept(b, bundles[b].pipes, memory, call)
  BY <1>2, <1>3, NothingKept DEF CallKept, InStage
<1>5. calls'[b] = call
  BY <1>1 DEF Tables
<1>6. \E u : bundles' = [bundles EXCEPT ![b] = u] /\ u.pipes = bundles[b].pipes
  <2>1. bundles' = [bundles EXCEPT ![b] = bundles[b]]
    BY <1>1 DEF Tables
  <2>2. QED
    BY <2>1
<1>7. QED
  BY <1>1, <1>4, <1>5, <1>6, QuietKept

(* The bundles are as they were.                                             *)
LEMMA SameBundles ==
  ASSUME Tables, bundles' = bundles, NEW b \in Bundles
  PROVE  \E u : bundles' = [bundles EXCEPT ![b] = u] /\ u.pipes = bundles[b].pipes
<1>1. bundles' = [bundles EXCEPT ![b] = bundles[b]]
  BY DEF Tables
<1>2. QED
  BY <1>1

(* Loading the components leaves the pipes and the values alone.            *)
LEMMA EnsureComponentsKept ==
  ASSUME IInv, Kept, NEW b \in Bundles, EnsureComponents(b)
  PROVE  Kept'
<1> DEFINE u == bundles[b]
           call == [calls[b] EXCEPT !.plan = <<"todoc">>]
           v == [u EXCEPT !.ready = TRUE, !.parts = Components(b), !.posCache = b]
<1>1. Tables /\ BundleOK(b, u) /\ CallOK(b, u, calls[b]) /\ KeptBy(b)
  BY DEF IInv, InvOf, Kept
<1>2. calls[b].plan = <<"components", "todoc">> /\ Tail(calls[b].plan) = <<"todoc">> /\ Head(calls[b].plan) = "components"
  <2>1. calls[b].plan # <<>> /\ Head(calls[b].plan) = "components"
    BY DEF EnsureComponents, Busy
  <2>2. "components" \notin StagesOf(u) /\ "components" # "todoc"
    BY DEF StagesOf
  <2>3. QED
    BY <1>1, <2>1, <2>2, HeadPlan DEF CallOK
<1>3. disk' = disk /\ memory' = memory /\ calls' = [calls EXCEPT ![b] = call]
  BY <1>1, <1>2 DEF EnsureComponents, Tables
<1>4. \E w : bundles' = [bundles EXCEPT ![b] = w] /\ w.pipes = u.pipes
  <2>1. CASE u.ready
    <3>1. bundles' = bundles
      BY <2>1 DEF EnsureComponents
    <3>2. QED
      BY <1>1, <3>1, SameBundles
  <2>2. CASE ~u.ready
    <3>1. bundles' = [bundles EXCEPT ![b].ready = TRUE, ![b].parts = Components(b), ![b].posCache = b]
      BY <2>2 DEF EnsureComponents
    <3>2. bundles' = [bundles EXCEPT ![b] = v]
      BY <1>1, <3>1 DEF Tables
    <3>3. v.pipes = u.pipes
      BY <1>1 DEF BundleOK
    <3>4. QED
      BY <3>2, <3>3
  <2>3. QED
    BY <2>1, <2>2
<1>5. /\ call.plan = <<"todoc">> /\ call.docs = calls[b].docs /\ call.run = calls[b].run
      /\ call.vectors = calls[b].vectors /\ call.out = calls[b].out
  BY <1>1 DEF CallOK, HoldsOwn
<1>6. Linked(<<"todoc">>) /\ Head(<<"todoc">>) = "todoc"
  <2>1. Piece(<<"todoc">>, {"todoc"}, {})
    BY ShortPlans
  <2>2. QED
    BY <2>1 DEF Piece, Ending
<1>7. /\ calls[b].docs \in Batches /\ calls[b].vectors = Nothing /\ calls[b].out = Nothing
      /\ \A w \in HeldBy(calls[b].run) \cup {calls[b].vectors, calls[b].out} : RowsOK(w) /\ Intact(memory, w)
      /\ FromT(calls[b].vectors)
  BY <1>1, <1>2 DEF KeptBy, CallKept, InStage, Passed
<1> HIDE DEF call, v
<1>8. CallKept(b, u.pipes, memory, call)
  BY <1>5, <1>6, <1>7 DEF CallKept, InStage, RunStages
<1>9. calls'[b] = call
  BY <1>1, <1>3 DEF Tables
<1>10. QED
  BY <1>3, <1>4, <1>8, <1>9, QuietKept

(* Tokenizing enters the tok2vec stage, or the first one after it.          *)
LEMMA ToDocKept ==
  ASSUME IInv, Kept, NEW b \in Bundles, ToDoc(b)
  PROVE  Kept'
<1> DEFINE u == bundles[b]
           begun == [calls[b] EXCEPT !.plan = Stages(b, calls[b])]
<1>1. Tables /\ BundleOK(b, u) /\ CallOK(b, u, calls[b]) /\ KeptBy(b) /\ disk \in Disks
  BY DEF IInv, InvOf, Kept
<1>2. /\ calls[b].plan # <<>> /\ Head(calls[b].plan) = "todoc" /\ Enter(b, begun)
      /\ disk' = disk /\ memory' = memory /\ bundles' = bundles
  BY DEF ToDoc, Busy
<1>3. u.loaded
  BY <1>1, <1>2 DEF CallOK
<1>4. /\ HoldsOwn(b, begun) /\ begun.plan = Stages(b, calls[b]) /\ begun.docs = calls[b].docs
      /\ begun.vectors = calls[b].vectors /\ begun.out = calls[b].out
  BY <1>1 DEF CallOK, HoldsOwn
<1>5. /\ calls[b].docs \in Batches /\ calls[b].vectors = Nothing /\ calls[b].out = Nothing
  BY <1>1, <1>2 DEF KeptBy, CallKept, InStage, Passed
<1> HIDE DEF begun
<1>6. begun.plan \in Seq(StagesOf(u)) /\ Linked(begun.plan)
  BY <1>1, <1>2, <1>4, ReadyToDoc, StagesOK, StagesLinked
<1>7. begun.plan # <<>> => Head(begun.plan) \notin {"components", "todoc"}
  <2>1. begun.plan # <<>> => Head(begun.plan) \in StagesOf(u)
    BY <1>6, HeadTailProperties
  <2>2. QED
    BY <2>1 DEF StagesOf
<1>8. Ready(b, memory, begun)
  BY <1>4, <1>5, <1>6, <1>7, NothingKept DEF Ready, SparedAt
<1>9. \A name \in DOMAIN u.pipes : PipeOK(name, u.pipes[name])
  BY <1>1 DEF KeptBy
<1>10. CallKept(b, u.pipes, memory, calls'[b])
  BY <1>1, <1>2, <1>4, <1>6, <1>8, <1>9, EnterKept
<1>11. \E new : calls' = [calls EXCEPT ![b] = new]
  BY <1>1, <1>2, <1>3, <1>4, <1>6, EnterOK
<1>12. QED
  BY <1>1, <1>2, <1>10, <1>11, SameBundles, QuietKept

\* The stage after one that is not at the beginning of a call.

(* A stage after the tokenizer's is followed by one that may follow it.     *)
LEMMA NextStage ==
  ASSUME NEW b, NEW u, NEW call, CallOK(b, u, call), call.plan # <<>>, Linked(call.plan),
         Head(call.plan) \notin {"components", "todoc"}
  PROVE  /\ Tail(call.plan) \in Seq(StagesOf(u)) /\ Linked(Tail(call.plan)) /\ u.loaded
         /\ Tail(call.plan) # <<>> => /\ Head(Tail(call.plan)) \in After(Head(call.plan))
                                      /\ Head(Tail(call.plan)) \notin {"components", "todoc", "tok2vec"}
<1>1. call.plan \in Seq(StagesOf(u)) /\ Tail(call.plan) \in Seq(StagesOf(u)) /\ u.loaded
  BY HeadPlan DEF CallOK
<1>2. IsSeq(call.plan)
  BY <1>1, SeqFacts
<1>3. Linked(Tail(call.plan)) /\ (Tail(call.plan) # <<>> => Head(Tail(call.plan)) \in After(Head(call.plan)))
  BY <1>2, TailLinked
<1>4. After(Head(call.plan)) \cap {"components", "todoc", "tok2vec"} = {}
  BY DEF After
<1>5. QED
  BY <1>1, <1>3, <1>4

\* A call that enters its next stage.

(* A step that only moves a call to its next stage keeps Kept.              *)
LEMMA EnterStep ==
  ASSUME IInv, Kept, NEW b \in Bundles, disk' = disk, memory' = memory, bundles' = bundles, bundles[b].loaded,
         NEW next, HoldsOwn(b, next), Ready(b, memory, next), next.plan \in Seq(StagesOf(bundles[b])), Enter(b, next)
  PROVE  Kept'
<1>1. Tables /\ KeptBy(b) /\ disk \in Disks
  BY DEF IInv, Kept
<1>2. \A name \in DOMAIN bundles[b].pipes : PipeOK(name, bundles[b].pipes[name])
  BY <1>1 DEF KeptBy
<1>3. CallKept(b, bundles[b].pipes, memory, calls'[b])
  BY <1>1, <1>2, EnterKept
<1>4. \E new : calls' = [calls EXCEPT ![b] = new]
  BY <1>1, EnterOK
<1>5. QED
  BY <1>1, <1>3, <1>4, SameBundles, QuietKept

(* Decoding takes the output, and enters the next stage.                    *)
LEMMA DecodeKept ==
  ASSUME IInv, Kept, NEW b \in Bundles, Decode(b) \/ DecodeEntities(b)
  PROVE  Kept'
<1> DEFINE call == calls[b]
           next == [call EXCEPT !.plan = Tail(call.plan), !.out = Nothing]
<1>1. CallOK(b, bundles[b], call) /\ KeptBy(b)
  BY DEF IInv, InvOf, Kept
<1>2. /\ call.plan # <<>> /\ Head(call.plan) \in {"decode", "nerdecode"} /\ Enter(b, next)
      /\ disk' = disk /\ memory' = memory /\ bundles' = bundles
  BY DEF Decode, DecodeEntities, Busy
<1>3. /\ call.docs \in Batches /\ Linked(call.plan) /\ FromT(call.vectors)
      /\ RowsOK(call.vectors) /\ Intact(memory, call.vectors)
  BY <1>1, <1>2 DEF KeptBy, CallKept
<1>4. /\ Tail(call.plan) \in Seq(StagesOf(bundles[b])) /\ Linked(Tail(call.plan)) /\ bundles[b].loaded
      /\ Tail(call.plan) # <<>> => Head(Tail(call.plan)) \notin {"components", "todoc", "tok2vec"}
  BY <1>1, <1>2, <1>3, NextStage
<1>5. /\ next.docs = call.docs /\ next.plan = Tail(call.plan) /\ next.vectors = call.vectors /\ next.out = Nothing
      /\ HoldsOwn(b, next)
  <2>1. Owned(b, Nothing)
    BY OwnedValue DEF Nothing
  <2>2. QED
    BY <1>1, <2>1 DEF CallOK, HoldsOwn
<1> HIDE DEF next
<1>6. Ready(b, memory, next)
  BY <1>3, <1>4, <1>5, NothingKept DEF Ready, SparedAt
<1>7. QED
  BY <1>2, <1>4, <1>5, <1>6, EnterStep

(* So do the attribute ruler and the lemmatizer, which hold no values.      *)
LEMMA AnnotateKept ==
  ASSUME IInv, Kept, NEW b \in Bundles, Annotate(b)
  PROVE  Kept'
<1> DEFINE call == calls[b]
           next == [call EXCEPT !.plan = Tail(call.plan)]
<1>1. CallOK(b, bundles[b], call) /\ KeptBy(b)
  BY DEF IInv, InvOf, Kept
<1>2. /\ call.plan # <<>> /\ Head(call.plan) = "annotate" /\ Enter(b, next)
      /\ disk' = disk /\ memory' = memory /\ bundles' = bundles
  BY DEF Annotate, Busy
<1>3. /\ call.docs \in Batches /\ Linked(call.plan) /\ FromT(call.vectors) /\ call.out = Nothing
      /\ RowsOK(call.vectors) /\ Intact(memory, call.vectors)
  BY <1>1, <1>2 DEF KeptBy, CallKept, InStage, Passed
<1>4. /\ Tail(call.plan) \in Seq(StagesOf(bundles[b])) /\ Linked(Tail(call.plan)) /\ bundles[b].loaded
      /\ Tail(call.plan) # <<>> => Head(Tail(call.plan)) \notin {"components", "todoc", "tok2vec"}
  BY <1>1, <1>2, <1>3, NextStage
<1>5. /\ next.docs = call.docs /\ next.plan = Tail(call.plan) /\ next.vectors = call.vectors /\ next.out = Nothing
      /\ HoldsOwn(b, next)
  BY <1>1, <1>3 DEF CallOK, HoldsOwn
<1> HIDE DEF next
<1>6. Ready(b, memory, next)
  BY <1>3, <1>4, <1>5, NothingKept DEF Ready, SparedAt
<1>7. QED
  BY <1>2, <1>4, <1>5, <1>6, EnterStep

\* What the call of a bundle runs.

(* What holds of a call that is in a run.                                   *)
LEMMA Running ==
  ASSUME IInv, Kept, NEW b \in Bundles, InRun(b)
  PROVE  LET call == calls[b]
             stage == Head(call.plan)
             tree == CurrentTree(b)
             top == Top(tree, stage)
         IN  /\ stage \in RunStages /\ call.plan # <<>> /\ call.run.pipe = PipeOf(stage)
             /\ RunOK(b, call.run) /\ GoodTree(tree) /\ Len(tree) \in Nat /\ Fenced(tree, top)
             /\ Safe(b, tree, top, call.run, memory, {call.vectors, call.out})
             /\ stage = "tok2vec" => \A v \in HeldBy(call.run) : FromT(v)
             /\ stage \in {"project", "nertok2vec"} => Low(tree) \in 1..Len(tree) /\ top + 1 = Low(tree)
<1> DEFINE call == calls[b]
           stage == Head(call.plan)
           pipe == bundles[b].pipes[call.run.pipe]
           tree == CurrentTree(b)
           top == Top(tree, stage)
<1>1. CallOK(b, bundles[b], call) /\ KeptBy(b) /\ disk \in Disks
  BY DEF IInv, InvOf, Kept
<1>2. stage \in RunStages /\ call.plan # <<>>
  BY DEF InRun, Busy
<1>3. tree = pipe.tree
  BY DEF CurrentTree, Tree
<1>4. InStage(b, stage, tree, memory, call)
  BY <1>1, <1>2, <1>3 DEF KeptBy, CallKept
<1>5. Runnable(bundles[b], call.run.pipe) /\ RunOK(b, call.run)
  BY <1>1, <1>2 DEF CallOK, HoldsOwn
<1>6. /\ call.run.pipe = PipeOf(stage)
      /\ Safe(b, tree, top, call.run, memory, {call.vectors, call.out})
      /\ stage = "tok2vec" => \A v \in HeldBy(call.run) : FromT(v)
  BY <1>2, <1>4 DEF InStage
<1>7. PipeOK(PipeOf(stage), pipe) /\ ~pipe.skipped
  BY <1>1, <1>5, <1>6 DEF Runnable, KeptBy
<1> HIDE DEF tree, pipe, stage
<1>8. /\ GoodTree(tree) /\ Len(tree) \in Nat /\ Fenced(tree, top)
      /\ stage \in {"project", "nertok2vec"} => Low(tree) \in 1..Len(tree) /\ top + 1 = Low(tree)
  BY <1>1, <1>2, <1>3, <1>7, StageTree
<1>9. QED
  BY <1>2, <1>5, <1>6, <1>8 DEF tree, stage

(* A call that fails drops what it holds.                                   *)
LEMMA FailKept ==
  ASSUME IInv, Kept, NEW b \in Bundles, disk' = disk, memory' = memory, bundles' = bundles, Fail(b)
  PROVE  Kept'
<1>1. Tables /\ calls' = [calls EXCEPT ![b] = Idle]
  BY DEF IInv, Fail
<1>2. calls'[b] = Idle
  BY <1>1 DEF Tables
<1>3. CallKept(b, bundles[b].pipes, memory, calls'[b])
  BY <1>2, IdleKept
<1>4. QED
  BY <1>1, <1>3, SameBundles, QuietKept

(* A run that has finished hands its value on: the vectors of the tok2vec   *)
(* stage, spared by every later pipe, or the output of a lower model's      *)
(* input, spared by the lower model.                                        *)
LEMMA ReturnKept ==
  ASSUME IInv, Kept, NEW b \in Bundles, Return(b)
  PROVE  Kept'
<1> DEFINE call == calls[b]
           stage == Head(call.plan)
           rest == [call EXCEPT !.plan = Tail(call.plan)]
           x == call.run.x
           next == CASE stage = "tok2vec" -> [rest EXCEPT !.vectors = x]
                     [] stage = "tagger" -> rest
                     [] OTHER -> [rest EXCEPT !.out = x]
           tree == CurrentTree(b)
           top == Top(tree, stage)
           run == call.run
<1>1. CallOK(b, bundles[b], call) /\ KeptBy(b)
  BY DEF IInv, InvOf, Kept
<1>2. InRun(b) /\ Finished(run) /\ disk' = disk /\ memory' = memory /\ bundles' = bundles
  BY DEF Return
<1>3. /\ stage \in RunStages /\ call.plan # <<>> /\ run.pipe = PipeOf(stage)
      /\ RunOK(b, run) /\ Len(tree) \in Nat
      /\ Safe(b, tree, top, run, memory, {call.vectors, call.out})
      /\ stage = "tok2vec" => \A v \in HeldBy(run) : FromT(v)
      /\ stage \in {"project", "nertok2vec"} => Low(tree) \in 1..Len(tree) /\ top + 1 = Low(tree)
  BY <1>2, Running
<1>4. CASE ~ReturnFits(b)
  <2>1. Fail(b)
    BY <1>4 DEF Return
  <2>2. QED
    BY <1>2, <2>1, FailKept
<1>5. CASE ReturnFits(b)
  <2>1. Enter(b, next)
    BY <1>5 DEF Return
  <2>2. HoldsOwn(b, call) /\ Owned(b, x)
    BY <1>1, <1>3 DEF CallOK, RunOK
  <2>3. /\ HoldsOwn(b, rest) /\ rest.plan = Tail(call.plan) /\ rest.docs = call.docs
        /\ rest.vectors = call.vectors /\ rest.out = call.out
    BY <2>2 DEF HoldsOwn
  <2>4. /\ call.docs \in Batches /\ Linked(call.plan) /\ FromT(call.vectors)
        /\ \A v \in HeldBy(run) \cup {call.vectors, call.out} : RowsOK(v) /\ Intact(memory, v)
        /\ stage = "tok2vec" => call.vectors = Nothing
        /\ stage \notin Passed => call.out = Nothing
    BY <1>1, <1>3 DEF KeptBy, CallKept, InStage
  <2>5. /\ Tail(call.plan) \in Seq(StagesOf(bundles[b])) /\ Linked(Tail(call.plan)) /\ bundles[b].loaded
        /\ Tail(call.plan) # <<>> => /\ Head(Tail(call.plan)) \in After(stage)
                                     /\ Head(Tail(call.plan)) \notin {"components", "todoc", "tok2vec"}
    <3>1. stage \notin {"components", "todoc"}
      BY <1>3 DEF RunStages
    <3>2. QED
      BY <1>1, <1>3, <2>4, <3>1, NextStage
  <2>6. x \in HeldBy(run)
    BY <1>3, HeldParts
  <2> HIDE DEF rest, x
  <2>7. CASE stage = "tok2vec"
    <3>1. next = [rest EXCEPT !.vectors = x]
      BY <2>7
    <3> HIDE DEF next
    <3>2. /\ HoldsOwn(b, next) /\ next.plan = rest.plan /\ next.docs = rest.docs
          /\ next.vectors = x /\ next.out = rest.out
      BY <2>2, <2>3, <3>1 DEF HoldsOwn
    <3>3. call.out = Nothing /\ RowsOK(x) /\ Intact(memory, x) /\ FromT(x)
      BY <1>3, <2>4, <2>6, <2>7 DEF Passed
    <3>4. Ready(b, memory, next)
      BY <2>3, <2>4, <2>5, <3>2, <3>3, NothingKept DEF Ready, SparedAt
    <3>5. QED
      BY <1>2, <2>1, <2>3, <2>5, <3>2, <3>4, EnterStep
  <2>8. CASE stage = "tagger"
    <3>1. next = rest
      BY <2>8
    <3> HIDE DEF next
    <3>2. call.out = Nothing
      BY <2>4, <2>8 DEF Passed
    <3>3. Ready(b, memory, next)
      BY <2>3, <2>4, <2>5, <3>1, <3>2, NothingKept DEF Ready, SparedAt
    <3>4. QED
      BY <1>2, <2>1, <2>3, <2>5, <3>1, <3>3, EnterStep
  <2>9. CASE stage \in {"project", "lower", "nertok2vec", "nerlower"}
    <3>1. next = [rest EXCEPT !.out = x]
      BY <2>9
    <3> HIDE DEF next
    <3>2. /\ HoldsOwn(b, next) /\ next.plan = rest.plan /\ next.docs = rest.docs
          /\ next.vectors = rest.vectors /\ next.out = x
      BY <2>2, <2>3, <3>1 DEF HoldsOwn
    <3>3. RowsOK(x) /\ Intact(memory, x)
      BY <2>4, <2>6
    <3> DEFINE later == Head(Tail(call.plan))
    <3>4. Tail(call.plan) # <<>> => later \in Passed
      BY <2>5, <2>9 DEF After, Passed
    <3>5. ASSUME Tail(call.plan) # <<>>, later \in RunStages
          PROVE  SparedAt(b, bundles[b].pipes[PipeOf(later)].tree, PipeOf(later), Low(bundles[b].pipes[PipeOf(later)].tree)..Len(bundles[b].pipes[PipeOf(later)].tree), x)
      <4>1. stage \in {"project", "nertok2vec"}
        BY <2>5, <2>9, <3>5 DEF After, RunStages
      <4>2. PipeOf(later) = run.pipe
        BY <1>3, <2>5, <3>5, <4>1 DEF After, PipeOf
      <4>3. bundles[b].pipes[PipeOf(later)].tree = tree
        BY <4>2 DEF CurrentTree, Tree
      <4>4. SparedAt(b, tree, run.pipe, Pending(tree, run), x)
        BY <1>3, <2>6 DEF Safe, Spared
      <4>5. run.place \in 1..(top + 1)
        BY <1>3 DEF Safe, Bounds
      <4> HIDE DEF tree, top
      <4>6. Low(tree)..Len(tree) \subseteq run.place..Len(tree)
        BY <1>3, <4>1, <4>5
      <4>7. Low(tree)..Len(tree) \subseteq Pending(tree, run)
        BY <4>6 DEF Pending
      <4>8. SparedAt(b, tree, run.pipe, Low(tree)..Len(tree), x)
        BY <4>4, <4>7, SparedLess
      <4>9. QED
        BY <4>2, <4>3, <4>8
    <3> HIDE DEF later
    <3>6. Ready(b, memory, next)
      BY <2>3, <2>4, <2>5, <3>2, <3>3, <3>4, <3>5 DEF Ready, later
    <3>7. QED
      BY <1>2, <2>1, <2>3, <2>5, <3>2, <3>6, EnterStep
  <2>10. QED
    BY <1>3, <2>7, <2>8, <2>9 DEF RunStages
<1>6. QED
  BY <1>4, <1>5

\* The call after a step of its run.

(* A call goes on with a run that is safe.                                  *)
LEMMA RunKept ==
  ASSUME NEW b, NEW pipes, NEW mem, NEW call, HoldsOwn(b, call), call.plan # <<>>, Head(call.plan) \in RunStages,
         CallKept(b, pipes, mem, call), NEW after, NEW next, next.pipe = call.run.pipe,
         NEW tree, tree = pipes[call.run.pipe].tree,
         Safe(b, tree, Top(tree, Head(call.plan)), next, after, {call.vectors, call.out}),
         Head(call.plan) = "tok2vec" => \A v \in HeldBy(next) : FromT(v)
  PROVE  CallKept(b, pipes, after, [call EXCEPT !.run = next])
<1> DEFINE stage == Head(call.plan)
           new == [call EXCEPT !.run = next]
<1>1. /\ new.run = next /\ new.plan = call.plan /\ new.docs = call.docs
      /\ new.vectors = call.vectors /\ new.out = call.out
  BY DEF HoldsOwn
<1> HIDE DEF new
<1>2. InStage(b, stage, tree, mem, call) /\ call.docs \in Batches /\ Linked(call.plan) /\ FromT(call.vectors)
  BY DEF CallKept
<1>3. InStage(b, stage, tree, after, new)
  BY <1>1, <1>2 DEF InStage
<1>4. \A v \in HeldBy(next) \cup {call.vectors, call.out} : RowsOK(v) /\ Intact(after, v)
  BY DEF Safe
<1>5. QED
  BY <1>1, <1>2, <1>3, <1>4 DEF CallKept, new

(* A layer that stores overwrites only a slice that no value held by the    *)
(* call was made in; the stored value is its own result.                    *)
LEMMA LayerKept ==
  ASSUME IInv, Kept, NEW b \in Bundles, Layer(b)
  PROVE  Kept'
<1> DEFINE call == calls[b]
           stage == Head(call.plan)
           run == call.run
           tree == CurrentTree(b)
           top == Top(tree, stage)
           node == CurrentNode(b)
           buf == BufferOf(b)
           y == Result(tree, run)
           stored == Stored(memory, buf, node.at, y.rows)
           kept == [y EXCEPT !.at = [buf |-> buf, gen |-> stored[buf].gen, by |-> node.at]]
           others == {call.vectors, call.out}
<1>1. Tables /\ BundleOK(b, bundles[b]) /\ CallOK(b, bundles[b], call) /\ KeptBy(b) /\ MemoryOK(memory)
  BY DEF IInv, InvOf, Kept
<1>2. InRun(b) /\ ~Finished(run) /\ disk' = disk /\ bundles' = bundles
  BY DEF Layer
<1>3. /\ stage \in RunStages /\ call.plan # <<>> /\ run.pipe = PipeOf(stage)
      /\ RunOK(b, run) /\ GoodTree(tree) /\ Fenced(tree, top)
      /\ Safe(b, tree, top, run, memory, others)
      /\ stage = "tok2vec" => \A v \in HeldBy(run) : FromT(v)
  BY <1>2, Running
<1>4. HoldsOwn(b, call) /\ tree = bundles[b].pipes[run.pipe].tree /\ CallKept(b, bundles[b].pipes, memory, call)
  BY <1>1 DEF CallOK, CurrentTree, Tree, KeptBy
<1>5. Owned(b, y) /\ RowsOK(y) /\ From(y, HeldBy(run)) /\ Safe(b, tree, top, Advanced(tree, run, y), memory, others)
  BY <1>3, <1>2, PassedSafe, ResultOwned
<1>6. \/ Fail(b) /\ memory' = memory
      \/ Storing(tree, run) /\ memory' = stored /\ calls' = [calls EXCEPT ![b].run = Advanced(tree, run, kept)]
      \/ memory' = memory /\ calls' = [calls EXCEPT ![b].run = Advanced(tree, run, y)]
  BY DEF Layer
<1>7. CASE Fail(b) /\ memory' = memory
  BY <1>2, <1>7, FailKept
<1>8. CASE memory' = memory /\ calls' = [calls EXCEPT ![b].run = Advanced(tree, run, y)]
  <2> DEFINE next == Advanced(tree, run, y)
             new == [call EXCEPT !.run = next]
  <2>1. calls' = [calls EXCEPT ![b] = new] /\ calls'[b] = new
    BY <1>1, <1>8 DEF Tables
  <2> HIDE DEF tree, y, top
  <2>2. next.pipe = run.pipe
    <3>1. RunOK(b, run) /\ Owned(b, y)
      BY <1>3, <1>5
    <3>2. Advanced(tree, run, y).pipe = run.pipe
      BY <3>1, AdvancedOK
    <3>3. QED
      BY <3>2
  <2>3. ASSUME stage = "tok2vec", NEW v \in HeldBy(next) PROVE FromT(v)
    <3>1. v = y \/ v \in HeldBy(run)
      BY <1>3, <1>5, AdvancedHeld
    <3>2. \A w \in HeldBy(run) : FromT(w)
      BY <1>3, <2>3
    <3>3. FromT(y)
      BY <1>5, <3>2, FromTFrom
    <3>4. QED
      BY <3>1, <3>2, <3>3
  <2> HIDE DEF next
  <2>4. CallKept(b, bundles[b].pipes, memory, new)
    BY <1>3, <1>4, <1>5, <2>2, <2>3, RunKept DEF top, next
  <2> HIDE DEF new
  <2>5. QED
    BY <1>1, <1>2, <1>8, <2>1, <2>4, SameBundles, QuietKept
<1>9. CASE Storing(tree, run) /\ memory' = stored /\ calls' = [calls EXCEPT ![b].run = Advanced(tree, run, kept)]
  <2> DEFINE next == Advanced(tree, run, kept)
             new == [call EXCEPT !.run = next]
  <2>1. calls' = [calls EXCEPT ![b] = new] /\ calls'[b] = new /\ \A c \in Bundles \ {b} : calls'[c] = calls[c]
    BY <1>1, <1>9 DEF Tables
  <2>2. buf = Buffer(b, run.pipe, NodeOf(tree, run)) /\ node = NodeOf(tree, run)
    <3>1. bundles[b].pipes[run.pipe].closures = b
      BY <1>1, <1>3 DEF BundleOK, CallOK, Runnable
    <3>2. QED
      BY <3>1 DEF BufferOf, CurrentNode
  <2>3. buf[1] = b /\ buf[2] = run.pipe
    BY <2>2 DEF Buffer
  <2> DEFINE gen == stored[buf].gen
             by == node.at
  <2> HIDE DEF gen
  <2>4. kept = [y EXCEPT !.at = [buf |-> buf, gen |-> gen, by |-> by]]
    BY DEF gen
  <2> HIDE DEF kept, buf, by, stored, node, tree, top
  <2>5. stored = Stored(memory, buf, by, y.rows)
    BY DEF stored, by
  <2>6. Safe(b, tree, top, next, stored, others)
    <3>1. Safe(b, tree, top, Advanced(tree, run, kept), Stored(memory, buf, by, Result(tree, run).rows), others)
      BY <1>1, <1>2, <1>3, <1>9, <2>2, <2>4, StoredSafe
    <3>2. QED
      BY <2>5, <3>1
  <2> HIDE DEF y
  <2>7. kept.at.buf = buf /\ Owned(b, kept)
    <3>1. IsValue(y)
      BY <1>5 DEF Owned
    <3>2. IsValue(kept) /\ kept.at = [buf |-> buf, gen |-> gen, by |-> by]
      BY <2>4, <3>1 DEF IsValue
    <3>3. QED
      BY <2>3, <3>2 DEF Owned
  <2>8. next.pipe = run.pipe
    <3>1. RunOK(b, run) /\ Owned(b, kept)
      BY <1>3, <2>7
    <3>2. Advanced(tree, run, kept).pipe = run.pipe
      BY <3>1, AdvancedOK
    <3>3. QED
      BY <3>2
  <2>9. ASSUME stage = "tok2vec", NEW v \in HeldBy(next) PROVE FromT(v)
    <3>1. v = kept \/ v \in HeldBy(run)
      BY <1>3, <2>7, AdvancedHeld
    <3>2. PipeOf(stage) = "tok2vec"
      BY <2>9 DEF PipeOf
    <3>3. FromT(kept)
      BY <1>3, <2>3, <2>7, <3>2 DEF FromT
    <3>4. QED
      BY <1>3, <2>9, <3>1, <3>3
  <2> HIDE DEF next
  <2>10. CallKept(b, bundles[b].pipes, stored, new)
    BY <1>3, <1>4, <2>6, <2>8, <2>9, RunKept DEF top
  <2> HIDE DEF new
  <2>11. IsSeq(y.rows)
    BY <1>5 DEF RowsOK
  <2>12. MemoryOK(stored)
    BY <1>1, <2>5, <2>11, StoredRows
  <2>13. ASSUME NEW c \in Bundles \ {b}, NEW v, Owned(c, v), Intact(memory, v) PROVE Intact(stored, v)
    <3>1. v.at = Fresh \/ v.at.buf # buf
      BY <2>3, <2>13 DEF Owned
    <3>2. Intact(Stored(memory, buf, by, y.rows), v)
      BY <1>1, <2>11, <2>13, <3>1, IntactStored
    <3>3. QED
      BY <2>5, <3>2
  <2>14. \A name \in DOMAIN bundles'[b].pipes : PipeOK(name, bundles'[b].pipes[name])
    BY <1>1, <1>2 DEF KeptBy
  <2>15. CallKept(b, bundles'[b].pipes, memory', calls'[b])
    BY <1>2, <1>9, <2>1, <2>10
  <2>16. QED
    BY <1>2, <1>9, <2>1, <2>12, <2>13, <2>14, <2>15, KeptStep
<1>10. QED
  BY <1>6, <1>7, <1>8, <1>9

(* Launching calls and stuttering change none of it.                        *)
LEMMA StillKept ==
  ASSUME Kept, Launch \/ UNCHANGED vars
  PROVE  Kept'
<1>1. disk' = disk /\ bundles' = bundles /\ memory' = memory /\ calls' = calls
  BY DEF Launch, vars
<1>2. QED
  BY <1>1 DEF Kept, KeptBy, PipeOK, Factory, ModelCfg

(* Kept holds in every state: for any clones, any well formed directory,    *)
(* any batches and any number of calls.                                     *)
THEOREM ScratchKept == Spec => []Kept
<1>1. Init => Kept
  BY InitKept
<1>2. IInv /\ Kept /\ [Next]_vars => Kept'
  <2> SUFFICES ASSUME IInv, Kept, [Next]_vars PROVE Kept'
    OBVIOUS
  <2>1. CASE FromDisk
    BY <2>1, FromDiskKept
  <2>2. CASE Launch \/ UNCHANGED vars
    BY <2>2, StillKept
  <2>3. ASSUME NEW b \in Bundles, Clone(b) PROVE Kept'
    BY <2>3, CloneKept
  <2>4. ASSUME NEW b \in Bundles, NEW docs \in Batches, NEW skipNER \in BOOLEAN, Call(b, docs, skipNER)
        PROVE  Kept'
    BY <2>4, CallStepKept
  <2>5. ASSUME NEW b \in Bundles, EnsureComponents(b) PROVE Kept'
    BY <2>5, EnsureComponentsKept
  <2>6. ASSUME NEW b \in Bundles, ToDoc(b) PROVE Kept'
    BY <2>6, ToDocKept
  <2>7. ASSUME NEW b \in Bundles, Layer(b) PROVE Kept'
    BY <2>7, LayerKept
  <2>8. ASSUME NEW b \in Bundles, Return(b) PROVE Kept'
    BY <2>8, ReturnKept
  <2>9. ASSUME NEW b \in Bundles, Decode(b) PROVE Kept'
    BY <2>9, DecodeKept
  <2>10. ASSUME NEW b \in Bundles, DecodeEntities(b) PROVE Kept'
    BY <2>10, DecodeKept
  <2>11. ASSUME NEW b \in Bundles, Annotate(b) PROVE Kept'
    BY <2>11, AnnotateKept
  <2>12. QED
    BY <2>1, <2>2, <2>3, <2>4, <2>5, <2>6, <2>7, <2>8, <2>9, <2>10, <2>11 DEF Next
<1>3. QED
  BY <1>1, <1>2, OwnMemory, PTL DEF Spec

(* A layer that reuses its output slice (the scratch buffers of nn/layers,  *)
(* allocated once per model and grown on demand) never overwrites rows that *)
(* the same call still has to read, and no other call ever does: every      *)
(* value a call of PipeWith holds, between layers, across the pipes that    *)
(* share the tok2vec vectors, and while another bundle runs, still has the  *)
(* rows it was computed with. The argument: a run only stores at nodes it   *)
(* has not come to or has open, two nodes never have the same slice, and    *)
(* what a call carries from one pipe to the next comes from the tok2vec     *)
(* pipe or from nodes before the lower model.                               *)
THEOREM ScratchHolds == Spec => []HeldIntact
<1>1. Kept => HeldIntact
  BY DEF Kept, KeptBy, CallKept, HeldIntact
<1>2. QED
  BY <1>1, ScratchKept, PTL
=============================================================================
