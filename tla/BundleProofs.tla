---------------------------- MODULE BundleProofs ----------------------------
(***************************************************************************)
(* Proofs about the life of a bundle, for any number of bundles and calls   *)
(* and any directories: what did not load never runs, a bundle answers the  *)
(* same call the same way, and clones agree with their source, while files  *)
(* come and go.                                                             *)
(***************************************************************************)
EXTENDS BundleLifecycle, SequenceTheorems, TLAPS

-----------------------------------------------------------------------------
(* The inductive invariant.                                                *)

Types ==
  /\ disk \in [Pipes -> Entry]
  /\ pc \in [Bundles -> {"unbuilt", "ready", "failed"}]
  /\ DOMAIN pipes = Bundles
  /\ once \in [Bundles -> BOOLEAN]
  /\ components \in [Bundles -> SUBSET Pipes]
  /\ broken \in [Bundles -> BOOLEAN]
  /\ log \in Seq(Call)

(* What is in a ready bundle is what the directory loads, in clones too.      *)
Loads(p) == p \in Listed(disk) /\ ~Load(disk[p]).skipped
PipesOK(b) ==
  pc[b] = "ready" =>
    /\ ~Aborts(disk)
    /\ \A p \in DOMAIN pipes[b] : pipes[b][p] \in [skipped : BOOLEAN, model : BOOLEAN]
    /\ \A p \in Pipes : Usable(b, p) <=> Loads(p)

(* The components were found once, and only where the model was usable.       *)
ComponentsOK(b) ==
  once[b] => pc[b] = "ready" /\ \A p \in components[b] \intersect ModelPipes : Usable(b, p)

(* A recorded call is what its bundle still answers: refused, or run up to    *)
(* some point of the sequence.                                               *)
Refuses(b) == broken[b] \/ (NeedsTok2vec(components[b]) /\ ~Usable(b, "tok2vec"))
Answered(call) ==
  LET b == call.bundle
      order == Sequence(components[b], call.skip)
  IN /\ once[b]
     /\ call.built = ~Refuses(b)
     /\ \E n \in 0..Len(order) :
          /\ call.ran = SubSeq(order, 1, n)
          /\ Refuses(b) => n = 0
          /\ call.result = "doc" => n = Len(order)

IInv ==
  /\ Types
  /\ \A b \in Bundles : PipesOK(b) /\ ComponentsOK(b)
  /\ \A i \in 1..Len(log) : Answered(log[i])

-----------------------------------------------------------------------------
(* The sequence of a call.                                                 *)

LEMMA OneOrNone ==
  ASSUME NEW T, NEW x, NEW test \in BOOLEAN, test => x \in T
  PROVE  (IF test THEN <<x>> ELSE <<>>) \in Seq(T)
<1>1. CASE test
  <2>1. x \in T
    BY <1>1
  <2>2. <<x>> \in Seq(T)
    BY <2>1
  <2>3. QED
    BY <1>1, <2>2
<1>2. CASE ~test
  BY <1>2, EmptySeq
<1>3. QED
  BY <1>1, <1>2

(* It holds found components, and tok2vec when one of them needs it.         *)
LEMMA SequenceFacts ==
  ASSUME NEW cs \in SUBSET Pipes, NEW skip
  PROVE  /\ Sequence(cs, skip) \in Seq(Pipes)
         /\ Len(Sequence(cs, skip)) \in Nat
         /\ \A i \in 1..Len(Sequence(cs, skip)) :
              \/ Sequence(cs, skip)[i] \in cs
              \/ Sequence(cs, skip)[i] = "tok2vec" /\ NeedsTok2vec(cs)
<1> DEFINE good == cs \union {p \in {"tok2vec"} : NeedsTok2vec(cs)}
           first == IF NeedsTok2vec(cs) THEN <<"tok2vec">> ELSE <<>>
           when(p) == IF p \in cs \ skip THEN <<p>> ELSE <<>>
<1>1. first \in Seq(good)
  <2>1. NeedsTok2vec(cs) \in BOOLEAN /\ (NeedsTok2vec(cs) => "tok2vec" \in good)
    BY DEF NeedsTok2vec
  <2>2. QED
    BY <2>1, OneOrNone
<1>2. \A p : when(p) \in Seq(good)
  <2>1. ASSUME NEW p PROVE (p \in cs \ skip) \in BOOLEAN /\ (p \in cs \ skip => p \in good)
    OBVIOUS
  <2>2. QED
    BY <2>1, OneOrNone
<1>3. Sequence(cs, skip) = first \o when("tagger") \o when("parser") \o when("attribute_ruler")
                             \o when("lemmatizer") \o when("ner")
  BY DEF Sequence
<1>4. good \subseteq Pipes
  BY DEF Pipes, ModelPipes
<1> HIDE DEF first, when, good
<1>5. Sequence(cs, skip) \in Seq(good)
  <2>1. first \o when("tagger") \in Seq(good)
    BY <1>1, <1>2, ConcatProperties
  <2>2. first \o when("tagger") \o when("parser") \in Seq(good)
    BY <1>2, <2>1, ConcatProperties
  <2>3. first \o when("tagger") \o when("parser") \o when("attribute_ruler") \in Seq(good)
    BY <1>2, <2>2, ConcatProperties
  <2>4. first \o when("tagger") \o when("parser") \o when("attribute_ruler") \o when("lemmatizer") \in Seq(good)
    BY <1>2, <2>3, ConcatProperties
  <2>5. QED
    BY <1>2, <1>3, <2>4, ConcatProperties
<1>6. Sequence(cs, skip) \in Seq(Pipes)
  BY <1>4, <1>5, SeqMonotonic
<1>7. \A i \in 1..Len(Sequence(cs, skip)) : Sequence(cs, skip)[i] \in good
  BY <1>5, ElementOfSeq
<1>8. QED
  BY <1>6, <1>7, LenProperties DEF good

(* The first n components of a sequence.                                     *)
LEMMA Cut ==
  ASSUME NEW s \in Seq(Pipes), NEW n \in 0..Len(s)
  PROVE  /\ SubSeq(s, 1, n) \in Seq(Pipes)
         /\ Len(SubSeq(s, 1, n)) = n
         /\ \A i \in 1..n : SubSeq(s, 1, n)[i] = s[i]
<1>1. Len(s) \in Nat /\ \A i \in 1..n : s[i] \in Pipes
  BY LenProperties, ElementOfSeq
<1>2. n \in Int /\ 1 \in Int
  BY <1>1
<1>3. /\ SubSeq(s, 1, n) \in Seq(Pipes)
      /\ Len(SubSeq(s, 1, n)) = IF 1 <= n THEN n - 1 + 1 ELSE 0
      /\ \A i \in 1..(n - 1 + 1) : SubSeq(s, 1, n)[i] = s[1 + i - 1]
  BY <1>1, <1>2, SubSeqProperties
<1>4. QED
  BY <1>1, <1>3

LEMMA CutsNest ==
  ASSUME NEW s \in Seq(Pipes), NEW m \in 0..Len(s), NEW n \in 0..Len(s), m <= n
  PROVE  IsPrefix(SubSeq(s, 1, m), SubSeq(s, 1, n))
<1> DEFINE x == SubSeq(s, 1, m)
           y == SubSeq(s, 1, n)
<1>1. Len(s) \in Nat
  BY LenProperties
<1>2. /\ x \in Seq(Pipes) /\ Len(x) = m /\ \A i \in 1..m : x[i] = s[i]
      /\ y \in Seq(Pipes) /\ Len(y) = n /\ \A i \in 1..n : y[i] = s[i]
  BY Cut
<1> HIDE DEF x, y
<1>3. m \in 0..Len(x) /\ m \in 0..Len(y)
  BY <1>1, <1>2
<1>4. /\ SubSeq(x, 1, m) \in Seq(Pipes) /\ Len(SubSeq(x, 1, m)) = m
      /\ \A i \in 1..m : SubSeq(x, 1, m)[i] = x[i]
  BY <1>2, <1>3, Cut
<1>5. /\ SubSeq(y, 1, m) \in Seq(Pipes) /\ Len(SubSeq(y, 1, m)) = m
      /\ \A i \in 1..m : SubSeq(y, 1, m)[i] = y[i]
  BY <1>2, <1>3, Cut
<1>6. SubSeq(x, 1, m) = SubSeq(y, 1, m)
  BY <1>1, <1>2, <1>4, <1>5, SeqEqual
<1>7. QED
  BY <1>1, <1>2, <1>6 DEF IsPrefix, x, y

-----------------------------------------------------------------------------
(* What a step leaves alone.                                               *)

LEMMA UsableStays ==
  ASSUME NEW b \in Bundles, pipes'[b] = pipes[b], NEW p
  PROVE  Usable(b, p)' = Usable(b, p)
  BY DEF Usable

(* A recorded call of a bundle whose components and pipes stay.              *)
LEMMA AnsweredStays ==
  ASSUME NEW i, Answered(log[i]), log'[i] = log[i],
         once'[log[i].bundle] = once[log[i].bundle],
         components'[log[i].bundle] = components[log[i].bundle],
         broken'[log[i].bundle] = broken[log[i].bundle],
         Usable(log[i].bundle, "tok2vec")' = Usable(log[i].bundle, "tok2vec")
  PROVE  Answered(log[i])'
  BY DEF Answered, Refuses

(* A bundle on which a step has no effect keeps its part of the invariant.    *)
LEMMA BundleStays ==
  ASSUME NEW b \in Bundles, PipesOK(b), ComponentsOK(b), disk' = disk,
         pc'[b] = pc[b], pipes'[b] = pipes[b], once'[b] = once[b], components'[b] = components[b]
  PROVE  PipesOK(b)' /\ ComponentsOK(b)'
<1>1. \A p : Usable(b, p)' = Usable(b, p)
  BY UsableStays
<1>2. \A p : Loads(p)' = Loads(p)
  BY DEF Loads, Listed
<1>3. Aborts(disk)' = Aborts(disk)
  BY DEF Aborts, Listed
<1>4. QED
  BY <1>1, <1>2, <1>3 DEF PipesOK, ComponentsOK

(* Calls are recorded for ready bundles, which a load or a clone leaves alone. *)
LEMMA CallsStay ==
  ASSUME IInv, log' = log, once' = once, components' = components, broken' = broken,
         \A b \in Bundles : pc[b] = "ready" => pipes'[b] = pipes[b]
  PROVE  \A i \in 1..Len(log') : Answered(log[i])'
<1> SUFFICES ASSUME NEW i \in 1..Len(log) PROVE Answered(log[i])'
  OBVIOUS
<1>1. log[i] \in Call /\ Answered(log[i])
  BY DEF IInv, Types
<1>2. log[i].bundle \in Bundles /\ pc[log[i].bundle] = "ready"
  BY <1>1 DEF Call, Answered, IInv, ComponentsOK
<1>3. Usable(log[i].bundle, "tok2vec")' = Usable(log[i].bundle, "tok2vec")
  BY <1>2, UsableStays
<1>4. QED
  BY <1>1, <1>3, AnsweredStays

-----------------------------------------------------------------------------
(* The steps.                                                              *)

LEMMA InitInv == Init => IInv
<1> SUFFICES ASSUME Init PROVE IInv
  OBVIOUS
<1>1. Types
  BY DisksAssumption DEF Init, Types
<1>2. \A b \in Bundles : PipesOK(b) /\ ComponentsOK(b)
  BY DEF Init, PipesOK, ComponentsOK
<1>3. Len(log) = 0
  BY DEF Init
<1>4. QED
  BY <1>1, <1>2, <1>3 DEF IInv

LEMMA FromDiskInv ==
  ASSUME IInv, FromDisk
  PROVE  IInv'
<1>1. /\ Types /\ Source \in Bundles /\ pc[Source] = "unbuilt"
      /\ disk' = disk /\ once' = once /\ components' = components /\ broken' = broken /\ log' = log
      /\ \A b \in Bundles : b # Source => pc'[b] = pc[b] /\ pipes'[b] = pipes[b]
  BY SourceAssumption DEF IInv, FromDisk, Types
<1>2. Types' /\ pc'[Source] \in {"ready", "failed"}
  BY <1>1 DEF FromDisk, Types
<1>3. ASSUME NEW b \in Bundles PROVE PipesOK(b)' /\ ComponentsOK(b)'
  <2>1. CASE b # Source
    BY <1>1, <2>1, BundleStays DEF IInv
  <2>2. CASE b = Source
    <3>1. ~once[b]
      BY <1>1, <2>2 DEF IInv, ComponentsOK, Types
    <3>2. ComponentsOK(b)'
      BY <1>1, <3>1 DEF ComponentsOK
    <3>3. ASSUME pc'[b] = "ready" PROVE PipesOK(b)'
      <4>1. ~Aborts(disk) /\ pipes'[b] = [p \in Listed(disk) |-> Load(disk[p])]
        BY <1>1, <2>2, <3>3 DEF FromDisk, Types
      <4>2. \A p \in Pipes : Load(disk[p]) \in [skipped : BOOLEAN, model : BOOLEAN]
                             /\ (Load(disk[p]).skipped \/ Load(disk[p]).model)
        BY DEF Load
      <4>3. Listed(disk) \subseteq Pipes
        BY DEF Listed
      <4>4. \A p \in Pipes : Usable(b, p)' <=> Loads(p)
        BY <4>1, <4>2, <4>3 DEF Usable, Loads
      <4>5. ~Aborts(disk)' /\ \A p : Loads(p)' = Loads(p)
        BY <1>1, <4>1 DEF Aborts, Listed, Loads
      <4>6. QED
        BY <4>1, <4>2, <4>3, <4>4, <4>5 DEF PipesOK
    <3>4. QED
      BY <3>2, <3>3 DEF PipesOK
  <2>3. QED
    BY <2>1, <2>2
<1>4. \A i \in 1..Len(log') : Answered(log[i])'
  <2>1. \A b \in Bundles : pc[b] = "ready" => pipes'[b] = pipes[b]
    BY <1>1
  <2>2. QED
    BY <1>1, <2>1, CallsStay
<1>5. QED
  BY <1>2, <1>3, <1>4 DEF IInv

(* A clone has a usable pipe where its source has one.                       *)
LEMMA CloneInv ==
  ASSUME IInv, NEW b \in Bundles, NEW c \in Bundles, Clone(b, c)
  PROVE  IInv'
<1>1. /\ Types /\ pc[b] = "ready" /\ pc[c] = "unbuilt"
      /\ disk' = disk /\ once' = once /\ components' = components /\ broken' = broken /\ log' = log
      /\ \A d \in Bundles : d # c => pc'[d] = pc[d] /\ pipes'[d] = pipes[d]
      /\ pc'[c] = "ready" /\ pipes'[c] = [p \in DOMAIN pipes[b] |-> ClonePipe(pipes[b][p])]
  BY DEF IInv, Clone, Types
<1>2. Types'
  BY <1>1 DEF Clone, Types
<1>3. ASSUME NEW d \in Bundles PROVE PipesOK(d)' /\ ComponentsOK(d)'
  <2>1. CASE d # c
    BY <1>1, <2>1, BundleStays DEF IInv
  <2>2. CASE d = c
    <3>1. ~once[d]
      BY <1>1, <2>2 DEF IInv, ComponentsOK, Types
    <3>2. ComponentsOK(d)'
      BY <1>1, <3>1 DEF ComponentsOK
    <3>3. /\ ~Aborts(disk)
          /\ \A p \in DOMAIN pipes[b] : pipes[b][p] \in [skipped : BOOLEAN, model : BOOLEAN]
          /\ \A p \in Pipes : Usable(b, p) <=> Loads(p)
      BY <1>1 DEF IInv, PipesOK
    <3>4. \A pipe \in [skipped : BOOLEAN, model : BOOLEAN] :
            /\ ClonePipe(pipe) \in [skipped : BOOLEAN, model : BOOLEAN]
            /\ ~ClonePipe(pipe).skipped /\ ClonePipe(pipe).model <=> ~pipe.skipped /\ pipe.model
      BY DEF ClonePipe
    <3>5. \A p \in Pipes : Usable(d, p)' <=> Usable(b, p)
      BY <1>1, <2>2, <3>3, <3>4 DEF Usable
    <3>6. ~Aborts(disk)' /\ \A p : Loads(p)' = Loads(p)
      BY <1>1, <3>3 DEF Aborts, Listed, Loads
    <3>7. QED
      BY <1>1, <2>2, <3>2, <3>3, <3>4, <3>5, <3>6 DEF PipesOK
  <2>3. QED
    BY <2>1, <2>2
<1>4. \A i \in 1..Len(log') : Answered(log[i])'
  <2>1. \A d \in Bundles : pc[d] = "ready" => pipes'[d] = pipes[d]
    BY <1>1
  <2>2. QED
    BY <1>1, <2>1, CallsStay
<1>5. QED
  BY <1>2, <1>3, <1>4 DEF IInv

(* The first call finds the components, and no call came before it.           *)
LEMMA EnsureFacts ==
  ASSUME IInv, NEW b \in Bundles, pc[b] = "ready", EnsureComponents(b)
  PROVE  /\ once' \in [Bundles -> BOOLEAN] /\ components' \in [Bundles -> SUBSET Pipes]
         /\ broken' \in [Bundles -> BOOLEAN]
         /\ once'[b] = TRUE
         /\ \A p \in components'[b] \intersect ModelPipes : Usable(b, p)
         /\ \A c \in Bundles : c # b \/ once[c] =>
              once'[c] = once[c] /\ components'[c] = components[c] /\ broken'[c] = broken[c]
<1>1. Types /\ ComponentsOK(b)
  BY DEF IInv
<1>2. CASE once[b]
  <2>1. once' = once /\ components' = components /\ broken' = broken
    BY <1>2 DEF EnsureComponents
  <2>2. QED
    BY <1>1, <1>2, <2>1 DEF Types, ComponentsOK
<1>3. CASE ~once[b]
  <2>1. /\ once' = [once EXCEPT ![b] = TRUE]
        /\ components' = [components EXCEPT ![b] = Found(b)]
        /\ broken' = [broken EXCEPT ![b] = ~HasLemmatizer]
    BY <1>3 DEF EnsureComponents
  <2>2. Found(b) \subseteq Pipes /\ \A p \in Found(b) \intersect ModelPipes : Usable(b, p)
    BY DEF Found, Pipes, ModelPipes
  <2>3. (~HasLemmatizer) \in BOOLEAN
    OBVIOUS
  <2>4. QED
    BY <1>1, <1>3, <2>1, <2>2, <2>3 DEF Types
<1>4. QED
  BY <1>2, <1>3

LEMMA PipeWithInv ==
  ASSUME IInv, NEW b \in Bundles, NEW skip \in Options, PipeWith(b, skip)
  PROVE  IInv'
<1> DEFINE order == Sequence(components'[b], skip)
           refused == broken'[b] \/ (NeedsTok2vec(components'[b]) /\ ~Usable(b, "tok2vec"))
           call(n) == [bundle |-> b, skip |-> skip,
                       result |-> IF ~refused /\ n = Len(order) THEN "doc" ELSE "error",
                       built |-> ~refused, ran |-> SubSeq(order, 1, n)]
<1>1. Types /\ pc[b] = "ready" /\ disk' = disk /\ pc' = pc /\ pipes' = pipes /\ EnsureComponents(b)
  BY DEF IInv, PipeWith
<1>2. PICK n \in 0..Len(order) : (refused => n = 0) /\ log' = Append(log, call(n))
  BY DEF PipeWith
<1>3. /\ once' \in [Bundles -> BOOLEAN] /\ components' \in [Bundles -> SUBSET Pipes]
      /\ broken' \in [Bundles -> BOOLEAN]
      /\ once'[b] = TRUE
      /\ \A p \in components'[b] \intersect ModelPipes : Usable(b, p)
      /\ \A c \in Bundles : c # b \/ once[c] =>
           once'[c] = once[c] /\ components'[c] = components[c] /\ broken'[c] = broken[c]
  BY <1>1, EnsureFacts
<1>4. order \in Seq(Pipes) /\ Len(order) \in Nat
  BY <1>3, SequenceFacts
<1>5. call(n) \in Call
  <2>1. SubSeq(order, 1, n) \in Seq(Pipes)
    BY <1>4, Cut
  <2>2. refused \in BOOLEAN
    OBVIOUS
  <2>3. QED
    BY <2>1, <2>2 DEF Call
<1>6. /\ call(n).bundle = b /\ call(n).skip = skip /\ call(n).built = ~refused
      /\ call(n).ran = SubSeq(order, 1, n) /\ (call(n).result = "doc" => n = Len(order))
  OBVIOUS
<1> PICK new : new = call(n)
  OBVIOUS
<1> HIDE DEF call
<1>7. /\ log \in Seq(Call) /\ Len(log) \in Nat /\ log' \in Seq(Call) /\ Len(log') = Len(log) + 1
      /\ log'[Len(log) + 1] = new
      /\ \A i \in 1..Len(log) : log'[i] = log[i]
  BY <1>1, <1>2, <1>5 DEF Types
<1>8. Types'
  BY <1>1, <1>3, <1>7 DEF Types
<1>9. \A c \in Bundles : \A p : Usable(c, p)' = Usable(c, p)
  BY <1>1, UsableStays
<1>10. ASSUME NEW c \in Bundles PROVE PipesOK(c)' /\ ComponentsOK(c)'
  <2>1. PipesOK(c)'
    BY <1>1, <1>9 DEF IInv, PipesOK, Aborts, Listed, Loads
  <2>2. ComponentsOK(c)'
    BY <1>1, <1>3, <1>9 DEF IInv, ComponentsOK
  <2>3. QED
    BY <2>1, <2>2
<1>11. ASSUME NEW i \in 1..Len(log) PROVE Answered(log[i])'
  <2>1. log[i].bundle \in Bundles /\ once[log[i].bundle] /\ Answered(log[i])
    <3>1. log[i] \in Call
      BY <1>7, ElementOfSeq
    <3>2. Answered(log[i])
      BY DEF IInv
    <3>3. QED
      BY <3>1, <3>2 DEF Answered, Call
  <2>2. QED
    BY <1>3, <1>7, <1>9, <2>1, AnsweredStays
<1>12. ASSUME NEW i, i = Len(log) + 1 PROVE Answered(log[i])'
  <2>1. log'[i] = new
    BY <1>7, <1>12
  <2>2. Refuses(b)' = refused
    BY <1>9 DEF Refuses
  <2>3. QED
    BY <1>2, <1>3, <1>6, <2>1, <2>2 DEF Answered
<1>13. \A i \in 1..Len(log') : i \in 1..Len(log) \/ i = Len(log) + 1
  BY <1>7
<1>14. QED
  BY <1>8, <1>10, <1>11, <1>12, <1>13 DEF IInv

(* Files that come and go change neither the pipes nor the components.        *)
LEMMA FilesChangeInv ==
  ASSUME IInv, NEW p \in Pipes, FilesChange(p)
  PROVE  IInv'
<1>1. /\ Types /\ disk' = [disk EXCEPT ![p].data = ~@]
      /\ pc' = pc /\ pipes' = pipes /\ once' = once /\ components' = components /\ broken' = broken /\ log' = log
  BY DEF IInv, FilesChange
<1>2. \A q \in Pipes : /\ disk'[q] \in Entry
                       /\ disk'[q].listed = disk[q].listed /\ disk'[q].disabled = disk[q].disabled
                       /\ disk'[q].section = disk[q].section /\ disk'[q].model = disk[q].model
  BY <1>1 DEF Types, Entry
<1>3. disk' \in [Pipes -> Entry]
  BY <1>1, <1>2 DEF Types
<1>4. Types'
  BY <1>1, <1>3 DEF Types
<1>5. \A b \in Bundles : \A q : Usable(b, q)' = Usable(b, q)
  BY <1>1, UsableStays
<1>6. \A q \in Pipes : Loads(q)' = Loads(q)
  BY <1>2 DEF Loads, Listed, Load
<1>7. Aborts(disk)' = Aborts(disk)
  BY <1>2 DEF Aborts, Listed
<1>8. \A b \in Bundles : PipesOK(b)' /\ ComponentsOK(b)'
  BY <1>1, <1>5, <1>6, <1>7 DEF IInv, PipesOK, ComponentsOK
<1>9. \A i \in 1..Len(log') : Answered(log[i])'
  BY <1>1, CallsStay
<1>10. QED
  BY <1>4, <1>8, <1>9 DEF IInv

LEMMA StutterInv ==
  ASSUME IInv, UNCHANGED vars
  PROVE  IInv'
<1>1. Types'
  BY DEF IInv, vars, Types
<1>2. \A b \in Bundles : PipesOK(b)' /\ ComponentsOK(b)'
  BY BundleStays DEF IInv, vars
<1>3. \A i \in 1..Len(log') : Answered(log[i])'
  BY CallsStay DEF vars
<1>4. QED
  BY <1>1, <1>2, <1>3 DEF IInv

-----------------------------------------------------------------------------
(* The theorems.                                                           *)

(* Every recorded call is what its bundle would answer again.                 *)
THEOREM Lifecycle == Spec => []IInv
<1>1. IInv /\ [Next]_vars => IInv'
  <2> SUFFICES ASSUME IInv, [Next]_vars PROVE IInv'
    OBVIOUS
  <2>1. CASE FromDisk
    BY <2>1, FromDiskInv
  <2>2. ASSUME NEW b \in Bundles, NEW c \in Bundles, Clone(b, c) PROVE IInv'
    BY <2>2, CloneInv
  <2>3. ASSUME NEW b \in Bundles, NEW skip \in Options, PipeWith(b, skip) PROVE IInv'
    BY <2>3, PipeWithInv
  <2>4. ASSUME NEW p \in Pipes, FilesChange(p) PROVE IInv'
    BY <2>4, FilesChangeInv
  <2>5. CASE UNCHANGED vars
    BY <2>5, StutterInv
  <2>6. QED
    BY <2>1, <2>2, <2>3, <2>4, <2>5 DEF Next
<1>2. QED
  BY <1>1, InitInv, PTL DEF Spec

(* A model that did not load, or that the config disables, is never run.      *)
THEOREM OnlyLoadedRun == Spec => []UnloadedModelsNeverRun
<1>1. IInv => UnloadedModelsNeverRun
  <2> SUFFICES ASSUME IInv, NEW i \in 1..Len(log), NEW p \in ToSet(log[i].ran) \intersect ModelPipes
               PROVE  /\ disk[p].listed /\ ~disk[p].disabled
                      /\ disk[p].section = "ok" /\ disk[p].model = "ok"
    BY DEF UnloadedModelsNeverRun, Calls
  <2> DEFINE b == log[i].bundle
             order == Sequence(components[b], log[i].skip)
  <2>1. Types /\ log[i] \in Call /\ Answered(log[i])
    BY DEF IInv, Types
  <2>2. b \in Bundles /\ components[b] \in SUBSET Pipes /\ once[b]
    BY <2>1 DEF Call, Types, Answered
  <2>3. PICK n \in 0..Len(order) : log[i].ran = SubSeq(order, 1, n) /\ (Refuses(b) => n = 0)
    BY <2>1 DEF Answered
  <2>4. /\ order \in Seq(Pipes) /\ Len(order) \in Nat
        /\ \A j \in 1..Len(order) : order[j] \in components[b] \/ (order[j] = "tok2vec" /\ NeedsTok2vec(components[b]))
    BY <2>2, SequenceFacts
  <2> HIDE DEF order
  <2>5. /\ SubSeq(order, 1, n) \in Seq(Pipes) /\ Len(SubSeq(order, 1, n)) = n
        /\ \A j \in 1..n : SubSeq(order, 1, n)[j] = order[j]
    BY <2>4, Cut
  <2>6. PICK j \in 1..n : p = order[j]
    BY <2>3, <2>5, LenProperties DEF ToSet
  <2>7. n > 0 /\ j \in 1..Len(order)
    BY <2>4, <2>6
  <2>8. Usable(b, p)
    BY <2>2, <2>3, <2>4, <2>6, <2>7 DEF IInv, ComponentsOK, Refuses
  <2>9. PipesOK(b) /\ pc[b] = "ready" /\ p \in Pipes
    BY <2>2 DEF IInv, ComponentsOK, Pipes
  <2>10. Loads(p) /\ ~Aborts(disk)
    BY <2>8, <2>9 DEF PipesOK
  <2>11. disk[p] \in Entry
    BY <2>1, <2>9 DEF Types
  <2>12. QED
    BY <2>9, <2>10, <2>11 DEF Loads, Load, Aborts, Listed, Entry
<1>2. QED
  BY <1>1, Lifecycle, PTL

(* A bundle answers the same call the same way, whatever becomes of its files. *)
THEOREM SameAnswer == Spec => []CallsAgree
<1>1. IInv => CallsAgree
  <2> SUFFICES ASSUME IInv, NEW i \in 1..Len(log), NEW j \in 1..Len(log),
                      log[i].bundle = log[j].bundle, log[i].skip = log[j].skip
               PROVE  /\ log[i].built = log[j].built
                      /\ IsPrefix(log[i].ran, log[j].ran) \/ IsPrefix(log[j].ran, log[i].ran)
                      /\ log[i].result = "doc" /\ log[j].result = "doc" => log[i].ran = log[j].ran
    BY DEF CallsAgree, Calls
  <2> DEFINE b == log[i].bundle
             order == Sequence(components[b], log[i].skip)
  <2>1. Types /\ log[i] \in Call /\ Answered(log[i]) /\ Answered(log[j])
    BY DEF IInv, Types
  <2>2. order \in Seq(Pipes) /\ Len(order) \in Nat
    BY <2>1, SequenceFacts DEF Call, Types
  <2>3. PICK m \in 0..Len(order) : log[i].ran = SubSeq(order, 1, m) /\ (log[i].result = "doc" => m = Len(order))
    BY <2>1 DEF Answered
  <2>4. PICK n \in 0..Len(order) : log[j].ran = SubSeq(order, 1, n) /\ (log[j].result = "doc" => n = Len(order))
    BY <2>1 DEF Answered
  <2>5. log[i].built = log[j].built
    BY <2>1 DEF Answered
  <2> HIDE DEF order
  <2>6. m <= n \/ n <= m
    BY <2>2
  <2>7. IsPrefix(log[i].ran, log[j].ran) \/ IsPrefix(log[j].ran, log[i].ran)
    BY <2>2, <2>3, <2>4, <2>6, CutsNest
  <2>8. QED
    BY <2>3, <2>4, <2>5, <2>7
<1>2. QED
  BY <1>1, Lifecycle, PTL

(* Ready bundles find the same components in the same files.                  *)
THEOREM Interchangeable == Spec => []ClonesAgree
<1>1. IInv => ClonesAgree
  <2> SUFFICES ASSUME IInv, NEW b \in Bundles, NEW c \in Bundles, pc[b] = "ready", pc[c] = "ready"
               PROVE  Found(b) = Found(c) /\ Usable(b, "tok2vec") = Usable(c, "tok2vec")
    BY DEF ClonesAgree
  <2>1. \A p \in Pipes : Usable(b, p) <=> Usable(c, p)
    BY DEF IInv, PipesOK
  <2>2. Found(b) = Found(c)
    BY <2>1 DEF Found, Pipes, ModelPipes
  <2>3. Usable(b, "tok2vec") = Usable(c, "tok2vec")
    BY <2>1 DEF Usable, Pipes, ModelPipes
  <2>4. QED
    BY <2>2, <2>3
<1>2. QED
  BY <1>1, Lifecycle, PTL
=============================================================================
