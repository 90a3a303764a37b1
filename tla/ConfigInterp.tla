---------------------------- MODULE ConfigInterp ----------------------------
(***************************************************************************)
(* Interpolation of a config file: Config.resolveInterpolations walks the   *)
(* flat key table in the order of a map iteration, pass after pass, and      *)
(* expands the ${...} references of every string value (expandRefs), until   *)
(* a pass changes nothing.                                                   *)
(*                                                                         *)
(* A value is its text, a sequence of literal pieces and of references, and  *)
(* whether it is typed (a number, a boolean, null), when its text has no     *)
(* reference.  A reference is the key it names; one of them may be absent    *)
(* from the file.                                                            *)
(***************************************************************************)
EXTENDS Integers, Sequences, FiniteSets, SequencesExt

CONSTANTS Keys,      \* the keys of the file
          Absent,    \* a key the file does not have
          Literals,  \* pieces of text without references
          Files,     \* the files to start from: functions Keys -> Value
          MaxPass    \* passes before the resolver gives up

Refs == Keys \union {Absent}

Value == [typed : BOOLEAN, text : Seq(Literals \union Refs)]

RefsOf(v) == {v.text[i] : i \in 1..Len(v.text)} \intersect Refs

ASSUME KeysAssumption == IsFiniteSet(Keys) /\ Absent \notin Keys /\ Refs \intersect Literals = {}
ASSUME FilesAssumption ==
  \A f \in Files : f \in [Keys -> Value] /\ \A k \in Keys : f[k].typed => RefsOf(f[k]) = {}
ASSUME PassAssumption == MaxPass \in Nat /\ MaxPass > 1

VARIABLES file,      \* what the parser read (never changes)
          flat,      \* the table being resolved
          pc,        \* "pass" | "expand" | "done" | "failed"
          pass,      \* the pass under way
          todo,      \* the keys the range loop has not reached in this pass
          changed,   \* this pass replaced something
          key,       \* the key being expanded
          out        \* its text so far

vars == <<file, flat, pc, pass, todo, changed, key, out>>

Init ==
  /\ file \in Files
  /\ flat = file
  /\ pc = "pass"
  /\ pass = 0
  /\ todo = Keys
  /\ changed = FALSE
  /\ key = CHOOSE k \in Keys : TRUE
  /\ out = <<>>

HasRef(text) == \E i \in 1..Len(text) : text[i] \in Refs
FirstRef(text) == CHOOSE i \in 1..Len(text) :
                    text[i] \in Refs /\ \A j \in 1..(i - 1) : text[j] \notin Refs

(* The range loop reaches a key whose value has nothing to expand. *)
Skip(k) ==
  /\ pc = "pass" /\ k \in todo
  /\ flat[k].typed \/ ~HasRef(flat[k].text)
  /\ todo' = todo \ {k}
  /\ UNCHANGED <<file, flat, pc, pass, changed, key, out>>

(* ... or a string with references. *)
Expand(k) ==
  /\ pc = "pass" /\ k \in todo
  /\ ~flat[k].typed /\ HasRef(flat[k].text)
  /\ pc' = "expand"
  /\ todo' = todo \ {k}
  /\ key' = k
  /\ out' = flat[k].text
  /\ UNCHANGED <<file, flat, pass, changed>>

(* expandRefs: the first reference gives way to the text of its key. *)
MutSubstituteDropsRest(i) ==
  /\ out' = SubSeq(out, 1, i - 1) \o flat[out[i]].text
  /\ UNCHANGED <<file, flat, pc, pass, todo, changed, key>>
Substitute(i) ==
  /\ out' = SubSeq(out, 1, i - 1) \o flat[out[i]].text \o SubSeq(out, i + 1, Len(out))
  /\ UNCHANGED <<file, flat, pc, pass, todo, changed, key>>

Replace ==
  /\ pc = "expand" /\ HasRef(out)
  /\ out[FirstRef(out)] # Absent
  /\ Substitute(FirstRef(out))

Unresolved ==
  /\ pc = "expand" /\ HasRef(out)
  /\ out[FirstRef(out)] = Absent
  /\ pc' = "failed"
  /\ UNCHANGED <<file, flat, pass, todo, changed, key, out>>

(* fullReplacement: a value that is one reference and nothing else takes the *)
(* typed value of the key it names.                                          *)
IsFull(text) == Len(text) = 1 /\ text[1] \in Keys /\ flat[text[1]].typed

Store ==
  /\ pc = "expand" /\ ~HasRef(out)
  /\ flat' = [flat EXCEPT ![key] =
                IF IsFull(flat[key].text) THEN flat[flat[key].text[1]]
                ELSE [typed |-> FALSE, text |-> out]]
  /\ changed' = TRUE
  /\ pc' = "pass"
  /\ UNCHANGED <<file, pass, todo, key, out>>

(* The pass is over and changed something: another one, up to the limit. *)
MutEndPassUncounted ==
  /\ pc = "pass" /\ todo = {} /\ changed
  /\ todo' = Keys
  /\ UNCHANGED <<file, flat, pc, pass, changed, key, out>>
EndPass ==
  /\ pc = "pass" /\ todo = {} /\ changed
  /\ IF pass + 1 < MaxPass
     THEN pass' = pass + 1 /\ todo' = Keys /\ changed' = FALSE /\ pc' = pc
     ELSE pc' = "failed" /\ UNCHANGED <<pass, todo, changed>>
  /\ UNCHANGED <<file, flat, key, out>>

Finish ==
  /\ pc = "pass" /\ todo = {} /\ ~changed
  /\ pc' = "done"
  /\ UNCHANGED <<file, flat, pass, todo, changed, key, out>>

Next ==
  \/ \E k \in Keys : Skip(k) \/ Expand(k)
  \/ Replace \/ Unresolved \/ Store \/ EndPass \/ Finish

Spec == Init /\ [][Next]_vars
FairSpec == Spec /\ WF_vars(Next)
-----------------------------------------------------------------------------
(***************************************************************************)
(* Properties                                                              *)
(***************************************************************************)

(* Following references d steps deep from each key: the text the file means.  *)
Meaning(d) ==
  LET text[n \in 0..d] ==
        IF n = 0 THEN [k \in Keys |-> file[k].text]
        ELSE [k \in Keys |->
                FlattenSeq([i \in 1..Len(file[k].text) |->
                              IF file[k].text[i] \in Keys THEN text[n - 1][file[k].text[i]]
                              ELSE <<file[k].text[i]>>])]
  IN text[d]

Depth == Cardinality(Keys)

(* No chain of references leads back to its key.                              *)
IsAcyclic(f) ==
  \A X \in SUBSET Keys : X # {} => \E k \in X : RefsOf(f[k]) \intersect X = {}

(* A resolved table says what the file means, whatever order the keys were    *)
(* visited in: the text of every key is its references spelled out, and a key  *)
(* that is one reference to a typed key is typed (fullReplacement).  The       *)
(* resolver fails exactly on a file with a reference to an absent key.         *)
ResolvedAsWritten ==
  /\ pc = "done" => \A k \in Keys :
       /\ flat[k].text = Meaning(Depth)[k]
       /\ Absent \notin RefsOf(file[k])
       /\ Len(file[k].text) = 1 /\ file[k].text[1] \in Keys /\ file[file[k].text[1]].typed
            => flat[k].typed
  /\ pc = "failed" => \E k \in Keys : Absent \in RefsOf(file[k])

(* Every file is resolved or rejected.  The comment of resolveInterpolations   *)
(* says it of files with cyclic references too ("Fails loud on unresolved or   *)
(* cyclic references").                                                        *)
ResolvedOrRejected == <>(pc \in {"done", "failed"})

=============================================================================
