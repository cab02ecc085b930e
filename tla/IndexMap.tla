------------------------------ MODULE IndexMap ------------------------------
(***************************************************************************)
(* What the Rust crate indexmap promises of IndexMap::insert_full, which   *)
(* the Go builder's insertFull says it implements: an insertion-ordered    *)
(* map from keys to values.  Inserting a present key replaces its value in *)
(* place and returns its index; inserting a new key appends it and returns *)
(* the new last index.  Keys are compared by equality, not by a hash.      *)
(***************************************************************************)
EXTENDS Integers, Sequences, SequencesExt

CONSTANTS Keys, Values

VARIABLES
  entries,  \* the map in insertion order: a sequence of <<key, value>>
  index,    \* the index the last insert_full returned
  call      \* the <<key, value>> the last insert_full was given

vars == <<entries, index, call>>

KeysOf(es) == {es[i][1] : i \in DOMAIN es}

Init == entries = <<>> /\ index = 0 /\ call = <<>>

InsertFull(k, v) ==
  /\ call' = <<k, v>>
  /\ IF k \in KeysOf(entries)
       THEN LET i == SelectInSeq(entries, LAMBDA e : e[1] = k) IN
            /\ entries' = [entries EXCEPT ![i] = <<k, v>>]
            /\ index' = i - 1
       ELSE /\ entries' = Append(entries, <<k, v>>)
            /\ index' = Len(entries)

Next == \E k \in Keys, v \in Values : InsertFull(k, v)

Spec == Init /\ [][Next]_vars

\* Every key occurs at most once in the map.
KeysUnique == IsInjective([i \in DOMAIN entries |-> entries[i][1]])
=============================================================================
