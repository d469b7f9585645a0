----------------------------- MODULE BTreeIndex -----------------------------
(***************************************************************************)
(* The index of internal/jsondb/btree.go.                                  *)
(*                                                                         *)
(* splitChild cuts the full child to its first degree - 1 keys and then    *)
(* reads child.keys[degree - 1], which is out of range: Insert panics      *)
(* before it installs the new root.  The deferred unlock leaves the index  *)
(* usable, with the root cut.  So the root always is a leaf, and the tree  *)
(* is the sequence of the keys of its root, with a value for each.         *)
(***************************************************************************)
EXTENDS Integers, Sequences, SequencesExt

CONSTANTS Keys,        \* numbers, of one of the types compare knows
          Degree,
          MaxInserts   \* how many calls of Insert are made

VARIABLES root,      \* the keys and values of the root, in order
          size,      \* BTreeIndex.size
          calls,     \* how many calls of Insert have been made
          inserted,  \* history: the keys whose Insert returned
          panics     \* how many calls of Insert have panicked

vars == <<root, size, calls, inserted, panics>>

Init == root = <<>> /\ size = 0 /\ calls = 0 /\ inserted = {} /\ panics = 0

(* sort.Search: the first position whose key is not less than k.           *)
Position(k) == Len(SelectSeq(root, LAMBDA e : e.key < k)) + 1

Full == Len(root) = 2 * Degree

insertNonFull(k, v) ==
    /\ root' = InsertAt(root, Position(k), [key |-> k, value |-> v])
    /\ size' = size + 1
    /\ inserted' = inserted \cup {k}
    /\ UNCHANGED panics

splitChild ==
    /\ root' = SubSeq(root, 1, Degree - 1)
    /\ panics' = panics + 1
    /\ UNCHANGED <<size, inserted>>

Insert(k) ==
    /\ calls < MaxInserts
    /\ calls' = calls + 1
    /\ \/ ~Full /\ insertNonFull(k, calls)
       \/ Full /\ splitChild

Next == \E k \in Keys : Insert(k)
Spec == Init /\ [][Next]_vars

(* Search: the value at the position of k, if the key there is k.          *)
Search(k) ==
    LET i == Position(k) IN
    IF i <= Len(root) /\ root[i].key = k THEN {root[i].value} ELSE {}

(* Search finds every key that has been inserted.                          *)
InsertedIsFound == \A k \in inserted : Search(k) # {}

=============================================================================
