---------------------------- MODULE StorageArea ----------------------------
(***************************************************************************)
(* The versioned string map behind one Web Storage area of one origin:     *)
(* src/storage/area.rs, with the operations of src/storage.rs and the      *)
(* change records of src/storage/changes.rs and synchronization.rs.        *)
(*                                                                         *)
(* A map is a total function from Keys to Values \cup {None}; None is an   *)
(* absent key.  A value is the natural number of quota bytes it occupies,  *)
(* which is all that the quota rules tell apart.  An operation carries the *)
(* (key, value) pair that StorageChange also uses: Set has both, Remove    *)
(* has no value, Clear has neither.                                        *)
(***************************************************************************)
EXTENDS Integers, FiniteSets, FiniteSetsExt, Sequences

CONSTANTS Keys,        \* storage keys
          Values,      \* storage values, each the number of bytes it costs
          None,        \* Rust's Option::None
          KeyBytes,    \* StorageString::byte_len of a key
          MaxEntries,  \* MAX_STORAGE_ENTRIES_PER_ORIGIN
          MaxBytes     \* MAX_STORAGE_BYTES_PER_ORIGIN

ASSUME AreaAssumption ==
    /\ Values \subseteq Nat
    /\ None \notin Values
    /\ None \notin Keys
    /\ KeyBytes \in Nat
    /\ MaxEntries \in Nat
    /\ MaxBytes \in Nat

Maps == [Keys -> Values \cup {None}]

EmptyMap == [k \in Keys |-> None]

Operations == {op \in [key : Keys \cup {None}, value : Values \cup {None}] :
                 op.key = None => op.value = None}

(* StorageAreaState::len and byte_len. *)
EntryCount(m) == Cardinality({k \in Keys : m[k] # None})
ByteLen(m) == MapThenSumSet(LAMBDA k : KeyBytes + m[k],
                            {k \in Keys : m[k] # None})

(* The map an operation leaves behind, whether or not it differs. *)
ApplyMap(m, op) ==
    IF op.key = None THEN EmptyMap ELSE [m EXCEPT ![op.key] = op.value]

(* A Set of the stored value, a Remove of a missing key and a Clear of an  *)
(* empty map change nothing.                                               *)
OperationChanges(m, op) ==
    IF op.key = None THEN \E k \in Keys : m[k] # None
                     ELSE m[op.key] # op.value

(* The quota preflight of StorageAreaState::apply: only a Set that changes *)
(* the map can be refused, by the entry count when it adds a key and by    *)
(* the total of the map it would produce.                                  *)
WithinQuota(m, op) ==
    (op.value # None /\ OperationChanges(m, op)) =>
        /\ m[op.key] # None \/ EntryCount(m) < MaxEntries
        /\ ByteLen(ApplyMap(m, op)) <= MaxBytes

(* StorageChange: the record that is broadcast for one actual change.  Its *)
(* key is None exactly for a Clear, which carries no values.               *)
Changes == [key : Keys \cup {None}, old : Values \cup {None},
            new : Values \cup {None}]

ASSUME ChangeAssumption == None \notin Changes

(* StorageChange::before. *)
ChangeBefore(m, op) ==
    [key |-> op.key,
     old |-> IF op.key = None THEN None ELSE m[op.key],
     new |-> op.value]

(* StorageChange::operation. *)
Operation(change) == [key |-> change.key, value |-> change.new]

(***************************************************************************)
(* The overlay of pending operations on a map: a key holds what the last   *)
(* operation that touches it left, or the map's own value.  The loop at    *)
(* the end of StorageProjection::apply computes it.                        *)
(***************************************************************************)
Touches(op, k) == op.key = None \/ op.key = k

TouchedIn(ops, k) == {i \in 1 .. Len(ops) : Touches(ops[i], k)}

Overlay(m, ops) ==
    [k \in Keys |->
        IF TouchedIn(ops, k) = {} THEN m[k]
        ELSE LET last == CHOOSE i \in TouchedIn(ops, k) :
                            \A j \in TouchedIn(ops, k) : j <= i
             IN  ops[last].value]
=============================================================================
