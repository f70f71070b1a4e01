---------------------------- MODULE FilterBlock ----------------------------
(***************************************************************************)
(* The filter block of a table (leveldb/table/filter_block.cc): one filter *)
(* for the keys of all data blocks that start in the same kFilterBase      *)
(* bytes of the file, found again through an array of offsets.             *)
(*                                                                         *)
(* Keys are internal keys, of which the policy sees the user part.  A      *)
(* filter is a sequence element of result_, so that an offset into result_ *)
(* is a number of filters, and an empty filter takes no room at all.       *)
(***************************************************************************)
EXTENDS Naturals, Sequences, SequencesExt

CONSTANTS
  FilterBase,   \* kFilterBase: bytes of data per filter (2KB in the code)
  HashRange     \* hash values the policy tells apart

ASSUME FilterBaseAssumption == FilterBase \in Nat \ {0}
ASSUME HashRangeAssumption  == HashRange \in Nat \ {0}

-----------------------------------------------------------------------------
(* The policy, as its interface promises: it matches every key of the list *)
(* and possibly others.  An empty slice matches nothing.                   *)

PolicyCreateFilter(users) == {users[i] % HashRange : i \in DOMAIN users}

PolicyKeyMayMatch(user, filter) == user % HashRange \in filter

CreateFilter(keys) == PolicyCreateFilter([i \in DOMAIN keys |-> keys[i].user])

-----------------------------------------------------------------------------
(* FilterBlockBuilder: keys since the last filter, offsets, filters.       *)

EmptyBuilder == [keys |-> <<>>, filter_offsets |-> <<>>, result |-> <<>>]

GenerateFilter(b) ==
  [keys           |-> <<>>,
   filter_offsets |-> Append(b.filter_offsets, Len(b.result)),
   result         |-> IF b.keys = <<>> THEN b.result
                      ELSE Append(b.result, CreateFilter(b.keys))]

StartBlock(b, block_offset) ==
  LET missing == block_offset \div FilterBase - Len(b.filter_offsets)
  IN  FoldLeft(LAMBDA acc, i : GenerateFilter(acc), b, [i \in 1 .. missing |-> i])

AddKey(b, key) == [b EXCEPT !.keys = Append(@, key)]

\* The filters, followed by the array of offsets and the array's own offset.
Finish(b) ==
  LET g == IF b.keys = <<>> THEN b ELSE GenerateFilter(b)
  IN  [data |-> g.result, offset |-> Append(g.filter_offsets, Len(g.result))]

-----------------------------------------------------------------------------
(* FilterBlockReader. *)

\* Mutant: the limit of a filter is taken from its own entry of the array.
KeyMayMatchOwnLimit(f, block_offset, key) ==
  LET index == block_offset \div FilterBase
  IN  index < Len(f.offset) - 1 =>
        LET start == f.offset[index + 1]
            limit == f.offset[index + 1]
        IN  start < limit /\ PolicyKeyMayMatch(key.user, f.data[start + 1])

\* The entry after the last is the array's own offset, the end of the filters.
KeyMayMatch(f, block_offset, key) ==
  LET index == block_offset \div FilterBase
  IN  index < Len(f.offset) - 1 =>
        LET start == f.offset[index + 1]
            limit == f.offset[index + 2]
        IN  start < limit /\ PolicyKeyMayMatch(key.user, f.data[start + 1])

=============================================================================
