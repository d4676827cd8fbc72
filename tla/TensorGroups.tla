----------------------------- MODULE TensorGroups -----------------------------
(***************************************************************************)
(* How a training rank packs its tensors into few shared buffers and how   *)
(* the worker on the same device takes them out again                      *)
(* (util/tensor_util.py: group_tensors_by_shape_and_dtype and              *)
(* reconstruct_tensors_from_groups).                                       *)
(*                                                                         *)
(* A tensor is a record with its dtype and its rows.  All its dimensions   *)
(* but the first are left out, and a row counts as one element.            *)
(***************************************************************************)
EXTENDS Naturals, Sequences, SequencesExt

CONSTANTS
  MaxTensorSize   \* max_tensor_size, in rows

GroupKey(t) == <<Len(t.rows), t.dtype>>

\* The indices of the tensors of a key, in the order of the list.
Members(tensors, key) ==
  FlattenSeq([i \in DOMAIN tensors |-> IF GroupKey(tensors[i]) = key THEN <<i>> ELSE <<>>])

\* The keys, in the order in which the list first has them.
Keys(tensors) ==
  FlattenSeq([i \in DOMAIN tensors |->
    IF \E j \in 1 .. i - 1 : GroupKey(tensors[j]) = GroupKey(tensors[i]) THEN <<>>
    ELSE <<GroupKey(tensors[i])>>])

RowsOf(tensors, indices) == FlattenSeq([k \in DOMAIN indices |-> tensors[indices[k]].rows])

\* Mutant: the group that is still open after the last tensor is forgotten.
SplitMembersClosed(tensors, members) ==
  LET Take(acc, i) ==
        LET current == Append(acc.current, i) IN
        IF Len(RowsOf(tensors, current)) > MaxTensorSize
          THEN [closed |-> Append(acc.closed, current), current |-> <<>>]
          ELSE [closed |-> acc.closed, current |-> current]
  IN FoldLeft(Take, [closed |-> <<>>, current |-> <<>>], members).closed

\* A group is closed by the tensor that makes it larger than the limit.
SplitMembers(tensors, members) ==
  LET Take(acc, i) ==
        LET current == Append(acc.current, i) IN
        IF Len(RowsOf(tensors, current)) > MaxTensorSize
          THEN [closed |-> Append(acc.closed, current), current |-> <<>>]
          ELSE [closed |-> acc.closed, current |-> current]
      last == FoldLeft(Take, [closed |-> <<>>, current |-> <<>>], members)
  IN IF last.current = <<>> THEN last.closed ELSE Append(last.closed, last.current)

\* The groups, as sequences of indices.
GroupIndices(tensors) ==
  LET keys == Keys(tensors)
  IN FlattenSeq([k \in DOMAIN keys |-> SplitMembers(tensors, Members(tensors, keys[k]))])

\* torch.cat of the tensors of every group
Groups(tensors) ==
  LET indices == GroupIndices(tensors)
  IN [g \in DOMAIN indices |-> RowsOf(tensors, indices[g])]

\* Where every tensor is.
Metadata(tensors) ==
  LET indices == GroupIndices(tensors)
  IN UNION {{[originalIndex |-> indices[g][k], groupIndex |-> g,
              offset |-> Len(RowsOf(tensors, SubSeq(indices[g], 1, k - 1))),
              size |-> Len(tensors[indices[g][k]].rows)] :
               k \in DOMAIN indices[g]} : g \in DOMAIN indices}

\* The rows of all tensors again, in the order of the list they came from.
Reconstruct(groups, metadata) ==
  [i \in {m.originalIndex : m \in metadata} |->
     LET m == CHOOSE x \in metadata : x.originalIndex = i
     IN SubSeq(groups[m.groupIndex], m.offset + 1, m.offset + m.size)]
=============================================================================
