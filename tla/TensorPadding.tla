--------------------------- MODULE TensorPadding ---------------------------
(***************************************************************************)
(* Tensor parallelism over a number of ranks that does not divide the      *)
(* groups of the attention's output projection (patches/tp3): the groups   *)
(* are padded, every group keeps its heads, and the loaders give a rank    *)
(* what exists of its share.                                               *)
(*                                                                         *)
(* An axis of a checkpoint tensor is 0 .. real - 1.  What a rank has in    *)
(* its parameter is a function from 0 .. shard - 1 to that axis or Lane,   *)
(* the value of padding (0, and -inf for attn_sink).                       *)
(***************************************************************************)
EXTENDS Integers

Lane == -1

\* pad_groups_for_tp()
PadGroups(groups, tp) ==
    IF tp <= 1 THEN groups ELSE ((groups + tp - 1) \div tp) * tp

\* pad_heads_for_groups(); it raises on heads that are not the same in every
\* group, and on more than 128 local heads.
PadHeads(heads, groups, tp) ==
    IF tp <= 1 THEN heads ELSE PadGroups(groups, tp) * (heads \div groups)

\* local_heads_per_group()
LocalHeadsPerGroup(padded, groups, tp) == padded \div PadGroups(groups, tp)

LocalGroups(groups, tp) == PadGroups(groups, tp) \div tp
LocalHeads(heads, groups, tp) == PadHeads(heads, groups, tp) \div tp

\* What exists from start on, in the first cells, and padding after it.
Clamped(start, shard, real) ==
    [x \in 0 .. shard - 1 |-> IF start + x < real THEN start + x ELSE Lane]

\* load_column_parallel_weight() and load_row_parallel_weight(), along the
\* sharded axis: a parameter as long as the tensor is taken for a replicated one.
Load(rank, shard, real) ==
    Clamped(IF shard = real THEN 0 ELSE rank * shard, shard, real)

\* load_merged_column_weight(): no test for a replicated one.
LoadMerged(rank, shard, real) == Clamped(rank * shard, shard, real)

\* The window of the attn_sink loaders.
LoadSinks(rank, heads, groups, tp) ==
    Clamped(LocalHeads(heads, groups, tp) * rank, LocalHeads(heads, groups, tp), heads)

=============================================================================
