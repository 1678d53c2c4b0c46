----------------------------- MODULE ChainStore -----------------------------
(***************************************************************************)
(* What the blocks table promises to the rest of the node (spec 4.3 and    *)
(* 4.5): it holds blocks 1..n, each linked to the one below it, and it     *)
(* changes in two ways only.  A block is installed on top of the blocks    *)
(* below its index, linked to the one under it: at n + 1 this is an        *)
(* append, at a lower index it replaces the suffix from there (a fork).    *)
(* Or the table is cut back to the blocks below an index it holds.         *)
(* Nothing else, such as a change in the middle, a gap, or two blocks at   *)
(* once, may happen.  Chain.tla's blocks table implements this module.     *)
(***************************************************************************)
EXTENDS Naturals

CONSTANTS
    Block,          \* the blocks
    MaxIndex,       \* the highest index a block may have
    Follows(_, _)   \* Follows(b, a): b carries the hash of a

VARIABLE store      \* the blocks table, a function from 1..n

\* A table 1..n of blocks at their own index, each following the one below.
IsLinked(s) ==
    /\ \E n \in 0..MaxIndex : DOMAIN s = 1..n
    /\ \A i \in DOMAIN s : s[i] \in Block /\ s[i].idx = i
    /\ \A i \in DOMAIN s \ {1} : Follows(s[i], s[i - 1])

\* The blocks below index i.
Below(i) == [j \in {k \in DOMAIN store : k < i} |-> store[j]]

\* A block goes in at index i, on top of the blocks below i and following
\* the one under it: an append when i = n + 1, a fork replacing the
\* suffix from i otherwise.
InstallAt(i) ==
    /\ i - 1 \in DOMAIN store \cup {0}
    /\ DOMAIN store' = 1..i
    /\ \A j \in 1..(i - 1) : store'[j] = store[j]
    /\ store'[i] \in Block /\ store'[i].idx = i
    /\ i # 1 => Follows(store'[i], store[i - 1])

\* The table is cut back to the blocks below index i.
CutFrom(i) ==
    /\ i \in DOMAIN store
    /\ store' = Below(i)

Init == IsLinked(store)

Next == \E i \in 1..MaxIndex : InstallAt(i) \/ CutFrom(i)

Spec == Init /\ [][Next]_store

=============================================================================
