------------------------------- MODULE Ledger -------------------------------
(***************************************************************************)
(* What layer 1 promises its callers: an append-only collection of         *)
(* timestamped chains.  `blocks' lists the stored blocks in the order they *)
(* were stored; a block is named by its place in that list, which stands   *)
(* for its hash (see Blockchain), and 0 stands for "no block".             *)
(*                                                                         *)
(* Two promises are told apart.  A LINEAR ledger extends a chain only at   *)
(* its last block; a FOREST ledger extends any block, so a chain may fork, *)
(* but it still numbers and timestamps the blocks of every branch.         *)
(***************************************************************************)
EXTENDS Integers, Sequences

CONSTANT Times  \* the readings the time source may return

VARIABLE blocks

Block == [prev : Nat, seq : Nat, ts : Times]

Init == blocks = <<>>

(* A new chain starts with sequence number 1. *)
StartChain(t) == blocks' = Append(blocks, [prev |-> 0, seq |-> 1, ts |-> t])

(* A later block is numbered one past its predecessor and is not older. *)
Extend(p, t) ==
    /\ blocks[p].ts <= t
    /\ blocks' = Append(blocks, [prev |-> p, seq |-> blocks[p].seq + 1, ts |-> t])

IsLast(p) == \A n \in DOMAIN blocks : blocks[n].prev # p

LinearNext ==
    \E t \in Times : \/ StartChain(t)
                     \/ \E p \in DOMAIN blocks : IsLast(p) /\ Extend(p, t)

ForestNext ==
    \E t \in Times : \/ StartChain(t)
                     \/ \E p \in DOMAIN blocks : Extend(p, t)

LinearSpec == Init /\ [][LinearNext]_blocks
ForestSpec == Init /\ [][ForestNext]_blocks
=============================================================================
