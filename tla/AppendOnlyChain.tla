-------------------------- MODULE AppendOnlyChain --------------------------
(***************************************************************************)
(* What the private partner chain promises to whoever reads it in the      *)
(* order of block_index (getRecentBlocks, verifyBlockchain): a place that  *)
(* holds a block hash holds it forever, and the one way to change the      *)
(* table is to add a hash that is not in it at the next place.             *)
(***************************************************************************)
EXTENDS Integers, Sequences

VARIABLE hashes          \* the block_hash column, by block_index

Init == hashes = <<>>

\* No row that a reader was given is updated, removed or moved.
Settled == \A place \in DOMAIN hashes : hashes'[place] = hashes[place]

\* One row comes after the last, and its block_hash is UNIQUE.
NewAtEnd ==
  /\ Len(hashes') = Len(hashes) + 1
  /\ \A place \in DOMAIN hashes : hashes[place] # hashes'[Len(hashes) + 1]

Extend == Settled /\ NewAtEnd

Spec == Init /\ [][Extend]_hashes
=============================================================================
