---------------------------- MODULE PartnerChain ----------------------------
(***************************************************************************)
(* The private partner chain (webui/services/blockchainService.js): a      *)
(* table of blocks in PostgreSQL.  Each operator is one query: createBlock *)
(* reads the latest block in one query and inserts its successor in        *)
(* another, and only UNIQUE (block_index) stands between two writers that  *)
(* read the same block.                                                    *)
(*                                                                         *)
(* A block's hash is collision-free, so it is the tuple of the contents it *)
(* is computed from.  Timestamp and payload are left out: equal contents   *)
(* mean equal indexes, which the table refuses anyway.                     *)
(***************************************************************************)
EXTENDS Integers

CONSTANTS Users, None

VARIABLE blocks          \* private_blockchain: its rows

Events == {"GENESIS", "JOINED", "AUTHENTICATED"}
GenesisPrevious == <<>>

\* calculateBlockHash.
Hash(b) == <<b.index, b.user, b.event, b.previous>>

Sealed(b) == [index |-> b.index, user |-> b.user, event |-> b.event,
              previous |-> b.previous, hash |-> Hash(b)]

Genesis == Sealed([index |-> 0, user |-> None, event |-> "GENESIS",
                   previous |-> GenesisPrevious])

\* ORDER BY block_index DESC LIMIT 1.
Latest(b) == b \in blocks /\ \A c \in blocks : c.index <= b.index

\* The block createBlock builds on the one it read.
Successor(b, user, event) ==
  Sealed([index |-> b.index + 1, user |-> user, event |-> event,
          previous |-> b.hash])

\* UNIQUE (block_index).
Vacant(index) == \A c \in blocks : c.index # index

\* Mutation: no UNIQUE (block_index), so INSERT always succeeds.
Insert_Any(b) == blocks' = blocks \cup {b}

\* Mutation: INSERT ... ON CONFLICT DO UPDATE.
Insert_Upsert(b) ==
  blocks' = {c \in blocks : c.index # b.index} \cup {b}

Insert(b) ==
  /\ Vacant(b.index)
  /\ blocks' = blocks \cup {b}

-----------------------------------------------------------------------------
\* verifyBlockchain: the rows in order of their index, rows of one index in
\* whichever order, each one's previous hash compared with the hash of the row
\* before it.
Before(b) == {c \in blocks : c # b /\ c.index <= b.index}

FollowsRowBefore(b) ==
  IF Before(b) = {} THEN b.previous = GenesisPrevious
  ELSE \A c \in Before(b) :
         (\A d \in Before(b) : d.index <= c.index) => b.previous = c.hash

Valid == \A b \in blocks : FollowsRowBefore(b) /\ b.hash = Hash(b)
=============================================================================
