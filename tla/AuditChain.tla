------------------------------ MODULE AuditChain ------------------------------
(***************************************************************************)
(* What a hash-chained audit log promises: one chain of entries, which only *)
(* ever grows at its end, by one entry at a time.  A hash is the sequence  *)
(* of everything it covers, so the latest hash is the whole chain.         *)
(***************************************************************************)
EXTENDS Sequences

CONSTANT Entries

VARIABLE chain

ChainInit == chain = <<>>

Extend == \E entry \in Entries : chain' = Append(chain, entry)

ChainSpec == ChainInit /\ [][Extend]_chain
===============================================================================
