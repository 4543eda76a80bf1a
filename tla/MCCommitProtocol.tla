-------------------------- MODULE MCCommitProtocol --------------------------
(* CommitProtocol with two tables: small and large inserts, and drops. *)
EXTENDS CommitProtocol

CONSTANTS t1, t2

File(t, n) == [table |-> t, records |-> n]
MCTable == {t1, t2}
MCWork == {<<File(t1, 1)>>, <<File(t1, 2), File(t2, 1), File(t1, 1)>>}
=============================================================================
