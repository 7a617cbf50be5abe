------------------ MODULE MCDataSenderManagerWorkerThread -------------------
(* A small instance of the sender thread: two new payloads, one of them  *)
(* of a scheme without persist_flag, and one payload persisted by an     *)
(* earlier run.                                                          *)
EXTENDS DataSenderManagerWorkerThread

CONSTANTS x1, x2, old

MCPayloads == {x1, x2}

MCStoredAtStart == {old}

\* x2 belongs to a scheme without persist_flag.
MCNoPersist == {x2}

=============================================================================
