------------------------------ MODULE MCStore ------------------------------
(* Two callers that write step rows and cached copies of an issue, of which  *)
(* the synchronisation has an older one.                                     *)
EXTENDS StoreWriter

MCWrites ==
         [kind : {"insert", "finish", "delete"}, time : {0}]
    \cup {[kind |-> "save", time |-> 2], [kind |-> "sync", time |-> 1]}
=============================================================================
