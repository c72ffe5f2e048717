---------------------------- MODULE MCThreadReply -----------------------------
(* TLC instance of ThreadReply: the constants are given in the .cfg files. *)
EXTENDS ThreadReply
==============================================================================
