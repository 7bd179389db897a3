---------------------------- MODULE MCReplyFlows ----------------------------
(* A small instance of ReplyFlows: the first reply is the longer one. *)
EXTENDS ReplyFlows

MCLength == [f \in 1 .. NFlows |-> IF f = 1 THEN NSentences ELSE 1]

=============================================================================
