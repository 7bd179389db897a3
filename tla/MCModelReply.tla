---------------------------- MODULE MCModelReply ----------------------------
(* Small instances of ModelReply: the cfg files give the other constants. *)
EXTENDS ModelReply

MCCandidates == <<"first", "second">>
MCProviderOf == [first |-> "openai", second |-> "chatgpt"]

ThreeCandidates == <<"first", "second", "third">>
ThreeProviders  == [first |-> "openai", second |-> "chatgpt", third |-> "anthropic"]

=============================================================================
