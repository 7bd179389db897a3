------------------------------ MODULE MCSignIn ------------------------------
(* A small instance of SignIn: two threads of the brain, and the test of a *)
(* route in the settings of the UI worker.                                 *)
EXTENDS SignIn

MCProcessOf == [query |-> "brain", agent |-> "brain", probe |-> "ui"]

=============================================================================
