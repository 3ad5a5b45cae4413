----------------------------- MODULE BrickState -----------------------------
(***************************************************************************)
(* The variables the modules of the bricks and of the libraries share.     *)
(* state is the private structure of the brick (its field kind tells which *)
(* brick it is), call the last call made to it and what it returned, sent  *)
(* the bursts it made to its neighbours during that call, in order.  A     *)
(* brick is only called by one thread at a time, so a call is one step;    *)
(* what its neighbours answer and which allocations fail are choices of    *)
(* the step.                                                               *)
(***************************************************************************)

VARIABLES state, call, sent

dpvars == <<state, call, sent>>

\* Between two calls.
NoCall == [op |-> "none"]

Idle == call = NoCall

\* The call returns to the caller.
Return ==
  /\ ~Idle
  /\ call' = NoCall
  /\ sent' = <<>>
  /\ UNCHANGED state
=============================================================================
