---------------------------- MODULE MCJobDelivery ----------------------------
(***************************************************************************)
(* Two calls and two workers.  The calls may give the same job id, with    *)
(* one attempt or two, or none; one kind of job has no handler, and one    *)
(* input is refused.                                                       *)
(***************************************************************************)
EXTENDS JobDelivery

Inputs ==
    {[name |-> "registered", jobId |-> id, attempts |-> attempts] : id \in JobId, attempts \in {None, 2}}
       \cup {[name |-> "unregistered", jobId |-> None, attempts |-> None],
             [name |-> "unsafe", jobId |-> None, attempts |-> None]}
=============================================================================
