----------------------------- MODULE XpdkAsync -----------------------------
(***************************************************************************)
(* What xpdk_read_async and xpdk_write_async promise their caller, without *)
(* messages, ring, handlers or bdevs: an accepted request is answered by   *)
(* exactly one call of its callback, with success or with an I/O error, in *)
(* any order with respect to the others; a request that a shutdown finds   *)
(* unanswered may stay so (Restart).                                       *)
(*                                                                         *)
(* XpdkSystem implements this specification (MCXpdkSystem states it), and  *)
(* XpdkBatch is built on it.                                               *)
(***************************************************************************)
CONSTANT Reqs      \* requests: a memory cell each, used again and again

VARIABLE answer    \* per request: "none", "owed", or what its callback was told

Outcomes == {"SUCCESS", "IO"}

Init == answer = [r \in Reqs |-> "none"]

\* The call returns XPDK_SUCCESS.  A call that is refused changes nothing.
Accept(r) ==
    /\ answer[r] = "none"
    /\ answer' = [answer EXCEPT ![r] = "owed"]

\* The callback is called with the outcome s.
Answer(r, s) ==
    /\ answer[r] = "owed"
    /\ s \in Outcomes
    /\ answer' = [answer EXCEPT ![r] = s]

\* The cell of an answered request is taken for another one.
Recycle(r) ==
    /\ answer[r] \in Outcomes
    /\ answer' = [answer EXCEPT ![r] = "none"]

\* The library is started again; what it had not answered, it never will.
Restart == answer' = [r \in Reqs |-> "none"]

Next ==
    \/ \E r \in Reqs : Accept(r) \/ Recycle(r) \/ \E s \in Outcomes : Answer(r, s)
    \/ Restart

Answered(r) == \E s \in Outcomes : Answer(r, s)

Spec == Init /\ [][Next]_answer

FairSpec == Spec /\ \A r \in Reqs : WF_answer(Answered(r))

=============================================================================
