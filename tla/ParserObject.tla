---------------------------- MODULE ParserObject ----------------------------
(***************************************************************************)
(* What CindermarkParser promises its callers ("Thread-safe: uses a Mutex  *)
(* internally"): each call takes effect at one instant between its start   *)
(* and its return, so that any number of threads see one object.  Once a   *)
(* call has panicked inside, every call that needs the snapshot panics.    *)
(***************************************************************************)
EXTENDS ParserCalls

CONSTANT Callers

VARIABLES
  snapshot,  \* the parser's snapshot
  poisoned,  \* has a call panicked inside?
  calls      \* the call of each caller, or None

vars == <<snapshot, poisoned, calls>>

Pending(request)          == [status |-> "pending", request |-> request, answer |-> "none"]
Answered(request, answer) == [status |-> "answered", request |-> request, answer |-> answer]

Init ==
  /\ snapshot = None
  /\ poisoned = FALSE
  /\ calls = [c \in Callers |-> None]

Invoke(c) ==
  /\ calls[c] = None
  /\ \E r \in Requests : calls' = [calls EXCEPT ![c] = Pending(r)]
  /\ UNCHANGED <<snapshot, poisoned>>

\* The call happens, all at once.
TakeEffect(c) ==
  \E r \in Requests :
    /\ calls[c] = Pending(r)
    /\ poisoned => r.op = "parse"
    /\ \E o \in Outcomes(snapshot, r) :
         /\ snapshot' = o.snapshot
         /\ poisoned' = (poisoned \/ o.answer = "panic")
         /\ calls' = [calls EXCEPT ![c] = Answered(r, o.answer)]

Refuse(c) ==
  \E r \in Requests :
    /\ calls[c] = Pending(r)
    /\ poisoned /\ r.op # "parse"
    /\ calls' = [calls EXCEPT ![c] = Answered(r, "panic")]
    /\ UNCHANGED <<snapshot, poisoned>>

Return(c) ==
  /\ \E r \in Requests, a \in Answers : calls[c] = Answered(r, a)
  /\ calls' = [calls EXCEPT ![c] = None]
  /\ UNCHANGED <<snapshot, poisoned>>

Next == \E c \in Callers : Invoke(c) \/ TakeEffect(c) \/ Refuse(c) \/ Return(c)

Spec == Init /\ [][Next]_vars
=============================================================================
