------------------------------ MODULE Session ------------------------------
(***************************************************************************)
(* A CindermarkParser (src/lib.rs) and the threads of a host that share    *)
(* it.  parse_editable parses before it takes the lock, and stores; the    *)
(* incremental calls hold the lock from reading the snapshot to storing    *)
(* the next one.  A panic under the lock poisons it, and lock().unwrap()   *)
(* then panics in every later call.                                        *)
(*                                                                         *)
(* The host (external) has one buffer.  A call takes its text, after an    *)
(* edit or as it is, and reports the edit just made.  Nothing makes its    *)
(* threads get the lock in the order they were called.                     *)
(***************************************************************************)
EXTENDS ParserCalls, Naturals

CONSTANTS
  Callers,   \* threads of the host
  MaxCalls   \* bound on the calls made

ASSUME SessionAssumption == MaxCalls \in Nat /\ None \notin Callers

VARIABLES
  snapshot,  \* the Mutex's contents
  lock,      \* the caller that holds the Mutex, or None
  poisoned,
  buffer,    \* the host's text
  pc,        \* where each caller is
  request,   \* its call
  prev,      \* the snapshot it read under the lock
  answer,
  issued,    \* history: calls made, and the number of each caller's call
  ticket,
  overtaken  \* history: has a call taken effect before an older one?

object  == <<snapshot, lock, poisoned>>
thread  == <<pc, request, prev, answer>>
history == <<issued, ticket, overtaken>>
vars == <<object, thread, buffer, history>>

\* A call that has yet to touch the snapshot.
Awaits(c) == request[c].op # "parse" /\ pc[c] \in {"parsing", "waiting", "inside"}

Places == {"idle", "parsing", "waiting", "inside", "done"}

Init ==
  /\ snapshot = None /\ lock = None /\ poisoned = FALSE
  /\ buffer \in Texts
  /\ pc = [c \in Callers |-> "idle"]
  /\ request \in [Callers -> {[op |-> "reset_state", base |-> buffer, text |-> buffer]}]
  /\ prev = [c \in Callers |-> None]
  /\ answer = [c \in Callers |-> "right"]
  /\ issued = 0 /\ ticket = [c \in Callers |-> 0]
  /\ overtaken = FALSE

\* A call of the host, after an edit of the buffer or none.
Invoke(c) ==
  /\ pc[c] = "idle" /\ issued < MaxCalls
  /\ \E r \in Requests :
       /\ r.base = buffer
       /\ r.op \in {"parse", "reset_state"} => r.text = buffer
       /\ request' = [request EXCEPT ![c] = r]
       /\ pc' = [pc EXCEPT ![c] =
                   IF r.op \in {"parse", "parse_editable"} THEN "parsing" ELSE "waiting"]
       /\ buffer' = r.text
  /\ issued' = issued + 1
  /\ ticket' = [ticket EXCEPT ![c] = issued + 1]
  /\ UNCHANGED <<object, prev, answer, overtaken>>

\* parse returns; parse_editable goes on to store its snapshot.
Parse(c) ==
  /\ pc[c] = "parsing"
  /\ pc' = [pc EXCEPT ![c] = IF request[c].op = "parse" THEN "done" ELSE "waiting"]
  /\ answer' = [answer EXCEPT ![c] = "right"]
  /\ UNCHANGED <<object, request, prev, buffer, history>>

\* Fault: the lock is not exclusive.
LockShared(c) ==
  /\ pc[c] = "waiting" /\ ~ poisoned
  /\ lock' = c
  /\ prev' = [prev EXCEPT ![c] = snapshot]
  /\ pc' = [pc EXCEPT ![c] = "inside"]
  /\ UNCHANGED <<snapshot, poisoned, request, answer, buffer, history>>

\* self.state.lock().unwrap()
Lock(c) ==
  /\ pc[c] = "waiting" /\ lock = None /\ ~ poisoned
  /\ lock' = c
  /\ prev' = [prev EXCEPT ![c] = snapshot]
  /\ pc' = [pc EXCEPT ![c] = "inside"]
  /\ UNCHANGED <<snapshot, poisoned, request, answer, buffer, history>>

\* Fault: the poison is ignored.
LockRecovers(c) ==
  /\ pc[c] = "waiting" /\ lock = None /\ poisoned
  /\ lock' = c
  /\ prev' = [prev EXCEPT ![c] = snapshot]
  /\ pc' = [pc EXCEPT ![c] = "inside"]
  /\ UNCHANGED <<snapshot, poisoned, request, answer, buffer, history>>

LockPoisoned(c) ==
  /\ pc[c] = "waiting" /\ lock = None /\ poisoned
  /\ pc' = [pc EXCEPT ![c] = "done"]
  /\ answer' = [answer EXCEPT ![c] = "panic"]
  /\ UNCHANGED <<object, request, prev, buffer, history>>

\* Fault: an incremental call does not store its snapshot.
StoreForgets(c) ==
  /\ pc[c] = "inside"
  /\ \E o \in Outcomes(prev[c], request[c]) :
       /\ snapshot' = (IF request[c].op = "incremental" THEN snapshot ELSE o.snapshot)
       /\ poisoned' = (poisoned \/ o.answer = "panic")
       /\ answer' = [answer EXCEPT ![c] = o.answer]
  /\ lock' = None
  /\ pc' = [pc EXCEPT ![c] = "done"]
  /\ overtaken' = (overtaken \/ \E d \in Callers : Awaits(d) /\ ticket[d] < ticket[c])
  /\ UNCHANGED <<request, prev, buffer, issued, ticket>>

\* Fault: a panic keeps the lock.
StoreKeepsLock(c) ==
  /\ pc[c] = "inside"
  /\ \E o \in Outcomes(prev[c], request[c]) :
       /\ snapshot' = (IF o.answer = "panic" THEN snapshot ELSE o.snapshot)
       /\ poisoned' = (poisoned \/ o.answer = "panic")
       /\ answer' = [answer EXCEPT ![c] = o.answer]
       /\ lock' = (IF o.answer = "panic" THEN lock ELSE None)
  /\ pc' = [pc EXCEPT ![c] = "done"]
  /\ overtaken' = (overtaken \/ \E d \in Callers : Awaits(d) /\ ticket[d] < ticket[c])
  /\ UNCHANGED <<request, prev, buffer, issued, ticket>>

\* The snapshot is stored, or the call panics; either drops the lock.
Store(c) ==
  /\ pc[c] = "inside"
  /\ \E o \in Outcomes(prev[c], request[c]) :
       /\ snapshot' = (IF o.answer = "panic" THEN snapshot ELSE o.snapshot)
       /\ poisoned' = (poisoned \/ o.answer = "panic")
       /\ answer' = [answer EXCEPT ![c] = o.answer]
  /\ lock' = None
  /\ pc' = [pc EXCEPT ![c] = "done"]
  /\ overtaken' = (overtaken \/ \E d \in Callers : Awaits(d) /\ ticket[d] < ticket[c])
  /\ UNCHANGED <<request, prev, buffer, issued, ticket>>

Return(c) ==
  /\ pc[c] = "done"
  /\ pc' = [pc EXCEPT ![c] = "idle"]
  /\ UNCHANGED <<object, request, prev, answer, buffer, history>>

Runs(c) == Parse(c) \/ Lock(c) \/ LockPoisoned(c) \/ Store(c) \/ Return(c)

Next == \E c \in Callers : Invoke(c) \/ Runs(c)

\* A thread in a call keeps running.
Spec == Init /\ [][Next]_vars /\ \A c \in Callers : WF_vars(Runs(c))

-----------------------------------------------------------------------------
TypeOK ==
  /\ snapshot \in Snapshots /\ lock \in Callers \cup {None} /\ poisoned \in BOOLEAN
  /\ buffer \in Texts
  /\ pc \in [Callers -> Places] /\ request \in [Callers -> Requests]
  /\ prev \in [Callers -> Snapshots] /\ answer \in [Callers -> Answers]
  /\ issued \in Nat /\ ticket \in [Callers -> Nat] /\ overtaken \in BOOLEAN

(* The lock does its work: one caller at a time is between reading the     *)
(* snapshot and storing the next, and what it read is what is there when   *)
(* it stores (the guard held over parse_editable_incremental).             *)
LockProtects ==
  \A c \in Callers :
    pc[c] = "inside" => lock = c /\ ~ poisoned /\ prev[c] = snapshot

(* As long as calls take effect in the order they were made, whichever     *)
(* thread makes them, each answer is the right one, no call panics, and    *)
(* the snapshot left behind is sound: the edits chain, each from the text  *)
(* of the one before.                                                      *)
RightInOrder ==
  ~ overtaken =>
    /\ ~ poisoned
    /\ \A c \in Callers : answer[c] = "right"
    /\ snapshot # None => snapshot.sound

(* Every call returns, also when another panicked under the lock.          *)
CallsReturn == \A c \in Callers : pc[c] # "idle" ~> pc[c] = "idle"

\* The calls as their callers see them.
Call(c) ==
  CASE pc[c] = "idle" -> None
    [] pc[c] = "done" -> [status |-> "answered", request |-> request[c], answer |-> answer[c]]
    [] OTHER          -> [status |-> "pending", request |-> request[c], answer |-> "none"]

Object == INSTANCE ParserObject WITH calls <- [c \in Callers |-> Call(c)]

(* The object is atomic: what its callers see is what ParserObject allows, *)
(* where each call takes effect at one instant.                            *)
IsAtomic == Object!Spec
=============================================================================
