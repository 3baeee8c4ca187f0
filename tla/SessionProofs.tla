--------------------------- MODULE SessionProofs ---------------------------
(***************************************************************************)
(* Theorems about Session, for any callers, texts and number of calls: the *)
(* lock does its work, the parser is atomic, and answers are right as long *)
(* as no call overtakes another.                                           *)
(***************************************************************************)
EXTENDS Session, TLAPS

(***************************************************************************)
(* Types.                                                                  *)
(***************************************************************************)
LEMMA OutcomesType ==
  ASSUME NEW s \in Snapshots, NEW r \in Requests, NEW o \in Outcomes(s, r)
  PROVE  o.snapshot \in Snapshots /\ o.answer \in Answers
<1>1. /\ [text |-> r.text, sound |-> TRUE] \in Snapshots
      /\ [text |-> r.text, sound |-> FALSE] \in Snapshots
      /\ None \in Snapshots
  BY DEF Snapshots, Requests
<1>2. PICK a \in Answers, n \in Snapshots : o = Outcome(a, n)
  BY <1>1 DEF Outcomes, Requests, Answers
<1>3. o.answer = a /\ o.snapshot = n
  BY <1>2 DEF Outcome
<1> QED BY <1>3

LEMMA TypeInit == Init => TypeOK
<1> SUFFICES ASSUME Init PROVE TypeOK
  OBVIOUS
<1>1. request \in [Callers -> Requests]
  BY DEF Init, Requests
<1> QED BY <1>1, SessionAssumption DEF Init, TypeOK, Snapshots, Places, Answers

LEMMA TypeNext == TypeOK /\ [Next]_vars => TypeOK'
<1> SUFFICES ASSUME TypeOK, [Next]_vars PROVE TypeOK'
  OBVIOUS
<1> USE DEF TypeOK
<1>1. ASSUME NEW c \in Callers, Invoke(c) PROVE TypeOK'
  BY <1>1, SessionAssumption DEF Invoke, Requests, Places, object
<1>2. ASSUME NEW c \in Callers, Parse(c) PROVE TypeOK'
  BY <1>2 DEF Parse, Places, Answers, object, history
<1>3. ASSUME NEW c \in Callers, Lock(c) PROVE TypeOK'
  BY <1>3 DEF Lock, Places, history
<1>4. ASSUME NEW c \in Callers, LockPoisoned(c) PROVE TypeOK'
  BY <1>4 DEF LockPoisoned, Places, Answers, object, history
<1>5. ASSUME NEW c \in Callers, Store(c) PROVE TypeOK'
  <2>1. PICK o \in Outcomes(prev[c], request[c]) :
          /\ snapshot' = (IF o.answer = "panic" THEN snapshot ELSE o.snapshot)
          /\ poisoned' = (poisoned \/ o.answer = "panic")
          /\ answer' = [answer EXCEPT ![c] = o.answer]
    BY <1>5 DEF Store
  <2>2. o.snapshot \in Snapshots /\ o.answer \in Answers
    BY OutcomesType
  <2> QED BY <1>5, <2>1, <2>2 DEF Store, Places
<1>6. ASSUME NEW c \in Callers, Return(c) PROVE TypeOK'
  BY <1>6 DEF Return, Places, object, history
<1>7. CASE UNCHANGED vars
  BY <1>7 DEF vars, object, thread, history
<1> QED BY <1>1, <1>2, <1>3, <1>4, <1>5, <1>6, <1>7 DEF Next, Runs

(* The variables keep their types.                                         *)
THEOREM TypeCorrect == Spec => []TypeOK
<1> QED BY TypeInit, TypeNext, PTL DEF Spec

(***************************************************************************)
(* The lock.                                                               *)
(***************************************************************************)
LEMMA LockNext == TypeOK /\ LockProtects /\ [Next]_vars => LockProtects'
<1> SUFFICES ASSUME TypeOK, LockProtects, [Next]_vars,
                    NEW d \in Callers, pc'[d] = "inside"
             PROVE  lock' = d /\ ~ poisoned' /\ prev'[d] = snapshot'
  BY DEF LockProtects
<1> USE DEF LockProtects, TypeOK
<1>1. ASSUME NEW c \in Callers, Invoke(c) PROVE lock' = d /\ ~ poisoned' /\ prev'[d] = snapshot'
  BY <1>1 DEF Invoke, object
<1>2. ASSUME NEW c \in Callers, Parse(c) PROVE lock' = d /\ ~ poisoned' /\ prev'[d] = snapshot'
  BY <1>2 DEF Parse, object, history
<1>3. ASSUME NEW c \in Callers, Lock(c) PROVE lock' = d /\ ~ poisoned' /\ prev'[d] = snapshot'
  BY <1>3, SessionAssumption DEF Lock, history
<1>4. ASSUME NEW c \in Callers, LockPoisoned(c) PROVE lock' = d /\ ~ poisoned' /\ prev'[d] = snapshot'
  BY <1>4 DEF LockPoisoned, object, history
<1>5. ASSUME NEW c \in Callers, Store(c) PROVE FALSE
  <2>1. pc[d] = "inside" /\ d # c
    BY <1>5 DEF Store
  <2>2. lock = d /\ lock = c
    BY <1>5, <2>1 DEF Store
  <2> QED BY <2>1, <2>2
<1>6. ASSUME NEW c \in Callers, Return(c) PROVE lock' = d /\ ~ poisoned' /\ prev'[d] = snapshot'
  BY <1>6 DEF Return, object, history
<1>7. CASE UNCHANGED vars
  BY <1>7 DEF vars, object, thread, history
<1> QED BY <1>1, <1>2, <1>3, <1>4, <1>5, <1>6, <1>7 DEF Next, Runs

(* One caller at a time is between reading the snapshot and storing the    *)
(* next, and stores over what it read.                                     *)
THEOREM Exclusion == Spec => []LockProtects
<1>1. Init => LockProtects
  BY DEF Init, LockProtects
<1> QED BY <1>1, TypeCorrect, LockNext, PTL DEF Spec

(***************************************************************************)
(* Atomicity.  Each step of Session is one step of ParserObject, or none:  *)
(* the store is where a call takes effect.                                 *)
(***************************************************************************)
Needs(c) ==
  /\ pc[c] = "parsing" => request[c].op \in {"parse", "parse_editable"}
  /\ pc[c] \in {"waiting", "inside"} => request[c].op # "parse"

NeedsOK == \A c \in Callers : Needs(c)

LEMMA NeedsNext == TypeOK /\ NeedsOK /\ [Next]_vars => NeedsOK'
<1> SUFFICES ASSUME TypeOK, NeedsOK, [Next]_vars, NEW d \in Callers PROVE Needs(d)'
  BY DEF NeedsOK
<1> USE DEF NeedsOK, Needs, TypeOK
<1>1. ASSUME NEW c \in Callers, Invoke(c) PROVE Needs(d)'
  <2>1. CASE d = c
    BY <1>1, <2>1 DEF Invoke, Requests
  <2>2. CASE d # c
    BY <1>1, <2>2 DEF Invoke
  <2> QED BY <2>1, <2>2
<1>2. ASSUME NEW c \in Callers, Parse(c) PROVE Needs(d)'
  BY <1>2 DEF Parse
<1>3. ASSUME NEW c \in Callers, Lock(c) PROVE Needs(d)'
  BY <1>3 DEF Lock
<1>4. ASSUME NEW c \in Callers, LockPoisoned(c) PROVE Needs(d)'
  BY <1>4 DEF LockPoisoned
<1>5. ASSUME NEW c \in Callers, Store(c) PROVE Needs(d)'
  BY <1>5 DEF Store
<1>6. ASSUME NEW c \in Callers, Return(c) PROVE Needs(d)'
  BY <1>6 DEF Return
<1>7. CASE UNCHANGED vars
  BY <1>7 DEF vars, thread
<1> QED BY <1>1, <1>2, <1>3, <1>4, <1>5, <1>6, <1>7 DEF Next, Runs

\* What each caller sees, and how one caller's step changes it.
Seen == [c \in Callers |-> Call(c)]

LEMMA SeenChanges ==
  ASSUME NEW c \in Callers, NEW v,
         \A d \in Callers \ {c} : Call(d)' = Call(d),
         Call(c)' = v
  PROVE  Seen' = [Seen EXCEPT ![c] = v]
BY DEF Seen

LEMMA SeenStays ==
  ASSUME \A d \in Callers : Call(d)' = Call(d)
  PROVE  Seen' = Seen
BY DEF Seen

\* The call of a thread that did not move.
LEMMA OthersStay ==
  ASSUME NEW d \in Callers,
         pc'[d] = pc[d], request'[d] = request[d], answer'[d] = answer[d]
  PROVE  Call(d)' = Call(d)
BY DEF Call

\* The two modules speak of the same calls.
LEMMA SameCalls ==
  /\ Object!Requests = Requests /\ Object!Answers = Answers
  /\ \A s, r : Object!Outcomes(s, r) = Outcomes(s, r)
BY DEF Object!Requests, Requests, Object!Answers, Answers, Object!Outcomes, Outcomes,
       Object!Outcome, Outcome

LEMMA AtomicInit == Init => Object!Init
BY DEF Init, Object!Init, Call

LEMMA AtomicInvoke ==
  ASSUME TypeOK, NEW c \in Callers, Invoke(c)
  PROVE  Object!Invoke(c)
<1>1. PICK r \in Requests :
        /\ request' = [request EXCEPT ![c] = r]
        /\ pc' = [pc EXCEPT ![c] =
                    IF r.op \in {"parse", "parse_editable"} THEN "parsing" ELSE "waiting"]
  BY DEF Invoke
<1>2. /\ pc[c] = "idle" /\ UNCHANGED <<object, answer>>
      /\ pc'[c] \in {"parsing", "waiting"} /\ request'[c] = r
  BY <1>1 DEF Invoke, TypeOK
<1>3. Call(c)' = [status |-> "pending", request |-> r, answer |-> "none"]
  BY <1>2 DEF Call
<1>4. \A d \in Callers \ {c} : Call(d)' = Call(d)
  BY <1>1, <1>2, OthersStay DEF TypeOK
<1>5. Seen' = [Seen EXCEPT ![c] = Object!Pending(r)]
  BY <1>3, <1>4, SeenChanges DEF Object!Pending
<1>6. Call(c) = None
  BY <1>2 DEF Call
<1> QED BY <1>2, <1>5, <1>6, SameCalls DEF Object!Invoke, Seen, object

\* parse takes effect in one step; parse_editable has none before the store.
LEMMA AtomicParse ==
  ASSUME TypeOK, NeedsOK, NEW c \in Callers, Parse(c)
  PROVE  Object!TakeEffect(c) \/ UNCHANGED Object!vars
<1>1. /\ pc[c] = "parsing" /\ UNCHANGED <<object, request>>
      /\ answer'[c] = "right" /\ request[c] \in Requests
      /\ \A d \in Callers \ {c} : pc'[d] = pc[d] /\ answer'[d] = answer[d]
  BY DEF Parse, TypeOK
<1>2. \A d \in Callers \ {c} : Call(d)' = Call(d)
  BY <1>1, OthersStay
<1>3. CASE request[c].op = "parse"
  <2>1. pc'[c] = "done"
    BY <1>3 DEF Parse, TypeOK
  <2>2. Seen' = [Seen EXCEPT ![c] = Object!Answered(request[c], "right")]
    <3>1. Call(c)' = Object!Answered(request[c], "right")
      BY <1>1, <2>1 DEF Call, Object!Answered
    <3> QED BY <1>2, <3>1, SeenChanges
  <2>3. Call(c) = Object!Pending(request[c])
    BY <1>1 DEF Call, Object!Pending
  <2>4. Outcome("right", snapshot) \in Outcomes(snapshot, request[c])
    BY <1>3 DEF Outcomes
  <2>5. /\ Outcome("right", snapshot).answer = "right"
        /\ Outcome("right", snapshot).snapshot = snapshot
    BY DEF Outcome
  <2>6. snapshot' = snapshot /\ poisoned' = poisoned /\ poisoned \in BOOLEAN
    BY <1>1 DEF object, TypeOK
  <2> QED BY <1>1, <1>3, <2>2, <2>3, <2>4, <2>5, <2>6, SameCalls, ZenonT(40) DEF Object!TakeEffect, Seen
<1>4. CASE request[c].op # "parse"
  <2>1. pc'[c] = "waiting"
    BY <1>4 DEF Parse, TypeOK
  <2>2. Call(c)' = Call(c)
    BY <1>1, <2>1 DEF Call
  <2>3. Seen' = Seen
    BY <1>2, <2>2, SeenStays
  <2> QED BY <1>1, <2>3 DEF Object!vars, Seen, object
<1> QED BY <1>3, <1>4

LEMMA AtomicLock ==
  ASSUME TypeOK, NEW c \in Callers, Lock(c)
  PROVE  UNCHANGED Object!vars
<1>1. /\ pc[c] = "waiting" /\ pc'[c] = "inside" /\ UNCHANGED <<snapshot, poisoned, request, answer>>
      /\ \A d \in Callers \ {c} : pc'[d] = pc[d]
  BY DEF Lock, TypeOK
<1>2. Call(c)' = Call(c)
  BY <1>1 DEF Call
<1>3. \A d \in Callers : Call(d)' = Call(d)
  BY <1>1, <1>2, OthersStay
<1> QED BY <1>1, <1>3, SeenStays DEF Object!vars, Seen

LEMMA AtomicLockPoisoned ==
  ASSUME TypeOK, NeedsOK, NEW c \in Callers, LockPoisoned(c)
  PROVE  Object!Refuse(c)
<1>1. /\ pc[c] = "waiting" /\ pc'[c] = "done" /\ UNCHANGED <<object, request>>
      /\ answer'[c] = "panic" /\ request[c] \in Requests /\ poisoned
      /\ \A d \in Callers \ {c} : pc'[d] = pc[d] /\ answer'[d] = answer[d]
  BY DEF LockPoisoned, TypeOK
<1>2. request[c].op # "parse"
  BY <1>1 DEF NeedsOK, Needs
<1>3. Call(c)' = Object!Answered(request[c], "panic")
  BY <1>1 DEF Call, Object!Answered
<1>4. Seen' = [Seen EXCEPT ![c] = Object!Answered(request[c], "panic")]
  BY <1>1, <1>3, OthersStay, SeenChanges
<1>5. Call(c) = Object!Pending(request[c])
  BY <1>1 DEF Call, Object!Pending
<1> QED BY <1>1, <1>2, <1>4, <1>5, SameCalls DEF Object!Refuse, Seen, object

\* A panic leaves the snapshot as it was.
LEMMA PanicKeeps ==
  ASSUME NEW s \in Snapshots, NEW r \in Requests, NEW o \in Outcomes(s, r), o.answer = "panic"
  PROVE  o.snapshot = s
<1>1. r.op \in {"parse", "parse_editable", "reset_state", "incremental"}
  BY DEF Requests
<1>2. PICK a, n : o = Outcome(a, n) /\ (a = "panic" => n = s)
  BY <1>1 DEF Outcomes
<1>3. o.answer = a /\ o.snapshot = n
  BY <1>2 DEF Outcome
<1> QED BY <1>2, <1>3

LEMMA AtomicStore ==
  ASSUME TypeOK, NeedsOK, LockProtects, NEW c \in Callers, Store(c)
  PROVE  Object!TakeEffect(c)
<1>1. PICK o \in Outcomes(prev[c], request[c]) :
        /\ snapshot' = (IF o.answer = "panic" THEN snapshot ELSE o.snapshot)
        /\ poisoned' = (poisoned \/ o.answer = "panic")
        /\ answer' = [answer EXCEPT ![c] = o.answer]
  BY DEF Store
<1>2. /\ pc[c] = "inside" /\ pc'[c] = "done" /\ request' = request
      /\ answer'[c] = o.answer /\ request[c] \in Requests /\ snapshot \in Snapshots
      /\ \A d \in Callers \ {c} : pc'[d] = pc[d] /\ answer'[d] = answer[d]
  BY <1>1 DEF Store, TypeOK
<1>3. prev[c] = snapshot /\ ~ poisoned
  BY <1>2 DEF LockProtects
<1>4. snapshot' = o.snapshot
  BY <1>1, <1>2, <1>3, PanicKeeps
<1>5. Call(c)' = Object!Answered(request[c], o.answer)
  BY <1>2 DEF Call, Object!Answered
<1>6. Seen' = [Seen EXCEPT ![c] = Object!Answered(request[c], o.answer)]
  BY <1>2, <1>5, OthersStay, SeenChanges
<1>7. Call(c) = Object!Pending(request[c])
  BY <1>2 DEF Call, Object!Pending
<1> QED BY <1>1, <1>2, <1>3, <1>4, <1>6, <1>7, SameCalls DEF Object!TakeEffect, Seen

LEMMA AtomicReturn ==
  ASSUME TypeOK, NEW c \in Callers, Return(c)
  PROVE  Object!Return(c)
<1>1. /\ pc[c] = "done" /\ pc'[c] = "idle" /\ UNCHANGED <<object, request, answer>>
      /\ request[c] \in Requests /\ answer[c] \in Answers
      /\ \A d \in Callers \ {c} : pc'[d] = pc[d]
  BY DEF Return, TypeOK
<1>2. Call(c)' = None
  BY <1>1 DEF Call
<1>3. Seen' = [Seen EXCEPT ![c] = None]
  BY <1>1, <1>2, OthersStay, SeenChanges
<1>4. Call(c) = Object!Answered(request[c], answer[c])
  BY <1>1 DEF Call, Object!Answered
<1> QED BY <1>1, <1>3, <1>4, SameCalls DEF Object!Return, Seen, object

(* CindermarkParser implements the atomic ParserObject.                    *)
THEOREM Atomicity == Spec => IsAtomic
<1>1. TypeOK /\ NeedsOK /\ LockProtects /\ [Next]_vars => [Object!Next]_(Object!vars)
  <2> SUFFICES ASSUME TypeOK, NeedsOK, LockProtects, [Next]_vars
               PROVE  Object!Next \/ UNCHANGED Object!vars
    OBVIOUS
  <2>1. ASSUME NEW c \in Callers, Invoke(c) \/ Runs(c) PROVE Object!Next \/ UNCHANGED Object!vars
    BY <2>1, AtomicInvoke, AtomicParse, AtomicLock, AtomicLockPoisoned, AtomicStore, AtomicReturn
       DEF Runs, Object!Next
  <2>2. CASE UNCHANGED vars
    <3>1. UNCHANGED <<snapshot, poisoned, pc, request, answer>>
      BY <2>2 DEF vars, object, thread
    <3>2. Seen' = Seen
      BY <3>1 DEF Seen, Call
    <3> QED BY <3>1, <3>2 DEF Object!vars, Seen
  <2> QED BY <2>1, <2>2 DEF Next
<1>2. Init => NeedsOK
  BY DEF Init, NeedsOK, Needs
<1>3. Spec => []NeedsOK
  BY <1>2, NeedsNext, TypeCorrect, PTL DEF Spec
<1> QED BY <1>1, <1>3, AtomicInit, TypeCorrect, Exclusion, PTL DEF Spec, IsAtomic, Object!Spec

(***************************************************************************)
(* Right answers.  RightInOrder is not inductive: an answer is right       *)
(* because the snapshot fits the text its edit was made to, and it does    *)
(* because the calls that have yet to touch the snapshot form a chain: the *)
(* oldest starts from the snapshot's text, each later one from the text of *)
(* the one before it, and the youngest ends in the buffer.                 *)
(***************************************************************************)
Older(c, d) == Awaits(c) /\ Awaits(d) /\ ticket[c] < ticket[d]
Fits(t)     == snapshot \in {None, [text |-> t, sound |-> TRUE]}

Tickets ==
  /\ \A c \in Callers : ticket[c] <= issued
  /\ \A c, d \in Callers : Awaits(c) /\ Awaits(d) /\ ticket[c] = ticket[d] => c = d

Resets == \A c \in Callers : request[c].op = "reset_state" => request[c].text = request[c].base

OldestFits   == \A c \in Callers : Awaits(c) => (\E d \in Callers : Older(d, c)) \/ Fits(request[c].base)
Linked       == \A c, d \in Callers :
                  Older(c, d) => \/ \E e \in Callers : Older(c, e) /\ Older(e, d)
                                 \/ request[d].base = request[c].text
YoungestEnds == \A c \in Callers : Awaits(c) => (\E d \in Callers : Older(c, d)) \/ buffer = request[c].text
RestFits     == (\A c \in Callers : ~ Awaits(c)) => Fits(buffer)

Chain ==
  /\ Tickets /\ Resets
  /\ ~ overtaken => RightInOrder /\ OldestFits /\ Linked /\ YoungestEnds /\ RestFits

LEMMA ChainInit == Init => Chain
BY DEF Init, Chain, Tickets, Resets, RightInOrder, OldestFits, Linked, YoungestEnds, RestFits,
       Awaits, Older, Fits

\* A snapshot that fits gives the right answer and fits the call's text.
LEMMA FittingOutcome ==
  ASSUME NEW r \in Requests, NEW o,
         Fits(r.base), o \in Outcomes(snapshot, r), r.op # "parse",
         r.op = "reset_state" => r.text = r.base
  PROVE  o.answer = "right" /\ o.snapshot \in {None, [text |-> r.text, sound |-> TRUE]}
<1>1. o \in { Outcome("right", None), Outcome("right", [text |-> r.text, sound |-> TRUE]) }
  BY DEF Outcomes, Fits, Requests
<1> QED BY <1>1 DEF Outcome

\* A step that changes neither the snapshot, nor the buffer, nor which calls
\* await it, keeps the chain.
LEMMA ChainStays ==
  ASSUME Chain, UNCHANGED <<snapshot, poisoned, buffer, request, ticket, issued, overtaken>>,
         \A c \in Callers : Awaits(c)' = Awaits(c),
         ~ overtaken => \A c \in Callers : answer'[c] = "right"
  PROVE  Chain'
<1>1. \A c, d \in Callers : Older(c, d)' = Older(c, d)
  BY DEF Older
<1>2. \A t : Fits(t)' = Fits(t)
  BY DEF Fits
<1>3. Tickets' /\ Resets'
  BY DEF Chain, Tickets, Resets
<1>4. ~ overtaken => RightInOrder'
  BY DEF Chain, RightInOrder
<1>5. ~ overtaken => OldestFits' /\ Linked' /\ YoungestEnds' /\ RestFits'
  BY <1>1, <1>2 DEF Chain, OldestFits, Linked, YoungestEnds, RestFits
<1> QED BY <1>3, <1>4, <1>5 DEF Chain

LEMMA ChainInvoke ==
  ASSUME TypeOK, Chain, NEW c \in Callers, Invoke(c)
  PROVE  Chain'
<1>1. PICK r \in Requests :
        /\ r.base = buffer
        /\ r.op \in {"parse", "reset_state"} => r.text = buffer
        /\ request' = [request EXCEPT ![c] = r]
        /\ pc' = [pc EXCEPT ![c] =
                    IF r.op \in {"parse", "parse_editable"} THEN "parsing" ELSE "waiting"]
        /\ buffer' = r.text
  BY DEF Invoke
<1>2. /\ pc[c] = "idle" /\ issued' = issued + 1 /\ ticket' = [ticket EXCEPT ![c] = issued + 1]
      /\ UNCHANGED <<snapshot, poisoned, answer, overtaken>>
  BY DEF Invoke, object
<1>3. /\ ~ Awaits(c) /\ Awaits(c)' = (r.op # "parse")
      /\ request'[c] = r /\ ticket'[c] = issued + 1
      /\ \A d \in Callers \ {c} : /\ Awaits(d)' = Awaits(d) /\ request'[d] = request[d]
                                   /\ ticket'[d] = ticket[d] /\ ticket[d] \in Nat
                                   /\ ticket[d] <= issued
      /\ issued \in Nat
  BY <1>1, <1>2 DEF Awaits, TypeOK, Chain, Tickets
<1>4. \A t : Fits(t)' = Fits(t)
  BY <1>2 DEF Fits
<1>a. \A d \in Callers \ {c} : Older(d, c)' = (Awaits(d) /\ r.op # "parse")
  <2> TAKE d \in Callers \ {c}
  <2>1. ticket'[d] < ticket'[c]
    BY <1>3
  <2>2. Awaits(d)' = Awaits(d) /\ Awaits(c)' = (r.op # "parse")
    BY <1>3
  <2>3. Older(d, c)' = (Awaits(d)' /\ Awaits(c)' /\ ticket'[d] < ticket'[c])
    BY Zenon DEF Older
  <2> QED BY <2>1, <2>2, <2>3, Zenon
<1>b. \A d \in Callers : ~ Older(c, d)'
  BY <1>3 DEF Older
<1>c. \A d \in Callers : ~ Older(c, d) /\ ~ Older(d, c)
  BY <1>3 DEF Older
<1>d. \A d, e \in Callers \ {c} : Older(d, e)' = Older(d, e)
  BY <1>3 DEF Older
<1>5. /\ \A d \in Callers \ {c} : Older(d, c)' = (Awaits(d) /\ r.op # "parse")
      /\ \A d \in Callers : ~ Older(c, d)' /\ ~ Older(c, d) /\ ~ Older(d, c)
      /\ \A d, e \in Callers \ {c} : Older(d, e)' = Older(d, e)
  BY <1>a, <1>b, <1>c, <1>d
<1>6. Tickets'
  BY <1>2, <1>3 DEF Chain, Tickets
<1>7. Resets'
  BY <1>1, <1>3 DEF Chain, Resets
<1>8. ASSUME ~ overtaken
      PROVE  RightInOrder' /\ OldestFits' /\ Linked' /\ YoungestEnds' /\ RestFits'
  <2>1. RightInOrder'
    BY <1>2, <1>8 DEF Chain, RightInOrder
  <2>2. OldestFits'
    <3>1. CASE \E d \in Callers : Awaits(d)
      BY <1>3, <1>4, <1>5, <1>8, <3>1 DEF Chain, OldestFits
    <3>2. CASE \A d \in Callers : ~ Awaits(d)
      BY <1>1, <1>3, <1>4, <1>8, <3>2 DEF Chain, OldestFits, RestFits
    <3> QED BY <3>1, <3>2
  <2>3. Linked'
    <3> SUFFICES ASSUME NEW a \in Callers, NEW b \in Callers, Older(a, b)'
                 PROVE  \/ \E e \in Callers : Older(a, e)' /\ Older(e, b)'
                        \/ request'[b].base = request'[a].text
      BY DEF Linked
    <3>1. a # c
      BY <1>5
    <3>2. CASE b # c
      <4>1. Older(a, b)
        BY <1>5, <3>1, <3>2
      <4>2. \/ \E e \in Callers : Older(a, e) /\ Older(e, b)
            \/ request[b].base = request[a].text
        BY <1>8, <4>1 DEF Chain, Linked
      <4> QED BY <1>3, <1>5, <3>1, <3>2, <4>2
    <3>3. CASE b = c
      <4>1. Awaits(a) /\ r.op # "parse"
        BY <1>5, <3>1, <3>3
      <4>2. CASE \E e \in Callers : Older(a, e)
        <5>1. PICK e \in Callers : Older(a, e)
          BY <4>2
        <5>2. e # c /\ Awaits(e)
          BY <5>1, <1>5 DEF Older
        <5> QED BY <1>5, <3>1, <3>3, <4>1, <5>1, <5>2
      <4>3. CASE buffer = request[a].text
        BY <1>1, <1>3, <3>1, <3>3, <4>3
      <4> QED BY <1>8, <4>1, <4>2, <4>3 DEF Chain, YoungestEnds
    <3> QED BY <3>2, <3>3
  <2>4. YoungestEnds'
    <3> SUFFICES ASSUME NEW a \in Callers, Awaits(a)'
                 PROVE  (\E d \in Callers : Older(a, d)') \/ buffer' = request'[a].text
      BY DEF YoungestEnds
    <3>1. CASE a = c
      BY <1>1, <1>3, <3>1
    <3>2. CASE a # c /\ r.op # "parse"
      BY <1>3, <1>5, <3>2
    <3>3. CASE a # c /\ r.op = "parse"
      BY <1>1, <1>3, <1>5, <1>8, <3>3 DEF Chain, YoungestEnds
    <3> QED BY <3>1, <3>2, <3>3
  <2>5. RestFits'
    BY <1>1, <1>3, <1>4, <1>8 DEF Chain, RestFits
  <2> QED BY <2>1, <2>2, <2>3, <2>4, <2>5
<1> QED BY <1>2, <1>6, <1>7, <1>8 DEF Chain

LEMMA ChainParse ==
  ASSUME TypeOK, Chain, NEW c \in Callers, Parse(c)
  PROVE  Chain'
<1>1. /\ pc[c] = "parsing" /\ answer'[c] = "right"
      /\ pc'[c] = (IF request[c].op = "parse" THEN "done" ELSE "waiting")
      /\ UNCHANGED <<snapshot, poisoned, buffer, request, ticket, issued, overtaken>>
      /\ \A d \in Callers \ {c} : pc'[d] = pc[d] /\ answer'[d] = answer[d]
  BY DEF Parse, TypeOK, object, history
<1>2. ASSUME NEW d \in Callers PROVE Awaits(d)' = Awaits(d)
  BY <1>1 DEF Awaits
<1>3. ~ overtaken => \A d \in Callers : answer'[d] = "right"
  BY <1>1 DEF Chain, RightInOrder
<1> QED BY <1>1, <1>2, <1>3, ChainStays

LEMMA ChainLock ==
  ASSUME TypeOK, Chain, NEW c \in Callers, Lock(c)
  PROVE  Chain'
<1>1. /\ pc[c] = "waiting" /\ pc'[c] = "inside"
      /\ UNCHANGED <<snapshot, poisoned, buffer, request, ticket, issued, overtaken, answer>>
      /\ \A d \in Callers \ {c} : pc'[d] = pc[d]
  BY DEF Lock, TypeOK, history
<1>2. ASSUME NEW d \in Callers PROVE Awaits(d)' = Awaits(d)
  BY <1>1 DEF Awaits
<1>3. ~ overtaken => \A d \in Callers : answer'[d] = "right"
  BY <1>1 DEF Chain, RightInOrder
<1> QED BY <1>1, <1>2, <1>3, ChainStays

LEMMA ChainReturn ==
  ASSUME TypeOK, Chain, NEW c \in Callers, Return(c)
  PROVE  Chain'
<1>1. /\ pc[c] = "done" /\ pc'[c] = "idle"
      /\ UNCHANGED <<snapshot, poisoned, buffer, request, ticket, issued, overtaken, answer>>
      /\ \A d \in Callers \ {c} : pc'[d] = pc[d]
  BY DEF Return, TypeOK, object, history
<1>2. ASSUME NEW d \in Callers PROVE Awaits(d)' = Awaits(d)
  BY <1>1 DEF Awaits
<1>3. ~ overtaken => \A d \in Callers : answer'[d] = "right"
  BY <1>1 DEF Chain, RightInOrder
<1> QED BY <1>1, <1>2, <1>3, ChainStays

\* A poisoned lock means that a call was overtaken before.
LEMMA ChainLockPoisoned ==
  ASSUME TypeOK, Chain, NEW c \in Callers, LockPoisoned(c)
  PROVE  Chain'
<1>1. /\ poisoned /\ pc'[c] = "done"
      /\ UNCHANGED <<request, ticket, issued, overtaken>>
      /\ \A d \in Callers \ {c} : pc'[d] = pc[d]
  BY DEF LockPoisoned, TypeOK, object, history
<1>2. overtaken
  BY <1>1 DEF Chain, RightInOrder
<1>3. \A d \in Callers : Awaits(d)' => Awaits(d)
  BY <1>1 DEF Awaits
<1>4. Tickets' /\ Resets'
  BY <1>1, <1>3 DEF Chain, Tickets, Resets
<1> QED BY <1>1, <1>2, <1>4 DEF Chain

LEMMA ChainStore ==
  ASSUME TypeOK, NeedsOK, LockProtects, Chain, NEW c \in Callers, Store(c)
  PROVE  Chain'
<1>1. PICK o \in Outcomes(prev[c], request[c]) :
        /\ snapshot' = (IF o.answer = "panic" THEN snapshot ELSE o.snapshot)
        /\ poisoned' = (poisoned \/ o.answer = "panic")
        /\ answer' = [answer EXCEPT ![c] = o.answer]
  BY DEF Store
<1>2. /\ pc[c] = "inside" /\ pc'[c] = "done" /\ UNCHANGED <<buffer, request, ticket, issued>>
      /\ \A d \in Callers \ {c} : pc'[d] = pc[d] /\ answer'[d] = answer[d]
      /\ answer'[c] = o.answer
      /\ overtaken' = (overtaken \/ \E d \in Callers : Awaits(d) /\ ticket[d] < ticket[c])
      /\ ticket \in [Callers -> Nat] /\ request[c] \in Requests
  BY <1>1 DEF Store, TypeOK
<1>3. Awaits(c) /\ request[c].op # "parse" /\ prev[c] = snapshot
  BY <1>2 DEF NeedsOK, Needs, Awaits, LockProtects
<1>4. ~ Awaits(c)' /\ \A d \in Callers \ {c} : Awaits(d)' = Awaits(d)
  BY <1>2 DEF Awaits
<1>5. Tickets' /\ Resets'
  BY <1>2, <1>4 DEF Chain, Tickets, Resets
<1>6. ASSUME ~ overtaken'
      PROVE  RightInOrder' /\ OldestFits' /\ Linked' /\ YoungestEnds' /\ RestFits'
  <2>1. ~ overtaken /\ \A d \in Callers : ~ Older(d, c)
    BY <1>2, <1>6 DEF Older
  <2>2. Fits(request[c].base)
    BY <1>3, <2>1 DEF Chain, OldestFits
  <2>3. request[c].op = "reset_state" => request[c].text = request[c].base
    BY DEF Chain, Resets
  <2>4. o.answer = "right" /\ o.snapshot \in {None, [text |-> request[c].text, sound |-> TRUE]}
    BY <1>2, <1>3, <2>2, <2>3, FittingOutcome
  <2>5. /\ snapshot' \in {None, [text |-> request[c].text, sound |-> TRUE]}
        /\ ~ poisoned'
    <3>1. ~ poisoned
      BY <2>1 DEF Chain, RightInOrder
    <3>2. ~ (o.answer = "panic")
      BY <2>4
    <3>3. snapshot' = o.snapshot
      BY <1>1, <3>2
    <3>4. ~ poisoned'
      BY <1>1, <3>1, <3>2, Zenon
    <3> QED BY <2>4, <3>3, <3>4, Zenon
  <2>6. Fits(request[c].text)'
    BY <1>2, <2>5 DEF Fits
  <2>7. \A a, b \in Callers \ {c} : Older(a, b)' = Older(a, b)
    BY <1>2, <1>4 DEF Older
  <2>8. \A a \in Callers : ~ Older(a, c)' /\ ~ Older(c, a)'
    BY <1>4 DEF Older
  <2>9. \A a \in Callers \ {c} : Awaits(a) => Older(c, a)
    BY <1>2, <1>3, <2>1 DEF Older, Chain, Tickets
  <2>a. RightInOrder'
    BY <1>2, <2>1, <2>4, <2>5 DEF Chain, RightInOrder
  <2>b. OldestFits'
    <3> SUFFICES ASSUME NEW a \in Callers, Awaits(a)'
                 PROVE  (\E d \in Callers : Older(d, a)') \/ Fits(request[a].base)'
      BY DEF OldestFits
    <3>1. a # c /\ Older(c, a)
      BY <1>4, <2>9
    <3>2. \/ \E e \in Callers : Older(c, e) /\ Older(e, a)
          \/ request[a].base = request[c].text
      BY <2>1, <3>1 DEF Chain, Linked
    <3>3. CASE \E e \in Callers : Older(c, e) /\ Older(e, a)
      <4>1. PICK e \in Callers : Older(c, e) /\ Older(e, a)
        BY <3>3
      <4>2. e # c
        BY <2>1, <4>1
      <4> QED BY <2>7, <3>1, <4>1, <4>2
    <3>4. CASE request[a].base = request[c].text
      BY <1>2, <2>5, <3>4 DEF Fits
    <3> QED BY <3>2, <3>3, <3>4
  <2>c. Linked'
    <3> SUFFICES ASSUME NEW a \in Callers, NEW b \in Callers, Older(a, b)'
                 PROVE  \/ \E e \in Callers : Older(a, e)' /\ Older(e, b)'
                        \/ request'[b].base = request'[a].text
      BY DEF Linked
    <3>1. a # c /\ b # c /\ Older(a, b)
      BY <2>7, <2>8
    <3>2. \/ \E e \in Callers : Older(a, e) /\ Older(e, b)
          \/ request[b].base = request[a].text
      BY <2>1, <3>1 DEF Chain, Linked
    <3> QED BY <1>2, <2>1, <2>7, <3>1, <3>2
  <2>d. YoungestEnds'
    <3> SUFFICES ASSUME NEW a \in Callers, Awaits(a)'
                 PROVE  (\E d \in Callers : Older(a, d)') \/ buffer' = request'[a].text
      BY DEF YoungestEnds
    <3>1. a # c /\ Awaits(a)
      BY <1>4
    <3> QED BY <1>2, <2>1, <2>7, <3>1 DEF Chain, YoungestEnds
  <2>e. RestFits'
    <3> SUFFICES ASSUME \A a \in Callers : ~ Awaits(a)'
                 PROVE  Fits(buffer)'
      BY DEF RestFits
    <3>1. \A d \in Callers : ~ Older(c, d)
      <4> TAKE d \in Callers
      <4>1. CASE d = c
        BY <2>1, <4>1
      <4>2. CASE d # c
        BY <1>4, <4>2 DEF Older
      <4> QED BY <4>1, <4>2
    <3>2. buffer = request[c].text
      BY <1>3, <2>1, <3>1 DEF Chain, YoungestEnds
    <3> QED BY <1>2, <2>5, <3>2 DEF Fits
  <2> QED BY <2>a, <2>b, <2>c, <2>d, <2>e
<1> QED BY <1>5, <1>6 DEF Chain

LEMMA ChainNext == TypeOK /\ NeedsOK /\ LockProtects /\ Chain /\ [Next]_vars => Chain'
<1> SUFFICES ASSUME TypeOK, NeedsOK, LockProtects, Chain, [Next]_vars PROVE Chain'
  OBVIOUS
<1>1. ASSUME NEW c \in Callers, Invoke(c) \/ Runs(c) PROVE Chain'
  BY <1>1, ChainInvoke, ChainParse, ChainLock, ChainLockPoisoned, ChainStore, ChainReturn DEF Runs
<1>2. CASE UNCHANGED vars
  <2>1. UNCHANGED <<snapshot, poisoned, buffer, request, ticket, issued, overtaken, answer, pc>>
    BY <1>2 DEF vars, object, thread, history
  <2>2. \A d \in Callers : Awaits(d)' = Awaits(d)
    BY <2>1 DEF Awaits
  <2>3. ~ overtaken => \A d \in Callers : answer'[d] = "right"
    BY <2>1 DEF Chain, RightInOrder
  <2> QED BY <2>1, <2>2, <2>3, ChainStays
<1> QED BY <1>1, <1>2 DEF Next

(* Calls that take effect in the order they were made are answered right,  *)
(* and leave a sound snapshot: whatever the number of threads and calls,   *)
(* incremental_update is only ever given the blocks of the text it edits.  *)
THEOREM AnswersRight == Spec => []RightInOrder
<1>1. Init => NeedsOK
  BY DEF Init, NeedsOK, Needs
<1>2. Init => LockProtects
  BY DEF Init, LockProtects
<1>3. Chain => RightInOrder
  BY DEF Chain, RightInOrder
<1> QED BY <1>1, <1>2, <1>3, TypeInit, TypeNext, NeedsNext, LockNext, ChainInit, ChainNext, PTL DEF Spec
=============================================================================
