------------------------- MODULE MessageNonceProofs -------------------------
(***************************************************************************)
(* Proofs about MessageNonce, for every number of tasks, every MaxSeq and  *)
(* MaxCounter.                                                             *)
(***************************************************************************)
EXTENDS MessageNonce, TLAPS

-----------------------------------------------------------------------------
(* The operators of the check. *)

(* A check of values in range leaves the six statics in range. *)
LEMMA AfterCheckType ==
  ASSUME NEW c \in Check(Counters), NEW tc \in Counters,
         NEW s \in Drawable
  PROVE  AfterCheck(c, tc, s) \in Check(Counters)
<1>1. MaxSeq \in Nat /\ Uptime \in BOOLEAN /\ MaxCounter \in Nat
  BY NonceCheckAssumption, MessageNonceAssumption
<1>2. CASE s > MaxSeq
  BY <1>2 DEF AfterCheck
<1>3. CASE s <= MaxSeq /\ CounterChanged(c, tc)
  <2>1. s \in SeqNo
    BY <1>1, <1>3 DEF SeqNo, Drawable
  <2>2. (c.init /\ Forward(c, tc)) \in BOOLEAN
    OBVIOUS
  <2> QED
    BY <1>1, <1>3, <2>1, <2>2 DEF AfterCheck, EnterPeriod, Check
<1>4. CASE s <= MaxSeq /\ ~CounterChanged(c, tc)
  <2>1. s \in SeqNo
    BY <1>1, <1>4 DEF SeqNo, Drawable
  <2>2. (c.wrapped \/ s < c.seq) \in BOOLEAN
    OBVIOUS
  <2> QED
    BY <1>1, <1>4, <2>1, <2>2 DEF AfterCheck, Check
<1> QED
  BY <1>1, <1>2, <1>3, <1>4, SMT DEF SeqNo, Drawable

(* A number the check accepts fits in 10 bits. *)
LEMMA AcceptsInRange ==
  ASSUME NEW c, NEW tc, NEW s \in Drawable, Accepts(c, tc, s)
  PROVE  s \in SeqNo
BY NonceCheckAssumption DEF Accepts, SeqNo, Drawable

(* The ranges of the constants. *)
LEMMA Constants ==
  /\ MaxSeq \in Nat /\ MaxCounter \in Nat
  /\ 0 \in Counters /\ 0 \in 0 .. MaxSeq + 1 /\ 0 \in Drawable
BY NonceCheckAssumption, MessageNonceAssumption DEF Counters, SeqNo, Drawable

LEMMA BootCheckType == BootCheck \in Check(Counters)
BY NonceCheckAssumption, MessageNonceAssumption
   DEF BootCheck, Check, Counters, SeqNo

-----------------------------------------------------------------------------
LEMMA TypeInit == Init => TypeOK
BY BootCheckType, Constants DEF Init, TypeOK, PCs, Critical

LEMMA TypeNext == TypeOK /\ [Next]_vars => TypeOK'
<1> SUFFICES ASSUME TypeOK, [Next]_vars PROVE TypeOK'
  OBVIOUS
<1> USE DEF TypeOK, PCs, Critical
<1>1. ASSUME NEW t \in Threads, CounterGet(t) PROVE TypeOK'
  BY <1>1 DEF CounterGet, Goto, history, nonces
<1>2. ASSUME NEW t \in Threads, Lock(t) PROVE TypeOK'
  BY <1>2 DEF Lock, Goto, history, nonces
<1>3. ASSUME NEW t \in Threads, SequenceLoad(t) PROVE TypeOK'
  BY <1>3 DEF SequenceLoad, Draws, Goto, history, nonces
<1>4. ASSUME NEW t \in Threads, SequenceIncrement(t) PROVE TypeOK'
  <2>1. seq_number' \in 0 .. MaxSeq + 1
    BY <1>4, Constants DEF SequenceIncrement, Drawable, SeqNo
  <2> QED
    BY <1>4, <2>1 DEF SequenceIncrement, Goto, history, nonces
<1>5. ASSUME NEW t \in Threads, NonceCheckLoad(t) PROVE TypeOK'
  BY <1>5 DEF NonceCheckLoad, Goto, history, nonces
<1>6. ASSUME NEW t \in Threads, NonceCheckStore(t) PROVE TypeOK'
  <2>1. check' \in Check(Counters)
    BY <1>6, AfterCheckType DEF NonceCheckStore
  <2>2. CASE Accepts(seen[t], counter[t], drawn[t])
    <3>1. drawn[t] \in SeqNo
      BY <2>2, AcceptsInRange
    <3> QED
      BY <1>6, <2>1, <2>2, <3>1 DEF NonceCheckStore, Goto
  <2>3. CASE ~Accepts(seen[t], counter[t], drawn[t])
    BY <1>6, <2>1, <2>3 DEF NonceCheckStore, Goto, history, nonces
  <2> QED
    BY <2>2, <2>3
<1>7. ASSUME NEW t \in Threads, Unlock(t) PROVE TypeOK'
  BY <1>7, BootCheckType, Constants DEF Unlock, Goto, history, nonces
<1>8. ASSUME Rotate PROVE TypeOK'
  <2>1. clock' \in Counters
    BY <1>8, Constants DEF Rotate, Counters
  <2> QED
    BY <1>8, <2>1 DEF Rotate, locals, history, nonces
<1>9. ASSUME ClockSet PROVE TypeOK'
  BY <1>9 DEF ClockSet, locals, history, nonces
<1>10. ASSUME Reboot PROVE TypeOK'
  BY <1>10, BootCheckType, Constants DEF Reboot
<1>11. CASE UNCHANGED vars
  BY <1>11 DEF vars, locals, history, nonces
<1> QED
  BY <1>1, <1>2, <1>3, <1>4, <1>5, <1>6, <1>7, <1>8, <1>9, <1>10, <1>11
     DEF Next, Step

(* Every variable keeps its range. *)
THEOREM TypeCorrect == Spec => []TypeOK
BY TypeInit, TypeNext, PTL DEF Spec

-----------------------------------------------------------------------------
(* The refinement of StayMemory.                                             *)

(* Only the owner of the lock is inside sequence_acquire, so the statics its *)
(* check loaded are still the statics when it stores them back.              *)
LockInv ==
  \A t \in Threads :
    /\ pc[t] \in Critical => lock = t
    /\ pc[t] = "deciding" => seen[t] = check
    /\ result[t] # Pending <=> pc[t] = "checked"

(* What the statics c say about a set of numbers handed out in the stay: all *)
(* lie from the reference up to the last one or, after a wrap, from the      *)
(* reference up and from 0 to the last one. A wrap that was refused leaves   *)
(* the last number at or above the reference, after which nothing passes.    *)
Describes(c, numbers) ==
  /\ ~c.wrapped => /\ c.ref <= c.seq
                  /\ \A x \in numbers : c.ref <= x /\ x <= c.seq
  /\ c.wrapped /\ c.seq < c.ref =>
       \A x \in numbers : c.ref <= x \/ x <= c.seq

StayInv ==
  /\ ~check.init => stay = {}
  /\ check.init => Describes(check, stay)

Inv == TypeOK /\ LockInv /\ StayInv

LEMMA InvInit == Init => Inv
<1> SUFFICES ASSUME Init PROVE LockInv /\ StayInv
  BY TypeInit DEF Inv
<1> QED
  BY Constants DEF Init, LockInv, StayInv, Describes, BootCheck, Critical

(* A number that the check accepts without a change of counter was not      *)
(* handed out in the stay, and the statics it leaves describe the stay with  *)
(* the number added.                                                         *)
LEMMA AcceptedIsFresh ==
  ASSUME NEW c \in Check(Counters), NEW numbers \in SUBSET SeqNo,
         NEW tc \in Counters, NEW s \in SeqNo,
         Describes(c, numbers), ~CounterChanged(c, tc), Accepts(c, tc, s)
  PROVE  /\ s \notin numbers
         /\ Describes(AfterCheck(c, tc, s), numbers \cup {s})
<1>1. /\ c.seq \in Nat /\ c.ref \in Nat /\ s \in Nat /\ s <= MaxSeq
      /\ \A x \in numbers : x \in Nat
      /\ c.wrapped \in BOOLEAN
  BY Constants DEF Check, SeqNo
<1>2. s # c.seq /\ WrapOK(c, s)
  BY DEF Accepts
<1>3. PICK d : d = AfterCheck(c, tc, s)
  OBVIOUS
<1>4. /\ d.wrapped = (c.wrapped \/ s < c.seq)
      /\ d.seq = s
      /\ d.ref = c.ref
  BY <1>1, <1>3, Constants DEF AfterCheck, Check
<1>5. CASE s < c.seq
  <2>1. ~c.wrapped /\ s < c.ref /\ d.wrapped
    BY <1>2, <1>4, <1>5 DEF WrapOK
  <2> QED
    BY <1>1, <1>3, <1>4, <1>5, <2>1 DEF Describes
<1>6. CASE s > c.seq /\ ~c.wrapped
  <2>1. ~d.wrapped
    BY <1>1, <1>4, <1>6
  <2> QED
    BY <1>1, <1>3, <1>4, <1>6, <2>1 DEF Describes
<1>7. CASE s > c.seq /\ c.wrapped
  <2>1. s < c.ref /\ d.wrapped
    BY <1>2, <1>4, <1>7 DEF WrapOK
  <2> QED
    BY <1>1, <1>3, <1>4, <1>7, <2>1 DEF Describes
<1> QED
  BY <1>1, <1>2, <1>5, <1>6, <1>7

(* A refusal keeps the description, whether or not it was a wrap.            *)
LEMMA RefusalKeepsStay ==
  ASSUME NEW c \in Check(Counters), NEW numbers \in SUBSET SeqNo,
         NEW tc \in Counters, NEW s \in Drawable,
         Describes(c, numbers), ~Accepts(c, tc, s)
  PROVE  /\ AfterCheck(c, tc, s).init = c.init
         /\ AfterCheck(c, tc, s).counter = c.counter
         /\ Describes(AfterCheck(c, tc, s), numbers)
<1>1. CASE s > MaxSeq
  BY <1>1 DEF AfterCheck
<1>2. CASE s <= MaxSeq
  <2>1. /\ c.seq \in Nat /\ c.ref \in Nat /\ s \in Nat
        /\ c.wrapped \in BOOLEAN
        /\ s \in SeqNo /\ ~(s > MaxSeq)
    BY <1>2, Constants DEF Check, SeqNo, Drawable
  <2>2. ~CounterChanged(c, tc)
    BY <1>2 DEF Accepts
  <2>3. PICK d : d = AfterCheck(c, tc, s)
    OBVIOUS
  <2>4. /\ d.wrapped = (c.wrapped \/ s < c.seq)
        /\ d.seq = c.seq
        /\ d.ref = c.ref
        /\ d.init = c.init
        /\ d.counter = c.counter
    BY <2>1, <2>2, <2>3 DEF AfterCheck, Check
  <2> QED
    BY <2>1, <2>3, <2>4 DEF Describes
<1> QED
  BY <1>1, <1>2, Constants DEF Drawable, SeqNo

(* Mutual exclusion on the statics. *)
LEMMA LockNext == TypeOK /\ LockInv /\ [Next]_vars => LockInv'
<1> SUFFICES ASSUME TypeOK, LockInv, [Next]_vars PROVE LockInv'
  OBVIOUS
<1> USE MessageNonceAssumption DEF LockInv, TypeOK, PCs, Critical
<1>1. ASSUME NEW t \in Threads, CounterGet(t) PROVE LockInv'
  BY <1>1 DEF CounterGet, Goto
<1>2. ASSUME NEW t \in Threads, Lock(t) PROVE LockInv'
  BY <1>2 DEF Lock, Goto
<1>3. ASSUME NEW t \in Threads, SequenceLoad(t) PROVE LockInv'
  BY <1>3 DEF SequenceLoad, Goto
<1>4. ASSUME NEW t \in Threads, SequenceIncrement(t) PROVE LockInv'
  BY <1>4 DEF SequenceIncrement, Goto
<1>5. ASSUME NEW t \in Threads, NonceCheckLoad(t) PROVE LockInv'
  BY <1>5 DEF NonceCheckLoad, Goto
<1>6. ASSUME NEW t \in Threads, NonceCheckStore(t) PROVE LockInv'
  <2>1. result'[t] # Pending
    <3>1. CASE Accepts(seen[t], counter[t], drawn[t])
      <4>1. drawn[t] \in SeqNo
        BY <3>1, AcceptsInRange
      <4>2. << counter[t], drawn[t] >> # Pending
        BY <4>1 DEF Counters
      <4> QED
        BY <1>6, <3>1, <4>2 DEF NonceCheckStore
    <3>2. CASE ~Accepts(seen[t], counter[t], drawn[t])
      BY <1>6, <3>2 DEF NonceCheckStore
    <3> QED
      BY <3>1, <3>2
  <2>2. \A u \in Threads : u # t => result'[u] = result[u]
    BY <1>6 DEF NonceCheckStore
  <2>3. /\ lock' = lock /\ seen' = seen
        /\ pc[t] = "deciding" /\ pc' = [ pc EXCEPT ![t] = "checked" ]
    BY <1>6 DEF NonceCheckStore, Goto
  <2> QED
    BY <2>1, <2>2, <2>3
<1>7. ASSUME NEW t \in Threads, Unlock(t) PROVE LockInv'
  BY <1>7 DEF Unlock, Goto
<1>8. ASSUME Rotate PROVE LockInv'
  BY <1>8 DEF Rotate, locals
<1>9. ASSUME ClockSet PROVE LockInv'
  BY <1>9 DEF ClockSet, locals
<1>10. ASSUME Reboot PROVE LockInv'
  BY <1>10 DEF Reboot
<1>11. CASE UNCHANGED vars
  BY <1>11 DEF vars, locals
<1> QED
  BY <1>1, <1>2, <1>3, <1>4, <1>5, <1>6, <1>7, <1>8, <1>9, <1>10, <1>11
     DEF Next, Step

(* What one store of the check does to the statics and to the stay.          *)
LEMMA StoreKeepsStay ==
  ASSUME Inv, NEW t \in Threads, NonceCheckStore(t)
  PROVE  /\ StayInv'
         /\ seen[t] = check
         /\ Accepts(check, counter[t], drawn[t]) =>
              /\ drawn[t] \in SeqNo
              /\ check'.init /\ check'.counter = counter[t]
              /\ ~CounterChanged(check, counter[t]) => drawn[t] \notin stay
         /\ ~Accepts(check, counter[t], drawn[t]) =>
              check'.init = check.init /\ check'.counter = check.counter
<1>1. /\ counter[t] \in Counters /\ drawn[t] \in Drawable
      /\ check \in Check(Counters) /\ stay \in SUBSET SeqNo
      /\ pc[t] = "deciding"
  BY DEF Inv, TypeOK, NonceCheckStore, Goto
<1>2. seen[t] = check
  BY <1>1 DEF Inv, LockInv
<1>3. check' = AfterCheck(check, counter[t], drawn[t])
  BY <1>2 DEF NonceCheckStore
<1>4. CASE ~Accepts(check, counter[t], drawn[t])
  <2>1. stay' = stay
    BY <1>2, <1>4 DEF NonceCheckStore, history, nonces
  <2>2. CASE ~check.init
    <3>1. drawn[t] > MaxSeq
      BY <1>1, <1>4, <2>2, Constants DEF Accepts, CounterChanged, Drawable, SeqNo
    <3> QED
      BY <1>2, <1>3, <1>4, <2>1, <2>2, <3>1 DEF AfterCheck, Inv, StayInv
  <2>3. CASE check.init
    <3>1. Describes(check, stay)
      BY <2>3 DEF Inv, StayInv
    <3>2. /\ check'.init = check.init /\ check'.counter = check.counter
          /\ Describes(check', stay)
      BY <1>1, <1>3, <1>4, <3>1, RefusalKeepsStay
    <3> QED
      BY <1>2, <1>4, <2>1, <2>3, <3>2 DEF StayInv
  <2> QED
    BY <2>2, <2>3
<1>5. CASE /\ Accepts(check, counter[t], drawn[t])
           /\ CounterChanged(check, counter[t])
  <2>1. drawn[t] \in SeqNo
    BY <1>1, <1>5, AcceptsInRange
  <2>2. check' = EnterPeriod(check, counter[t], drawn[t])
    BY <1>3, <1>5, <2>1, Constants DEF AfterCheck, SeqNo
  <2>3. stay' = {drawn[t]}
    BY <1>2, <1>5 DEF NonceCheckStore
  <2>4. /\ check'.init /\ check'.counter = counter[t] /\ ~check'.wrapped
        /\ check'.seq = drawn[t] /\ check'.ref = drawn[t]
    BY <2>2 DEF EnterPeriod
  <2>5. drawn[t] \in Nat
    BY <2>1, Constants DEF SeqNo
  <2> QED
    BY <1>2, <1>5, <2>1, <2>3, <2>4, <2>5 DEF StayInv, Describes
<1>6. CASE /\ Accepts(check, counter[t], drawn[t])
           /\ ~CounterChanged(check, counter[t])
  <2>1. drawn[t] \in SeqNo
    BY <1>1, <1>6, AcceptsInRange
  <2>2. check.init /\ check.counter = counter[t]
    BY <1>6 DEF CounterChanged
  <2>3. stay' = stay \cup {drawn[t]}
    BY <1>2, <1>6 DEF NonceCheckStore
  <2>4. drawn[t] \notin stay /\ Describes(check', stay \cup {drawn[t]})
    BY <1>1, <1>3, <1>6, <2>1, <2>2, AcceptedIsFresh DEF Inv, StayInv
  <2>5. check'.init /\ check'.counter = counter[t]
    BY <1>1, <1>3, <1>6, <2>1, <2>2, Constants DEF AfterCheck, Check, SeqNo
  <2> QED
    BY <1>2, <1>6, <2>1, <2>3, <2>4, <2>5 DEF StayInv
<1> QED
  BY <1>4, <1>5, <1>6

LEMMA InvNext == Inv /\ [Next]_vars => Inv'
<1> SUFFICES ASSUME Inv, [Next]_vars PROVE StayInv'
  BY TypeNext, LockNext DEF Inv
<1>1. ASSUME NEW t \in Threads, NonceCheckStore(t) PROVE StayInv'
  BY <1>1, StoreKeepsStay
<1>2. ASSUME Reboot PROVE StayInv'
  BY <1>2 DEF Reboot, StayInv, BootCheck
<1>3. CASE UNCHANGED << check, stay >>
  BY <1>3 DEF Inv, StayInv
<1> QED
  BY <1>1, <1>2, <1>3
     DEF Next, Step, CounterGet, Lock, SequenceLoad, SequenceIncrement,
         NonceCheckLoad, Unlock, Rotate, ClockSet, vars, history, nonces

(* Within a stay on a time counter, wraps included, no sequence number is    *)
(* handed out twice: whatever the number of tasks, the clock, the reboots    *)
(* and the generator, sequence_acquire behaves as StayMemory.                *)
THEOREM StayRefinement == Spec => StaySpec
<1> DEFINE period == IF check.init THEN check.counter ELSE NoCounter
<1>1. Spec => []Inv
  BY InvInit, InvNext, PTL DEF Spec
<1>2. Init => Memory!Init
  BY DEF Init, Memory!Init, BootCheck
<1>3. Inv /\ [Next]_vars => [Memory!Next]_(Memory!vars)
  <2> SUFFICES ASSUME Inv, [Next]_vars
               PROVE  Memory!Next \/ UNCHANGED << period, stay, result >>
    BY DEF Memory!vars
  <2>1. ASSUME NEW t \in Threads, NonceCheckStore(t) PROVE Memory!Next
    <3>1. /\ result[t] = Pending
          /\ counter[t] \in Counters /\ drawn[t] \in Drawable
          /\ counter[t] # NoCounter
      BY <2>1, MessageNonceAssumption
         DEF Inv, LockInv, TypeOK, NonceCheckStore, Goto, Counters
    <3>2. seen[t] = check
      BY <2>1, StoreKeepsStay
    <3>3. CASE Accepts(check, counter[t], drawn[t])
      <4>1. /\ drawn[t] \in SeqNo
            /\ check'.init /\ check'.counter = counter[t]
            /\ ~CounterChanged(check, counter[t]) => drawn[t] \notin stay
        BY <2>1, <3>3, StoreKeepsStay
      <4>2. CounterChanged(check, counter[t]) <=> counter[t] # period
        BY <3>1 DEF CounterChanged
      <4>3. /\ result' = [ result EXCEPT ![t] = << counter[t], drawn[t] >> ]
            /\ stay' = IF counter[t] = period
                       THEN stay \cup {drawn[t]} ELSE {drawn[t]}
        BY <2>1, <3>2, <3>3, <4>2 DEF NonceCheckStore
      <4>4. period' = counter[t]
        BY <4>1
      <4>5. Memory!HandOut(t, counter[t], drawn[t])
        BY <3>1, <4>1, <4>2, <4>3, <4>4 DEF Memory!HandOut
      <4> QED
        BY <3>1, <4>1, <4>5 DEF Memory!Next
    <3>4. CASE ~Accepts(check, counter[t], drawn[t])
      <4>1. period' = period
        BY <2>1, <3>4, StoreKeepsStay
      <4>2. Memory!Refuse(t)
        BY <2>1, <3>1, <3>2, <3>4, <4>1
           DEF NonceCheckStore, Memory!Refuse, history, nonces
      <4> QED
        BY <4>2 DEF Memory!Next
    <3> QED
      BY <3>3, <3>4
  <2>2. ASSUME NEW t \in Threads, Unlock(t) PROVE Memory!Next
    <3>1. result[t] # Pending
      BY <2>2 DEF Inv, LockInv, Unlock, Goto
    <3>2. Memory!Return(t)
      BY <2>2, <3>1 DEF Unlock, Memory!Return, history, nonces
    <3> QED
      BY <3>2 DEF Memory!Next
  <2>3. ASSUME Reboot PROVE Memory!Next
    BY <2>3 DEF Reboot, Memory!Next, Memory!Forget, BootCheck
  <2>4. CASE UNCHANGED << check, stay, result >>
    BY <2>4
  <2> QED
    BY <2>1, <2>2, <2>3, <2>4
       DEF Next, Step, CounterGet, Lock, SequenceLoad, SequenceIncrement,
           NonceCheckLoad, Rotate, ClockSet, vars, locals, history, nonces
<1> QED
  BY <1>1, <1>2, <1>3, PTL DEF Spec, StaySpec, Memory!Spec

-----------------------------------------------------------------------------
(* A nonce is used twice only when the check goes back to a counter.         *)

(* Until then whatever was used with the counter of the check is in the      *)
(* stay: a counter entered for the first time had nothing used with it.      *)
UseInv ==
  ~reentered =>
    /\ ~reused
    /\ check.init => \A s \in SeqNo : << check.counter, s >> \in used => s \in stay

LEMMA UseNext == Inv /\ UseInv /\ [Next]_vars => UseInv'
<1> SUFFICES ASSUME Inv, UseInv, [Next]_vars PROVE UseInv'
  OBVIOUS
<1>1. ASSUME NEW t \in Threads, NonceCheckStore(t) PROVE UseInv'
  <2>1. seen[t] = check
    BY <1>1, StoreKeepsStay
  <2>2. CASE ~Accepts(check, counter[t], drawn[t])
    <3>1. check'.init = check.init /\ check'.counter = check.counter
      BY <1>1, <2>2, StoreKeepsStay
    <3>2. UNCHANGED << used, reused, reentered, stay >>
      BY <1>1, <2>1, <2>2 DEF NonceCheckStore, history, nonces
    <3> QED
      BY <3>1, <3>2 DEF UseInv
  <2>3. CASE Accepts(check, counter[t], drawn[t])
    <3> DEFINE nonce == << counter[t], drawn[t] >>
    <3>1. /\ used' = used \cup {nonce}
          /\ reused' = (reused \/ nonce \in used)
          /\ reentered' = (reentered \/ Reenters(check, counter[t]))
          /\ stay' = IF CounterChanged(check, counter[t])
                     THEN {drawn[t]} ELSE stay \cup {drawn[t]}
      BY <1>1, <2>1, <2>3 DEF NonceCheckStore
    <3>2. /\ drawn[t] \in SeqNo
          /\ check'.init /\ check'.counter = counter[t]
          /\ ~CounterChanged(check, counter[t]) => drawn[t] \notin stay
      BY <1>1, <2>3, StoreKeepsStay
    <3>3. SUFFICES ASSUME ~reentered, ~Reenters(check, counter[t])
                   PROVE  UseInv'
      BY <3>1 DEF UseInv
    <3>4. ASSUME NEW s \in SeqNo, << counter[t], s >> \in used PROVE s \in stay
      <4>1. ~CounterChanged(check, counter[t])
        BY <3>3, <3>4 DEF Reenters
      <4> QED
        BY <3>3, <3>4, <4>1 DEF UseInv, CounterChanged
    <3>5. CounterChanged(check, counter[t]) => \A s \in SeqNo : << counter[t], s >> \notin used
      BY <3>3 DEF Reenters
    <3>6. nonce \notin used
      BY <3>2, <3>4, <3>5
    <3>7. \A s \in SeqNo : << counter[t], s >> \in used' => s \in stay'
      BY <3>1, <3>4, <3>5
    <3> QED
      BY <3>1, <3>2, <3>3, <3>6, <3>7 DEF UseInv
  <2> QED
    BY <2>2, <2>3
<1>2. ASSUME Reboot PROVE UseInv'
  BY <1>2 DEF Reboot, UseInv, BootCheck
<1>3. CASE UNCHANGED << check, nonces >>
  BY <1>3 DEF UseInv, nonces
<1> QED
  BY <1>1, <1>2, <1>3
     DEF Next, Step, CounterGet, Lock, SequenceLoad, SequenceIncrement,
         NonceCheckLoad, Unlock, Rotate, ClockSet, vars, history

(* For any number of tasks, any clock, any generator and reboots, a nonce is *)
(* handed out twice only after the check went back to a counter it had left. *)
THEOREM UniqueUnlessReentered == Spec => []NonceUnique
<1>1. Init => UseInv
  BY DEF Init, UseInv
<1>2. UseInv => NonceUnique
  BY DEF UseInv, NonceUnique
<1> QED
  BY InvInit, InvNext, UseNext, <1>1, <1>2, PTL DEF Spec

-----------------------------------------------------------------------------
(* Nonce uniqueness over the life of the device.                             *)

(* The setting in which it holds: one task builds messages, Unix time is the *)
(* counter source, and time only moves forward.                              *)
SteadyClock ==
  /\ \A t, u \in Threads : t = u
  /\ ~Uptime
  /\ Events \subseteq {"rotate"}

(* The statics never run ahead of the clock nor of a counter read for a call *)
(* in progress; whatever was used with their counter is in the stay, and     *)
(* nothing was used with a later one.                                        *)
OrderInv ==
  /\ check.init => check.counter <= clock
  /\ \A t \in Threads :
       pc[t] # "idle" => /\ counter[t] <= clock
                         /\ check.init => check.counter <= counter[t]
  /\ \A n \in used : /\ check.init
                     /\ n[1] <= check.counter
                     /\ n[1] = check.counter => n[2] \in stay

LEMMA OrderNext ==
  ASSUME SteadyClock, Inv, OrderInv, NeverReused, [Next]_vars
  PROVE  OrderInv' /\ NeverReused'
<1>0. /\ Counters \subseteq Nat /\ clock \in Nat
      /\ check.counter \in Nat
      /\ \A t \in Threads : counter[t] \in Nat
      /\ \A n \in used : n[1] \in Nat
  BY Constants DEF Inv, TypeOK, Counters, Check
<1>1. ASSUME NEW t \in Threads, CounterGet(t) PROVE OrderInv' /\ NeverReused'
  <2>1. counter'[t] = clock /\ \A u \in Threads : u = t
    BY <1>1 DEF CounterGet, SteadyClock, Inv, TypeOK
  <2> QED
    BY <1>0, <1>1, <2>1 DEF CounterGet, OrderInv, NeverReused, history, nonces
<1>2. ASSUME NEW t \in Threads, NonceCheckStore(t) PROVE OrderInv' /\ NeverReused'
  <2>1. \A u \in Threads : u = t
    BY DEF SteadyClock
  <2>2. /\ seen[t] = check /\ pc[t] # "idle"
        /\ clock' = clock /\ counter' = counter
        /\ counter[t] \in Nat /\ counter[t] <= clock
        /\ check.init => check.counter <= counter[t]
    BY <1>0, <1>2, StoreKeepsStay DEF NonceCheckStore, Goto, OrderInv
  <2>3. CASE ~Accepts(check, counter[t], drawn[t])
    <3>1. /\ check'.init = check.init /\ check'.counter = check.counter
          /\ used' = used /\ stay' = stay /\ reused' = reused
      BY <1>2, <2>2, <2>3, StoreKeepsStay DEF NonceCheckStore, history, nonces
    <3> QED
      BY <2>1, <2>2, <3>1 DEF OrderInv, NeverReused
  <2>4. CASE Accepts(check, counter[t], drawn[t])
    <3> DEFINE nonce == << counter[t], drawn[t] >>
    <3>1. /\ check'.init /\ check'.counter = counter[t]
          /\ ~CounterChanged(check, counter[t]) => drawn[t] \notin stay
      BY <1>2, <2>4, StoreKeepsStay
    <3>2. /\ used' = used \cup {nonce}
          /\ reused' = (reused \/ nonce \in used)
          /\ stay' = IF CounterChanged(check, counter[t])
                     THEN {drawn[t]} ELSE stay \cup {drawn[t]}
      BY <1>2, <2>2, <2>4 DEF NonceCheckStore
    <3>3. nonce[1] = counter[t] /\ nonce[2] = drawn[t]
      OBVIOUS
    <3>4. nonce \notin used
      <4> SUFFICES ASSUME nonce \in used PROVE FALSE
        OBVIOUS
      <4>1. /\ check.init /\ counter[t] <= check.counter
            /\ counter[t] = check.counter => drawn[t] \in stay
        BY <3>3 DEF OrderInv
      <4>2. counter[t] = check.counter
        BY <1>0, <2>2, <4>1
      <4> QED
        BY <3>1, <4>1, <4>2 DEF CounterChanged
    <3>5. ASSUME NEW n \in used'
          PROVE  n[1] <= counter[t] /\ (n[1] = counter[t] => n[2] \in stay')
      <4>1. CASE n = nonce
        BY <2>2, <3>2, <3>3, <4>1
      <4>2. CASE n \in used
        <5>1. /\ check.init /\ n[1] <= check.counter
              /\ n[1] = check.counter => n[2] \in stay
          BY <4>2 DEF OrderInv
        <5>2. n[1] = counter[t] => counter[t] = check.counter
          BY <1>0, <2>2, <4>2, <5>1
        <5> QED
          BY <1>0, <2>2, <3>2, <4>2, <5>1, <5>2 DEF CounterChanged
      <4> QED
        BY <3>2, <4>1, <4>2
    <3>6. check'.init => check'.counter <= clock'
      BY <2>2, <3>1
    <3>7. ASSUME NEW u \in Threads
          PROVE  counter'[u] <= clock' /\ check'.counter <= counter'[u]
      BY <2>1, <2>2, <3>1
    <3>8. ~reused'
      BY <3>2, <3>4 DEF NeverReused
    <3> HIDE DEF nonce
    <3> QED
      BY <3>1, <3>5, <3>6, <3>7, <3>8 DEF OrderInv, NeverReused
  <2> QED
    BY <2>3, <2>4
<1>3. ASSUME Rotate PROVE OrderInv' /\ NeverReused'
  <2>1. clock' = clock + 1
    BY <1>3, Constants, MessageNonceAssumption
       DEF Rotate, SteadyClock, Inv, TypeOK, Counters
  <2> QED
    BY <1>0, <1>3, <2>1 DEF Rotate, OrderInv, NeverReused, locals, history, nonces
<1>4. ASSUME NEW t \in Threads, Unlock(t) PROVE OrderInv' /\ NeverReused'
  <2>1. \A u \in Threads : pc'[u] = "idle"
    BY <1>4 DEF Unlock, Goto, SteadyClock, Inv, TypeOK
  <2> QED
    BY <1>4, <2>1 DEF Unlock, OrderInv, NeverReused, history, nonces
<1>5. ASSUME NEW t \in Threads,
             \/ Lock(t) \/ SequenceLoad(t)
             \/ SequenceIncrement(t) \/ NonceCheckLoad(t)
      PROVE  OrderInv' /\ NeverReused'
  <2>1. pc[t] # "idle" /\ \A u \in Threads : u = t
    BY <1>5 DEF Lock, SequenceLoad, SequenceIncrement, NonceCheckLoad, Goto,
                SteadyClock
  <2> QED
    BY <1>5, <2>1 DEF Lock, SequenceLoad, SequenceIncrement, NonceCheckLoad,
                      OrderInv, NeverReused, history, nonces
<1>6. ~ClockSet /\ ~Reboot
  BY DEF ClockSet, Reboot, SteadyClock
<1>7. CASE UNCHANGED vars
  BY <1>7 DEF OrderInv, NeverReused, vars, locals, history, nonces
<1> QED
  BY <1>1, <1>2, <1>3, <1>4, <1>5, <1>6, <1>7 DEF Next, Step

(* One task, forward Unix time, no reboot: no nonce is ever used twice,      *)
(* whatever the generator returns.                                           *)
THEOREM NeverReusedUnderSteadyClock ==
  ASSUME SteadyClock PROVE Spec => []NeverReused
<1>1. Init => OrderInv /\ NeverReused
  BY DEF Init, OrderInv, NeverReused, BootCheck
<1>2. Inv /\ OrderInv /\ NeverReused /\ [Next]_vars => OrderInv' /\ NeverReused'
  BY OrderNext
<1> QED
  BY InvInit, InvNext, <1>1, <1>2, PTL DEF Spec

-----------------------------------------------------------------------------
(* A counting generator loses no number. *)

(* A counting generator goes through 0 .. MaxSeq in order and starts again.  *)
NextNumber(n) == IF n = MaxSeq THEN 0 ELSE n + 1

(* The numbers of the stay, all drawn in a row: up from the reference, or    *)
(* up from it to MaxSeq and on from 0, the last number being the one before  *)
(* the next number to be drawn.                                              *)
Climbing(c, numbers, next) ==
  /\ ~c.wrapped /\ c.ref <= c.seq
  /\ numbers = c.ref .. c.seq
  /\ next = NextNumber(c.seq)

WrappedIn(c, numbers, next) ==
  /\ c.wrapped /\ c.wrap_allowed /\ c.seq < c.ref
  /\ numbers = (c.ref .. MaxSeq) \cup (0 .. c.seq)
  /\ next = NextNumber(c.seq)

(* The numbers a period may hand out are all spent. *)
Spent(c, numbers) ==
  /\ c.ref .. MaxSeq \subseteq numbers
  /\ c.wrap_allowed => numbers = SeqNo

(* After a number was refused none is accepted before the counter changes.   *)
Closed(c, numbers) ==
  /\ c.wrapped
  /\ Spent(c, numbers)
  /\ c.wrap_allowed => c.ref <= c.seq + 1

InARow(c, numbers, next) ==
  c.init => \/ Climbing(c, numbers, next)
            \/ WrappedIn(c, numbers, next)
            \/ Closed(c, numbers)

(* A number that was drawn reaches the check before another one is drawn.    *)
Drawing == { t \in Threads : pc[t] \in {"drawn", "deciding"} }

CountInv ==
  counted =>
    /\ \A t \in Threads : pc[t] = "loaded" => drawn[t] = Count
    /\ \A t \in Drawing : /\ drawn[t] \in SeqNo
                          /\ seq_number = drawn[t] + 1
                          /\ InARow(check, stay, drawn[t])
    /\ Drawing = {} => InARow(check, stay, Count)
    /\ \A t \in Threads : result[t] = Refused => Spent(check, stay)

LEMMA NextNumberType == \A n \in SeqNo : NextNumber(n) \in SeqNo
BY Constants DEF NextNumber, SeqNo

(* The fields of the statics after a number in range that keeps the counter. *)
LEMMA AfterKeptCounter ==
  ASSUME NEW c \in Check(Counters), NEW tc, NEW s \in SeqNo, ~CounterChanged(c, tc)
  PROVE  LET d == AfterCheck(c, tc, s) IN
         /\ d.init = c.init /\ d.wrap_allowed = c.wrap_allowed /\ d.ref = c.ref
         /\ d.wrapped = (c.wrapped \/ s < c.seq)
         /\ d.seq = IF Accepts(c, tc, s) THEN s ELSE c.seq
<1>1. ~(s > MaxSeq)
  BY Constants DEF SeqNo
<1> QED
  BY <1>1 DEF AfterCheck, Check

(* The next number in a row is accepted and keeps the row or, when every     *)
(* number the period may hand out is spent, refused and the period closed.   *)
LEMMA NextInARow ==
  ASSUME NEW c \in Check(Counters), NEW numbers \in SUBSET SeqNo,
         NEW tc, NEW s \in SeqNo, ~CounterChanged(c, tc), InARow(c, numbers, s)
  PROVE  /\ Accepts(c, tc, s) =>
              InARow(AfterCheck(c, tc, s), numbers \cup {s}, NextNumber(s))
         /\ ~Accepts(c, tc, s) =>
              /\ InARow(AfterCheck(c, tc, s), numbers, NextNumber(s))
              /\ Spent(AfterCheck(c, tc, s), numbers)
<1> DEFINE d == AfterCheck(c, tc, s)
<1>1. /\ c.seq \in Nat /\ c.ref \in Nat /\ s \in Nat /\ MaxSeq \in Nat
      /\ s <= MaxSeq /\ c.seq <= MaxSeq /\ c.ref <= MaxSeq
      /\ c.wrapped \in BOOLEAN /\ c.wrap_allowed \in BOOLEAN
  BY Constants DEF Check, SeqNo
<1>2. /\ c.init /\ d.init /\ d.wrap_allowed = c.wrap_allowed /\ d.ref = c.ref
      /\ d.wrapped = (c.wrapped \/ s < c.seq)
      /\ d.seq = IF Accepts(c, tc, s) THEN s ELSE c.seq
  BY AfterKeptCounter DEF CounterChanged
<1>3. Accepts(c, tc, s) <=> s # c.seq /\ WrapOK(c, s)
  BY <1>1 DEF Accepts
<1> HIDE DEF d
<1>4. CASE Climbing(c, numbers, s) /\ c.seq < MaxSeq
  <2>1. numbers = c.ref .. c.seq /\ c.ref <= c.seq /\ ~c.wrapped
    BY <1>4 DEF Climbing
  <2>2. s = c.seq + 1 /\ Accepts(c, tc, s)
    BY <1>1, <1>3, <1>4, <2>1 DEF Climbing, NextNumber, WrapOK
  <2>3. numbers \cup {s} = c.ref .. s
    BY <1>1, <2>1, <2>2
  <2>4. ~d.wrapped /\ d.seq = s /\ c.ref <= s
    BY <1>1, <1>2, <2>1, <2>2
  <2>5. Climbing(d, numbers \cup {s}, NextNumber(s))
    BY <1>2, <2>3, <2>4 DEF Climbing
  <2> QED
    BY <2>2, <2>5 DEF d, InARow
<1>5. CASE Climbing(c, numbers, s) /\ c.seq = MaxSeq /\ MaxSeq = 0
  <2>1. numbers = c.ref .. c.seq /\ c.ref = 0 /\ ~c.wrapped /\ s = 0
    BY <1>1, <1>5 DEF Climbing, NextNumber
  <2>2. ~Accepts(c, tc, s)
    BY <1>3, <1>5, <2>1
  <2>3. ~d.wrapped /\ d.seq = c.seq /\ d.ref <= d.seq
    BY <1>1, <1>2, <1>5, <2>1, <2>2
  <2>4. Climbing(d, numbers, NextNumber(s)) /\ Spent(d, numbers)
    BY <1>1, <1>2, <1>5, <2>1, <2>3 DEF Climbing, Spent, SeqNo
  <2> QED
    BY <2>2, <2>4 DEF d, InARow
<1>6. CASE Climbing(c, numbers, s) /\ c.seq = MaxSeq /\ MaxSeq > 0
  <2>1. /\ numbers = c.ref .. MaxSeq /\ ~c.wrapped
        /\ s = 0 /\ NextNumber(s) = 1 /\ d.wrapped
    <3>1. numbers = c.ref .. MaxSeq /\ ~c.wrapped /\ s = NextNumber(MaxSeq)
      BY <1>6 DEF Climbing
    <3>2. s = 0
      BY <3>1 DEF NextNumber
    <3>3. NextNumber(s) = 1
      BY <1>6, <3>2 DEF NextNumber
    <3> QED
      BY <1>1, <1>2, <1>6, <3>1, <3>2, <3>3
  <2>2. Accepts(c, tc, s) <=> c.wrap_allowed /\ 0 < c.ref
    BY <1>1, <1>3, <1>6, <2>1 DEF WrapOK
  <2>3. ASSUME Accepts(c, tc, s)
        PROVE  WrappedIn(d, numbers \cup {s}, NextNumber(s))
    <3>1. d.seq = 0 /\ numbers \cup {s} = (c.ref .. MaxSeq) \cup (0 .. 0)
      BY <1>1, <1>2, <2>1, <2>3
    <3> QED
      BY <1>2, <2>1, <2>2, <2>3, <3>1 DEF WrappedIn
  <2>4. ASSUME ~Accepts(c, tc, s) PROVE Closed(d, numbers)
    <3>1. c.wrap_allowed => c.ref = 0
      BY <1>1, <2>2, <2>4
    <3> QED
      BY <1>1, <1>2, <2>1, <2>4, <3>1 DEF Closed, Spent, SeqNo
  <2> QED
    BY <2>3, <2>4 DEF d, InARow, Closed
<1>7. CASE WrappedIn(c, numbers, s)
  <2>1. /\ numbers = (c.ref .. MaxSeq) \cup (0 .. c.seq)
        /\ c.wrapped /\ c.wrap_allowed /\ c.seq < c.ref
        /\ s = c.seq + 1 /\ d.wrapped
    <3>1. /\ c.wrapped /\ c.seq < c.ref /\ s = NextNumber(c.seq)
          /\ numbers = (c.ref .. MaxSeq) \cup (0 .. c.seq)
      BY <1>7 DEF WrappedIn
    <3>2. s = c.seq + 1
      BY <1>1, <3>1 DEF NextNumber
    <3> QED
      BY <1>2, <1>7, <3>1, <3>2 DEF WrappedIn
  <2>2. Accepts(c, tc, s) <=> s < c.ref
    BY <1>1, <1>3, <2>1 DEF WrapOK
  <2>3. ASSUME Accepts(c, tc, s)
        PROVE  WrappedIn(d, numbers \cup {s}, NextNumber(s))
    <3>1. d.seq = s /\ numbers \cup {s} = (c.ref .. MaxSeq) \cup (0 .. s)
      BY <1>1, <1>2, <2>1, <2>3
    <3> QED
      BY <1>2, <2>1, <2>2, <2>3, <3>1 DEF WrappedIn
  <2>4. ASSUME ~Accepts(c, tc, s) PROVE Closed(d, numbers)
    <3>1. c.ref = c.seq + 1 /\ d.seq = c.seq
      BY <1>1, <1>2, <2>1, <2>2, <2>4
    <3>2. numbers = SeqNo
      BY <1>1, <2>1, <3>1 DEF SeqNo
    <3> QED
      BY <1>1, <1>2, <2>1, <3>1, <3>2 DEF Closed, Spent, SeqNo
  <2> QED
    BY <2>3, <2>4 DEF d, InARow, Closed
<1>8. CASE Closed(c, numbers)
  <2>1. ~Accepts(c, tc, s)
    BY <1>1, <1>3, <1>8 DEF Closed, WrapOK
  <2>2. Closed(d, numbers)
    BY <1>1, <1>2, <1>8, <2>1 DEF Closed, Spent
  <2> QED
    BY <2>1, <2>2 DEF d, InARow, Closed
<1>9. CASE Climbing(c, numbers, s)
  BY <1>1, <1>4, <1>5, <1>6, <1>9
<1> QED
  BY <1>2, <1>7, <1>8, <1>9 DEF InARow

(* The numbers drawn by a counting generator follow one another.             *)
LEMMA CountFollows ==
  ASSUME Inv, NEW n \in SeqNo, seq_number = n + 1 PROVE Count = NextNumber(n)
BY Constants DEF Count, NextNumber, SeqNo

LEMMA CountNext == Inv /\ CountInv /\ [Next]_vars => CountInv'
<1> SUFFICES ASSUME Inv, CountInv, [Next]_vars, counted' PROVE CountInv'
  BY DEF CountInv
<1>0. /\ pc \in [ Threads -> PCs ] /\ drawn \in [ Threads -> Drawable ]
      /\ result \in [ Threads -> {Pending, Refused} \cup (Counters \X SeqNo) ]
      /\ Count \in SeqNo
  BY Constants DEF Inv, TypeOK, Count, SeqNo
<1>1. \A t, u \in Threads : pc[t] \in Critical /\ pc[u] \in Critical => t = u
  BY DEF Inv, LockInv
<1>2. ASSUME NEW t \in Threads, SequenceLoad(t) PROVE CountInv'
  <2>1. counted /\ drawn'[t] = Count /\ pc[t] = "locked" /\ pc'[t] = "loaded"
    BY <1>0, <1>2 DEF SequenceLoad, Goto
  <2>2. Drawing = {} /\ Drawing' = {}
    BY <1>0, <1>1, <1>2 DEF SequenceLoad, Goto, Drawing, Critical
  <2>3. \A u \in Threads : pc'[u] = "loaded" => u = t
    BY <1>0, <1>1, <1>2 DEF SequenceLoad, Goto, Critical
  <2> QED
    BY <1>2, <2>1, <2>2, <2>3 DEF CountInv, SequenceLoad, nonces, Count
<1>3. ASSUME NEW t \in Threads, SequenceIncrement(t) PROVE CountInv'
  <2>1. counted /\ drawn[t] = Count /\ drawn' = drawn
    BY <1>3 DEF CountInv, SequenceIncrement, Goto, history
  <2>2. Drawing = {} /\ Drawing' = {t}
    BY <1>0, <1>1, <1>3 DEF SequenceIncrement, Goto, Drawing, Critical
  <2>3. \A u \in Threads : pc'[u] # "loaded"
    BY <1>0, <1>1, <1>3 DEF SequenceIncrement, Goto, Critical
  <2>4. seq_number' = drawn[t] + 1
    BY <1>0, <1>3, <2>1, Constants DEF SequenceIncrement, SeqNo
  <2> QED
    BY <1>0, <1>3, <2>1, <2>2, <2>3, <2>4
       DEF CountInv, SequenceIncrement, history, nonces
<1>4. ASSUME NEW t \in Threads, NonceCheckLoad(t) PROVE CountInv'
  <2>1. Drawing' = Drawing /\ \A u \in Threads : pc'[u] = "loaded" => pc[u] = "loaded"
    BY <1>0, <1>4 DEF NonceCheckLoad, Goto, Drawing
  <2> QED
    BY <1>4, <2>1 DEF CountInv, NonceCheckLoad, history, nonces, Count
<1>5. ASSUME NEW t \in Threads, NonceCheckStore(t) PROVE CountInv'
  <2>1. /\ counted /\ t \in Drawing /\ seen[t] = check
        /\ counter[t] \in Counters /\ check \in Check(Counters)
        /\ stay \in SUBSET SeqNo
    BY <1>5, StoreKeepsStay
       DEF NonceCheckStore, Goto, Drawing, history, Inv, TypeOK
  <2>2. /\ drawn[t] \in SeqNo /\ seq_number = drawn[t] + 1
        /\ InARow(check, stay, drawn[t])
    BY <2>1 DEF CountInv
  <2>3. Drawing' = {} /\ \A u \in Threads : pc'[u] # "loaded"
    BY <1>0, <1>1, <1>5 DEF NonceCheckStore, Goto, Drawing, Critical
  <2>4. Count' = NextNumber(drawn[t])
    BY <1>5, <2>2, CountFollows DEF NonceCheckStore, Count
  <2>5. \A u \in Threads : u # t => result'[u] = Pending
    <3>1. pc[t] \in Critical /\ \A u \in Threads : u # t => result'[u] = result[u]
      BY <1>0, <1>5 DEF NonceCheckStore, Goto, Critical
    <3>2. \A u \in Threads : u # t => pc[u] # "checked"
      BY <1>1, <3>1 DEF Critical
    <3> QED
      BY <3>1, <3>2 DEF Inv, LockInv
  <2>6. check' = AfterCheck(check, counter[t], drawn[t])
    BY <1>5, <2>1 DEF NonceCheckStore
  <2>7. CASE CounterChanged(check, counter[t])
    <3>1. /\ Accepts(check, counter[t], drawn[t])
          /\ check' = EnterPeriod(check, counter[t], drawn[t])
      BY <2>2, <2>6, <2>7, Constants DEF Accepts, AfterCheck, SeqNo
    <3>2. stay' = {drawn[t]} /\ result'[t] # Refused
      BY <1>0, <1>5, <2>1, <2>2, <2>7, <3>1, MessageNonceAssumption
         DEF NonceCheckStore, Counters
    <3>3. Climbing(check', stay', NextNumber(drawn[t]))
      BY <2>2, <3>1, <3>2, Constants DEF Climbing, EnterPeriod, SeqNo
    <3> QED
      BY <2>3, <2>4, <2>5, <3>2, <3>3, MessageNonceAssumption DEF CountInv, InARow
  <2>8. CASE /\ ~CounterChanged(check, counter[t])
             /\ Accepts(check, counter[t], drawn[t])
    <3>1. stay' = stay \cup {drawn[t]} /\ result'[t] # Refused
      BY <1>0, <1>5, <2>1, <2>2, <2>8, MessageNonceAssumption
         DEF NonceCheckStore, Counters
    <3>2. InARow(check', stay', NextNumber(drawn[t]))
      BY <2>1, <2>2, <2>6, <2>8, <3>1, NextInARow
    <3> QED
      BY <2>3, <2>4, <2>5, <3>1, <3>2, MessageNonceAssumption DEF CountInv
  <2>9. CASE /\ ~CounterChanged(check, counter[t])
             /\ ~Accepts(check, counter[t], drawn[t])
    <3>1. stay' = stay
      BY <1>5, <2>1, <2>9 DEF NonceCheckStore, history, nonces
    <3>2. InARow(check', stay', NextNumber(drawn[t])) /\ Spent(check', stay')
      BY <2>1, <2>2, <2>6, <2>9, <3>1, NextInARow
    <3> QED
      BY <2>3, <2>4, <3>2 DEF CountInv
  <2> QED
    BY <2>7, <2>8, <2>9
<1>6. ASSUME NEW t \in Threads, Unlock(t) PROVE CountInv'
  <2>1. /\ Drawing' = Drawing
        /\ \A u \in Threads : pc'[u] = "loaded" => pc[u] = "loaded" /\ u # t
        /\ \A u \in Drawing : u # t
        /\ \A u \in Threads : result'[u] = Refused => result[u] = Refused
        /\ \A u \in Threads : u # t => drawn'[u] = drawn[u]
    BY <1>0, <1>6, MessageNonceAssumption DEF Unlock, Goto, Drawing
  <2> QED
    BY <1>6, <2>1 DEF CountInv, Unlock, history, nonces, Count
<1>7. ASSUME Reboot PROVE CountInv'
  <2>1. Drawing' = {} /\ \A u \in Threads : pc'[u] = "idle" /\ result'[u] = Pending
    BY <1>7 DEF Reboot, Drawing
  <2>2. ~check'.init
    BY <1>7 DEF Reboot, BootCheck
  <2> QED
    BY <2>1, <2>2, MessageNonceAssumption DEF CountInv, InARow
<1>8. ASSUME NEW t \in Threads, CounterGet(t) \/ Lock(t) PROVE CountInv'
  <2>1. Drawing' = Drawing /\ \A u \in Threads : pc'[u] = "loaded" => pc[u] = "loaded"
    BY <1>0, <1>8 DEF CounterGet, Lock, Goto, Drawing
  <2> QED
    BY <1>8, <2>1 DEF CountInv, CounterGet, Lock, history, nonces, Count
<1>9. CASE Rotate \/ ClockSet \/ UNCHANGED vars
  BY <1>9 DEF CountInv, Rotate, ClockSet, vars, locals, history, nonces, Count, Drawing
<1> QED
  BY <1>2, <1>3, <1>4, <1>5, <1>6, <1>7, <1>8, <1>9 DEF Next, Step

(* hubble_internal_nonce_values_check, for any number of tasks, clock and    *)
(* reboots: a counting generator is refused only when the period has spent   *)
(* the numbers from its reference up and, where it may wrap, all of them.    *)
THEOREM NoNumberLost == Spec => []RefusedOnlyWhenSpent
<1>1. Init => CountInv
  <2> SUFFICES ASSUME Init PROVE CountInv
    OBVIOUS
  <2>1. Drawing = {} /\ \A t \in Threads : pc[t] = "idle" /\ result[t] = Pending
    BY DEF Init, Drawing
  <2> QED
    BY <2>1, MessageNonceAssumption DEF Init, CountInv, InARow, BootCheck
<1>2. CountInv => RefusedOnlyWhenSpent
  BY DEF CountInv, RefusedOnlyWhenSpent, Spent
<1> QED
  BY InvInit, InvNext, CountNext, <1>1, <1>2, PTL DEF Spec
=============================================================================
