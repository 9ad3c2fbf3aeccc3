----------------------------- MODULE StayMemory -----------------------------
(***************************************************************************)
(* What hubble_internal_sequence_acquire promises its callers: it behaves  *)
(* like a memory of every sequence number handed out since the time        *)
(* counter last changed (a stay), and never hands out one that is in that  *)
(* memory. It may refuse whenever it likes; a refusal hands out nothing.   *)
(***************************************************************************)
CONSTANTS
  Threads,     \* the callers
  Counters,    \* the time counters
  SeqNos,      \* the sequence numbers
  NoCounter,   \* the time counter before any nonce was accepted
  Pending,     \* the result of a call that has not been decided
  Refused      \* the result of a call that returned -EPERM

VARIABLES
  period,      \* time counter of the current stay
  stay,        \* sequence numbers handed out in it
  result       \* what each caller was handed: <<counter, number>>

vars == << period, stay, result >>

Init ==
  /\ period = NoCounter
  /\ stay = {}
  /\ result = [ t \in Threads |-> Pending ]

HandOut(t, counter, seq_no) ==
  /\ result[t] = Pending
  /\ counter = period => seq_no \notin stay
  /\ period' = counter
  /\ stay' = IF counter = period THEN stay \cup {seq_no} ELSE {seq_no}
  /\ result' = [ result EXCEPT ![t] = << counter, seq_no >> ]

Refuse(t) ==
  /\ result[t] = Pending
  /\ result' = [ result EXCEPT ![t] = Refused ]
  /\ UNCHANGED << period, stay >>

Return(t) ==
  /\ result[t] # Pending
  /\ result' = [ result EXCEPT ![t] = Pending ]
  /\ UNCHANGED << period, stay >>

(* A reboot: the memory is in RAM. *)
Forget ==
  /\ period' = NoCounter
  /\ stay' = {}
  /\ result' = [ t \in Threads |-> Pending ]

Next ==
  \/ \E t \in Threads :
       \/ \E counter \in Counters, seq_no \in SeqNos : HandOut(t, counter, seq_no)
       \/ Refuse(t)
       \/ Return(t)
  \/ Forget

Spec == Init /\ [][Next]_vars
=============================================================================
