------------------------------- MODULE RwLock -------------------------------
(***************************************************************************)
(* What a reader-writer lock promises: a caller of lock_exclusive returns  *)
(* only when nobody else has the lock, a caller of lock_shared only when   *)
(* nobody has it exclusively.                                              *)
(***************************************************************************)
CONSTANTS Threads

VARIABLES
  want,  \* [Threads -> what the call in progress asks for]
  has    \* [Threads -> how the thread holds the lock]

vars == <<want, has>>

Modes == {"none", "exclusive", "shared"}
Compatible(t, m) ==
  \A u \in Threads \ {t} : has[u] = "none" \/ (has[u] = "shared" /\ m = "shared")

Init ==
  /\ want = [t \in Threads |-> "none"]
  /\ has = [t \in Threads |-> "none"]

Ask(t) ==
  /\ want[t] = "none" /\ has[t] = "none"
  /\ \E m \in Modes \ {"none"} : want' = [want EXCEPT ![t] = m]
  /\ UNCHANGED has

Grant(t) ==
  /\ want[t] # "none"
  /\ Compatible(t, want[t])
  /\ has' = [has EXCEPT ![t] = want[t]]
  /\ want' = [want EXCEPT ![t] = "none"]

Release(t) ==
  /\ has[t] # "none"
  /\ has' = [has EXCEPT ![t] = "none"]
  /\ UNCHANGED want

Next == \E t \in Threads : Ask(t) \/ Grant(t) \/ Release(t)

Spec == Init /\ [][Next]_vars
=============================================================================
