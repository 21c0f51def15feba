---------------------- MODULE CancellationToken_proofs ----------------------
(***************************************************************************)
(* The safety of the cancellation token, for any number of threads.        *)
(***************************************************************************)
EXTENDS CancellationToken, TLAPS

\* The state functions never mix the three kinds of threads.
USE ThreadsAssumption DEF Threads, Reasons

LEMMA TypeInit == Init => TypeOK
<1> SUFFICES ASSUME Init PROVE TypeOK
  OBVIOUS
<1>1. ncalls \in [Listeners -> 0..2] /\ todo \in [Cancellers -> SUBSET Listeners]
  BY DEF Init
<1>2. heard \in [Listeners \cup Observers -> SUBSET Reasons]
  BY DEF Init
<1>3. pc \in [Threads -> {"start", "first", "second", "copy", "calling", "registered",
                         "late", "gone", "raise", "done"}]
  BY DEF Init
<1> QED BY <1>1, <1>2, <1>3 DEF Init, TypeOK

LEMMA TypeNext == TypeOK /\ [Next]_vars => TypeOK'
<1> SUFFICES ASSUME TypeOK, [Next]_vars PROVE TypeOK'
  OBVIOUS
<1> USE DEF TypeOK, Goto, history
<1>1. ASSUME NEW c \in Cancellers, CancelEnter(c) PROVE TypeOK'
  BY <1>1 DEF CancelEnter
<1>2. ASSUME NEW c \in Cancellers, Assign(c) PROVE TypeOK'
  BY <1>2 DEF Assign
<1>3. ASSUME NEW c \in Cancellers, CopyCallbacks(c) PROVE TypeOK'
  BY <1>3 DEF CopyCallbacks
<1>4. ASSUME NEW c \in Cancellers, NEW l \in Listeners, CallBack(c, l) PROVE TypeOK'
  BY <1>4 DEF CallBack, Call
<1>5. ASSUME NEW c \in Cancellers, CancelReturns(c) PROVE TypeOK'
  BY <1>5 DEF CancelReturns
<1>6. ASSUME NEW l \in Listeners, OnCancel(l) PROVE TypeOK'
  BY <1>6 DEF OnCancel
<1>7. ASSUME NEW l \in Listeners, CallLate(l) PROVE TypeOK'
  BY <1>7 DEF CallLate, Call
<1>8. ASSUME NEW l \in Listeners, Unregister(l) PROVE TypeOK'
  BY <1>8 DEF Unregister
<1>9. ASSUME NEW o \in Observers, Observe(o) PROVE TypeOK'
  BY <1>9 DEF Observe
<1>10. ASSUME NEW o \in Observers, Raise(o) PROVE TypeOK'
  BY <1>10 DEF Raise
<1>11. CASE UNCHANGED vars
  BY <1>11 DEF vars
<1> QED
  BY <1>1, <1>2, <1>3, <1>4, <1>5, <1>6, <1>7, <1>8, <1>9, <1>10, <1>11 DEF Next, CancelGoesOn

LEMMA TokenInit == Init => TokenInv
BY DEF Init, TokenInv, OneInside, Inside, ReasonRecorded, StillToCall, CalledOnce,
       OneReason, UnregisteredNotCalled

LEMMA TokenNext == TypeOK /\ TokenInv /\ [Next]_vars => TokenInv'
<1> SUFFICES ASSUME TypeOK, TokenInv, [Next]_vars PROVE TokenInv'
  OBVIOUS
<1> USE DEF TypeOK, TokenInv, OneInside, Inside, ReasonRecorded, StillToCall, CalledOnce,
            OneReason, UnregisteredNotCalled, Goto, history
<1>1. ASSUME NEW c \in Cancellers, CancelEnter(c) PROVE TokenInv'
  BY <1>1 DEF CancelEnter
<1>2. ASSUME NEW c \in Cancellers, Assign(c) PROVE TokenInv'
  BY <1>2 DEF Assign
<1>3. ASSUME NEW c \in Cancellers, CopyCallbacks(c) PROVE TokenInv'
  BY <1>3 DEF CopyCallbacks
<1>4. ASSUME NEW c \in Cancellers, NEW l \in Listeners, CallBack(c, l) PROVE TokenInv'
  BY <1>4 DEF CallBack, Call
<1>5. ASSUME NEW c \in Cancellers, CancelReturns(c) PROVE TokenInv'
  BY <1>5 DEF CancelReturns
<1>6. ASSUME NEW l \in Listeners, OnCancel(l) PROVE TokenInv'
  BY <1>6 DEF OnCancel
<1>7. ASSUME NEW l \in Listeners, CallLate(l) PROVE TokenInv'
  BY <1>7 DEF CallLate, Call
<1>8. ASSUME NEW l \in Listeners, Unregister(l) PROVE TokenInv'
  BY <1>8 DEF Unregister
<1>9. ASSUME NEW o \in Observers, Observe(o) PROVE TokenInv'
  BY <1>9 DEF Observe
<1>10. ASSUME NEW o \in Observers, Raise(o) PROVE TokenInv'
  BY <1>10 DEF Raise
<1>11. CASE UNCHANGED vars
  BY <1>11 DEF vars
<1> QED
  BY <1>1, <1>2, <1>3, <1>4, <1>5, <1>6, <1>7, <1>8, <1>9, <1>10, <1>11 DEF Next, CancelGoesOn

\* Every reachable state is typed and satisfies the inductive invariant.
THEOREM TokenCorrect == Spec => [](TypeOK /\ TokenInv)
<1>1. Init => TypeOK /\ TokenInv
  BY TypeInit, TokenInit
<1>2. TypeOK /\ TokenInv /\ [Next]_vars => (TypeOK /\ TokenInv)'
  BY TypeNext, TokenNext
<1> QED BY <1>1, <1>2, PTL DEF Spec

\* cancellation.py, whatever its threads do: no callback is called twice.
THEOREM CallbackCalledOnce == Spec => []CalledOnce
<1>1. TokenInv => CalledOnce
  BY DEF TokenInv
<1> QED BY <1>1, TokenCorrect, PTL

\* ... and everyone is given the reason of the cancel() that took effect.
THEOREM ReasonIsUnique == Spec => []OneReason
<1>1. TokenInv => OneReason
  BY DEF TokenInv
<1> QED BY <1>1, TokenCorrect, PTL

\* ... and a callback unregistered before the token was cancelled stays quiet.
THEOREM UnregisteredIsQuiet == Spec => []UnregisteredNotCalled
<1>1. TokenInv => UnregisteredNotCalled
  BY DEF TokenInv
<1> QED BY <1>1, TokenCorrect, PTL

=============================================================================
