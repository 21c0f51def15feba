------------------------- MODULE CancellationToken -------------------------
(***************************************************************************)
(* tool/cancellation.py: a cancellation signal shared by threads.  Thread  *)
(* c of Cancellers calls cancel(c), its reason being its own name; thread  *)
(* l of Listeners registers one callback, also called l, and may           *)
(* unregister it; a thread of Observers calls raise_if_cancelled().  The   *)
(* callbacks of Nested unregister themselves when they are called.         *)
(*                                                                         *)
(* The event and the reason are read without the lock, so the critical     *)
(* section of cancel() is cut at each of its assignments; on_cancel and    *)
(* unregister touch only what the lock protects, and their critical        *)
(* sections are single steps.                                              *)
(***************************************************************************)
EXTENDS Integers

CONSTANTS Cancellers, Listeners, Observers, Nested,
          Free,         \* the lock is free
          Default       \* the reason a token is created with

ASSUME ThreadsAssumption ==
    /\ Cancellers \cap Listeners = {}
    /\ (Cancellers \cup Listeners) \cap Observers = {}
    /\ Nested \subseteq Listeners
    /\ Free \notin Cancellers
    /\ Default \notin Cancellers

VARIABLES
    event,      \* _event.is_set()
    reason,     \* _reason
    lock,       \* the canceller inside its critical section, or Free
    callbacks,  \* _callbacks
    pc,         \* where each thread is
    todo,       \* todo[c]: callbacks canceller c copied and has still to call
    local,      \* local[l]: the reason on_cancel(l) read
    \* history
    ncalls,     \* ncalls[l]: times callback l was called, up to two
    heard,      \* heard[t]: reasons callback or observer t was given
    quiet       \* listeners that unregistered before any cancellation

history == <<ncalls, heard, quiet>>
vars == <<event, reason, lock, callbacks, pc, todo, local, history>>

Threads == Cancellers \cup Listeners \cup Observers
Reasons == Cancellers \cup {Default}

Init ==
    /\ event = FALSE
    /\ reason = Default
    /\ lock = Free
    /\ callbacks = {}
    /\ pc = [t \in Threads |-> "start"]
    /\ todo = [c \in Cancellers |-> {}]
    /\ local = [l \in Listeners |-> Default]
    /\ ncalls = [l \in Listeners |-> 0]
    /\ heard = [t \in Listeners \cup Observers |-> {}]
    /\ quiet = {}

Goto(t, from, to) == pc[t] = from /\ pc' = [pc EXCEPT ![t] = to]

\* Callback l is called with the given reason.
Call(l, why) ==
    /\ ncalls' = [ncalls EXCEPT ![l] = IF @ < 2 THEN @ + 1 ELSE @]
    /\ heard' = [heard EXCEPT ![l] = @ \cup {why}]

-----------------------------------------------------------------------------
(* cancel(c)                                                               *)

\* Mutation of CancelEnter: a second cancel() goes on as the first did.
CancelEnterAgain(c) ==
    /\ lock = Free
    /\ Goto(c, "start", "first")
    /\ lock' = c
    /\ UNCHANGED <<event, reason, callbacks, todo, local, history>>

\* The first one to come takes effect; any other returns at once.
CancelEnter(c) ==
    /\ lock = Free
    /\ \/ event /\ Goto(c, "start", "done") /\ UNCHANGED lock
       \/ ~event /\ Goto(c, "start", "first") /\ lock' = c
    /\ UNCHANGED <<event, reason, callbacks, todo, local, history>>

\* The reason is recorded, then the event is set.
Assign(c) ==
    /\ \/ Goto(c, "first", "second") /\ reason' = c /\ UNCHANGED event
       \/ Goto(c, "second", "copy") /\ event' = TRUE /\ UNCHANGED reason
    /\ UNCHANGED <<lock, callbacks, todo, local, history>>

\* Mutation of CopyCallbacks: the lock is kept while the callbacks are called.
CopyCallbacksLocked(c) ==
    /\ Goto(c, "copy", "calling")
    /\ todo' = [todo EXCEPT ![c] = callbacks]
    /\ UNCHANGED <<event, reason, lock, callbacks, local, history>>

\* The callbacks are copied and the lock is released.
CopyCallbacks(c) ==
    /\ Goto(c, "copy", "calling")
    /\ todo' = [todo EXCEPT ![c] = callbacks]
    /\ lock' = Free
    /\ UNCHANGED <<event, reason, callbacks, local, history>>

\* Callback l is called; what it raises is ignored.
CallBack(c, l) ==
    /\ pc[c] = "calling"
    /\ l \in todo[c]
    /\ todo' = [todo EXCEPT ![c] = @ \ {l}]
    /\ Call(l, c)
    /\ \/ l \notin Nested /\ UNCHANGED <<callbacks, pc>>
       \/ /\ l \in Nested
          /\ lock = Free
          /\ callbacks' = callbacks \ {l}
          /\ pc' = [pc EXCEPT ![l] = "gone"]
    /\ UNCHANGED <<event, reason, lock, local, quiet>>

CancelReturns(c) ==
    /\ todo[c] = {}
    /\ Goto(c, "calling", "done")
    /\ UNCHANGED <<event, reason, lock, callbacks, todo, local, history>>

-----------------------------------------------------------------------------
(* on_cancel(l) and the unregister() it returns; raise_if_cancelled().     *)

\* The callback is recorded, or, if it is too late, called by its own thread.
OnCancel(l) ==
    /\ lock = Free
    /\ \/ /\ event
          /\ Goto(l, "start", "late")
          /\ local' = [local EXCEPT ![l] = reason]
          /\ UNCHANGED callbacks
       \/ /\ ~event
          /\ Goto(l, "start", "registered")
          /\ callbacks' = callbacks \cup {l}
          /\ UNCHANGED local
    /\ UNCHANGED <<event, reason, lock, todo, history>>

CallLate(l) ==
    /\ Goto(l, "late", "gone")
    /\ Call(l, local[l])
    /\ UNCHANGED <<event, reason, lock, callbacks, todo, local, quiet>>

Unregister(l) ==
    /\ lock = Free
    /\ Goto(l, "registered", "gone")
    /\ callbacks' = callbacks \ {l}
    /\ quiet' = IF event THEN quiet ELSE quiet \cup {l}
    /\ UNCHANGED <<event, reason, lock, todo, local, ncalls, heard>>

\* raise_if_cancelled reads the event and then the reason.
Observe(o) ==
    /\ event
    /\ Goto(o, "start", "raise")
    /\ UNCHANGED <<event, reason, lock, callbacks, todo, local, history>>

Raise(o) ==
    /\ Goto(o, "raise", "done")
    /\ heard' = [heard EXCEPT ![o] = {reason}]
    /\ UNCHANGED <<event, reason, lock, callbacks, todo, local, ncalls, quiet>>

-----------------------------------------------------------------------------
\* What cancel(c) does once it has been entered.
CancelGoesOn(c) ==
    \/ Assign(c)
    \/ CopyCallbacks(c)
    \/ \E l \in Listeners : CallBack(c, l)
    \/ CancelReturns(c)

Next ==
    \/ \E c \in Cancellers : CancelEnter(c) \/ CancelGoesOn(c)
    \/ \E l \in Listeners : OnCancel(l) \/ CallLate(l) \/ Unregister(l)
    \/ \E o \in Observers : Observe(o) \/ Raise(o)

Spec == Init /\ [][Next]_vars

\* A thread goes on with a call it has entered; nobody has to call cancel(),
\* on_cancel() or unregister().
FairSpec ==
    /\ Spec
    /\ \A c \in Cancellers : WF_vars(CancelGoesOn(c))
    /\ \A l \in Listeners : WF_vars(CallLate(l))

-----------------------------------------------------------------------------

\* Every variable has its type.
TypeOK ==
    /\ event \in BOOLEAN
    /\ reason \in Reasons
    /\ lock \in Cancellers \cup {Free}
    /\ callbacks \subseteq Listeners
    /\ pc \in [Threads -> {"start", "first", "second", "copy", "calling", "registered",
                           "late", "gone", "raise", "done"}]
    /\ todo \in [Cancellers -> SUBSET Listeners]
    /\ local \in [Listeners -> Reasons]
    /\ ncalls \in [Listeners -> 0..2]
    /\ heard \in [Listeners \cup Observers -> SUBSET Reasons]
    /\ quiet \subseteq Listeners

\* However many threads cancel and whenever it registers, a callback is called
\* at most once: by the first cancel() or by its own on_cancel().
CalledOnce == \A l \in Listeners : ncalls[l] <= 1

\* Everyone who learns of the cancellation, by a callback or an exception that
\* reads the reason without the lock, is given the reason of the one cancel()
\* that took effect.
OneReason ==
    \A t \in Listeners \cup Observers : heard[t] # {} =>
      event /\ reason # Default /\ heard[t] = {reason}

\* A callback unregistered before the token was cancelled is never called.
UnregisteredNotCalled == \A l \in quiet : ncalls[l] = 0

\* What keeps these true.  Only the cancel() that took effect is past its
\* entry, it holds the lock until it has copied the callbacks, and the event is
\* set in between.
Inside(c) == pc[c] \in {"first", "second", "copy"}

OneInside ==
    /\ \A c \in Cancellers : Inside(c) => lock = c
    /\ \A c, d \in Cancellers : (Inside(c) \/ pc[c] = "calling")
         /\ (Inside(d) \/ pc[d] = "calling") => c = d
    /\ \A c \in Cancellers : pc[c] \in {"first", "second"} => ~event
    /\ \A c \in Cancellers : pc[c] \in {"copy", "calling"} => event

\* The reason is that of the cancel() in question from its second step on.
ReasonRecorded ==
    /\ \A c \in Cancellers : pc[c] \in {"second", "copy", "calling"} => reason = c
    /\ event => reason # Default
    /\ \A l \in Listeners : pc[l] = "late" => event /\ local[l] = reason
    /\ \A o \in Observers : pc[o] = "raise" => event

\* A callback is called only after the callbacks were copied, and one that is
\* still to be called, by either side, has not been called.
StillToCall ==
    /\ \A l \in Listeners : ~event \/ (\E c \in Cancellers : Inside(c)) =>
         ncalls[l] = 0 /\ pc[l] # "late"
    /\ \A l \in Listeners : pc[l] \in {"start", "late"} => ncalls[l] = 0
    /\ \A l \in callbacks : pc[l] = "registered"
    /\ \A c \in Cancellers : \A l \in todo[c] :
         pc[c] = "calling" /\ ncalls[l] = 0 /\ pc[l] \in {"registered", "gone"}
    /\ \A l \in quiet : pc[l] = "gone" /\ \A c \in Cancellers : l \notin todo[c]

TokenInv ==
    /\ OneInside /\ ReasonRecorded /\ StillToCall
    /\ CalledOnce /\ OneReason /\ UnregisteredNotCalled

\* A callback that is registered when the token is cancelled is called, even
\* if callbacks use the token themselves: none is lost, and nobody deadlocks.
RegisteredIsCalled ==
    \A l \in Listeners : event /\ pc[l] = "registered" ~> ncalls[l] = 1

=============================================================================
