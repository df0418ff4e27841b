----------------------------- MODULE Workqueue -----------------------------
(***************************************************************************)
(* The work queue of controller-runtime (external) as the controllers of   *)
(* cf-api-controllers use it: one worker per controller, keys without      *)
(* duplicates, and a requeue with a delay for a reconcile that returns an  *)
(* error or asks for a requeue.  The queue is first-in first-out; its      *)
(* order is abstracted to a set, which a fair Take(key) makes up for.      *)
(***************************************************************************)
CONSTANTS Keys, None

VARIABLES dirty,    \* keys in the queue, or to be put there by Done
          delayed,  \* keys that the rate limiter holds back
          active    \* the key the worker has, or None

QueueTypeOK ==
    /\ dirty \subseteq Keys
    /\ delayed \subseteq Keys
    /\ active \in Keys \cup {None}

\* The worker takes a key while it has none.
Take(key) ==
    /\ active = None
    /\ key \in dirty
    /\ dirty' = dirty \ {key}

\* Reconcile returned: forget the key, or requeue it.
DoneAndForget == active' = None /\ UNCHANGED delayed
DoneAndRequeue(key) == active' = None /\ delayed' = delayed \cup {key}

\* The delay of a requeued key is over.
Expire(key) ==
    /\ key \in delayed
    /\ delayed' = delayed \ {key}
    /\ dirty' = dirty \cup {key}
    /\ UNCHANGED active

Pending(key) == key \in dirty \/ key \in delayed \/ active = key
=============================================================================
