----------------------------- MODULE RetryService -----------------------------
(***************************************************************************)
(* The retrying transport of rpc/src/retry.rs: calls that share one        *)
(* service.  Every call works on its own clone of the service's policy and *)
(* sends its request again, after the backoff, for as long as the          *)
(* transport fails and the policy has retries left.  Whatever the node     *)
(* answers ends the call, an error message too: only failures of the       *)
(* transport are retried.                                                  *)
(*                                                                         *)
(* An operator Mut_X is a mistake that X could contain.                    *)
(***************************************************************************)
EXTENDS Naturals

CONSTANTS
  Calls,      \* the calls that are made on the service
  MaxRetries  \* max_retries

ASSUME MaxRetriesAssumption == MaxRetries \in Nat

VARIABLE
  futures  \* the calls in flight: what each is doing, the retries that its
           \* policy counts, and the requests sent for it (history)

InFlight == DOMAIN futures

Future == [state    : {"sent", "backoff", "answered", "failed"},
           retries  : 0 .. MaxRetries,
           attempts : 1 .. MaxRetries + 1]

RetryTypeOK ==
  /\ InFlight \subseteq Calls
  /\ futures \in [InFlight -> Future]

RetryInit == futures = [c \in {} |-> {}]

(* call() for all of some calls at once: each clones the policy of the     *)
(* service, which never counts, and sends its request.  Futures that are   *)
(* dropped, or whose result has been taken, are gone.                      *)
Mut_Renew(started, dropped) ==
  futures' = [c \in (InFlight \ dropped) \cup started |->
                IF c \in started
                THEN [state |-> "sent", attempts |-> 1,
                      retries |-> IF \E d \in InFlight : futures[d].retries = MaxRetries
                                  THEN MaxRetries ELSE 0]
                ELSE futures[c]]

Renew(started, dropped) ==
  futures' = [c \in (InFlight \ dropped) \cup started |->
                IF c \in started
                THEN [state |-> "sent", attempts |-> 1, retries |-> 0]
                ELSE futures[c]]

IsInState(c, state) == c \in InFlight /\ futures[c].state = state

(* The node answers: a result, nothing, or an error message. *)
Answer(c) ==
  /\ IsInState(c, "sent")
  /\ futures' = [futures EXCEPT ![c].state = "answered"]

(* RetryPolicy::retry: the transport fails; with retries left the call     *)
(* sleeps, else the error is its result.                                   *)
Mut_TransportFails(c) ==
  /\ IsInState(c, "sent")
  /\ futures' = [futures EXCEPT ![c].state =
                   IF futures[c].retries <= MaxRetries THEN "backoff" ELSE "failed"]

TransportFails(c) ==
  /\ IsInState(c, "sent")
  /\ futures' = [futures EXCEPT ![c].state =
                   IF futures[c].retries < MaxRetries THEN "backoff" ELSE "failed"]

(* The backoff is over: the policy counts, and the request is sent again. *)
Resend(c) ==
  /\ IsInState(c, "backoff")
  /\ futures' = [futures EXCEPT ![c] = [state    |-> "sent",
                                        retries  |-> @.retries + 1,
                                        attempts |-> @.attempts + 1]]

-------------------------------------------------------------------------------
(* The service on its own: any calls, made and dropped at any time. *)

RetryNext ==
  \/ \E c \in Calls : Answer(c) \/ TransportFails(c) \/ Resend(c)
  \/ \E started, dropped \in SUBSET Calls : Renew(started, dropped)

RetrySpec == RetryInit /\ [][RetryNext]_futures

(* A call that has failed has been tried the full number of times, for     *)
(* itself: calls that share the service do not use up each other's         *)
(* retries; and none is sent more often.                                   *)
EveryCallHasItsTries ==
  \A c \in InFlight :
    /\ futures[c].attempts <= MaxRetries + 1
    /\ futures[c].state = "failed" => futures[c].attempts = MaxRetries + 1

===============================================================================
